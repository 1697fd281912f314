-------------------------------- MODULE Pid ---------------------------------
(***************************************************************************)
(* Process ids and exit statuses: kern/proc/pid.c, and the fork, exit and   *)
(* wait of kern/proc/proc.c, kern/syscall/proc_syscalls.c and the menu's    *)
(* common_prog that use it.  pid.c works under one lock, so each of its     *)
(* functions is one step, but pid_wait lets the lock go in cv_wait; fork    *)
(* and exit are several steps, between which the other processes run.       *)
(*                                                                         *)
(* A user process has one thread.  A call that returns another error        *)
(* (EAGAIN, ESRCH, EPERM, EINVAL, ENOSYS), or 0 for WNOHANG, changes        *)
(* nothing and is no step.                                                  *)
(***************************************************************************)
EXTENDS Integers, FiniteSets

CONSTANTS
  Procs,       \* the proc structures there can be
  kproc,       \* the kernel's, which runs the menu
  PROCS_MAX,   \* size of the process table (128)
  PID_MAX,     \* the largest pid (32767)
  Statuses,    \* exit statuses
  FailForks,   \* the processes whose fork may fail after it has a pid
  NULL

INVALID_PID == 0
KERNEL_PID  == 1
PID_MIN     == 2
Pids        == PID_MIN..PID_MAX
Slots       == 0..(PROCS_MAX - 1)
NoStatus    == 48879   \* 0xbeef: recognizably invalid

\* What a parent knows of a pid that is no child of its, and of a child that has not exited.
Nobody  == -1
Running == -2

ASSUME ProcAssumption == kproc \in Procs /\ IsFiniteSet(Procs) /\ FailForks \subseteq Procs
ASSUME StatusAssumption == Statuses \subseteq Nat
ASSUME SizeAssumption ==
  /\ PROCS_MAX \in Nat /\ PROCS_MAX > 2
  /\ PID_MAX \in Nat /\ PID_MAX >= 2 * PROCS_MAX - 1
ASSUME NullAssumption ==
  NULL \notin Procs \cup [pi_pid : Nat, pi_ppid : Nat, pi_exited : BOOLEAN, pi_exitstatus : Statuses \cup {NoStatus}]

VARIABLES
  pidinfo,   \* the process table: an entry or NULL in each slot
  nextpid,
  nprocs,
  p_pid,     \* per proc
  pstate,    \* what the proc's thread does; "none" when there is no such proc
  child,     \* the proc a forking process is making
  them,      \* the pid whose pidinfo a process holds a pointer to in pid_wait
  kids       \* history: for a parent and a pid, Nobody, Running or the child's exit status

tablevars == <<pidinfo, nextpid, nprocs>>
vars == <<tablevars, p_pid, pstate, child, them, kids>>

slot(pid) == pid % PROCS_MAX

pidinfo_create(pid, ppid) ==
  [pi_pid |-> pid, pi_ppid |-> ppid, pi_exited |-> FALSE, pi_exitstatus |-> NoStatus]

\* pid_bootstrap and proc_bootstrap.
Init ==
  /\ pidinfo = [i \in Slots |-> IF i = KERNEL_PID THEN pidinfo_create(KERNEL_PID, INVALID_PID) ELSE NULL]
  /\ nextpid = PID_MIN
  /\ nprocs = 1
  /\ p_pid = [p \in Procs |-> IF p = kproc THEN KERNEL_PID ELSE INVALID_PID]
  /\ pstate = [p \in Procs |-> IF p = kproc THEN "run" ELSE "none"]
  /\ child = [p \in Procs |-> NULL]
  /\ them = [p \in Procs |-> INVALID_PID]
  /\ kids = [p \in Procs |-> [pid \in Pids |-> Nobody]]

----------------------------------------------------------------------------
\* pi_get: the entry of a pid, or NULL.
pi_get(pid) ==
  LET pi == pidinfo[slot(pid)] IN IF pi # NULL /\ pi.pi_pid = pid THEN pi ELSE NULL

\* nextpid after k calls of inc_nextpid.
inc_nextpid(pid, k) == PID_MIN + ((pid - PID_MIN + k) % (PID_MAX - PID_MIN + 1))

\* A process that sleeps in cv_wait on the condition variable of this pid.
Sleeping(pid) == \E p \in Procs : pstate[p] = "waiting" /\ them[p] = pid

\* A failed assertion; the proc hangs.
Panic(p) ==
  /\ pstate' = [pstate EXCEPT ![p] = "panic"]
  /\ UNCHANGED <<tablevars, p_pid, child, them, kids>>

(***************************************************************************)
(* proc_fork and proc_create_runprogram: make a proc, and pid_alloc.  The   *)
(* search for a free slot fails its assertion after PROCS_MAX*2+5 steps.    *)
(* Without memory for the entry the caller gets ENOMEM, with nextpid where  *)
(* the search ended.                                                        *)
(***************************************************************************)
FreeAfter(k) == pidinfo[slot(inc_nextpid(nextpid, k))] = NULL

Tries == 0..(2 * PROCS_MAX + 5)

ForkAlloc(p, q) ==
  LET found == {k \in Tries : FreeAfter(k) /\ \A j \in 0..(k - 1) : ~FreeAfter(j)} IN
  /\ pstate[p] = "run" /\ pstate[q] = "none"
  /\ nprocs # PROCS_MAX
  /\ IF found = {} THEN Panic(p)
     ELSE \E k \in found :
            LET pid == inc_nextpid(nextpid, k) IN
            \/ /\ pidinfo' = [pidinfo EXCEPT ![slot(pid)] = pidinfo_create(pid, p_pid[p])]
               /\ nprocs' = nprocs + 1
               /\ nextpid' = inc_nextpid(pid, 1)
               /\ p_pid' = [p_pid EXCEPT ![q] = pid]
               /\ pstate' = [pstate EXCEPT ![p] = "forking", ![q] = "embryo"]
               /\ child' = [child EXCEPT ![p] = q]
               /\ kids' = [kids EXCEPT ![p][pid] = Running]
               /\ UNCHANGED them
            \/ /\ nextpid' = pid
               /\ UNCHANGED <<pidinfo, nprocs, pstate, p_pid, child, them, kids>>

\* thread_fork succeeds: the child runs, the parent returns its pid.
ForkRun(p) ==
  /\ pstate[p] = "forking"
  /\ pstate' = [pstate EXCEPT ![p] = "run", ![child[p]] = "run"]
  /\ child' = [child EXCEPT ![p] = NULL]
  /\ UNCHANGED <<tablevars, p_pid, them, kids>>

\* Mutant: nprocs is not decremented.
pi_drop_NotCounted(pid) ==
  /\ pidinfo' = [pidinfo EXCEPT ![slot(pid)] = NULL]
  /\ UNCHANGED nprocs

\* Remove the entry of a pid whose exited and ppid fields pidinfo_destroy accepts.
pi_drop(pid) ==
  /\ pidinfo' = [pidinfo EXCEPT ![slot(pid)] = NULL]
  /\ nprocs' = nprocs - 1

(***************************************************************************)
(* as_copy, filetable_copy or thread_fork fails.  A forking process undoes  *)
(* the pid (pid_unalloc) before proc_destroy, which asserts that there is   *)
(* none; common_prog goes straight to proc_destroy.                         *)
(***************************************************************************)
ForkFail(p) ==
  LET q  == child[p]
      pi == pi_get(p_pid[q]) IN
  /\ pstate[p] = "forking" /\ p \in FailForks
  /\ IF p # kproc /\ pi # NULL /\ ~pi.pi_exited /\ pi.pi_ppid = p_pid[p] /\ ~Sleeping(p_pid[q])
       THEN /\ pi_drop(p_pid[q])
            /\ p_pid' = [p_pid EXCEPT ![q] = INVALID_PID]
            /\ pstate' = [pstate EXCEPT ![p] = "run", ![q] = "none"]
            /\ child' = [child EXCEPT ![p] = NULL]
            /\ kids' = [kids EXCEPT ![p][p_pid[q]] = Nobody]
            /\ UNCHANGED <<nextpid, them>>
       ELSE Panic(p)

----------------------------------------------------------------------------
\* Mutant: only children that have exited are disowned; the others keep the pid as their parent.
disowned_StillOwned(pi, pid) ==
  IF pi # NULL /\ pi.pi_ppid = pid /\ pi.pi_exited THEN NULL ELSE pi

(***************************************************************************)
(* pid_setexitstatus: disown all children, dropping those that have exited; *)
(* then leave the status for the parent and wake it, or drop the own entry  *)
(* when the parent is gone.                                                 *)
(***************************************************************************)
disowned(pi, pid) ==
  IF pi = NULL \/ pi.pi_ppid # pid THEN pi
  ELSE IF pi.pi_exited THEN NULL
  ELSE [pi EXCEPT !.pi_ppid = INVALID_PID]

\* Mutant: the status is set and pi_exited is not.
exited_NotMarked(pi, status) ==
  IF pi.pi_ppid = INVALID_PID THEN NULL ELSE [pi EXCEPT !.pi_exitstatus = status]

exited(pi, status) ==
  IF pi.pi_ppid = INVALID_PID THEN NULL
  ELSE [pi EXCEPT !.pi_exited = TRUE, !.pi_exitstatus = status]

\* What the parent should learn, by the history of who forked whom.
Reported(pid, status) ==
  [r \in Procs |-> [kids[r] EXCEPT ![pid] = IF @ = Running THEN status ELSE @]]

pid_setexitstatus(p, status) ==
  LET mypid == p_pid[p]
      us    == pi_get(mypid)
      after == [i \in Slots |-> IF i = slot(mypid) THEN exited(us, status) ELSE disowned(pidinfo[i], mypid)]
      gone  == {i \in Slots : pidinfo[i] # NULL /\ after[i] = NULL} IN
  /\ pstate[p] = "run" /\ p # kproc
  /\ IF us # NULL /\ \A i \in gone : ~Sleeping(pidinfo[i].pi_pid)
       THEN /\ pidinfo' = after
            /\ nprocs' = nprocs - Cardinality(gone)
            /\ p_pid' = [p_pid EXCEPT ![p] = INVALID_PID]
            /\ pstate' = [r \in Procs |->
                            IF r = p THEN "exiting"
                            ELSE IF pstate[r] = "waiting" /\ them[r] = mypid THEN "woken" ELSE pstate[r]]
            /\ kids' = [Reported(mypid, status) EXCEPT ![p] = [pid \in Pids |-> Nobody]]
            /\ UNCHANGED <<nextpid, child, them>>
       ELSE Panic(p)

\* The rest of proc_exit: proc_destroy asserts that the pid is given up.
proc_destroy(p) ==
  /\ pstate[p] = "exiting"
  /\ IF p_pid[p] = INVALID_PID
       THEN /\ pstate' = [pstate EXCEPT ![p] = "none"]
            /\ UNCHANGED <<tablevars, p_pid, child, them, kids>>
       ELSE Panic(p)

----------------------------------------------------------------------------
\* pid_wait for a child that has not exited: cv_wait, without a loop around it.
WaitSleep(p, pid) ==
  /\ pstate[p] = "run" /\ pid # p_pid[p]
  /\ pi_get(pid) # NULL
  /\ pi_get(pid).pi_ppid = p_pid[p]
  /\ ~pi_get(pid).pi_exited
  /\ pstate' = [pstate EXCEPT ![p] = "waiting"]
  /\ them' = [them EXCEPT ![p] = pid]
  /\ UNCHANGED <<tablevars, p_pid, child, kids>>

\* The end of pid_wait: the status is read, the child is waited for, its entry goes.
WaitDone(p, pid) ==
  /\ them' = [them EXCEPT ![p] = INVALID_PID]
  /\ pi_drop(pid)
  /\ pstate' = [pstate EXCEPT ![p] = "run"]
  /\ kids' = [kids EXCEPT ![p][pid] = Nobody]
  /\ UNCHANGED <<nextpid, p_pid, child>>

WaitNow(p, pid) ==
  /\ pstate[p] = "run" /\ pid # p_pid[p]
  /\ pi_get(pid) # NULL
  /\ pi_get(pid).pi_ppid = p_pid[p]
  /\ pi_get(pid).pi_exited
  /\ IF Sleeping(pid) THEN Panic(p) ELSE WaitDone(p, pid)

\* Mutant: a woken waiter yields, in a loop, as long as the child has exited.
WaitWoken_Polls(p) ==
  LET pi == pi_get(them[p]) IN
  /\ pstate[p] = "woken"
  /\ IF pi # NULL /\ pi.pi_exited THEN UNCHANGED vars ELSE Panic(p)

\* Woken: the entry must still be there and have exited.
WaitWoken(p) ==
  LET pi == pi_get(them[p]) IN
  /\ pstate[p] = "woken"
  /\ IF pi # NULL /\ pi.pi_exited /\ ~Sleeping(them[p]) THEN WaitDone(p, them[p]) ELSE Panic(p)

----------------------------------------------------------------------------
ProcStep(p) ==
  \/ \E q \in Procs : ForkAlloc(p, q)
  \/ ForkRun(p) \/ ForkFail(p)
  \/ \E status \in Statuses : pid_setexitstatus(p, status)
  \/ proc_destroy(p)
  \/ \E pid \in Pids : WaitSleep(p, pid) \/ WaitNow(p, pid)
  \/ WaitWoken(p)

Next == \E p \in Procs : ProcStep(p)

Spec == Init /\ [][Next]_vars

\* A woken process gets the lock and goes on.
FairSpec == Spec /\ \A p \in Procs : WF_vars(WaitWoken(p))

----------------------------------------------------------------------------
(***************************************************************************)
(* No assertion of pid.c or proc_destroy fails: no entry is dropped under a *)
(* sleeper, a woken waiter finds its exited child, the search for a pid     *)
(* ends, a process finds its own entry.                                     *)
(***************************************************************************)
NoPanic == \A p \in Procs : pstate[p] # "panic"

(***************************************************************************)
(* pidinfo[] is a hash table with one process per slot: an entry sits in    *)
(* the slot of its pid; nprocs counts the entries, or pid_alloc's search    *)
(* would not end; nextpid has not left the range of pids; and a process     *)
(* that has a pid, and no other, has the entry of that pid.                 *)
(***************************************************************************)
TableSound ==
  /\ nextpid \in Pids
  /\ \A i \in Slots : pidinfo[i] # NULL => slot(pidinfo[i].pi_pid) = i
  /\ nprocs = Cardinality({i \in Slots : pidinfo[i] # NULL})
  /\ \A p, q \in Procs :
       p_pid[p] # INVALID_PID =>
         /\ pi_get(p_pid[p]) # NULL /\ ~pi_get(p_pid[p]).pi_exited
         /\ p # q => p_pid[p] # p_pid[q]

(***************************************************************************)
(* The table says exactly what each living process may learn by waiting,    *)
(* although pids are used again after they wrap around and parents die      *)
(* before their children: an entry names p as its parent exactly when p     *)
(* forked that child and has not waited for it, and it has the status the   *)
(* child left.                                                              *)
(***************************************************************************)
Seen(pi) == IF pi.pi_exited THEN pi.pi_exitstatus ELSE Running

KidsInTable ==
  \A p \in Procs :
    p_pid[p] # INVALID_PID =>
      \A pid \in Pids :
        kids[p][pid] = LET pi == pi_get(pid) IN
                       IF pi # NULL /\ pi.pi_ppid = p_pid[p] THEN Seen(pi) ELSE Nobody

\* A parent that sleeps for a child that has exited wakes up and leaves pid_wait.
WaitersReturn ==
  \A p \in Procs : (pstate[p] \in {"waiting", "woken"} /\ kids[p][them[p]] # Running) ~> (pstate[p] = "run")
=============================================================================
