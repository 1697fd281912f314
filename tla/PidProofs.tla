----------------------------- MODULE PidProofs ------------------------------
(***************************************************************************)
(* Theorems about process ids, for any number of processes, any size of the *)
(* process table and any range of pids the kernel accepts: the table is     *)
(* sound, it says who may wait for whom, and no assertion fails unless the  *)
(* menu's fork does.                                                        *)
(***************************************************************************)
EXTENDS Pid, TLAPS

----------------------------------------------------------------------------
\* Arithmetic of the search for a pid.

\* P numbers in a row have all remainders modulo P.
LEMMA AllRemainders ==
  ASSUME NEW P \in Nat, P > 0, NEW a \in Nat, NEW i \in 0..(P - 1)
  PROVE  \E k \in 0..(P - 1) : (a + k) % P = i
<1> DEFINE r == a % P
           k == IF i >= r THEN i - r ELSE (i - r) + P
           q == IF i >= r THEN a \div P ELSE (a \div P) + 1
<1>1. r \in 0..(P - 1) /\ a \div P \in Nat /\ a = (P * (a \div P)) + r
  OBVIOUS
<1>2. k \in 0..(P - 1) /\ q \in Nat
  <2> HIDE DEF r
  <2> QED BY <1>1
<1>3. a + k = (P * q) + i
  <2>1. P * ((a \div P) + 1) = P * (a \div P) + P
    BY <1>1
  <2> HIDE DEF r
  <2> QED BY <1>1, <2>1
<1> HIDE DEF k, q
<1>4. (a + k) % P = i
  <2>1. ((P * q) + i) % P = i
    BY <1>2
  <2> QED BY <1>3, <2>1, Zenon
<1> QED BY <1>2, <1>4, Zenon

LEMMA Sizes ==
  /\ PROCS_MAX \in Nat /\ PID_MAX \in Nat /\ PROCS_MAX > 2 /\ PID_MAX - 1 > PROCS_MAX
  /\ PID_MAX - PID_MIN + 1 = PID_MAX - 1
  /\ 1 \in Slots /\ Pids \subseteq 0..PID_MAX
BY SizeAssumption DEF PID_MIN, Slots, Pids

LEMMA Slot_In == ASSUME NEW pid \in 0..PID_MAX PROVE slot(pid) \in Slots
BY Sizes DEF slot, Slots

LEMMA Next_In ==
  ASSUME NEW pid \in Pids, NEW k \in Nat
  PROVE  inc_nextpid(pid, k) \in Pids
<1>1. pid - PID_MIN + k \in Nat
  BY Sizes DEF Pids, PID_MIN
<1>2. (pid - PID_MIN + k) % (PID_MAX - PID_MIN + 1) \in 0..(PID_MAX - 2)
  BY <1>1, Sizes
<1> QED BY <1>2, Sizes DEF inc_nextpid, Pids, PID_MIN

\* The search of pid_alloc passes every slot, although it may wrap around in between.
LEMMA Search_Passes ==
  ASSUME NEW n \in Pids, NEW i \in Slots
  PROVE  \E k \in Tries : slot(inc_nextpid(n, k)) = i
<1> DEFINE M == PID_MAX - 1
           a == n - 2
<1>0. /\ M \in Nat /\ M > PROCS_MAX /\ PROCS_MAX \in Nat /\ PROCS_MAX > 0 /\ i \in 0..(PROCS_MAX - 1)
      /\ a \in 0..(M - 1) /\ n \in Nat /\ n = 2 + a
  BY Sizes DEF Pids, PID_MIN, Slots
<1>1. \A k \in Nat : inc_nextpid(n, k) = 2 + ((a + k) % M)
  BY Sizes, Zenon DEF inc_nextpid, PID_MIN
<1>2. PICK k0 \in 0..(PROCS_MAX - 1) : (n + k0) % PROCS_MAX = i
  BY <1>0, AllRemainders, Zenon
<1>3. PICK k1 \in 0..(PROCS_MAX - 1) : (2 + k1) % PROCS_MAX = i
  BY <1>0, AllRemainders, Zenon
<1> HIDE DEF M, a
<1>4. CASE a + k0 < M
  <2>1. (a + k0) % M = a + k0
    BY <1>0, <1>4
  <2>2. inc_nextpid(n, k0) = n + k0
    <3>1. k0 \in Nat
      BY <1>0
    <3>2. inc_nextpid(n, k0) = 2 + ((a + k0) % M)
      BY <1>1, <3>1, Zenon
    <3> QED BY <1>0, <2>1, <3>1, <3>2
  <2> QED BY <1>0, <1>2, <2>2 DEF slot, Tries
<1>5. CASE ~(a + k0 < M)
  <2> DEFINE k == (M - a) + k1
  <2>1. k \in Tries /\ k \in Nat /\ a + k = M + k1 /\ k1 < M
    BY <1>0, <1>5 DEF Tries
  <2>2. (M + k1) % M = k1
    BY <1>0, <2>1
  <2> HIDE DEF k
  <2>3. inc_nextpid(n, k) = 2 + k1
    BY <1>1, <2>1, <2>2, Zenon
  <2> QED BY <1>3, <2>1, <2>3, Zenon DEF slot
<1> QED BY <1>4, <1>5, Zenon

----------------------------------------------------------------------------
\* The inductive invariant.

States == {"none", "embryo", "run", "forking", "exiting", "waiting", "woken", "panic"}
Entries == [pi_pid : 1..PID_MAX, pi_ppid : 0..PID_MAX, pi_exited : BOOLEAN, pi_exitstatus : Statuses \cup {NoStatus}]

PidTypeOK ==
  /\ pidinfo \in [Slots -> Entries \cup {NULL}]
  /\ nextpid \in Pids
  /\ p_pid \in [Procs -> 0..PID_MAX]
  /\ pstate \in [Procs -> States]
  /\ child \in [Procs -> Procs \cup {NULL}]
  /\ them \in [Procs -> 0..PID_MAX]
  /\ kids \in [Procs -> [Pids -> Int]]

Entry(pid) == pidinfo[slot(pid)]
Known(pid) == Entry(pid) # NULL /\ Entry(pid).pi_pid = pid

\* An entry sits in its slot, and nobody is its own parent.
Placed ==
  \A i \in Slots :
    pidinfo[i] # NULL => slot(pidinfo[i].pi_pid) = i /\ pidinfo[i].pi_ppid # pidinfo[i].pi_pid

\* A process with a pid has an entry, which says that it lives; no two have one pid.
Lives ==
  /\ \A p \in Procs : p_pid[p] # INVALID_PID => Known(p_pid[p]) /\ ~Entry(p_pid[p]).pi_exited
  /\ \A p, q \in Procs : p_pid[p] # INVALID_PID /\ p # q => p_pid[p] # p_pid[q]

\* An entry names a parent only as long as that process has its pid.
ParentsLive ==
  \A i \in Slots :
    pidinfo[i] # NULL /\ pidinfo[i].pi_ppid # INVALID_PID => \E p \in Procs : p_pid[p] = pidinfo[i].pi_ppid

StatesRight ==
  \A p \in Procs :
    /\ pstate[p] \in {"none", "exiting"} => p_pid[p] = INVALID_PID
    /\ pstate[p] \in {"run", "forking", "waiting", "woken", "embryo"} => p_pid[p] # INVALID_PID
    /\ p_pid[p] = INVALID_PID => \A pid \in Pids : kids[p][pid] = Nobody

\* A process in fork has an embryo, its child.
Forks ==
  \A p \in Procs :
    pstate[p] = "forking" =>
      child[p] \in Procs /\ pstate[child[p]] = "embryo" /\ Entry(p_pid[child[p]]).pi_ppid = p_pid[p]

\* A process in pid_wait holds a pointer to its child's entry, and is woken by the exit.
Waits ==
  \A p \in Procs :
    pstate[p] \in {"waiting", "woken"} =>
      /\ Known(them[p]) /\ Entry(them[p]).pi_ppid = p_pid[p]
      /\ Entry(them[p]).pi_exited <=> pstate[p] = "woken"

\* A process that does not run yet is nobody's parent.
Embryos ==
  \A p \in Procs :
    pstate[p] = "embryo" => \A i \in Slots : pidinfo[i] # NULL => pidinfo[i].pi_ppid # p_pid[p]

\* KidsInTable, in the words above.
KidsRight ==
  \A p \in Procs :
    p_pid[p] # INVALID_PID =>
      \A pid \in Pids :
        kids[p][pid] = IF Known(pid) /\ Entry(pid).pi_ppid = p_pid[p] THEN Seen(Entry(pid)) ELSE Nobody

ProcInv ==
  /\ PidTypeOK /\ Placed /\ Lives /\ ParentsLive
  /\ StatesRight /\ Forks /\ Waits /\ Embryos /\ KidsRight

LEMMA Get_Entry ==
  ASSUME NEW pid
  PROVE  (pi_get(pid) # NULL <=> Known(pid)) /\ (Known(pid) => pi_get(pid) = Entry(pid))
BY Zenon DEF pi_get, Known, Entry

LEMMA Entry_Typed ==
  ASSUME PidTypeOK, NEW i \in Slots, pidinfo[i] # NULL
  PROVE  /\ pidinfo[i] \in Entries
         /\ pidinfo[i].pi_pid \in 1..PID_MAX /\ pidinfo[i].pi_ppid \in 0..PID_MAX
         /\ pidinfo[i].pi_exited \in BOOLEAN
BY Zenon DEF PidTypeOK, Entries

LEMMA No_Entry == NULL \notin Entries /\ NULL \notin Procs
BY NullAssumption, Sizes DEF Entries

----------------------------------------------------------------------------
\* What a step does in a state of the invariant.

Alloc(p, q, pid) ==
  /\ pstate[p] = "run" /\ pstate[q] = "none" /\ pidinfo[slot(pid)] = NULL
  /\ pidinfo' = [pidinfo EXCEPT ![slot(pid)] = pidinfo_create(pid, p_pid[p])]
  /\ nprocs' = nprocs + 1
  /\ nextpid' \in Pids
  /\ p_pid' = [p_pid EXCEPT ![q] = pid]
  /\ pstate' = [pstate EXCEPT ![p] = "forking", ![q] = "embryo"]
  /\ child' = [child EXCEPT ![p] = q]
  /\ kids' = [kids EXCEPT ![p][pid] = Running]
  /\ UNCHANGED them

NoMemory ==
  /\ nextpid' \in Pids
  /\ UNCHANGED <<pidinfo, nprocs, pstate, p_pid, child, them, kids>>

Unalloc(p, q) ==
  /\ pstate[p] = "forking" /\ q = child[p]
  /\ pi_drop(p_pid[q])
  /\ p_pid' = [p_pid EXCEPT ![q] = INVALID_PID]
  /\ pstate' = [pstate EXCEPT ![p] = "run", ![q] = "none"]
  /\ child' = [child EXCEPT ![p] = NULL]
  /\ kids' = [kids EXCEPT ![p][p_pid[q]] = Nobody]
  /\ UNCHANGED <<nextpid, them>>

MenuPanic(p) == p = kproc /\ p \in FailForks /\ pstate[p] = "forking" /\ Panic(p)

After(pid, status) ==
  [i \in Slots |-> IF i = slot(pid) THEN exited(Entry(pid), status) ELSE disowned(pidinfo[i], pid)]

Exit(p, status) ==
  /\ pstate[p] = "run" /\ p # kproc
  /\ pidinfo' = After(p_pid[p], status)
  /\ nprocs' = nprocs - Cardinality({i \in Slots : pidinfo[i] # NULL /\ After(p_pid[p], status)[i] = NULL})
  /\ p_pid' = [p_pid EXCEPT ![p] = INVALID_PID]
  /\ pstate' = [r \in Procs |-> IF r = p THEN "exiting"
                                ELSE IF pstate[r] = "waiting" /\ them[r] = p_pid[p] THEN "woken" ELSE pstate[r]]
  /\ kids' = [Reported(p_pid[p], status) EXCEPT ![p] = [pid \in Pids |-> Nobody]]
  /\ UNCHANGED <<nextpid, child, them>>

Destroy(p) ==
  /\ pstate[p] = "exiting"
  /\ pstate' = [pstate EXCEPT ![p] = "none"]
  /\ UNCHANGED <<tablevars, p_pid, child, them, kids>>

Reap(p, pid) ==
  /\ pstate[p] = "run" \/ (pstate[p] = "woken" /\ pid = them[p])
  /\ Known(pid) /\ Entry(pid).pi_ppid = p_pid[p] /\ Entry(pid).pi_exited
  /\ WaitDone(p, pid)

SafeStep(p) ==
  \/ \E q \in Procs, pid \in Pids : Alloc(p, q, pid)
  \/ NoMemory
  \/ ForkRun(p)
  \/ \E q \in Procs : Unalloc(p, q)
  \/ MenuPanic(p)
  \/ \E status \in Statuses : Exit(p, status)
  \/ Destroy(p)
  \/ \E pid \in Pids : WaitSleep(p, pid)
  \/ \E pid \in 0..PID_MAX : Reap(p, pid)

\* Somebody sleeps for the exit of this pid: its parent, which runs nothing else.
LEMMA Sleeper ==
  ASSUME ProcInv, NEW pid \in 0..PID_MAX, Sleeping(pid)
  PROVE  /\ Known(pid) /\ ~Entry(pid).pi_exited /\ Entry(pid).pi_ppid # INVALID_PID
         /\ \A p \in Procs : Entry(pid).pi_ppid = p_pid[p] => pstate[p] = "waiting"
<1>1. PICK r \in Procs : pstate[r] = "waiting" /\ them[r] = pid
  BY Zenon DEF Sleeping
<1>2. Known(pid) /\ ~Entry(pid).pi_exited /\ Entry(pid).pi_ppid = p_pid[r] /\ p_pid[r] # INVALID_PID
  BY <1>1, Zenon DEF ProcInv, Waits, StatesRight
<1> QED BY <1>1, <1>2, Zenon DEF ProcInv, Lives

LEMMA ForkFail_Safe ==
  ASSUME ProcInv, NEW p \in Procs, ForkFail(p)
  PROVE  SafeStep(p)
<1> DEFINE q == child[p]
           pid == p_pid[q]
<1>1. /\ pstate[p] = "forking" /\ p \in FailForks /\ q \in Procs
      /\ pstate[q] = "embryo" /\ Entry(pid).pi_ppid = p_pid[p]
  BY Zenon DEF ForkFail, ProcInv, Forks
<1>2. Known(pid) /\ ~Entry(pid).pi_exited /\ pid \in 0..PID_MAX
  BY <1>1, Zenon DEF ProcInv, StatesRight, Lives, PidTypeOK
<1>3. ~Sleeping(pid)
  BY <1>1, <1>2, Sleeper, Zenon
<1>4. pi_get(pid) # NULL /\ pi_get(pid) = Entry(pid)
  BY <1>2, Get_Entry, Zenon
<1>5. CASE p = kproc
  <2>1. Panic(p)
    BY <1>5, Zenon DEF ForkFail
  <2> QED BY <1>1, <1>5, <2>1, Zenon DEF SafeStep, MenuPanic
<1>6. CASE p # kproc
  <2>1. Unalloc(p, q)
    BY <1>1, <1>2, <1>3, <1>4, <1>6, Zenon DEF ForkFail, Unalloc
  <2> QED BY <1>1, <2>1, Zenon DEF SafeStep
<1> QED BY <1>5, <1>6, Zenon

LEMMA Exit_Safe ==
  ASSUME ProcInv, NEW p \in Procs, NEW status \in Statuses, pid_setexitstatus(p, status)
  PROVE  SafeStep(p)
<1> DEFINE mypid == p_pid[p]
           us == pi_get(mypid)
           gone == {i \in Slots : pidinfo[i] # NULL /\ After(mypid, status)[i] = NULL}
<1>1. pstate[p] = "run" /\ p # kproc /\ mypid # INVALID_PID /\ mypid \in 0..PID_MAX
  BY Zenon DEF pid_setexitstatus, ProcInv, StatesRight, PidTypeOK
<1>2. Known(mypid) /\ us # NULL /\ us = Entry(mypid)
  BY <1>1, Get_Entry, Zenon DEF ProcInv, Lives
<1>3. ASSUME NEW i \in gone, Sleeping(pidinfo[i].pi_pid) PROVE FALSE
  <2>1. pidinfo[i].pi_pid \in 0..PID_MAX /\ slot(pidinfo[i].pi_pid) = i
    <3>1. pidinfo[i].pi_pid \in 1..PID_MAX
      BY Entry_Typed, Zenon DEF ProcInv
    <3> QED BY <3>1 DEF ProcInv, Placed
  <2>2. ~pidinfo[i].pi_exited /\ pidinfo[i].pi_ppid # INVALID_PID
    BY <1>3, <2>1, Sleeper, Zenon DEF Entry
  <2>3. CASE i = slot(mypid)
    <3>1. exited(Entry(mypid), status) = NULL /\ pidinfo[i] = Entry(mypid)
      BY <2>3, Zenon DEF After, Entry
    <3>2. Entry(mypid).pi_ppid # INVALID_PID
      BY <2>2, <3>1, Zenon
    <3>3. [Entry(mypid) EXCEPT !.pi_exited = TRUE, !.pi_exitstatus = status] \in Entries
      <4>1. Entry(mypid) \in Entries
        BY <2>3, Entry_Typed, Zenon DEF ProcInv, Entry
      <4> QED BY <4>1, Zenon DEF Entries
    <3> QED BY <3>1, <3>2, <3>3, No_Entry, Zenon DEF exited
  <2>4. CASE i # slot(mypid)
    <3>1. disowned(pidinfo[i], mypid) = NULL
      BY <2>4, Zenon DEF After
    <3>2. [pidinfo[i] EXCEPT !.pi_ppid = INVALID_PID] \in Entries
      <4>1. pidinfo[i] \in Entries /\ 0 \in 0..PID_MAX
        BY Entry_Typed, Sizes DEF ProcInv
      <4> QED BY <4>1, Zenon DEF Entries, INVALID_PID
    <3> QED BY <2>2, <3>1, <3>2, No_Entry, Zenon DEF disowned
  <2> QED BY <2>3, <2>4, Zenon
<1>4. Exit(p, status)
  <2>1. [i \in Slots |-> IF i = slot(mypid) THEN exited(us, status) ELSE disowned(pidinfo[i], mypid)]
          = After(mypid, status)
    BY <1>2, Zenon DEF After
  <2>2. \A i \in gone : ~Sleeping(pidinfo[i].pi_pid)
    BY <1>3, Zenon
  <2> HIDE DEF us
  <2> QED BY <1>1, <1>2, <2>1, <2>2, Zenon DEF pid_setexitstatus, Exit, us
<1> QED BY <1>4, Zenon DEF SafeStep

LEMMA Reap_Safe ==
  ASSUME ProcInv, NEW p \in Procs,
         (\E pid \in Pids : WaitNow(p, pid)) \/ WaitWoken(p)
  PROVE  SafeStep(p)
<1>1. ASSUME NEW pid \in Pids, WaitNow(p, pid) PROVE SafeStep(p)
  <2>0. pid \in 0..PID_MAX
    BY Sizes, Zenon
  <2>1. Known(pid) /\ Entry(pid).pi_ppid = p_pid[p] /\ Entry(pid).pi_exited /\ pstate[p] = "run"
    BY <1>1, Get_Entry, Zenon DEF WaitNow
  <2>2. ~Sleeping(pid)
    BY <2>0, <2>1, Sleeper, Zenon
  <2>3. Reap(p, pid)
    BY <1>1, <2>1, <2>2, Zenon DEF WaitNow, Reap
  <2> QED BY <2>0, <2>3, Zenon DEF SafeStep
<1>2. CASE WaitWoken(p)
  <2>0. them[p] \in 0..PID_MAX /\ pstate[p] = "woken"
    BY <1>2, Zenon DEF ProcInv, PidTypeOK, WaitWoken
  <2>1. Known(them[p]) /\ Entry(them[p]).pi_ppid = p_pid[p] /\ Entry(them[p]).pi_exited
    BY <2>0, Zenon DEF ProcInv, Waits
  <2>2. ~Sleeping(them[p])
    BY <2>0, <2>1, Sleeper, Zenon
  <2>3. Reap(p, them[p])
    BY <1>2, <2>0, <2>1, <2>2, Get_Entry, Zenon DEF WaitWoken, Reap
  <2> QED BY <2>0, <2>3, Zenon DEF SafeStep
<1> QED BY <1>1, <1>2, Zenon

----------------------------------------------------------------------------
\* The initial state, and the steps that leave the table alone.

LEMMA Proc_Init == Init => ProcInv
<1> SUFFICES ASSUME Init PROVE ProcInv
  OBVIOUS
<1> DEFINE e == pidinfo_create(KERNEL_PID, INVALID_PID)
<1>1. /\ e \in Entries /\ e # NULL /\ slot(1) = 1 /\ 1 \in Slots
      /\ e.pi_pid = 1 /\ e.pi_ppid = 0 /\ ~e.pi_exited
  <2>1. e \in Entries
    BY Sizes DEF pidinfo_create, Entries, KERNEL_PID, INVALID_PID
  <2>2. slot(1) = 1
    BY Sizes DEF slot
  <2> QED BY <2>1, <2>2, Sizes, No_Entry, Zenon DEF pidinfo_create, KERNEL_PID, INVALID_PID
<1>2. pidinfo[1] = e /\ \A i \in Slots : i # 1 => pidinfo[i] = NULL
  BY <1>1, Zenon DEF Init, KERNEL_PID
<1>3. /\ \A p \in Procs : p_pid[p] = (IF p = kproc THEN 1 ELSE 0) /\ pstate[p] = IF p = kproc THEN "run" ELSE "none"
      /\ \A p \in Procs, pid \in Pids : kids[p][pid] = Nobody
  BY Zenon DEF Init, KERNEL_PID, INVALID_PID
<1>4. kproc \in Procs /\ INVALID_PID = 0
  BY ProcAssumption, Zenon DEF INVALID_PID
<1> HIDE DEF e
<1>5. PidTypeOK
  <2>1. pidinfo \in [Slots -> Entries \cup {NULL}]
    BY <1>1, Zenon DEF Init, e
  <2>2. 0 \in 0..PID_MAX /\ 1 \in 0..PID_MAX /\ 2 \in Pids /\ -1 \in Int
    BY Sizes DEF Pids, PID_MIN
  <2> QED BY <2>1, <2>2, Zenon DEF Init, PidTypeOK, PID_MIN, KERNEL_PID, INVALID_PID, States, Nobody
<1>7. Known(1) /\ Entry(1) = e
  BY <1>1, <1>2, Zenon DEF Known, Entry
<1>8. Placed /\ ParentsLive /\ Embryos
  BY <1>1, <1>2, <1>3, <1>4 DEF Placed, ParentsLive, Embryos
<1>9. Lives
  BY <1>1, <1>3, <1>4, <1>7, Zenon DEF Lives
<1>10. StatesRight /\ Forks /\ Waits
  BY <1>3, <1>4 DEF StatesRight, Forks, Waits
<1>11. KidsRight
  <2> SUFFICES ASSUME NEW p \in Procs, p_pid[p] # 0, NEW pid \in Pids
               PROVE  ~(Known(pid) /\ Entry(pid).pi_ppid = p_pid[p])
    BY <1>3, <1>4, Zenon DEF KidsRight
  <2>1. slot(pid) \in Slots
    BY Slot_In, Sizes, Zenon
  <2> QED BY <1>1, <1>2, <2>1, Zenon DEF Known, Entry
<1> QED BY <1>5, <1>8, <1>9, <1>10, <1>11, Zenon DEF ProcInv

\* A step that leaves the table, the pids and the history alone keeps what relates those.
LEMMA Same_Table ==
  ASSUME ProcInv, UNCHANGED <<pidinfo, nprocs, p_pid, kids>>
  PROVE  /\ Placed' /\ Lives' /\ ParentsLive' /\ KidsRight'
         /\ \A pid : Known(pid)' = Known(pid) /\ Entry(pid)' = Entry(pid)
<1>1. \A pid : Known(pid)' = Known(pid) /\ Entry(pid)' = Entry(pid)
  BY Zenon DEF Known, Entry
<1>2. Placed' /\ ParentsLive'
  BY Zenon DEF ProcInv, Placed, ParentsLive
<1>3. Lives'
  BY <1>1, Zenon DEF ProcInv, Lives
<1>4. KidsRight'
  BY <1>1, Zenon DEF ProcInv, KidsRight
<1> QED BY <1>1, <1>2, <1>3, <1>4, Zenon

LEMMA Quiet_Inv ==
  ASSUME ProcInv, NEW p \in Procs,
         NoMemory \/ ForkRun(p) \/ MenuPanic(p) \/ Destroy(p) \/ \E pid \in Pids : WaitSleep(p, pid)
  PROVE  ProcInv'
<1>0. UNCHANGED <<pidinfo, nprocs, p_pid, kids>>
  BY Zenon DEF NoMemory, ForkRun, MenuPanic, Panic, Destroy, WaitSleep, tablevars
<1>1. /\ Placed' /\ Lives' /\ ParentsLive' /\ KidsRight'
      /\ \A pid : Known(pid)' = Known(pid) /\ Entry(pid)' = Entry(pid)
  BY <1>0, Same_Table, Zenon
<1>2. CASE NoMemory
  <2>1. PidTypeOK'
    BY <1>2, Zenon DEF ProcInv, PidTypeOK, NoMemory
  <2>2. StatesRight' /\ Embryos'
    BY <1>2, Zenon DEF ProcInv, StatesRight, Embryos, NoMemory
  <2>3. Forks' /\ Waits'
    BY <1>1, <1>2, Zenon DEF ProcInv, Forks, Waits, NoMemory
  <2> QED BY <1>1, <2>1, <2>2, <2>3, Zenon DEF ProcInv
<1>3. CASE ForkRun(p)
  <2>0. /\ pstate[p] = "forking" /\ child[p] \in Procs /\ pstate[child[p]] = "embryo"
        /\ pstate' = [pstate EXCEPT ![p] = "run", ![child[p]] = "run"]
        /\ child' = [child EXCEPT ![p] = NULL]
        /\ UNCHANGED <<tablevars, p_pid, them, kids>>
    BY <1>3, Zenon DEF ForkRun, ProcInv, Forks
  <2>1. PidTypeOK'
    BY <2>0, Zenon DEF ProcInv, PidTypeOK, States, tablevars
  <2>2. StatesRight' /\ Embryos'
    BY <2>0, Zenon DEF ProcInv, PidTypeOK, StatesRight, Embryos, tablevars
  <2>3. Forks'
    <3> SUFFICES ASSUME NEW r \in Procs, pstate'[r] = "forking"
                 PROVE  /\ child'[r] \in Procs /\ pstate'[child'[r]] = "embryo"
                        /\ pidinfo'[slot(p_pid'[child'[r]])].pi_ppid = p_pid'[r]
      BY Zenon DEF Forks, Entry
    <3>1. r # p /\ r # child[p] /\ pstate[r] = "forking" /\ child'[r] = child[r]
      BY <2>0, Zenon DEF ProcInv, PidTypeOK
    <3>2. child[r] \in Procs /\ pstate[child[r]] = "embryo" /\ Entry(p_pid[child[r]]).pi_ppid = p_pid[r]
      BY <3>1, Zenon DEF ProcInv, Forks
    <3>3. Entry(p_pid[child[p]]).pi_ppid = p_pid[p] /\ p_pid[p] # p_pid[r]
      BY <2>0, <3>1, Zenon DEF ProcInv, Forks, StatesRight, Lives
    <3>4. pstate'[child[r]] = "embryo"
      BY <2>0, <3>2, <3>3, Zenon DEF ProcInv, PidTypeOK
    <3> QED BY <1>0, <3>1, <3>2, <3>4, Zenon DEF Entry
  <2>4. Waits'
    BY <1>1, <2>0, Zenon DEF ProcInv, PidTypeOK, Waits
  <2> QED BY <1>1, <2>1, <2>2, <2>3, <2>4, Zenon DEF ProcInv
<1>4. CASE MenuPanic(p)
  <2>1. PidTypeOK'
    BY <1>4, Zenon DEF ProcInv, PidTypeOK, States, MenuPanic, Panic, tablevars
  <2>2. StatesRight' /\ Embryos'
    BY <1>4, Zenon DEF ProcInv, PidTypeOK, StatesRight, Embryos, MenuPanic, Panic, tablevars
  <2>3. Forks' /\ Waits'
    BY <1>1, <1>4, Zenon DEF ProcInv, PidTypeOK, Forks, Waits, MenuPanic, Panic, tablevars
  <2> QED BY <1>1, <2>1, <2>2, <2>3, Zenon DEF ProcInv
<1>5. CASE Destroy(p)
  <2>1. PidTypeOK'
    BY <1>5, Zenon DEF ProcInv, PidTypeOK, States, Destroy, tablevars
  <2>2. StatesRight' /\ Embryos'
    BY <1>5, Zenon DEF ProcInv, PidTypeOK, StatesRight, Embryos, Destroy, tablevars
  <2>3. Forks' /\ Waits'
    BY <1>1, <1>5 DEF ProcInv, PidTypeOK, Forks, Waits, Destroy, tablevars
  <2> QED BY <1>1, <2>1, <2>2, <2>3, Zenon DEF ProcInv
<1>6. ASSUME NEW pid \in Pids, WaitSleep(p, pid) PROVE ProcInv'
  <2>0. /\ pstate[p] = "run" /\ pid \in 0..PID_MAX
        /\ Known(pid) /\ Entry(pid).pi_ppid = p_pid[p] /\ ~Entry(pid).pi_exited
        /\ pstate' = [pstate EXCEPT ![p] = "waiting"] /\ them' = [them EXCEPT ![p] = pid]
        /\ UNCHANGED <<tablevars, p_pid, child, kids>>
    BY <1>6, Get_Entry, Sizes, Zenon DEF WaitSleep
  <2>1. PidTypeOK'
    BY <2>0, Zenon DEF ProcInv, PidTypeOK, States, tablevars
  <2>2. StatesRight' /\ Embryos'
    BY <2>0, Zenon DEF ProcInv, PidTypeOK, StatesRight, Embryos, tablevars
  <2>3. Forks' /\ Waits'
    BY <1>1, <2>0 DEF ProcInv, PidTypeOK, Forks, Waits
  <2> QED BY <1>1, <2>1, <2>2, <2>3, Zenon DEF ProcInv
<1> QED BY <1>2, <1>3, <1>4, <1>5, <1>6, Zenon

----------------------------------------------------------------------------
\* A new entry (pid_alloc).
LEMMA Alloc_Inv ==
  ASSUME ProcInv, NEW p \in Procs, NEW q \in Procs, NEW pid \in Pids, Alloc(p, q, pid)
  PROVE  ProcInv'
<1> DEFINE s == slot(pid)
           e == pidinfo_create(pid, p_pid[p])
<1>1. /\ p # q /\ p_pid[q] = 0 /\ p_pid[p] \in 1..PID_MAX /\ INVALID_PID = 0
      /\ pid \in 0..PID_MAX /\ pid \in 1..PID_MAX /\ pid # 0 /\ s \in Slots /\ pidinfo[s] = NULL
  <2>1. p # q /\ p_pid[q] = 0 /\ p_pid[p] # 0 /\ p_pid[p] \in 0..PID_MAX /\ pidinfo[s] = NULL
    BY Zenon DEF Alloc, ProcInv, PidTypeOK, StatesRight, INVALID_PID
  <2>2. pid \in 0..PID_MAX /\ pid \in 1..PID_MAX /\ pid # 0
    BY Sizes DEF Pids, PID_MIN
  <2> QED BY <2>1, <2>2, Slot_In, Sizes DEF INVALID_PID
<1>2. e \in Entries /\ e # NULL /\ e.pi_pid = pid /\ e.pi_ppid = p_pid[p] /\ ~e.pi_exited
  <2>1. e \in Entries
    BY <1>1 DEF pidinfo_create, Entries
  <2> QED BY <2>1, No_Entry, Zenon DEF pidinfo_create
<1>3. /\ pidinfo \in [Slots -> Entries \cup {NULL}]
      /\ pidinfo' = [pidinfo EXCEPT ![s] = e]
      /\ pidinfo'[s] = e /\ \A i \in Slots : i # s => pidinfo'[i] = pidinfo[i]
  BY <1>1, Zenon DEF Alloc, ProcInv, PidTypeOK
<1> HIDE DEF s, e
<1>4. /\ \A r \in Procs : p_pid'[r] = IF r = q THEN pid ELSE p_pid[r]
      /\ \A r \in Procs : pstate'[r] = IF r = p THEN "forking" ELSE IF r = q THEN "embryo" ELSE pstate[r]
      /\ \A r \in Procs : child'[r] = IF r = p THEN q ELSE child[r]
      /\ \A r \in Procs, x \in Pids : kids'[r][x] = IF r = p /\ x = pid THEN Running ELSE kids[r][x]
      /\ pstate[p] = "run" /\ pstate[q] = "none" /\ them' = them
  BY <1>1 DEF Alloc, ProcInv, PidTypeOK
<1>5. PidTypeOK'
  <2>1. pidinfo' \in [Slots -> Entries \cup {NULL}]
    BY <1>2, <1>3, Zenon
  <2>2. kids' \in [Procs -> [Pids -> Int]]
    BY DEF Alloc, ProcInv, PidTypeOK, Running
  <2> QED BY <1>1, <2>1, <2>2, Zenon DEF Alloc, ProcInv, PidTypeOK, States
\* Nobody has or had the pid: what is known has another slot, and no entry names it as its parent.
<1>6. \A x \in 0..PID_MAX : Known(x) => slot(x) # s /\ x # pid /\ slot(x) \in Slots
  BY <1>1, Slot_In, Zenon DEF Known, Entry, s
<1>7. \A r \in Procs : p_pid[r] # pid
  BY <1>1, <1>6, Zenon DEF ProcInv, PidTypeOK, Lives
<1>8. \A i \in Slots : pidinfo[i] # NULL => pidinfo[i].pi_ppid # pid
  BY <1>1, <1>7, Zenon DEF ProcInv, ParentsLive
<1>10. Placed'
  BY <1>1, <1>2, <1>3, <1>7, Zenon DEF ProcInv, Placed, s
<1>11. Lives'
  <2>1. ASSUME NEW r \in Procs, p_pid'[r] # 0
        PROVE  pidinfo'[slot(p_pid'[r])] # NULL /\ pidinfo'[slot(p_pid'[r])].pi_pid = p_pid'[r]
               /\ ~pidinfo'[slot(p_pid'[r])].pi_exited
    <3>1. CASE r = q
      BY <1>2, <1>3, <1>4, <3>1 DEF s
    <3>2. CASE r # q
      <4>1. p_pid'[r] = p_pid[r] /\ p_pid[r] \in 0..PID_MAX /\ Known(p_pid[r]) /\ ~Entry(p_pid[r]).pi_exited
        BY <1>1, <1>4, <2>1, <3>2, Zenon DEF ProcInv, PidTypeOK, Lives
      <4> QED BY <1>3, <1>6, <4>1, Zenon DEF Known, Entry
    <3> QED BY <3>1, <3>2, Zenon
  <2>2. \A r, t \in Procs : p_pid'[r] # 0 /\ r # t => p_pid'[r] # p_pid'[t]
    BY <1>1, <1>4, <1>7 DEF ProcInv, Lives
  <2> QED BY <1>1, <2>1, <2>2, Zenon DEF Lives, Known, Entry
<1>12. ParentsLive'
  <2> SUFFICES ASSUME NEW i \in Slots, pidinfo'[i] # NULL, pidinfo'[i].pi_ppid # 0
               PROVE  \E r \in Procs : p_pid'[r] = pidinfo'[i].pi_ppid
    BY <1>1, Zenon DEF ParentsLive
  <2>1. CASE i = s
    BY <1>1, <1>2, <1>3, <1>4, <2>1
  <2>2. CASE i # s
    <3>1. PICK r \in Procs : p_pid[r] = pidinfo[i].pi_ppid
      BY <1>1, <1>3, <2>2, Zenon DEF ProcInv, ParentsLive
    <3> QED BY <1>1, <1>3, <1>4, <2>2, <3>1
  <2> QED BY <2>1, <2>2, Zenon
<1>13. StatesRight'
  BY <1>1, <1>4 DEF ProcInv, StatesRight
<1>14. Forks'
  <2> SUFFICES ASSUME NEW r \in Procs, pstate'[r] = "forking"
               PROVE  /\ child'[r] \in Procs /\ pstate'[child'[r]] = "embryo"
                      /\ pidinfo'[slot(p_pid'[child'[r]])].pi_ppid = p_pid'[r]
    BY Zenon DEF Forks, Entry
  <2>1. CASE r = p
    BY <1>1, <1>2, <1>3, <1>4, <2>1 DEF s
  <2>2. CASE r # p
    <3>1. r # q /\ pstate[r] = "forking" /\ child'[r] = child[r]
      BY <1>4, <2>2, Zenon
    <3>2. child[r] \in Procs /\ pstate[child[r]] = "embryo" /\ Entry(p_pid[child[r]]).pi_ppid = p_pid[r]
      BY <3>1, Zenon DEF ProcInv, Forks
    <3>3. child[r] # p /\ child[r] # q /\ Known(p_pid[child[r]]) /\ p_pid[child[r]] \in 0..PID_MAX
      BY <1>4, <3>2, Zenon DEF ProcInv, PidTypeOK, StatesRight, Lives
    <3> QED BY <1>3, <1>4, <1>6, <3>1, <3>2, <3>3 DEF Entry
  <2> QED BY <2>1, <2>2, Zenon
<1>15. Waits'
  <2> SUFFICES ASSUME NEW r \in Procs, pstate'[r] \in {"waiting", "woken"}
               PROVE  LET i == slot(them[r]) IN
                      /\ pidinfo'[i] # NULL /\ pidinfo'[i].pi_pid = them[r] /\ pidinfo'[i].pi_ppid = p_pid'[r]
                      /\ pidinfo'[i].pi_exited <=> pstate'[r] = "woken"
    BY <1>4, Zenon DEF Waits, Known, Entry
  <2>1. r # p /\ r # q /\ pstate'[r] = pstate[r] /\ p_pid'[r] = p_pid[r]
    BY <1>4, Zenon
  <2>2. /\ Known(them[r]) /\ them[r] \in 0..PID_MAX /\ Entry(them[r]).pi_ppid = p_pid[r]
        /\ Entry(them[r]).pi_exited <=> pstate[r] = "woken"
    BY <2>1, Zenon DEF ProcInv, PidTypeOK, Waits
  <2> QED BY <1>3, <1>6, <2>1, <2>2, Zenon DEF Known, Entry
<1>16. Embryos'
  <2> SUFFICES ASSUME NEW r \in Procs, pstate'[r] = "embryo", NEW i \in Slots, pidinfo'[i] # NULL
               PROVE  pidinfo'[i].pi_ppid # p_pid'[r]
    BY Zenon DEF Embryos
  <2>1. CASE r = q
    BY <1>2, <1>3, <1>4, <1>7, <1>8, <2>1
  <2>2. CASE r # q
    <3>1. r # p /\ pstate[r] = "embryo" /\ p_pid'[r] = p_pid[r] /\ p_pid[r] # p_pid[p]
      BY <1>1, <1>4, <2>2 DEF ProcInv, Lives
    <3> QED BY <1>2, <1>3, <3>1, Zenon DEF ProcInv, Embryos
  <2> QED BY <2>1, <2>2, Zenon
<1>17. KidsRight'
  <2> SUFFICES ASSUME NEW r \in Procs, p_pid'[r] # 0, NEW x \in Pids
               PROVE  LET pi == pidinfo'[slot(x)] IN
                      kids'[r][x] = IF pi # NULL /\ pi.pi_pid = x /\ pi.pi_ppid = p_pid'[r] THEN Seen(pi) ELSE Nobody
    BY <1>1, Zenon DEF KidsRight, Known, Entry, Seen
  <2>0. slot(x) \in Slots
    BY Slot_In, Sizes, Zenon
  <2>1. CASE x = pid
    <3>1. r # p => kids[r][x] = Nobody
      BY <1>1, <1>4, <1>6, <2>1, Zenon DEF ProcInv, StatesRight, KidsRight
    <3>2. r # p => p_pid'[r] # p_pid[p]
      BY <1>1, <1>4, <1>7 DEF ProcInv, Lives
    <3>3. Seen(e) = Running
      BY <1>2, Zenon DEF Seen
    <3> QED BY <1>1, <1>2, <1>3, <1>4, <2>1, <3>1, <3>2, <3>3 DEF s
  <2>2. CASE x # pid
    <3>1. kids'[r][x] = kids[r][x]
      BY <1>4, <2>2, Zenon
    <3>2. CASE r = q
      <4>1. kids[r][x] = Nobody
        BY <1>1, <3>2, Zenon DEF ProcInv, StatesRight
      <4> QED BY <1>1, <1>2, <1>3, <1>4, <1>8, <2>0, <2>2, <3>1, <3>2, <4>1
    <3>3. CASE r # q
      <4>1. p_pid'[r] = p_pid[r]
        BY <1>4, <3>3, Zenon
      <4>2. kids[r][x] = IF Known(x) /\ Entry(x).pi_ppid = p_pid[r] THEN Seen(Entry(x)) ELSE Nobody
        BY <1>1, <4>1, Zenon DEF ProcInv, KidsRight
      <4>3. CASE slot(x) = s
        BY <1>1, <1>2, <1>3, <2>2, <3>1, <4>2, <4>3, Zenon DEF Known, Entry
      <4>4. CASE slot(x) # s
        BY <1>3, <2>0, <3>1, <4>1, <4>2, <4>4, Zenon DEF Known, Entry
      <4> QED BY <4>3, <4>4, Zenon
    <3> QED BY <3>2, <3>3, Zenon
  <2> QED BY <2>1, <2>2, Zenon
<1> QED BY <1>5, <1>10, <1>11, <1>12, <1>13, <1>14, <1>15, <1>16, <1>17, Zenon DEF ProcInv

----------------------------------------------------------------------------
(***************************************************************************)
(* An entry goes (pid_unalloc, the end of pid_wait): q is the process that  *)
(* had its pid, if it is still there, and gives it up.                      *)
(***************************************************************************)
Drop(p, pid) ==
  /\ Known(pid) /\ Entry(pid).pi_ppid = p_pid[p] /\ p_pid[p] # INVALID_PID
  /\ pi_drop(pid)
  /\ kids' = [kids EXCEPT ![p][pid] = Nobody]
  /\ nextpid' = nextpid
  /\ \/ Entry(pid).pi_exited /\ p_pid' = p_pid
     \/ \E q \in Procs : pstate[q] = "embryo" /\ p_pid[q] = pid /\ p_pid' = [p_pid EXCEPT ![q] = INVALID_PID]

LEMMA Drop_Table ==
  ASSUME ProcInv, NEW p \in Procs, NEW pid \in 0..PID_MAX, Drop(p, pid)
  PROVE  /\ pidinfo' \in [Slots -> Entries \cup {NULL}] /\ kids' \in [Procs -> [Pids -> Int]]
         /\ p_pid' \in [Procs -> 0..PID_MAX]
         /\ \A r \in Procs : p_pid'[r] = IF p_pid[r] = pid THEN 0 ELSE p_pid[r]
         /\ \A r \in Procs : p_pid[r] = pid => pstate[r] = "embryo"
         /\ \A x \in 0..PID_MAX : Known(x) /\ x # pid => pidinfo'[slot(x)] = pidinfo[slot(x)]
         /\ Placed' /\ Lives' /\ ParentsLive' /\ KidsRight'
         /\ \A i \in Slots : pidinfo'[i] # NULL => pidinfo'[i] = pidinfo[i]
         /\ \A r \in Procs, x \in Pids : p_pid'[r] = 0 => kids'[r][x] = Nobody
<1> DEFINE s == slot(pid)
<1>1. /\ s \in Slots /\ pidinfo[s] # NULL /\ pidinfo[s].pi_pid = pid /\ pidinfo[s].pi_ppid = p_pid[p]
      /\ pidinfo' = [pidinfo EXCEPT ![s] = NULL] /\ nprocs' = nprocs - 1
      /\ INVALID_PID = 0 /\ p_pid[p] # 0
  BY Slot_In, Zenon DEF Drop, Known, Entry, pi_drop, INVALID_PID
<1>2. /\ pidinfo \in [Slots -> Entries \cup {NULL}]
      /\ pidinfo'[s] = NULL /\ \A i \in Slots : i # s => pidinfo'[i] = pidinfo[i]
  BY <1>1, Zenon DEF ProcInv, PidTypeOK
<1>3. pid \in 1..PID_MAX /\ pid # 0 /\ pid # p_pid[p]
  <2>1. pidinfo[s].pi_pid \in 1..PID_MAX
    BY <1>1, Entry_Typed, Zenon DEF ProcInv
  <2> QED BY <1>1, <2>1 DEF ProcInv, Placed
<1> HIDE DEF s
<1>4. /\ \A r \in Procs : p_pid'[r] = IF p_pid[r] = pid THEN 0 ELSE p_pid[r]
      /\ \A r \in Procs : p_pid[r] = pid => pstate[r] = "embryo"
  <2>1. CASE Entry(pid).pi_exited /\ p_pid' = p_pid
    <3>1. \A r \in Procs : p_pid[r] # pid
      BY <1>1, <1>3, <2>1, Zenon DEF ProcInv, Lives
    <3> QED BY <2>1, <3>1, Zenon
  <2>2. CASE \E q \in Procs : pstate[q] = "embryo" /\ p_pid[q] = pid /\ p_pid' = [p_pid EXCEPT ![q] = INVALID_PID]
    <3>1. PICK q \in Procs : pstate[q] = "embryo" /\ p_pid[q] = pid /\ p_pid' = [p_pid EXCEPT ![q] = INVALID_PID]
      BY <2>2, Zenon
    <3>2. \A r \in Procs : p_pid[r] = pid <=> r = q
      BY <1>1, <1>3, <3>1, Zenon DEF ProcInv, Lives
    <3> QED BY <1>1, <3>1, <3>2, Zenon DEF ProcInv, PidTypeOK
  <2> QED BY <2>1, <2>2, Zenon DEF Drop
<1>5. p_pid' \in [Procs -> 0..PID_MAX] /\ kids' \in [Procs -> [Pids -> Int]]
  <2>1. 0 \in 0..PID_MAX /\ -1 \in Int
    BY Sizes
  <2>2. kids' \in [Procs -> [Pids -> Int]]
    <3>1. kids \in [Procs -> [Pids -> Int]] /\ kids' = [kids EXCEPT ![p][pid] = -1]
      BY Zenon DEF Drop, ProcInv, PidTypeOK, Nobody
    <3> QED BY <2>1, <3>1, Zenon
  <2>3. p_pid \in [Procs -> 0..PID_MAX] /\ (p_pid' = p_pid \/ \E q \in Procs : p_pid' = [p_pid EXCEPT ![q] = 0])
    BY <1>1, Zenon DEF Drop, ProcInv, PidTypeOK
  <2> QED BY <2>1, <2>2, <2>3, Zenon
<1>6. pidinfo' \in [Slots -> Entries \cup {NULL}]
  BY <1>1, <1>2, Zenon
<1>7. \A x \in 0..PID_MAX : Known(x) /\ x # pid => slot(x) \in Slots /\ slot(x) # s
  BY <1>1, Slot_In, Zenon DEF Known, Entry
<1>8. \A r \in Procs, x \in Pids : kids'[r][x] = IF r = p /\ x = pid THEN Nobody ELSE kids[r][x]
  BY Zenon DEF Drop, ProcInv, PidTypeOK
\* The pid is nobody's parent.
<1>9. \A i \in Slots : pidinfo[i] # NULL => pidinfo[i].pi_ppid # pid
  BY <1>1, <1>3, <1>4 DEF ProcInv, ParentsLive, Embryos
<1>11. Placed'
  BY <1>2, Zenon DEF ProcInv, Placed
<1>12. Lives'
  <2>1. ASSUME NEW r \in Procs, p_pid'[r] # 0
        PROVE  pidinfo'[slot(p_pid'[r])] # NULL /\ pidinfo'[slot(p_pid'[r])].pi_pid = p_pid'[r]
               /\ ~pidinfo'[slot(p_pid'[r])].pi_exited
    <3>1. p_pid'[r] = p_pid[r] /\ p_pid[r] # pid /\ p_pid[r] \in 0..PID_MAX
      BY <1>4, <2>1, Zenon DEF ProcInv, PidTypeOK
    <3>2. Known(p_pid[r]) /\ ~Entry(p_pid[r]).pi_exited
      BY <1>1, <2>1, <3>1, Zenon DEF ProcInv, Lives
    <3> QED BY <1>2, <1>7, <3>1, <3>2, Zenon DEF Known, Entry
  <2>2. \A r, t \in Procs : p_pid'[r] # 0 /\ r # t => p_pid'[r] # p_pid'[t]
    BY <1>1, <1>4, Zenon DEF ProcInv, Lives
  <2> QED BY <1>1, <2>1, <2>2, Zenon DEF Lives, Known, Entry
<1>13. ParentsLive'
  <2> SUFFICES ASSUME NEW i \in Slots, pidinfo'[i] # NULL, pidinfo'[i].pi_ppid # 0
               PROVE  \E r \in Procs : p_pid'[r] = pidinfo'[i].pi_ppid
    BY <1>1, Zenon DEF ParentsLive
  <2>1. i # s /\ pidinfo'[i] = pidinfo[i]
    BY <1>2, Zenon
  <2>2. PICK r \in Procs : p_pid[r] = pidinfo[i].pi_ppid
    BY <1>1, <2>1, Zenon DEF ProcInv, ParentsLive
  <2> QED BY <1>4, <1>9, <2>1, <2>2, Zenon
<1>14. KidsRight'
  <2> SUFFICES ASSUME NEW r \in Procs, p_pid'[r] # 0, NEW x \in Pids
               PROVE  LET pi == pidinfo'[slot(x)] IN
                      kids'[r][x] = IF pi # NULL /\ pi.pi_pid = x /\ pi.pi_ppid = p_pid'[r] THEN Seen(pi) ELSE Nobody
    BY <1>1, Zenon DEF KidsRight, Known, Entry, Seen
  <2>0. slot(x) \in Slots /\ p_pid'[r] = p_pid[r] /\ p_pid[r] # 0
    BY <1>4, Slot_In, Sizes, Zenon
  <2>1. kids[r][x] = IF Known(x) /\ Entry(x).pi_ppid = p_pid[r] THEN Seen(Entry(x)) ELSE Nobody
    BY <1>1, <2>0, Zenon DEF ProcInv, KidsRight
  <2>2. CASE slot(x) = s
    <3>1. x # pid \/ r # p => kids[r][x] = Nobody
      BY <1>1, <2>0, <2>1, <2>2, Zenon DEF ProcInv, Lives, Known, Entry
    <3> QED BY <1>2, <1>8, <2>2, <3>1, Zenon
  <2>3. CASE slot(x) # s
    BY <1>2, <1>8, <2>0, <2>1, <2>3, Zenon DEF Known, Entry, s
  <2> QED BY <2>2, <2>3, Zenon
<1>15. \A r \in Procs, x \in Pids : p_pid'[r] = 0 => kids'[r][x] = Nobody
  <2> SUFFICES ASSUME NEW r \in Procs, NEW x \in Pids, p_pid'[r] = 0 PROVE kids[r][x] = Nobody
    BY <1>8, Zenon
  <2>1. CASE p_pid[r] = 0
    BY <1>1, <2>1, Zenon DEF ProcInv, StatesRight
  <2>2. CASE p_pid[r] = pid
    <3>1. slot(x) \in Slots
      BY Slot_In, Sizes, Zenon
    <3> QED BY <1>1, <1>3, <1>9, <2>2, <3>1, Zenon DEF ProcInv, KidsRight, Known, Entry
  <2> QED BY <1>4, <2>1, <2>2, Zenon
<1>16. \A i \in Slots : pidinfo'[i] # NULL => pidinfo'[i] = pidinfo[i]
  BY <1>2, Zenon
<1>17. \A x \in 0..PID_MAX : Known(x) /\ x # pid => pidinfo'[slot(x)] = pidinfo[slot(x)]
  BY <1>2, <1>7, Zenon
<1> QED BY <1>4, <1>5, <1>6, <1>11, <1>12, <1>13, <1>14, <1>15, <1>16, <1>17, Zenon

LEMMA Unalloc_Inv ==
  ASSUME ProcInv, NEW p \in Procs, NEW q \in Procs, Unalloc(p, q)
  PROVE  ProcInv'
<1> DEFINE pid == p_pid[q]
<1>1. /\ pstate[p] = "forking" /\ child[p] = q /\ pstate[q] = "embryo" /\ p # q
      /\ pstate' = [pstate EXCEPT ![p] = "run", ![q] = "none"]
      /\ child' = [child EXCEPT ![p] = NULL]
      /\ them' = them
  BY Zenon DEF Unalloc, ProcInv, Forks
<1>2. /\ pid \in 0..PID_MAX /\ pid # 0 /\ Known(pid) /\ Entry(pid).pi_ppid = p_pid[p]
      /\ p_pid[p] # 0 /\ INVALID_PID = 0
  BY <1>1, Zenon DEF ProcInv, PidTypeOK, Forks, StatesRight, Lives, INVALID_PID
<1> HIDE DEF pid
<1>3. Drop(p, pid)
  BY <1>1, <1>2, Zenon DEF Unalloc, Drop, pid
<1>4. /\ pidinfo' \in [Slots -> Entries \cup {NULL}] /\ kids' \in [Procs -> [Pids -> Int]]
      /\ p_pid' \in [Procs -> 0..PID_MAX]
      /\ \A r \in Procs : p_pid'[r] = IF p_pid[r] = pid THEN 0 ELSE p_pid[r]
      /\ \A x \in 0..PID_MAX : Known(x) /\ x # pid => pidinfo'[slot(x)] = pidinfo[slot(x)]
      /\ Placed' /\ Lives' /\ ParentsLive' /\ KidsRight'
      /\ \A i \in Slots : pidinfo'[i] # NULL => pidinfo'[i] = pidinfo[i]
      /\ \A r \in Procs, x \in Pids : p_pid'[r] = 0 => kids'[r][x] = Nobody
  BY <1>2, <1>3, Drop_Table
<1>5. \A r \in Procs : p_pid[r] = pid <=> r = q
  BY <1>2, Zenon DEF ProcInv, Lives, pid
<1>6. /\ \A r \in Procs : pstate'[r] = IF r = p THEN "run" ELSE IF r = q THEN "none" ELSE pstate[r]
      /\ \A r \in Procs : r # p => child'[r] = child[r]
  BY <1>1, Zenon DEF ProcInv, PidTypeOK
<1>7. PidTypeOK'
  BY <1>1, <1>3, <1>4, SMTT(30) DEF Drop, ProcInv, PidTypeOK, States
<1>8. StatesRight'
  <2>1. \A r \in Procs : p_pid'[r] = IF r = q THEN 0 ELSE p_pid[r]
    BY <1>4, <1>5, Zenon
  <2>2. \A r \in Procs, x \in Pids : p_pid'[r] = 0 => kids'[r][x] = Nobody
    BY <1>4, Zenon
  <2>3. /\ \A r \in Procs : pstate[r] \in {"none", "exiting"} => p_pid[r] = 0
        /\ \A r \in Procs : pstate[r] \in {"run", "forking", "waiting", "woken", "embryo"} => p_pid[r] # 0
    BY <1>2, Zenon DEF ProcInv, StatesRight
  <2>4. /\ \A r \in Procs : pstate'[r] \in {"none", "exiting"} => p_pid'[r] = 0
        /\ \A r \in Procs : pstate'[r] \in {"run", "forking", "waiting", "woken", "embryo"} => p_pid'[r] # 0
    <3>1. p # q /\ p_pid[p] # 0 /\ \A r \in Procs : pstate'[r] = IF r = p THEN "run" ELSE IF r = q THEN "none" ELSE pstate[r]
      BY <1>1, <1>2, <1>6, Zenon
    <3> QED BY <2>1, <2>3, <3>1, Zenon
  <2> QED BY <1>2, <2>2, <2>4, Zenon DEF StatesRight
<1>9. Forks'
  <2> SUFFICES ASSUME NEW r \in Procs, pstate'[r] = "forking"
               PROVE  /\ child'[r] \in Procs /\ pstate'[child'[r]] = "embryo"
                      /\ pidinfo'[slot(p_pid'[child'[r]])].pi_ppid = p_pid'[r]
    BY Zenon DEF Forks, Entry
  <2>1. r # p /\ r # q /\ pstate[r] = "forking" /\ child'[r] = child[r]
    BY <1>6, Zenon
  <2>2. child[r] \in Procs /\ pstate[child[r]] = "embryo" /\ Entry(p_pid[child[r]]).pi_ppid = p_pid[r]
    BY <2>1, Zenon DEF ProcInv, Forks
  <2>3. p_pid[r] # p_pid[p]
    BY <1>2, <2>1, Zenon DEF ProcInv, Lives
  <2>4. /\ child[r] # p /\ p_pid[child[r]] # pid /\ Known(p_pid[child[r]]) /\ p_pid[child[r]] \in 0..PID_MAX
    BY <1>1, <1>2, <2>2, <2>3, Zenon DEF ProcInv, PidTypeOK, StatesRight, Lives
  <2> QED BY <1>4, <1>5, <1>6, <2>1, <2>2, <2>4, ZenonT(60) DEF Entry
<1>10. Waits'
  <2> SUFFICES ASSUME NEW r \in Procs, pstate'[r] \in {"waiting", "woken"}
               PROVE  LET i == slot(them[r]) IN
                      /\ pidinfo'[i] # NULL /\ pidinfo'[i].pi_pid = them[r] /\ pidinfo'[i].pi_ppid = p_pid'[r]
                      /\ pidinfo'[i].pi_exited <=> pstate'[r] = "woken"
    BY <1>1, Zenon DEF Waits, Known, Entry
  <2>1. r # p /\ r # q /\ pstate'[r] = pstate[r] /\ p_pid'[r] = p_pid[r] /\ p_pid[r] # p_pid[p]
    BY <1>2, <1>4, <1>5, <1>6, Zenon DEF ProcInv, Lives
  <2>2. /\ Known(them[r]) /\ them[r] \in 0..PID_MAX /\ Entry(them[r]).pi_ppid = p_pid[r]
        /\ Entry(them[r]).pi_exited <=> pstate[r] = "woken"
    BY <2>1, Zenon DEF ProcInv, PidTypeOK, Waits
  <2> QED BY <1>2, <1>4, <2>1, <2>2, ZenonT(60) DEF Known, Entry
<1>11. Embryos'
  BY <1>4, <1>5, <1>6 DEF ProcInv, Embryos
<1> QED BY <1>4, <1>7, <1>8, <1>9, <1>10, <1>11, Zenon DEF ProcInv

LEMMA Reap_Inv ==
  ASSUME ProcInv, NEW p \in Procs, NEW pid \in 0..PID_MAX, Reap(p, pid)
  PROVE  ProcInv'
<1>1. /\ pstate[p] \in {"run", "woken"} /\ Known(pid) /\ Entry(pid).pi_ppid = p_pid[p] /\ Entry(pid).pi_exited
      /\ them' = [them EXCEPT ![p] = INVALID_PID]
      /\ pstate' = [pstate EXCEPT ![p] = "run"]
      /\ p_pid' = p_pid /\ child' = child /\ p_pid[p] # 0 /\ INVALID_PID = 0
  BY Zenon DEF Reap, WaitDone, ProcInv, StatesRight, INVALID_PID
<1>2. Drop(p, pid)
  BY <1>1, Zenon DEF Reap, WaitDone, Drop
<1>3. /\ pidinfo' \in [Slots -> Entries \cup {NULL}] /\ kids' \in [Procs -> [Pids -> Int]]
      /\ \A r \in Procs : p_pid'[r] = IF p_pid[r] = pid THEN 0 ELSE p_pid[r]
      /\ \A x \in 0..PID_MAX : Known(x) /\ x # pid => pidinfo'[slot(x)] = pidinfo[slot(x)]
      /\ Placed' /\ Lives' /\ ParentsLive' /\ KidsRight'
      /\ \A i \in Slots : pidinfo'[i] # NULL => pidinfo'[i] = pidinfo[i]
      /\ \A r \in Procs, x \in Pids : p_pid'[r] = 0 => kids'[r][x] = Nobody
  BY <1>2, Drop_Table
<1>4. /\ \A r \in Procs : pstate'[r] = IF r = p THEN "run" ELSE pstate[r]
      /\ \A r \in Procs : r # p => them'[r] = them[r]
  BY <1>1, Zenon DEF ProcInv, PidTypeOK
<1>5. PidTypeOK'
  <2>1. 0 \in 0..PID_MAX
    BY Sizes
  <2> QED BY <1>1, <1>2, <1>3, <2>1, Zenon DEF Drop, ProcInv, PidTypeOK, States
<1>6. StatesRight'
  <2>1. p_pid' = p_pid /\ INVALID_PID = 0 /\ p_pid[p] # 0 /\ \A r \in Procs : pstate'[r] = IF r = p THEN "run" ELSE pstate[r]
    BY <1>1, <1>4, Zenon
  <2>2. \A r \in Procs, x \in Pids : p_pid[r] = 0 => kids'[r][x] = Nobody
    BY <1>1, <1>3, Zenon
  <2>3. /\ \A r \in Procs : pstate[r] \in {"none", "exiting"} => p_pid[r] = 0
        /\ \A r \in Procs : pstate[r] \in {"run", "forking", "waiting", "woken", "embryo"} => p_pid[r] # 0
    BY <2>1, Zenon DEF ProcInv, StatesRight
  <2>4. /\ \A r \in Procs : pstate'[r] \in {"none", "exiting"} => p_pid[r] = 0
        /\ \A r \in Procs : pstate'[r] \in {"run", "forking", "waiting", "woken", "embryo"} => p_pid[r] # 0
    BY <2>1, <2>3, Zenon
  <2> QED BY <2>1, <2>2, <2>4, Zenon DEF StatesRight
<1>7. \A r \in Procs : r # p => p_pid[r] # p_pid[p]
  BY <1>1, Zenon DEF ProcInv, Lives
<1>8. Forks'
  <2> SUFFICES ASSUME NEW r \in Procs, pstate'[r] = "forking"
               PROVE  /\ child[r] \in Procs /\ pstate'[child[r]] = "embryo"
                      /\ pidinfo'[slot(p_pid[child[r]])].pi_ppid = p_pid[r]
    BY <1>1, Zenon DEF Forks, Entry
  <2>1. r # p /\ pstate[r] = "forking"
    BY <1>4, Zenon
  <2>2. child[r] \in Procs /\ pstate[child[r]] = "embryo" /\ Entry(p_pid[child[r]]).pi_ppid = p_pid[r]
    BY <2>1, Zenon DEF ProcInv, Forks
  <2>3. /\ child[r] # p /\ p_pid[child[r]] # pid /\ Known(p_pid[child[r]]) /\ p_pid[child[r]] \in 0..PID_MAX
    BY <1>1, <1>7, <2>1, <2>2, Zenon DEF ProcInv, PidTypeOK, StatesRight, Lives
  <2> QED BY <1>3, <1>4, <2>2, <2>3, Zenon DEF Entry
<1>9. Waits'
  <2> SUFFICES ASSUME NEW r \in Procs, pstate'[r] \in {"waiting", "woken"}
               PROVE  LET i == slot(them'[r]) IN
                      /\ pidinfo'[i] # NULL /\ pidinfo'[i].pi_pid = them'[r] /\ pidinfo'[i].pi_ppid = p_pid[r]
                      /\ pidinfo'[i].pi_exited <=> pstate'[r] = "woken"
    BY <1>1, Zenon DEF Waits, Known, Entry
  <2>1. r # p /\ pstate'[r] = pstate[r] /\ them'[r] = them[r]
    BY <1>4, Zenon
  <2>2. /\ Known(them[r]) /\ them[r] \in 0..PID_MAX /\ Entry(them[r]).pi_ppid = p_pid[r]
        /\ Entry(them[r]).pi_exited <=> pstate[r] = "woken"
    BY <2>1, Zenon DEF ProcInv, PidTypeOK, Waits
  <2>3. them[r] # pid
    BY <1>1, <1>7, <2>1, <2>2, Zenon
  <2>4. pidinfo'[slot(them[r])] = pidinfo[slot(them[r])]
    BY <1>3, <2>2, <2>3, Zenon
  <2> QED BY <2>1, <2>2, <2>4, Zenon DEF Known, Entry
<1>10. Embryos'
  BY <1>1, <1>3, <1>4 DEF ProcInv, Embryos
<1> QED BY <1>3, <1>5, <1>6, <1>8, <1>9, <1>10, Zenon DEF ProcInv

----------------------------------------------------------------------------
\* The exit (pid_setexitstatus): what becomes of the own entry and of the others.
LEMMA Exit_Entries ==
  ASSUME ProcInv, NEW p \in Procs, NEW status \in Statuses, Exit(p, status)
  PROVE  LET m == p_pid[p]
             u == pidinfo[slot(m)] IN
         /\ m \in 1..PID_MAX /\ slot(m) \in Slots /\ Known(m) /\ u \in Entries /\ ~u.pi_exited /\ u.pi_ppid # m
         /\ pidinfo' \in [Slots -> Entries \cup {NULL}]
         /\ IF u.pi_ppid = 0 THEN pidinfo'[slot(m)] = NULL
            ELSE LET v == pidinfo'[slot(m)] IN
                 /\ v # NULL /\ v.pi_pid = m /\ v.pi_ppid = u.pi_ppid /\ v.pi_exited /\ v.pi_exitstatus = status
         /\ \A i \in Slots : i # slot(m) =>
              IF pidinfo[i] = NULL \/ pidinfo[i].pi_ppid # m THEN pidinfo'[i] = pidinfo[i]
              ELSE IF pidinfo[i].pi_exited THEN pidinfo'[i] = NULL
              ELSE LET v == pidinfo'[i] IN
                   /\ v # NULL /\ v.pi_pid = pidinfo[i].pi_pid /\ v.pi_ppid = 0 /\ ~v.pi_exited
<1> DEFINE m == p_pid[p]
           u == pidinfo[slot(m)]
           w == [u EXCEPT !.pi_exited = TRUE, !.pi_exitstatus = status]
           d(i) == [pidinfo[i] EXCEPT !.pi_ppid = INVALID_PID]
<1>1. m \in 0..PID_MAX /\ m # 0 /\ INVALID_PID = 0 /\ Known(m) /\ ~u.pi_exited
  BY Zenon DEF Exit, ProcInv, PidTypeOK, StatesRight, Lives, Entry, INVALID_PID
<1>2. m \in 1..PID_MAX /\ slot(m) \in Slots
  BY <1>1, Slot_In
<1>3. u # NULL /\ u.pi_pid = m /\ u \in Entries /\ u.pi_ppid # m
  BY <1>1, <1>2, Entry_Typed, Zenon DEF Known, Entry, ProcInv, Placed
<1>4. pidinfo' = [i \in Slots |-> IF i = slot(m) THEN exited(u, status) ELSE disowned(pidinfo[i], m)]
  BY Zenon DEF Exit, After, Entry
<1>5. w \in Entries /\ w # NULL /\ w.pi_pid = m /\ w.pi_ppid = u.pi_ppid /\ w.pi_exited /\ w.pi_exitstatus = status
  <2>1. w \in Entries
    BY <1>3, Zenon DEF Entries
  <2>2. w.pi_pid = m /\ w.pi_ppid = u.pi_ppid /\ w.pi_exited /\ w.pi_exitstatus = status
    BY <1>3, Zenon DEF Entries
  <2> QED BY <2>1, <2>2, No_Entry, Zenon
<1>6. ASSUME NEW i \in Slots, pidinfo[i] # NULL
      PROVE  /\ d(i) \in Entries /\ d(i) # NULL /\ d(i).pi_pid = pidinfo[i].pi_pid
             /\ d(i).pi_ppid = 0 /\ d(i).pi_exited = pidinfo[i].pi_exited
  <2>1. pidinfo[i] \in Entries /\ 0 \in 0..PID_MAX
    BY <1>6, Entry_Typed, Sizes DEF ProcInv
  <2>2. d(i) \in Entries
    BY <1>1, <2>1, Zenon DEF Entries
  <2>3. d(i).pi_pid = pidinfo[i].pi_pid /\ d(i).pi_ppid = 0 /\ d(i).pi_exited = pidinfo[i].pi_exited
    BY <1>1, <2>1, Zenon DEF Entries
  <2> QED BY <2>2, <2>3, No_Entry, Zenon
<1>7. pidinfo'[slot(m)] = IF u.pi_ppid = 0 THEN NULL ELSE w
  BY <1>1, <1>2, <1>4, Zenon DEF exited
<1>8. \A i \in Slots : i # slot(m) =>
        pidinfo'[i] = IF pidinfo[i] = NULL \/ pidinfo[i].pi_ppid # m THEN pidinfo[i]
                      ELSE IF pidinfo[i].pi_exited THEN NULL ELSE d(i)
  BY <1>4, Zenon DEF disowned
<1> HIDE DEF m, u, w, d
<1>9. pidinfo' \in [Slots -> Entries \cup {NULL}]
  <2>1. ASSUME NEW i \in Slots PROVE pidinfo'[i] \in Entries \cup {NULL}
    <3>1. CASE i = slot(m)
      BY <1>5, <1>7, <3>1, Zenon
    <3>2. CASE i # slot(m)
      <4>1. pidinfo[i] \in Entries \cup {NULL}
        BY Zenon DEF ProcInv, PidTypeOK
      <4>2. pidinfo'[i] \in {pidinfo[i], NULL} \/ (pidinfo[i] # NULL /\ pidinfo'[i] = d(i))
        BY <1>8, <3>2, Zenon
      <4> QED BY <1>6, <4>1, <4>2, Zenon
    <3> QED BY <3>1, <3>2, Zenon
  <2> QED BY <1>4, <2>1, Zenon
<1>10. IF u.pi_ppid = 0 THEN pidinfo'[slot(m)] = NULL
       ELSE LET v == pidinfo'[slot(m)] IN
            /\ v # NULL /\ v.pi_pid = m /\ v.pi_ppid = u.pi_ppid /\ v.pi_exited /\ v.pi_exitstatus = status
  BY <1>5, <1>7, Zenon
<1>11. \A i \in Slots : i # slot(m) =>
         IF pidinfo[i] = NULL \/ pidinfo[i].pi_ppid # m THEN pidinfo'[i] = pidinfo[i]
         ELSE IF pidinfo[i].pi_exited THEN pidinfo'[i] = NULL
         ELSE LET v == pidinfo'[i] IN
              /\ v # NULL /\ v.pi_pid = pidinfo[i].pi_pid /\ v.pi_ppid = 0 /\ ~v.pi_exited
  BY <1>6, <1>8, Zenon
<1> QED BY <1>1, <1>2, <1>3, <1>9, <1>10, <1>11, Zenon DEF m, u

LEMMA Exit_Inv ==
  ASSUME ProcInv, NEW p \in Procs, NEW status \in Statuses, Exit(p, status)
  PROVE  ProcInv'
<1> DEFINE m == p_pid[p]
           s == slot(m)
           u == pidinfo[s]
<1>1. /\ m \in 1..PID_MAX /\ s \in Slots /\ Known(m) /\ u # NULL /\ u.pi_pid = m /\ ~u.pi_exited /\ u.pi_ppid # m
      /\ pidinfo' \in [Slots -> Entries \cup {NULL}] /\ INVALID_PID = 0
  BY Exit_Entries, Zenon DEF Known, Entry, INVALID_PID
<1>2. IF u.pi_ppid = 0 THEN pidinfo'[s] = NULL
      ELSE LET v == pidinfo'[s] IN
           /\ v # NULL /\ v.pi_pid = m /\ v.pi_ppid = u.pi_ppid /\ v.pi_exited /\ v.pi_exitstatus = status
  BY Exit_Entries
<1>3. \A i \in Slots : i # s =>
        IF pidinfo[i] = NULL \/ pidinfo[i].pi_ppid # m THEN pidinfo'[i] = pidinfo[i]
        ELSE IF pidinfo[i].pi_exited THEN pidinfo'[i] = NULL
        ELSE LET v == pidinfo'[i] IN
             /\ v # NULL /\ v.pi_pid = pidinfo[i].pi_pid /\ v.pi_ppid = 0 /\ ~v.pi_exited
  BY Exit_Entries, Zenon
<1>4. /\ \A r \in Procs : p_pid'[r] = IF r = p THEN 0 ELSE p_pid[r]
      /\ \A r \in Procs : pstate'[r] = IF r = p THEN "exiting"
                                        ELSE IF pstate[r] = "waiting" /\ them[r] = m THEN "woken" ELSE pstate[r]
      /\ \A r \in Procs, x \in Pids :
           kids'[r][x] = IF r = p THEN Nobody
                         ELSE IF x = m /\ kids[r][x] = Running THEN status ELSE kids[r][x]
      /\ pstate[p] = "run" /\ child' = child /\ them' = them
  <2>1. \A r \in Procs, x \in Pids :
          kids'[r][x] = IF r = p THEN Nobody
                        ELSE IF x = m /\ kids[r][x] = Running THEN status ELSE kids[r][x]
    BY Zenon DEF Exit, Reported, ProcInv, PidTypeOK
  <2> QED BY <1>1, <2>1, Zenon DEF Exit, ProcInv, PidTypeOK
<1>5. /\ PidTypeOK /\ \A r \in Procs : p_pid[r] \in 0..PID_MAX /\ them[r] \in 0..PID_MAX
      /\ \A r \in Procs : r # p => p_pid[r] # m
  BY <1>1 DEF ProcInv, PidTypeOK, Lives
\* An entry whose parent lives on, of a process that lives on, stays as it is.
<1>6. \A x \in 0..PID_MAX :
        Known(x) /\ x # m => /\ slot(x) \in Slots /\ slot(x) # s
                             /\ pidinfo[slot(x)].pi_ppid # m => pidinfo'[slot(x)] = pidinfo[slot(x)]
  BY <1>1, <1>3, Slot_In, Zenon DEF Known, Entry
\* Whatever entry stays has its pid, and its parent unless that exits.
<1>7. \A i \in Slots : pidinfo'[i] # NULL =>
        /\ pidinfo[i] # NULL /\ pidinfo'[i].pi_pid = pidinfo[i].pi_pid
        /\ pidinfo'[i].pi_ppid = 0 \/ (pidinfo'[i].pi_ppid = pidinfo[i].pi_ppid /\ pidinfo[i].pi_ppid # m)
  BY <1>1, <1>2, <1>3, Zenon
<1>8. PidTypeOK'
  <2>1. kids' \in [Procs -> [Pids -> Int]]
    BY StatusAssumption DEF Exit, Reported, PidTypeOK, ProcInv, Nobody, Running
  <2>2. pstate' \in [Procs -> States]
    BY <1>5, Zenon DEF Exit, PidTypeOK, States
  <2>3. 0 \in 0..PID_MAX
    BY Sizes
  <2> QED BY <1>1, <1>5, <2>1, <2>2, <2>3, Zenon DEF Exit, PidTypeOK
<1> HIDE DEF m, s, u
<1>10. Placed'
  <2> SUFFICES ASSUME NEW i \in Slots, pidinfo'[i] # NULL
               PROVE  slot(pidinfo'[i].pi_pid) = i /\ pidinfo'[i].pi_ppid # pidinfo'[i].pi_pid
    BY Zenon DEF Placed
  <2>1. slot(pidinfo[i].pi_pid) = i /\ pidinfo[i].pi_ppid # pidinfo[i].pi_pid /\ pidinfo[i].pi_pid # 0
    BY <1>5, <1>7, Entry_Typed DEF ProcInv, Placed
  <2> QED BY <1>7, <2>1, Zenon
<1>11. Lives'
  <2>1. ASSUME NEW r \in Procs, p_pid'[r] # 0
        PROVE  pidinfo'[slot(p_pid'[r])] # NULL /\ pidinfo'[slot(p_pid'[r])].pi_pid = p_pid'[r]
               /\ ~pidinfo'[slot(p_pid'[r])].pi_exited
    <3>1. r # p /\ p_pid'[r] = p_pid[r] /\ p_pid[r] # m
      BY <1>4, <1>5, <2>1, Zenon
    <3>2. Known(p_pid[r]) /\ ~Entry(p_pid[r]).pi_exited
      BY <1>1, <2>1, <3>1, Zenon DEF ProcInv, Lives
    <3> QED BY <1>3, <1>5, <1>6, <3>1, <3>2, Zenon DEF Known, Entry
  <2>2. \A r, t \in Procs : p_pid'[r] # 0 /\ r # t => p_pid'[r] # p_pid'[t]
    BY <1>1, <1>4, ZenonT(60) DEF ProcInv, Lives
  <2> QED BY <1>1, <2>1, <2>2, Zenon DEF Lives, Known, Entry
<1>12. ParentsLive'
  <2> SUFFICES ASSUME NEW i \in Slots, pidinfo'[i] # NULL, pidinfo'[i].pi_ppid # 0
               PROVE  \E r \in Procs : p_pid'[r] = pidinfo'[i].pi_ppid
    BY <1>1, Zenon DEF ParentsLive
  <2>1. pidinfo[i] # NULL /\ pidinfo'[i].pi_ppid = pidinfo[i].pi_ppid /\ pidinfo[i].pi_ppid # m
    BY <1>7, Zenon
  <2>2. PICK r \in Procs : p_pid[r] = pidinfo[i].pi_ppid
    BY <1>1, <2>1, Zenon DEF ProcInv, ParentsLive
  <2> QED BY <1>4, <2>1, <2>2, Zenon DEF m
<1>13. StatesRight'
  <2> SUFFICES ASSUME NEW r \in Procs
               PROVE  /\ pstate'[r] \in {"none", "exiting"} => p_pid'[r] = 0
                      /\ pstate'[r] \in {"run", "forking", "waiting", "woken", "embryo"} => p_pid'[r] # 0
                      /\ p_pid'[r] = 0 => \A x \in Pids : kids'[r][x] = Nobody
    BY <1>1, Zenon DEF StatesRight
  <2>1. CASE r = p
    BY <1>4, <2>1, Zenon
  <2>2. CASE r # p
    <3>1. /\ pstate[r] \in {"none", "exiting"} => p_pid[r] = 0
          /\ pstate[r] \in {"run", "forking", "waiting", "woken", "embryo"} => p_pid[r] # 0
          /\ p_pid[r] = 0 => \A x \in Pids : kids[r][x] = Nobody
      BY <1>1, Zenon DEF ProcInv, StatesRight
    <3>2. Nobody # Running
      BY DEF Nobody, Running
    <3> QED BY <1>4, <2>2, <3>1, <3>2
  <2> QED BY <2>1, <2>2, Zenon
<1>14. Forks'
  <2> SUFFICES ASSUME NEW r \in Procs, pstate'[r] = "forking"
               PROVE  /\ child[r] \in Procs /\ pstate'[child[r]] = "embryo"
                      /\ pidinfo'[slot(p_pid'[child[r]])].pi_ppid = p_pid'[r]
    BY <1>4, Zenon DEF Forks, Entry
  <2>1. r # p /\ pstate[r] = "forking" /\ p_pid'[r] = p_pid[r]
    BY <1>4, Zenon
  <2>2. child[r] \in Procs /\ pstate[child[r]] = "embryo" /\ Entry(p_pid[child[r]]).pi_ppid = p_pid[r]
    BY <2>1, Zenon DEF ProcInv, Forks
  <2>3. child[r] # p /\ Known(p_pid[child[r]])
    BY <1>4, <2>2, Zenon DEF ProcInv, StatesRight, Lives
  <2> QED BY <1>4, <1>5, <1>6, <2>1, <2>2, <2>3 DEF Entry
<1>15. Waits'
  <2> SUFFICES ASSUME NEW r \in Procs, pstate'[r] \in {"waiting", "woken"}
               PROVE  LET i == slot(them[r]) IN
                      /\ pidinfo'[i] # NULL /\ pidinfo'[i].pi_pid = them[r] /\ pidinfo'[i].pi_ppid = p_pid'[r]
                      /\ pidinfo'[i].pi_exited <=> pstate'[r] = "woken"
    BY <1>4, Zenon DEF Waits, Known, Entry
  <2>1. r # p /\ pstate[r] \in {"waiting", "woken"} /\ p_pid'[r] = p_pid[r]
    BY <1>4, Zenon
  <2>2. /\ Known(them[r]) /\ Entry(them[r]).pi_ppid = p_pid[r] /\ p_pid[r] # 0 /\ p_pid[r] # m
        /\ Entry(them[r]).pi_exited <=> pstate[r] = "woken"
    BY <1>1, <1>5, <2>1, Zenon DEF ProcInv, Waits, StatesRight
  <2>3. CASE them[r] = m
    <3>1. pstate[r] = "waiting" /\ pstate'[r] = "woken" /\ u.pi_ppid = p_pid[r]
      BY <1>1, <1>4, <2>1, <2>2, <2>3, Zenon DEF Entry, u, s
    <3> QED BY <1>2, <2>1, <2>2, <2>3, <3>1, Zenon DEF s
  <2>4. CASE them[r] # m
    BY <1>4, <1>5, <1>6, <2>1, <2>2, <2>4, Zenon DEF Known, Entry
  <2> QED BY <2>3, <2>4, Zenon
<1>16. Embryos'
  <2> SUFFICES ASSUME NEW r \in Procs, pstate'[r] = "embryo", NEW i \in Slots, pidinfo'[i] # NULL
               PROVE  pidinfo'[i].pi_ppid # p_pid'[r]
    BY Zenon DEF Embryos
  <2>1. pstate[r] = "embryo" /\ p_pid'[r] = p_pid[r]
    BY <1>4, Zenon
  <2>2. p_pid[r] # 0 /\ \A j \in Slots : pidinfo[j] # NULL => pidinfo[j].pi_ppid # p_pid[r]
    BY <1>1, <2>1, Zenon DEF ProcInv, StatesRight, Embryos
  <2> QED BY <1>7, <2>1, <2>2, Zenon
<1>17. KidsRight'
  <2> SUFFICES ASSUME NEW r \in Procs, p_pid'[r] # 0, NEW x \in Pids
               PROVE  LET pi == pidinfo'[slot(x)] IN
                      kids'[r][x] = IF pi # NULL /\ pi.pi_pid = x /\ pi.pi_ppid = p_pid'[r] THEN Seen(pi) ELSE Nobody
    BY <1>1, Zenon DEF KidsRight, Known, Entry, Seen
  <2>0. slot(x) \in Slots /\ r # p /\ p_pid'[r] = p_pid[r] /\ p_pid[r] # 0 /\ p_pid[r] # m
    BY <1>4, <1>5, Slot_In, Sizes, Zenon
  <2>1. kids[r][x] = IF Known(x) /\ Entry(x).pi_ppid = p_pid[r] THEN Seen(Entry(x)) ELSE Nobody
    BY <1>1, <2>0, Zenon DEF ProcInv, KidsRight
  <2>2. CASE x = m
    <3>1. kids[r][x] = IF u.pi_ppid = p_pid[r] THEN Running ELSE Nobody
      BY <1>1, <2>1, <2>2, Zenon DEF Entry, Seen, u, s
    <3>2. kids'[r][x] = IF u.pi_ppid = p_pid[r] THEN status ELSE Nobody
      <4>1. Nobody # Running
        BY DEF Nobody, Running
      <4> QED BY <1>4, <2>0, <2>2, <3>1, <4>1, Zenon
    <3> QED BY <1>2, <2>0, <2>2, <3>2, Zenon DEF Seen, s
  <2>3. CASE x # m
    <3>1. kids'[r][x] = kids[r][x]
      BY <1>4, <2>0, <2>3, Zenon
    <3>2. CASE slot(x) = s
      BY <1>1, <1>7, <2>0, <2>1, <2>3, <3>1, <3>2, Zenon DEF Known, Entry, u
    <3>3. CASE slot(x) # s /\ (pidinfo[slot(x)] = NULL \/ pidinfo[slot(x)].pi_ppid # m)
      <4>1. pidinfo'[slot(x)] = pidinfo[slot(x)]
        BY <1>3, <2>0, <3>3, Zenon
      <4> QED BY <2>0, <2>1, <3>1, <4>1, Zenon DEF Known, Entry
    <3>4. CASE slot(x) # s /\ pidinfo[slot(x)] # NULL /\ pidinfo[slot(x)].pi_ppid = m
      <4>1. kids[r][x] = Nobody
        BY <2>0, <2>1, <3>4, Zenon DEF Entry
      <4>2. pidinfo'[slot(x)] = NULL \/ pidinfo'[slot(x)].pi_ppid = 0
        BY <1>3, <2>0, <3>4, Zenon
      <4> QED BY <2>0, <3>1, <4>1, <4>2, Zenon
    <3> QED BY <3>2, <3>3, <3>4, Zenon
  <2> QED BY <2>2, <2>3, Zenon
<1> QED BY <1>8, <1>10, <1>11, <1>12, <1>13, <1>14, <1>15, <1>16, <1>17, Zenon DEF ProcInv

----------------------------------------------------------------------------
(***************************************************************************)
(* What needs the cardinality of sets: nprocs counts the entries, so that   *)
(* the search for a pid ends.                                               *)
(***************************************************************************)
INSTANCE FiniteSetTheorems

Used == {i \in Slots : pidinfo[i] # NULL}
Counted == nprocs = Cardinality(Used)

PidInv == ProcInv /\ Counted

\* A set of naturals has a least member: the search stops at the first free slot.
LEMMA Least ==
  ASSUME NEW K, K \subseteq Nat, K # {}
  PROVE  \E k \in K : \A j \in K : k <= j
<1> DEFINE R == {ss \in Nat \X Nat : ss[1] < ss[2]}
<1>1. IsWellFoundedOn(R, Nat)
  BY NatLessThanWellFounded, Zenon DEF OpToRel
<1>2. PICK x \in K : \A y \in K : ~(<<y, x>> \in R)
  <2> HIDE DEF R
  <2> QED BY <1>1, WFMin, Zenon
<1>3. \A y \in K : x <= y
  <2> TAKE y \in K
  <2>1. x \in Nat /\ y \in Nat
    OBVIOUS
  <2>2. ~(<<y, x>> \in R)
    BY <1>2, Zenon
  <2> QED BY <2>1, <2>2
<1> QED BY <1>3, Zenon

\* As long as a slot is free, the search finds one.
LEMMA Search_Ends ==
  ASSUME nextpid \in Pids, NEW i \in Slots, pidinfo[i] = NULL
  PROVE  \E k \in Tries : FreeAfter(k) /\ \A j \in 0..(k - 1) : ~FreeAfter(j)
<1> DEFINE K == {k \in Tries : FreeAfter(k)}
<1>0. Tries \subseteq Nat
  BY Sizes DEF Tries
<1>1. K # {}
  BY Search_Passes, Zenon DEF FreeAfter
<1>2. PICK k \in K : \A j \in K : k <= j
  <2>1. K \subseteq Nat
    BY <1>0, Zenon
  <2> HIDE DEF K
  <2> QED BY <1>1, <2>1, Least, Zenon
<1>3. \A j \in 0..(k - 1) : j \in Tries /\ ~(k <= j)
  BY <1>0, Sizes DEF Tries
<1> QED BY <1>2, <1>3, Zenon

LEMMA Free_Slot ==
  ASSUME PidInv, nprocs # PROCS_MAX
  PROVE  \E i \in Slots : pidinfo[i] = NULL
<1>1. IsFiniteSet(Slots) /\ Cardinality(Slots) = PROCS_MAX
  <2>1. Cardinality(Slots) = IF 0 > PROCS_MAX - 1 THEN 0 ELSE PROCS_MAX - 1 - 0 + 1
    BY FS_Interval, Sizes DEF Slots
  <2> QED BY <2>1, FS_Interval, Sizes DEF Slots
<1>2. Used # Slots
  BY <1>1, Zenon DEF PidInv, Counted
<1> QED BY <1>2, Zenon DEF Used

LEMMA Alloc_Safe ==
  ASSUME PidInv, NEW p \in Procs, NEW q \in Procs, ForkAlloc(p, q)
  PROVE  SafeStep(p)
<1> DEFINE found == {k \in Tries : FreeAfter(k) /\ \A j \in 0..(k - 1) : ~FreeAfter(j)}
<1>1. nextpid \in Pids /\ Tries \subseteq Nat
  BY Sizes DEF PidInv, ProcInv, PidTypeOK, Tries
<1>2. found # {}
  BY <1>1, Free_Slot, Search_Ends, Zenon DEF ForkAlloc
<1>3. PICK k \in found :
        LET pid == inc_nextpid(nextpid, k) IN
        \/ /\ pidinfo' = [pidinfo EXCEPT ![slot(pid)] = pidinfo_create(pid, p_pid[p])]
           /\ nprocs' = nprocs + 1
           /\ nextpid' = inc_nextpid(pid, 1)
           /\ p_pid' = [p_pid EXCEPT ![q] = pid]
           /\ pstate' = [pstate EXCEPT ![p] = "forking", ![q] = "embryo"]
           /\ child' = [child EXCEPT ![p] = q]
           /\ kids' = [kids EXCEPT ![p][pid] = Running]
           /\ UNCHANGED them
        \/ /\ nextpid' = pid
           /\ UNCHANGED <<pidinfo, nprocs, pstate, p_pid, child, them, kids>>
  BY <1>2, Zenon DEF ForkAlloc
<1> DEFINE pid == inc_nextpid(nextpid, k)
<1>4. pid \in Pids /\ inc_nextpid(pid, 1) \in Pids
  BY <1>1, Next_In, Zenon
<1>5. pidinfo[slot(pid)] = NULL
  BY Zenon DEF FreeAfter
<1>6. pstate[p] = "run" /\ pstate[q] = "none"
  BY Zenon DEF ForkAlloc
<1> HIDE DEF pid, found
<1>7. Alloc(p, q, pid) \/ NoMemory
  BY <1>3, <1>4, <1>5, <1>6, Zenon DEF Alloc, NoMemory, pid
<1> QED BY <1>4, <1>7, Zenon DEF SafeStep

\* In a state of the invariant no assertion fails, but for proc_destroy's in common_prog.
LEMMA Step_Safe ==
  ASSUME PidInv, NEW p \in Procs, ProcStep(p)
  PROVE  SafeStep(p)
<1>1. CASE proc_destroy(p)
  <2>1. Destroy(p)
    BY <1>1, Zenon DEF proc_destroy, Destroy, PidInv, ProcInv, StatesRight
  <2> QED BY <2>1, Zenon DEF SafeStep
<1>2. CASE ForkRun(p) \/ \E pid \in Pids : WaitSleep(p, pid)
  BY <1>2, Zenon DEF SafeStep
<1> QED BY <1>1, <1>2, Alloc_Safe, ForkFail_Safe, Exit_Safe, Reap_Safe, Zenon DEF ProcStep, PidInv

LEMMA Used_Finite == IsFiniteSet(Used) /\ Cardinality(Used) \in Nat
<1>1. IsFiniteSet(Slots) /\ Used \subseteq Slots
  BY FS_Interval, Sizes, SMTT(30) DEF Slots, Used
<1> QED BY <1>1, FS_Subset, FS_CardinalityType, Zenon

\* nprocs is counted up with a new entry, and down with every entry that goes.
LEMMA Alloc_Counted ==
  ASSUME PidInv, NEW p \in Procs, NEW q \in Procs, NEW pid \in Pids, Alloc(p, q, pid)
  PROVE  Counted'
<1> DEFINE s == slot(pid)
           e == pidinfo_create(pid, p_pid[p])
<1>1. s \in Slots /\ pid \in 1..PID_MAX
  BY Slot_In, Sizes DEF Pids, PID_MIN
<1>2. e # NULL
  <2>1. e \in Entries
    BY <1>1, Zenon DEF pidinfo_create, Entries, PidInv, ProcInv, PidTypeOK
  <2> QED BY <2>1, No_Entry, Zenon
<1>3. Used' = Used \cup {s} /\ s \notin Used
  BY <1>1, <1>2, Zenon DEF Used, Alloc, PidInv, ProcInv, PidTypeOK
<1> HIDE DEF s
<1>4. Cardinality(Used \cup {s}) = Cardinality(Used) + 1
  BY <1>3, Used_Finite, FS_AddElement, Zenon
<1> QED BY <1>3, <1>4, Zenon DEF Counted, PidInv, Alloc

LEMMA Drop_Counted ==
  ASSUME PidInv, NEW pid \in 0..PID_MAX, Known(pid), pi_drop(pid)
  PROVE  Counted'
<1> DEFINE s == slot(pid)
<1>1. Used' = Used \ {s} /\ s \in Used
  BY Slot_In, Zenon DEF Used, Known, Entry, pi_drop, PidInv, ProcInv, PidTypeOK
<1> HIDE DEF s
<1>2. Cardinality(Used \ {s}) = Cardinality(Used) - 1
  BY <1>1, Used_Finite, FS_RemoveElement, Zenon
<1> QED BY <1>1, <1>2, Zenon DEF Counted, PidInv, pi_drop

LEMMA Exit_Counted ==
  ASSUME PidInv, NEW p \in Procs, NEW status \in Statuses, Exit(p, status)
  PROVE  Counted'
<1> DEFINE gone == {i \in Slots : pidinfo[i] # NULL /\ pidinfo'[i] = NULL}
<1>1. nprocs' = nprocs - Cardinality(gone)
  BY Zenon DEF Exit
<1>2. \A i \in Slots : pidinfo[i] = NULL => pidinfo'[i] = NULL
  BY Exit_Entries, Zenon DEF PidInv, Known, Entry
<1>3. Used' = Used \ gone /\ Used \cap gone = gone
  BY <1>2, Zenon DEF Used
<1> HIDE DEF gone
<1>4. Cardinality(Used \ gone) = Cardinality(Used) - Cardinality(gone)
  BY <1>3, Used_Finite, FS_Difference, Zenon
<1> QED BY <1>1, <1>3, <1>4, Zenon DEF Counted, PidInv

LEMMA Pid_Init == Init => PidInv
<1> SUFFICES ASSUME Init PROVE Counted
  BY Proc_Init, Zenon DEF PidInv
<1>1. pidinfo_create(KERNEL_PID, INVALID_PID) # NULL
  <2>1. pidinfo_create(KERNEL_PID, INVALID_PID) \in Entries
    BY Sizes DEF pidinfo_create, Entries, KERNEL_PID, INVALID_PID
  <2> QED BY <2>1, No_Entry, Zenon
<1>2. Used = {1}
  BY <1>1, Sizes, Zenon DEF Used, Init, KERNEL_PID
<1> QED BY <1>2, FS_Singleton, Zenon DEF Counted, Init

LEMMA Pid_Step == PidInv /\ [Next]_vars => PidInv'
<1> SUFFICES ASSUME PidInv, [Next]_vars PROVE PidInv'
  OBVIOUS
<1>0. ProcInv
  BY Zenon DEF PidInv
<1>1. ASSUME NEW p \in Procs, ProcStep(p) PROVE PidInv'
  <2>0. SafeStep(p)
    BY <1>1, Step_Safe, Zenon
  <2>1. ASSUME NEW q \in Procs, NEW pid \in Pids, Alloc(p, q, pid) PROVE PidInv'
    BY <1>0, <2>1, Alloc_Inv, Alloc_Counted, Zenon DEF PidInv
  <2>2. ASSUME NoMemory \/ ForkRun(p) \/ MenuPanic(p) \/ Destroy(p) \/ \E pid \in Pids : WaitSleep(p, pid)
        PROVE  PidInv'
    <3>1. UNCHANGED <<pidinfo, nprocs>>
      BY <2>2, Zenon DEF NoMemory, ForkRun, MenuPanic, Panic, Destroy, WaitSleep, tablevars
    <3>2. Counted'
      BY <3>1, Zenon DEF PidInv, Counted, Used
    <3> QED BY <1>0, <2>2, <3>2, Quiet_Inv, Zenon DEF PidInv
  <2>3. ASSUME NEW q \in Procs, Unalloc(p, q) PROVE PidInv'
    <3>1. Known(p_pid[q]) /\ p_pid[q] \in 0..PID_MAX /\ pi_drop(p_pid[q])
      BY <1>0, <2>3, Zenon DEF Unalloc, ProcInv, PidTypeOK, Forks, StatesRight, Lives
    <3> QED BY <1>0, <2>3, <3>1, Drop_Counted, Unalloc_Inv, Zenon DEF PidInv
  <2>4. ASSUME NEW status \in Statuses, Exit(p, status) PROVE PidInv'
    BY <1>0, <2>4, Exit_Counted, Exit_Inv, Zenon DEF PidInv
  <2>5. ASSUME NEW pid \in 0..PID_MAX, Reap(p, pid) PROVE PidInv'
    <3>1. Known(pid) /\ pi_drop(pid)
      BY <2>5, Zenon DEF Reap, WaitDone
    <3> QED BY <1>0, <2>5, <3>1, Drop_Counted, Reap_Inv, Zenon DEF PidInv
  <2> QED BY <2>0, <2>1, <2>2, <2>3, <2>4, <2>5, Zenon DEF SafeStep
<1>2. CASE UNCHANGED vars
  <2>1. NoMemory
    BY <1>0, <1>2, Zenon DEF ProcInv, PidTypeOK, NoMemory, vars, tablevars
  <2>2. Counted'
    BY <1>2, Zenon DEF PidInv, Counted, Used, vars, tablevars
  <2> QED BY <1>0, <2>1, <2>2, ProcAssumption, Quiet_Inv, Zenon DEF PidInv
<1> QED BY <1>1, <1>2, Zenon DEF Next

\* Every state the kernel reaches satisfies the inductive invariant: what a
\* process is doing, its entry and its parent's view of it agree, and nprocs
\* counts the entries.
THEOREM PidInvariant == Spec => []PidInv
BY Pid_Init, Pid_Step, PTL DEF Spec

(***************************************************************************)
(* The process table is a sound hash table at any size: an entry sits in    *)
(* the slot of its pid, nprocs counts the entries, and every process that   *)
(* has a pid has it alone, with an entry that says it lives.                *)
(***************************************************************************)
THEOREM TableIsSound == Spec => []TableSound
<1>1. PidInv => TableSound
  <2> SUFFICES ASSUME PidInv PROVE TableSound
    OBVIOUS
  <2>1. nextpid \in Pids /\ nprocs = Cardinality({i \in Slots : pidinfo[i] # NULL})
    BY Zenon DEF PidInv, ProcInv, PidTypeOK, Counted, Used
  <2>2. \A i \in Slots : pidinfo[i] # NULL => slot(pidinfo[i].pi_pid) = i
    BY Zenon DEF PidInv, ProcInv, Placed
  <2>3. \A p, q \in Procs :
          p_pid[p] # INVALID_PID =>
            /\ pi_get(p_pid[p]) # NULL /\ ~pi_get(p_pid[p]).pi_exited
            /\ p # q => p_pid[p] # p_pid[q]
    BY Get_Entry, Zenon DEF PidInv, ProcInv, Lives
  <2> QED BY <2>1, <2>2, <2>3, Zenon DEF TableSound
<1> QED BY <1>1, PidInvariant, PTL

(***************************************************************************)
(* A living process can wait for exactly the children it has forked and     *)
(* not waited for, and gets the status each of them left, however often     *)
(* pids are used again.                                                     *)
(***************************************************************************)
THEOREM KidsTheorem == Spec => []KidsInTable
<1>1. PidInv => KidsInTable
  <2> SUFFICES ASSUME PidInv, NEW p \in Procs, p_pid[p] # INVALID_PID, NEW pid \in Pids
               PROVE  kids[p][pid] = LET pi == pi_get(pid) IN
                                     IF pi # NULL /\ pi.pi_ppid = p_pid[p] THEN Seen(pi) ELSE Nobody
    BY Zenon DEF KidsInTable
  <2>1. kids[p][pid] = IF Known(pid) /\ Entry(pid).pi_ppid = p_pid[p] THEN Seen(Entry(pid)) ELSE Nobody
    BY Zenon DEF PidInv, ProcInv, KidsRight
  <2> QED BY <2>1, Get_Entry
<1> QED BY <1>1, PidInvariant, PTL

(***************************************************************************)
(* Unless a program started from the menu fails to get its thread, no       *)
(* assertion of pid.c or proc_destroy fails: no entry goes while its parent *)
(* sleeps for it, a waiter wakes up to an exited child, and pid_alloc's     *)
(* search ends within its bound.                                            *)
(***************************************************************************)
THEOREM NoPidPanic ==
  ASSUME kproc \notin FailForks
  PROVE  Spec => []NoPanic
<1>1. Init => NoPanic
  BY Zenon DEF Init, NoPanic
<1>2. PidInv /\ NoPanic /\ [Next]_vars => NoPanic'
  <2> SUFFICES ASSUME PidInv, NoPanic, [Next]_vars PROVE NoPanic'
    OBVIOUS
  <2>1. ASSUME NEW p \in Procs, SafeStep(p) PROVE NoPanic'
    <3>1. ~MenuPanic(p)
      BY Zenon DEF MenuPanic
    <3>2. CASE NoMemory \/ ForkRun(p) \/ Destroy(p) \/ \E pid \in Pids : WaitSleep(p, pid)
      BY <3>2, Zenon DEF NoPanic, PidInv, ProcInv, PidTypeOK, NoMemory, ForkRun, Destroy, WaitSleep
    <3>3. CASE \E q \in Procs, pid \in Pids : Alloc(p, q, pid)
      BY <3>3, ZenonT(60) DEF NoPanic, PidInv, ProcInv, PidTypeOK, Alloc
    <3>4. CASE \E q \in Procs : Unalloc(p, q)
      BY <3>4 DEF NoPanic, PidInv, ProcInv, PidTypeOK, Unalloc
    <3>5. CASE \E status \in Statuses : Exit(p, status)
      BY <3>5, Zenon DEF NoPanic, PidInv, ProcInv, PidTypeOK, Exit
    <3>6. CASE \E pid \in 0..PID_MAX : Reap(p, pid)
      BY <3>6, Zenon DEF NoPanic, PidInv, ProcInv, PidTypeOK, Reap, WaitDone
    <3> QED BY <2>1, <3>1, <3>2, <3>3, <3>4, <3>5, <3>6, Zenon DEF SafeStep
  <2>2. CASE UNCHANGED vars
    BY <2>2, Zenon DEF NoPanic, vars
  <2> QED BY <2>1, <2>2, Step_Safe, Zenon DEF Next
<1> QED BY <1>1, <1>2, PidInvariant, PTL DEF Spec
=============================================================================
