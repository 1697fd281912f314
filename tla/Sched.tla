------------------------------- MODULE Sched --------------------------------
(***************************************************************************)
(* The scheduler of kern/thread/thread.c on several CPUs: run queues and    *)
(* their spinlocks, the context switch with its idle loop, sleeping on and  *)
(* waking from a wait channel, fork, exit and the zombies, the timer        *)
(* interrupt with thread migration, and the interrupt that unidles a CPU.   *)
(*                                                                         *)
(* Each CPU is a sequential process with its own program counter; a step is *)
(* what a CPU does between two points where another CPU can notice.  Taking *)
(* a run queue lock and letting it go around a single update is one step.   *)
(* One wait channel stands for all of them; its clients take its spinlock,  *)
(* sleep or wake, and let it go.                                            *)
(***************************************************************************)
EXTENDS Integers, Sequences, FiniteSets, Wchan

CONSTANTS
  NCPU,      \* number of processors: cpuarray_num(&allcpus)
  Threads,   \* the thread structures there can be
  NULL

CPUs == 1..NCPU

ASSUME CpuAssumption == NCPU \in Nat \ {0} /\ NULL \notin Threads \cup CPUs

VARIABLES
  \* struct cpu
  c_curthread, c_runqueue, c_isidle, c_zombies,
  c_runqueue_lock,   \* the CPU that holds it, or NULL
  unidle,            \* the CPUs whose interrupt line IPI_UNIDLE has raised
  \* the wait channel and its spinlock
  wchan, lk,
  \* struct thread
  t_state, t_cpu,
  \* what the CPUs do
  pc,        \* where each CPU is
  newstate,  \* thread_switch's argument
  woken,     \* threads off the channel that are not runnable yet
  mig,       \* thread_consider_migration's i, my_count, total_count, one_share, to_send
  victims,   \* its private list
  \* what the threads do when they run again
  resume,    \* the place after the thread_switch they are in
  forked     \* the new thread they are about to make runnable, or NULL

cpuvars    == <<c_curthread, c_runqueue, c_isidle, c_zombies, c_runqueue_lock, unidle>>
chanvars   == <<wchan, lk>>
threadvars == <<t_state, t_cpu, resume, forked>>
migvars    == <<mig, victims>>
vars       == <<cpuvars, chanvars, threadvars, pc, newstate, woken, migvars>>

NoMigration == [i |-> 0, my_count |-> 0, total_count |-> 0, one_share |-> 0, to_send |-> 0]

\* One running thread per CPU, as cpu_create makes them.
Init ==
  /\ c_curthread \in [CPUs -> Threads]
  /\ \A c, d \in CPUs : c # d => c_curthread[c] # c_curthread[d]
  /\ c_runqueue = [c \in CPUs |-> <<>>]
  /\ c_isidle = [c \in CPUs |-> FALSE]
  /\ c_zombies = [c \in CPUs |-> <<>>]
  /\ c_runqueue_lock = [c \in CPUs |-> NULL]
  /\ unidle = {}
  /\ wchan = <<>> /\ lk = NULL
  /\ t_state = [t \in Threads |-> IF \E c \in CPUs : c_curthread[c] = t THEN "RUN" ELSE "NONE"]
  /\ t_cpu = [t \in Threads |->
                IF t_state[t] = "RUN" THEN CHOOSE c \in CPUs : c_curthread[c] = t ELSE NULL]
  /\ pc = [c \in CPUs |-> "run"]
  /\ newstate = [c \in CPUs |-> "READY"]
  /\ woken = [c \in CPUs |-> <<>>]
  /\ mig = [c \in CPUs |-> NoMigration]
  /\ victims = [c \in CPUs |-> <<>>]
  /\ resume = [t \in Threads |-> "run"]
  /\ forked = [t \in Threads |-> NULL]

----------------------------------------------------------------------------
Goto(c, label) == pc' = [pc EXCEPT ![c] = label]

Free(c) == c_runqueue_lock[c] = NULL

\* The CPU is executing thread code with interrupts on.
Interruptible(c) == pc[c] \in {"run", "lk_back", "forking"}

\* Mutant: the idle CPU is not sent IPI_UNIDLE.
thread_make_runnable_NoIpi(t) ==
  /\ c_runqueue' = [c_runqueue EXCEPT ![t_cpu[t]] = Append(@, t)]
  /\ t_state' = [t_state EXCEPT ![t] = "READY"]
  /\ UNCHANGED unidle

\* thread_make_runnable puts t on its CPU's queue and unidles that CPU.
thread_make_runnable(t) ==
  LET c == t_cpu[t] IN
  /\ c_runqueue' = [c_runqueue EXCEPT ![c] = Append(@, t)]
  /\ t_state' = [t_state EXCEPT ![t] = "READY"]
  /\ unidle' = IF c_isidle[c] THEN unidle \cup {c} ELSE unidle

\* Call thread_switch; the thread will come back to `label'.
CallSwitch(c, state, label) ==
  /\ newstate' = [newstate EXCEPT ![c] = state]
  /\ resume' = [resume EXCEPT ![c_curthread[c]] = label]
  /\ Goto(c, "switch")

----------------------------------------------------------------------------
(***************************************************************************)
(* thread_fork: build the thread, with the CPU the parent is on; later, and *)
(* perhaps on another CPU, make it runnable.                                *)
(***************************************************************************)
ForkCreate(c, u) ==
  LET t == c_curthread[c] IN
  /\ pc[c] = "run"
  /\ t_state[u] = "NONE" /\ \A v \in Threads : forked[v] # u
  /\ t_cpu' = [t_cpu EXCEPT ![u] = t_cpu[t]]
  /\ resume' = [resume EXCEPT ![u] = "run"]
  /\ forked' = [forked EXCEPT ![t] = u]
  /\ Goto(c, "forking")
  /\ UNCHANGED <<cpuvars, chanvars, t_state, newstate, woken, migvars>>

ForkRunnable(c) ==
  LET t == c_curthread[c] IN
  /\ pc[c] = "forking"
  /\ Free(t_cpu[forked[t]])
  /\ thread_make_runnable(forked[t])
  /\ forked' = [forked EXCEPT ![t] = NULL]
  /\ Goto(c, "run")
  /\ UNCHANGED <<c_curthread, c_isidle, c_zombies, c_runqueue_lock, chanvars, t_cpu, resume,
                 newstate, woken, migvars>>

Exit(c) ==
  /\ pc[c] = "run"
  /\ CallSwitch(c, "ZOMBIE", "run")
  /\ UNCHANGED <<cpuvars, chanvars, t_state, t_cpu, forked, woken, migvars>>

Yield(c) ==
  /\ pc[c] = "run"
  /\ CallSwitch(c, "READY", "run")
  /\ UNCHANGED <<cpuvars, chanvars, t_state, t_cpu, forked, woken, migvars>>

----------------------------------------------------------------------------
(***************************************************************************)
(* A client of the wait channel takes its spinlock, from the start or on    *)
(* the way back from wchan_sleep.                                           *)
(***************************************************************************)
ChanLock(c) ==
  /\ pc[c] \in {"run", "lk_back"}
  /\ lk = NULL
  /\ lk' = c
  /\ Goto(c, "lk_held")
  /\ UNCHANGED <<cpuvars, wchan, threadvars, newstate, woken, migvars>>

ChanUnlock(c) ==
  /\ pc[c] = "lk_held"
  /\ lk' = NULL
  /\ Goto(c, IF c_isidle[c] THEN "relock" ELSE "run")
  /\ UNCHANGED <<cpuvars, wchan, threadvars, newstate, woken, migvars>>

\* wchan_sleep; not in an interrupt handler, so never on an idle CPU.
Sleep(c) ==
  /\ pc[c] = "lk_held" /\ ~c_isidle[c]
  /\ CallSwitch(c, "SLEEP", "lk_back")
  /\ UNCHANGED <<cpuvars, chanvars, t_state, t_cpu, forked, woken, migvars>>

\* wchan_wakeone and wchan_wakeall take threads off the channel...
WakeTake(c) ==
  /\ pc[c] = "lk_held"
  /\ wchan # <<>>
  /\ \/ /\ woken' = [woken EXCEPT ![c] = <<Head(wchan)>>]
        /\ wchan' = wchan_wakeone(wchan)
     \/ /\ woken' = [woken EXCEPT ![c] = wchan]
        /\ wchan' = wchan_wakeall(wchan)
  /\ Goto(c, "waking")
  /\ UNCHANGED <<cpuvars, lk, threadvars, newstate, migvars>>

\* ...and make them runnable, one after the other, each on its own CPU.
WakeRunnable(c) ==
  LET t == Head(woken[c]) IN
  /\ pc[c] = "waking"
  /\ Free(t_cpu[t])
  /\ thread_make_runnable(t)
  /\ woken' = [woken EXCEPT ![c] = Tail(@)]
  /\ Goto(c, IF Len(woken[c]) = 1 THEN "lk_held" ELSE "waking")
  /\ UNCHANGED <<c_curthread, c_isidle, c_zombies, c_runqueue_lock, chanvars, t_cpu, resume, forked,
                 newstate, migvars>>

----------------------------------------------------------------------------
(***************************************************************************)
(* thread_switch.                                                           *)
(***************************************************************************)
\* The timer interrupted the idle loop: return without doing anything.
SwitchIdle(c) ==
  /\ pc[c] = "switch"
  /\ c_isidle[c]
  /\ Goto(c, "relock")
  /\ UNCHANGED <<cpuvars, chanvars, threadvars, newstate, woken, migvars>>

\* Lock the run queue; a yield with nobody to yield to returns at once.
SwitchLock(c) ==
  /\ pc[c] = "switch"
  /\ ~c_isidle[c]
  /\ Free(c)
  /\ IF newstate[c] = "READY" /\ c_runqueue[c] = <<>>
       THEN Goto(c, resume[c_curthread[c]]) /\ UNCHANGED c_runqueue_lock
       ELSE Goto(c, "place") /\ c_runqueue_lock' = [c_runqueue_lock EXCEPT ![c] = c]
  /\ UNCHANGED <<c_curthread, c_runqueue, c_isidle, c_zombies, unidle, chanvars, threadvars,
                 newstate, woken, migvars>>

\* Put the thread in the right place, and become idle.
SwitchPlace(c) ==
  LET t == c_curthread[c] IN
  /\ pc[c] = "place"
  /\ CASE newstate[c] = "READY" ->
            /\ c_runqueue' = [c_runqueue EXCEPT ![c] = Append(@, t)]
            /\ UNCHANGED <<c_zombies, chanvars>>
       [] newstate[c] = "SLEEP" ->
            /\ wchan' = wchan_sleep(wchan, t)
            /\ lk' = NULL
            /\ UNCHANGED <<c_runqueue, c_zombies>>
       [] newstate[c] = "ZOMBIE" ->
            /\ c_zombies' = [c_zombies EXCEPT ![c] = Append(@, t)]
            /\ UNCHANGED <<c_runqueue, chanvars>>
  /\ t_state' = [t_state EXCEPT ![t] = newstate[c]]
  /\ c_isidle' = [c_isidle EXCEPT ![c] = TRUE]
  /\ Goto(c, "pick")
  /\ UNCHANGED <<c_curthread, c_runqueue_lock, unidle, t_cpu, resume, forked, newstate, woken, migvars>>

\* The next thread, and the switch to it...
SwitchPick(c) ==
  /\ pc[c] = "pick"
  /\ c_runqueue[c] # <<>>
  /\ c_curthread' = [c_curthread EXCEPT ![c] = Head(c_runqueue[c])]
  /\ c_runqueue' = [c_runqueue EXCEPT ![c] = Tail(@)]
  /\ c_isidle' = [c_isidle EXCEPT ![c] = FALSE]
  /\ Goto(c, "tail")
  /\ UNCHANGED <<c_zombies, c_runqueue_lock, unidle, chanvars, threadvars, newstate, woken, migvars>>

\* ...or no thread: unlock and idle.
SwitchUnlock(c) ==
  /\ pc[c] = "pick"
  /\ c_runqueue[c] = <<>>
  /\ c_runqueue_lock' = [c_runqueue_lock EXCEPT ![c] = NULL]
  /\ Goto(c, "idle")
  /\ UNCHANGED <<c_curthread, c_runqueue, c_isidle, c_zombies, unidle, chanvars, threadvars,
                 newstate, woken, migvars>>

\* Back from cpu_idle.
SwitchRelock(c) ==
  /\ pc[c] = "relock"
  /\ Free(c)
  /\ c_runqueue_lock' = [c_runqueue_lock EXCEPT ![c] = c]
  /\ Goto(c, "pick")
  /\ UNCHANGED <<c_curthread, c_runqueue, c_isidle, c_zombies, unidle, chanvars, threadvars,
                 newstate, woken, migvars>>

\* The end of thread_switch, or the start of thread_startup, in the next thread.
SwitchTail(c) ==
  /\ pc[c] = "tail"
  /\ t_state' = [t_state EXCEPT ![c_curthread[c]] = "RUN"]
  /\ c_runqueue_lock' = [c_runqueue_lock EXCEPT ![c] = NULL]
  /\ Goto(c, "exorcise")
  /\ UNCHANGED <<c_curthread, c_runqueue, c_isidle, c_zombies, unidle, chanvars, t_cpu, resume, forked,
                 newstate, woken, migvars>>

\* exorcise and thread_destroy, with their assertions; then the thread runs on.
Exorcise(c) ==
  LET dead == wakeall_target(c_zombies[c]) IN
  /\ pc[c] = "exorcise"
  /\ IF \A z \in dead : z # c_curthread[c] /\ t_state[z] = "ZOMBIE"
       THEN /\ c_zombies' = [c_zombies EXCEPT ![c] = <<>>]
            /\ t_state' = [t \in Threads |-> IF t \in dead THEN "NONE" ELSE t_state[t]]
            /\ t_cpu' = [t \in Threads |-> IF t \in dead THEN NULL ELSE t_cpu[t]]
            /\ Goto(c, resume[c_curthread[c]])
       ELSE Goto(c, "panic") /\ UNCHANGED <<c_zombies, t_state, t_cpu>>
  /\ UNCHANGED <<c_curthread, c_runqueue, c_isidle, c_runqueue_lock, unidle, chanvars, resume, forked,
                 newstate, woken, migvars>>

----------------------------------------------------------------------------
(***************************************************************************)
(* Interrupts, on a running CPU or one that waits in cpu_idle.  The handler *)
(* runs on the stack of the current thread.                                 *)
(***************************************************************************)
\* An interrupt handler starts, on top of thread code or of cpu_idle.
EnterHandler(c, label) ==
  /\ Interruptible(c) \/ pc[c] = "idle"
  /\ resume' = IF Interruptible(c) THEN [resume EXCEPT ![c_curthread[c]] = pc[c]] ELSE resume
  /\ Goto(c, label)
  /\ UNCHANGED <<c_curthread, c_runqueue, c_isidle, c_zombies, c_runqueue_lock, chanvars,
                 t_state, t_cpu, forked, woken, victims>>

\* interprocessor_interrupt with IPI_UNIDLE: to have taken it is all.  mainbus_interrupt
\* drops the interrupt line afterwards, and with it a second IPI that came meanwhile.
UnidleInterrupt(c) ==
  /\ c \in unidle
  /\ EnterHandler(c, "clear_ipi")
  /\ UNCHANGED <<unidle, newstate, mig>>

ClearIpi(c) ==
  /\ pc[c] = "clear_ipi"
  /\ unidle' = unidle \ {c}
  /\ Goto(c, IF c_isidle[c] THEN "relock" ELSE resume[c_curthread[c]])
  /\ UNCHANGED <<c_curthread, c_runqueue, c_isidle, c_zombies, c_runqueue_lock, chanvars, threadvars,
                 newstate, woken, migvars>>

\* A handler that wakes threads (timerclock, or a device's V) takes the channel's
\* spinlock.  On a running CPU this looks like ChanLock by the thread it interrupted.
HandlerLock(c) ==
  /\ pc[c] = "idle"
  /\ lk = NULL
  /\ lk' = c
  /\ Goto(c, "lk_held")
  /\ UNCHANGED <<cpuvars, wchan, threadvars, newstate, woken, migvars>>

\* hardclock ends with thread_yield; on every MIGRATE_HARDCLOCKS-th tick it considers
\* migration first.
HardclockYield(c) ==
  /\ EnterHandler(c, "switch")
  /\ newstate' = [newstate EXCEPT ![c] = "READY"]
  /\ UNCHANGED <<unidle, mig>>

HardclockMigrate(c) ==
  /\ EnterHandler(c, "mig_count")
  /\ newstate' = [newstate EXCEPT ![c] = "READY"]
  /\ mig' = [mig EXCEPT ![c].i = 1]
  /\ UNCHANGED unidle

----------------------------------------------------------------------------
(***************************************************************************)
(* thread_consider_migration, which ends in hardclock's thread_yield.       *)
(***************************************************************************)
DIVROUNDUP(a, b) == (a + b - 1) \div b

\* Mutant: a CPU with less than its share does not return early.
MigCount_NoTest(c) ==
  LET m     == mig[c]
      len   == Len(c_runqueue[m.i])
      total == m.total_count + len
      mine  == IF m.i = c THEN len ELSE m.my_count
      share == DIVROUNDUP(total, NCPU) IN
  /\ pc[c] = "mig_count"
  /\ Free(m.i)
  /\ IF m.i < NCPU
       THEN /\ mig' = [mig EXCEPT ![c] = [m EXCEPT !.i = m.i + 1, !.my_count = mine, !.total_count = total]]
            /\ UNCHANGED pc
       ELSE /\ mig' = [mig EXCEPT ![c] = [NoMigration EXCEPT !.one_share = share, !.to_send = mine - share]]
            /\ Goto(c, "mig_pull")
  /\ UNCHANGED <<cpuvars, chanvars, threadvars, newstate, woken, victims>>

\* Count the threads, one run queue after the other, and compare with a fair share.
MigCount(c) ==
  LET m     == mig[c]
      len   == Len(c_runqueue[m.i])
      total == m.total_count + len
      mine  == IF m.i = c THEN len ELSE m.my_count
      share == DIVROUNDUP(total, NCPU) IN
  /\ pc[c] = "mig_count"
  /\ Free(m.i)
  /\ IF m.i < NCPU
       THEN /\ mig' = [mig EXCEPT ![c] = [m EXCEPT !.i = m.i + 1, !.my_count = mine, !.total_count = total]]
            /\ UNCHANGED pc
       ELSE IF mine < share
              THEN mig' = [mig EXCEPT ![c] = NoMigration] /\ Goto(c, "switch")
              ELSE /\ mig' = [mig EXCEPT ![c] = [NoMigration EXCEPT !.one_share = share, !.to_send = mine - share]]
                   /\ Goto(c, "mig_pull")
  /\ UNCHANGED <<cpuvars, chanvars, threadvars, newstate, woken, victims>>

\* Take to_send threads off the tail of the own queue; threadlist_addhead cannot take NULL.
MigPull(c) ==
  LET len  == Len(c_runqueue[c])
      keep == len - mig[c].to_send IN
  /\ pc[c] = "mig_pull"
  /\ Free(c)
  /\ IF keep >= 0
       THEN /\ victims' = [victims EXCEPT ![c] = SubSeq(c_runqueue[c], keep + 1, len)]
            /\ c_runqueue' = [c_runqueue EXCEPT ![c] = SubSeq(@, 1, keep)]
            /\ mig' = [mig EXCEPT ![c].i = 1]
            /\ Goto(c, "mig_push")
       ELSE Goto(c, "panic") /\ UNCHANGED <<victims, c_runqueue, mig>>
  /\ UNCHANGED <<c_curthread, c_isidle, c_zombies, c_runqueue_lock, unidle, chanvars, threadvars,
                 newstate, woken>>

\* The loop over the other CPUs: skip the own, lock another, or leave.
MigPush(c) ==
  LET m == mig[c] IN
  /\ pc[c] = "mig_push"
  /\ \/ /\ m.i <= NCPU /\ m.to_send > 0 /\ m.i = c
        /\ mig' = [mig EXCEPT ![c].i = @ + 1]
        /\ UNCHANGED <<pc, c_runqueue_lock>>
     \/ /\ m.i <= NCPU /\ m.to_send > 0 /\ m.i # c
        /\ Free(m.i)
        /\ c_runqueue_lock' = [c_runqueue_lock EXCEPT ![m.i] = c]
        /\ Goto(c, "mig_move")
        /\ UNCHANGED mig
     \/ /\ m.i > NCPU \/ m.to_send = 0
        /\ Goto(c, "mig_left")
        /\ UNCHANGED <<mig, c_runqueue_lock>>
  /\ UNCHANGED <<c_curthread, c_runqueue, c_isidle, c_zombies, unidle, chanvars, threadvars,
                 newstate, woken, victims>>

\* A victim that is curthread: skip it (it was woken while its CPU idled on its stack).
MigSkip(c) ==
  /\ pc[c] = "mig_move"
  /\ Len(c_runqueue[mig[c].i]) < mig[c].one_share /\ mig[c].to_send > 0
  /\ Head(victims[c]) = c_curthread[c]
  /\ victims' = [victims EXCEPT ![c] = Append(Tail(@), Head(@))]
  /\ mig' = [mig EXCEPT ![c].to_send = @ - 1]
  /\ UNCHANGED <<cpuvars, chanvars, threadvars, pc, newstate, woken>>

\* Mutant: no test for curthread among the victims.
MigMove_Curthread(c) ==
  LET d == mig[c].i
      t == Head(victims[c]) IN
  /\ pc[c] = "mig_move"
  /\ Len(c_runqueue[d]) < mig[c].one_share /\ mig[c].to_send > 0
  /\ t_cpu' = [t_cpu EXCEPT ![t] = d]
  /\ c_runqueue' = [c_runqueue EXCEPT ![d] = Append(@, t)]
  /\ victims' = [victims EXCEPT ![c] = Tail(@)]
  /\ mig' = [mig EXCEPT ![c].to_send = @ - 1]
  /\ unidle' = IF c_isidle[d] THEN unidle \cup {d} ELSE unidle
  /\ UNCHANGED <<c_curthread, c_isidle, c_zombies, c_runqueue_lock, chanvars, t_state, resume, forked,
                 pc, newstate, woken>>

\* Any other victim goes to the CPU that is short of threads.
MigMove(c) ==
  LET d == mig[c].i
      t == Head(victims[c]) IN
  /\ pc[c] = "mig_move"
  /\ Len(c_runqueue[d]) < mig[c].one_share /\ mig[c].to_send > 0
  /\ t # c_curthread[c]
  /\ t_cpu' = [t_cpu EXCEPT ![t] = d]
  /\ c_runqueue' = [c_runqueue EXCEPT ![d] = Append(@, t)]
  /\ victims' = [victims EXCEPT ![c] = Tail(@)]
  /\ mig' = [mig EXCEPT ![c].to_send = @ - 1]
  /\ unidle' = IF c_isidle[d] THEN unidle \cup {d} ELSE unidle
  /\ UNCHANGED <<c_curthread, c_isidle, c_zombies, c_runqueue_lock, chanvars, t_state, resume, forked,
                 pc, newstate, woken>>

MigUnlock(c) ==
  LET d == mig[c].i IN
  /\ pc[c] = "mig_move"
  /\ Len(c_runqueue[d]) >= mig[c].one_share \/ mig[c].to_send = 0
  /\ c_runqueue_lock' = [c_runqueue_lock EXCEPT ![d] = NULL]
  /\ mig' = [mig EXCEPT ![c].i = @ + 1]
  /\ Goto(c, "mig_push")
  /\ UNCHANGED <<c_curthread, c_runqueue, c_isidle, c_zombies, unidle, chanvars, threadvars,
                 newstate, woken, victims>>

\* Mutant: leftovers are not put back.
MigLeft_Dropped(c) ==
  /\ pc[c] = "mig_left"
  /\ victims' = [victims EXCEPT ![c] = <<>>]
  /\ mig' = [mig EXCEPT ![c] = NoMigration]
  /\ Goto(c, "switch")
  /\ UNCHANGED <<cpuvars, chanvars, threadvars, newstate, woken>>

\* Leftovers go back on the own queue.
MigLeft(c) ==
  /\ pc[c] = "mig_left"
  /\ victims[c] # <<>> => Free(c)
  /\ c_runqueue' = [c_runqueue EXCEPT ![c] = @ \o victims[c]]
  /\ victims' = [victims EXCEPT ![c] = <<>>]
  /\ mig' = [mig EXCEPT ![c] = NoMigration]
  /\ Goto(c, "switch")
  /\ UNCHANGED <<c_curthread, c_isidle, c_zombies, c_runqueue_lock, unidle, chanvars, threadvars,
                 newstate, woken>>

----------------------------------------------------------------------------
Switching(c) ==
  \/ SwitchIdle(c) \/ SwitchLock(c) \/ SwitchPlace(c)
  \/ SwitchPick(c) \/ SwitchUnlock(c) \/ SwitchRelock(c)
  \/ SwitchTail(c) \/ Exorcise(c)

Migrating(c) ==
  \/ MigCount(c) \/ MigPull(c) \/ MigPush(c)
  \/ MigSkip(c) \/ MigMove(c) \/ MigUnlock(c) \/ MigLeft(c)

ThreadCode(c) ==
  \/ \E u \in Threads : ForkCreate(c, u)
  \/ ForkRunnable(c) \/ Exit(c) \/ Yield(c)
  \/ ChanLock(c) \/ ChanUnlock(c) \/ Sleep(c) \/ WakeTake(c) \/ WakeRunnable(c)

Interrupt(c) == UnidleInterrupt(c) \/ ClearIpi(c) \/ HandlerLock(c) \/ HardclockYield(c) \/ HardclockMigrate(c)

Next == \E c \in CPUs : ThreadCode(c) \/ Switching(c) \/ Interrupt(c) \/ Migrating(c)

Spec == Init /\ [][Next]_vars

(***************************************************************************)
(* A CPU goes on with the kernel code it is in, and takes an interrupt that *)
(* is pending; nothing makes a thread fork, exit, sleep or wake.  Fairness  *)
(* is strong where a CPU spins on a run queue lock: its holders keep it for *)
(* a few instructions and come back for it after a timer period.            *)
(***************************************************************************)
Fairness ==
  \A c \in CPUs :
    /\ SF_vars(Switching(c) \/ Migrating(c))
    /\ WF_vars(UnidleInterrupt(c) \/ ClearIpi(c))
    /\ SF_vars(WakeRunnable(c))
    /\ WF_vars(ChanUnlock(c))

FairSpec == Spec /\ Fairness

----------------------------------------------------------------------------
(***************************************************************************)
(* A thread is in exactly one place, whatever sleeps, wakeups, exits and    *)
(* migrations race: running on one CPU, on one run queue, on the channel,   *)
(* in the hands of a CPU that wakes or migrates it or of the thread that    *)
(* forks it, or a zombie.  A thread that was destroyed is nowhere.          *)
(***************************************************************************)
Positions(tag, c, s, t) == {<<tag, c, i>> : i \in {j \in DOMAIN s : s[j] = t}}

On(tag, lists, t) == UNION {Positions(tag, c, lists[c], t) : c \in CPUs}

Places(t) ==
  On("runqueue", c_runqueue, t) \cup On("woken", woken, t)
    \cup On("victims", victims, t) \cup On("zombies", c_zombies, t)
    \cup Positions("wchan", 0, wchan, t)
    \cup {<<"cpu", c, 0>> : c \in {d \in CPUs : c_curthread[d] = t /\ ~c_isidle[d]}}
    \cup {<<"forked", u, 0>> : u \in {v \in Threads : forked[v] = t}}

OnePlace ==
  \A t \in Threads : Cardinality(Places(t)) = IF t_cpu[t] = NULL THEN 0 ELSE 1

(***************************************************************************)
(* A CPU's current thread belongs to it even while the CPU idles on that    *)
(* thread's stack, so no other CPU can pick the thread up and run on the    *)
(* same stack, and exorcise cannot free the stack: what the comment in      *)
(* thread_consider_migration warns of.                                      *)
(***************************************************************************)
CurthreadStays ==
  \A c \in CPUs :
    /\ t_cpu[c_curthread[c]] = c
    /\ \A d \in CPUs \ {c} : /\ c_curthread[d] # c_curthread[c]
                             /\ c_curthread[c] \notin wakeall_target(c_runqueue[d])

(***************************************************************************)
(* An idle CPU with a thread on its queue has the interrupt that will       *)
(* unidle it: the wakeup cannot fall between the test of the queue, the     *)
(* unlocking and cpu_idle.                                                  *)
(***************************************************************************)
IdleHasNoWork == \A c \in CPUs : pc[c] = "idle" /\ c_runqueue[c] # <<>> => c \in unidle

(***************************************************************************)
(* No assertion of exorcise and thread_destroy fails, and the migration     *)
(* never takes a thread from an empty queue although its count is stale,    *)
(* nor does its unsigned to_send fall below zero.                           *)
(***************************************************************************)
NoPanic ==
  \A c \in CPUs :
    /\ pc[c] # "panic"
    /\ mig[c].to_send >= 0
    /\ pc[c] = "mig_move" => Len(victims[c]) >= mig[c].to_send

\* An idle CPU that has been given a thread leaves the idle loop.
IdleEnds == \A c \in CPUs : (c_isidle[c] /\ c_runqueue[c] # <<>>) ~> ~c_isidle[c]
=============================================================================
