----------------------------- MODULE Semaphore ------------------------------
(***************************************************************************)
(* The counting semaphore of kern/thread/synch.c: P and V by any number of  *)
(* threads, and V by interrupt handlers, with the semaphore's spinlock and  *)
(* wait channel explicit.  A thread woken by V is not given the count: it   *)
(* takes the spinlock again and tests again, and may find that a thread     *)
(* that never slept was faster.                                             *)
(***************************************************************************)
EXTENDS Synch

CONSTANTS
  Handlers,      \* the callers that are interrupt handlers: they may not call P
  initial_count, \* sem_create's argument
  MaxCount       \* bound: V is not called at this count, far below UINT_MAX

ASSUME HandlerAssumption == Handlers \subseteq Threads
ASSUME CountAssumption == initial_count \in Nat /\ MaxCount \in Nat

VARIABLES
  sem_lock,   \* the thread whose CPU holds the spinlock, or NULL
  sem_count,
  sem_wchan   \* the sleeping threads, first to be woken first

vars == <<sem_lock, sem_count, sem_wchan, pc>>

\* sem_create.
Init ==
  /\ sem_lock = NULL
  /\ sem_count = initial_count
  /\ sem_wchan = <<>>
  /\ pc = [t \in Threads |-> "out"]

\* The woken threads return from thread_switch and go for the spinlock.
GotoWaking(t, label, woken) ==
  pc' = [u \in Threads |-> IF u = t THEN label ELSE IF u \in woken THEN "P_spin" ELSE pc[u]]

----------------------------------------------------------------------------
Call(t) ==
  /\ pc[t] = "out"
  /\ \/ t \notin Handlers /\ Goto(t, "P_spin")
     \/ sem_count < MaxCount /\ Goto(t, "V_spin")
  /\ UNCHANGED <<sem_lock, sem_count, sem_wchan>>

\* spinlock_acquire: entering P or V, or returning to P from wchan_sleep.
SpinAcquire(t) ==
  /\ sem_lock = NULL
  /\ sem_lock' = t
  /\ \/ pc[t] = "P_spin" /\ Goto(t, "P_test")
     \/ pc[t] = "V_spin" /\ Goto(t, "V_inc")
  /\ UNCHANGED <<sem_count, sem_wchan>>

\* P's loop: sleep, which lets the spinlock go once the thread is on the channel...
P_sleep(t) ==
  /\ pc[t] = "P_test"
  /\ sem_count = 0
  /\ sem_wchan' = wchan_sleep(sem_wchan, t)
  /\ sem_lock' = NULL
  /\ Goto(t, "asleep")
  /\ UNCHANGED sem_count

\* ...or leave the loop.
P_leave(t) ==
  /\ pc[t] = "P_test"
  /\ sem_count # 0
  /\ Goto(t, "P_take")
  /\ UNCHANGED <<sem_lock, sem_count, sem_wchan>>

\* The assertion that the count is positive, the decrement, the spinlock's release.
P_take(t) ==
  /\ pc[t] = "P_take"
  /\ IF sem_count > 0
       THEN /\ sem_count' = sem_count - 1
            /\ sem_lock' = NULL
            /\ Goto(t, "out")
       ELSE Goto(t, "panic") /\ UNCHANGED <<sem_count, sem_lock>>
  /\ UNCHANGED sem_wchan

\* Mutant: V hands its unit to a sleeper instead of counting it, but the woken thread tests the count.
V_increment_HandsOff(t) ==
  /\ pc[t] = "V_inc"
  /\ sem_count' = IF sem_wchan = <<>> THEN sem_count + 1 ELSE sem_count
  /\ Goto(t, "V_wake")
  /\ UNCHANGED <<sem_lock, sem_wchan>>

V_increment(t) ==
  /\ pc[t] = "V_inc"
  /\ sem_count' = sem_count + 1
  /\ Goto(t, "V_wake")
  /\ UNCHANGED <<sem_lock, sem_wchan>>

\* Mutant: V wakes a sleeper only when the count was 0 before.
V_wake_OnlyFromZero(t) ==
  /\ pc[t] = "V_wake"
  /\ IF sem_count = 1
       THEN sem_wchan' = wchan_wakeone(sem_wchan) /\ GotoWaking(t, "out", wakeone_target(sem_wchan))
       ELSE Goto(t, "out") /\ UNCHANGED sem_wchan
  /\ sem_lock' = NULL
  /\ UNCHANGED sem_count

\* wchan_wakeone and spinlock_release.
V_wake(t) ==
  /\ pc[t] = "V_wake"
  /\ sem_wchan' = wchan_wakeone(sem_wchan)
  /\ GotoWaking(t, "out", wakeone_target(sem_wchan))
  /\ sem_lock' = NULL
  /\ UNCHANGED sem_count

----------------------------------------------------------------------------
Operation(t) ==
  \/ SpinAcquire(t)
  \/ P_sleep(t) \/ P_leave(t) \/ P_take(t)
  \/ V_increment(t) \/ V_wake(t)

Next == \E t \in Threads : Call(t) \/ Operation(t)

Spec == Init /\ [][Next]_vars

----------------------------------------------------------------------------
Labels == {"out", "P_spin", "P_test", "asleep", "P_take", "V_spin", "V_inc", "V_wake", "panic"}

\* Every variable has its declared type; an unsigned count is never negative.
TypeOK ==
  /\ sem_lock \in Threads \cup {NULL}
  /\ sem_count \in Nat
  /\ sem_wchan \in Seq(Threads)
  /\ pc \in [Threads -> Labels]

\* P's assertion "sem_count > 0" after its loop never fails.
NoPanic == \A t \in Threads : pc[t] # "panic"

\* The channel holds exactly the threads asleep in P, each once.
Sleepers == {t \in Threads : pc[t] = "asleep"}
SleepersOnChannel == Lists(sem_wchan, Sleepers)

(***************************************************************************)
(* No wakeup is lost, whoever overtakes whom: as long as threads sleep,     *)
(* every unit of the count has a thread on its way to it, one that is in P  *)
(* but not asleep, or one in V that is about to wake a sleeper.             *)
(***************************************************************************)
OnTheWay == {t \in Threads : pc[t] \in {"P_spin", "P_test", "P_take", "V_wake"}}

NoLostWakeup == sem_wchan # <<>> => sem_count <= Cardinality(OnTheWay)

----------------------------------------------------------------------------
(***************************************************************************)
(* P and V are atomic: the steps above implement a semaphore whose P waits  *)
(* for a positive count and takes one in a single step.                     *)
(***************************************************************************)
Phase(t) ==
  CASE pc[t] \in {"P_spin", "P_test", "asleep", "P_take"} -> "P"
    [] pc[t] \in {"V_spin", "V_inc"} -> "V"
    [] OTHER -> "out"

phase == [t \in Threads |-> Phase(t)]

Atomic == INSTANCE AtomicSemaphore WITH count <- sem_count

\* The semaphore implements the atomic one.
ImplementsAtomic == Atomic!Spec
=============================================================================
