------------------------------ MODULE Monitor -------------------------------
(***************************************************************************)
(* What kern/include/synch.h promises of a lock and a condition variable:   *)
(* cv_wait releases the lock and waits in one step, cv_signal wakes the     *)
(* thread that has waited longest, cv_broadcast wakes all, and a woken      *)
(* thread acquires the lock like any other.                                 *)
(***************************************************************************)
EXTENDS Wchan

CONSTANTS Threads, NULL

VARIABLES
  owner,    \* the holder of the lock, or NULL
  waiting   \* the threads that wait, first to be woken first

Init == owner = NULL /\ waiting = <<>>

Acquire(t) ==
  /\ owner = NULL /\ t \notin wakeall_target(waiting)
  /\ owner' = t
  /\ UNCHANGED waiting

Release(t) == owner = t /\ owner' = NULL /\ UNCHANGED waiting

Wait(t) ==
  /\ owner = t
  /\ owner' = NULL
  /\ waiting' = wchan_sleep(waiting, t)

Signal(t) == owner = t /\ waiting' = wchan_wakeone(waiting) /\ UNCHANGED owner

Broadcast(t) == owner = t /\ waiting' = wchan_wakeall(waiting) /\ UNCHANGED owner

Next == \E t \in Threads : Acquire(t) \/ Release(t) \/ Wait(t) \/ Signal(t) \/ Broadcast(t)

Spec == Init /\ [][Next]_<<owner, waiting>>
=============================================================================
