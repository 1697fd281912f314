-------------------------- MODULE AtomicSemaphore ---------------------------
(***************************************************************************)
(* What kern/include/synch.h promises of a semaphore: P waits until the     *)
(* count is greater than 0 and decrements it, V increments it, and each     *)
(* does so in one step.                                                     *)
(***************************************************************************)
EXTENDS Naturals

CONSTANTS Threads, initial_count

VARIABLES
  count,
  phase   \* the operation each thread has called and not completed

Init == count = initial_count /\ phase = [t \in Threads |-> "out"]

Call(t, op) ==
  /\ phase[t] = "out"
  /\ phase' = [phase EXCEPT ![t] = op]
  /\ UNCHANGED count

P(t) ==
  /\ phase[t] = "P"
  /\ count > 0
  /\ count' = count - 1
  /\ phase' = [phase EXCEPT ![t] = "out"]

V(t) ==
  /\ phase[t] = "V"
  /\ count' = count + 1
  /\ phase' = [phase EXCEPT ![t] = "out"]

Next == \E t \in Threads : Call(t, "P") \/ Call(t, "V") \/ P(t) \/ V(t)

Spec == Init /\ [][Next]_<<count, phase>>
=============================================================================
