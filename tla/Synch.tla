------------------------------- MODULE Synch --------------------------------
(***************************************************************************)
(* What the models of kern/thread/synch.c share: threads that run the       *)
(* functions of a primitive step by step, each at a place of its own.       *)
(***************************************************************************)
EXTENDS Integers, FiniteSets, Wchan

CONSTANTS
  Threads,  \* the callers
  NULL

ASSUME ThreadAssumption == NULL \notin Threads /\ IsFiniteSet(Threads)

VARIABLE pc   \* where each thread is in the function it is in

Goto(t, label) == pc' = [pc EXCEPT ![t] = label]
=============================================================================
