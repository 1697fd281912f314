----------------------------- MODULE MCSpinlock -----------------------------
(* Two CPUs, three threads (so that one is always switched away), two        *)
(* ordinary spinlocks and the two run queue locks.                           *)
EXTENDS Spinlock, TLC

\* CPUs and threads are interchangeable; the ordered locks are not.
Symmetry == Permutations(CPUs) \cup Permutations(Threads)
=============================================================================
