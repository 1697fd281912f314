------------------------------ MODULE MCSched -------------------------------
EXTENDS Sched, TLC

\* Threads are interchangeable; CPUs are not, the migration visits them in order.
Symmetry == Permutations(Threads)
=============================================================================
