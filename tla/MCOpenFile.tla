----------------------------- MODULE MCOpenFile -----------------------------
\* OpenFile for TLC: processes and files are interchangeable.
EXTENDS OpenFile, TLC

Symmetry == Permutations(Procs) \cup Permutations(Files)
=============================================================================
