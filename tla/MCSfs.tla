-------------------------------- MODULE MCSfs --------------------------------
EXTENDS SfsSystem, TLC

CONSTANTS t1, t2, t3

\* A write that ends in the first block behind the indirect block, and one to the second
\* of them that leaves a hole.
Across == <<3, 2>>
Hole == <<8, 1>>
MCSizes == {0, 4}

\* Two threads in every order; then with a read that fails, or a machine that stops, on a
\* volume with a file; one thread and more operations before either happens.
Bound(ts, n, f, c, full, ws) ==
  [threads |-> ts, ops |-> n, faults |-> f, fails |-> {"read"}, crashes |-> c, full |-> full, writes |-> ws]
MCBounds ==
  {Bound({t1, t2}, 3, 0, 0, FALSE, {}), Bound({t1, t2}, 1, 1, 0, TRUE, {Across}), Bound({t1, t2}, 1, 0, 1, TRUE, {Across}),
   Bound({t3}, 2, 1, 0, TRUE, {Across, Hole}), Bound({t3}, 3, 0, 1, FALSE, {Across, Hole}),
   Bound({t3}, 2, 0, 1, TRUE, {Across, Hole})}

\* One thread, and a write that the device fails.
LossBounds == {[Bound({t3}, 3, 1, 0, FALSE, {}) EXCEPT !.fails = {"write"}]}

Symmetry == Permutations(Names) \cup Permutations({t1, t2})
=============================================================================
