SPECIFICATION Spec
CONSTANTS
  CPUs = {c1, c2}
  Threads = {t1, t2, t3}
  Locks = {1, 2}
  NULL = NULL
SYMMETRY Symmetry
INVARIANTS
  SpinlockExclusion
  InterruptsMasked
  InterruptsRestored
  NoPanic
