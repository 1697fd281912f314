SPECIFICATION Spec
CONSTANTS
  NCPU = 2
  Threads = {t1, t2, t3, t4}
  NULL = NULL
SYMMETRY Symmetry
INVARIANTS
  OnePlace
  CurthreadStays
  IdleHasNoWork
  NoPanic
