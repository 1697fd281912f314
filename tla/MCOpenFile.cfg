SPECIFICATION Spec
CONSTANTS
  Procs = {p1, p2, p3}
  Files = {f1, f2}
  OPEN_MAX = 2
  STD_FDS = 1
  MaxOffset = 1
  NULL = NULL
SYMMETRY Symmetry
INVARIANTS
  NoPanic
  RefcountExact
  OffsetNotStale
