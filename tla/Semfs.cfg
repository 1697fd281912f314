SPECIFICATION Spec
CONSTANTS
  Threads = {t1, t2, t3}
  NULL = NULL
  Names = {a}
  NSems = 2
  CountMax = 3
  MaxOps = 7
  Failures = 1
INVARIANT
  NoStrandedReader
CHECK_DEADLOCK FALSE
