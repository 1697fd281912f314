SPECIFICATION Spec
CONSTANTS
  Procs = {k, p1, p2}
  kproc = k
  PROCS_MAX = 4
  PID_MAX = 7
  Statuses = {0}
  FailForks = {k, p1, p2}
  NULL = NULL
INVARIANT
  NoPanic
