SPECIFICATION FairSpec
CONSTANTS
  Procs = {k, p1, p2, p3}
  kproc = k
  PROCS_MAX = 4
  PID_MAX = 7
  Statuses = {0, 1}
  FailForks = {p1, p2, p3}
  NULL = NULL
INVARIANTS
  NoPanic
  TableSound
  KidsInTable
PROPERTY
  WaitersReturn
