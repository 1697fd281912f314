SPECIFICATION FairSpec
CONSTANTS
  NCPU = 2
  Threads = {t1, t2}
  NULL = NULL
PROPERTIES
  IdleEnds
