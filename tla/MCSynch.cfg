SPECIFICATION MCSpec
CONSTANTS
  Threads = {t1, t2, t3, t4, h}
  Handlers = {h}
  Waiters = {t1, t2, t3}
  initial_count = 1
  MaxCount = 3
  NULL = NULL
INVARIANTS
  NoLostWakeup
  DoIHoldExact
  NoSleepPastRelease
PROPERTIES
  ImplementsAtomic
  LockIsTaken
  CvCallsComplete
  ImplementsMonitor
