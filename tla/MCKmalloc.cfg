SPECIFICATION Spec
CONSTANTS
  NULL = NULL
  t1 = t1
  t2 = t2
  as2 = as2
  Threads = {t1, t2}
  BootThread = t1
  Machines <- MCMachines
  PAGE_SIZE = 12
  ENTRY_SIZE = 2
  MIPS_KSEG0 = 168
  MaxSteal = 2
  sizes <- MCSizes
  NUM_PAGEREFPAGES = 2
  NPAGEREFS_PER_PAGE = 2
  Requests <- MCRequests
  MaxBlocks = 3
INVARIANTS NoPanic BlocksDisjoint HeapSound PagesAccounted
CONSTRAINT SoFarGood
CHECK_DEADLOCK FALSE
