CONSTANTS
  NBLOCKS = 9
  SFS_NDIRECT = 1
  SFS_DBPERIDB = 2
  SFS_BLOCKSIZE = 4
  t1 = t1
  t2 = t2
  t3 = t3
  Threads = {t1, t2, t3}
  Names = {a, b}
  Bounds <- MCBounds
  Sizes <- MCSizes
  MaxIO = 6
SPECIFICATION Spec
INVARIANTS NoAssertionFails BlocksAccounted KindsRight LinksExact RefsExact CleanSound DurableNames
SYMMETRY Symmetry
CHECK_DEADLOCK FALSE
