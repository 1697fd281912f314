SPECIFICATION Spec
CONSTANTS
  CPUs = {c1, c2}
  Mappings = {m1, m2}
  TLBSHOOTDOWN_MAX = 1
  Threads = {t1, t2, t3}
  NULL = NULL
  CONSOLE_INPUT_BUFFER_SIZE = 2
  SerialSlot = 1
  MaxOut = 1
  IoThreads = {d1, d2}
  Nobody = Nobody
  DiskSlot = 2
  Sectors = 2
  MaxSectors = 2
  EmuThreads = {e1, e2}
  EmuSlot = 3
  Handles = {1, 2}
  EMU_RETRIES = 1
  Loads <- MCLoads
INVARIANTS
  ShootdownServed
  SerialInTurn
  InputExact
  TransferIsOwn
  HandlesSound
PROPERTIES
  DriversFinish
CHECK_DEADLOCK FALSE
