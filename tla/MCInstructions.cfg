SPECIFICATION AllSpec
CONSTANTS
  PMP_NUM = 2
  PADDRBITS = 6
  GRAIN = 4
  PermsWritten <- Settings
INVARIANTS PmpChecked  X86AndMipsAsManual
PROPERTIES LockedRegionKept
