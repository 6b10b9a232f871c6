SPECIFICATION AllSpec
CONSTANTS
  Prog <- BranchesProg
  Reset = 0
  Handler = 6
  TCACHE_SIZE = 8
  BB_LIST_SIZE = 2
  BB_POOL_SIZE = 6
  Interrupts = {0, 1, 2, 3, 4, 5, 6}
INVARIANT RecordAvailable
