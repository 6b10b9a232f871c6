SPECIFICATION AllSpec
CONSTANTS
  Prog <- JrFaultProg
  Reset = 0
  Handler = 7
  TCACHE_SIZE = 12
  BB_LIST_SIZE = 2
  BB_POOL_SIZE = 6
  Interrupts = {}
INVARIANT LinksAreTargets
