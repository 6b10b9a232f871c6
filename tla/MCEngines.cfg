SPECIFICATION AllSpec
CONSTANTS
  Prog <- MixProg
  Reset = 0
  Handler = 4
  TCACHE_SIZE = 5
  BB_LIST_SIZE = 2
  BB_POOL_SIZE = 1
  Interrupts = {3, 4}
INVARIANTS TcacheSound FirmwareTransparent
PROPERTIES ImplementsPlain FpStateSound
