SPECIFICATION AllSpec
CONSTANTS
  STORE_QUEUE_SIZE = 3
  Addrs <- MCAddrs
  Data = {1}
  MaxPending = 4
INVARIANT CatchesUp
