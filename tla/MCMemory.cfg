SPECIFICATION AllSpec
CONSTANTS
  Builds <- TlbBuilds
  PTW_LEVEL = 2
  VPNS = 2
  PPNS = 4
  Pmem = {0, 1, 2}
  Mems <- TlbMems
  Stats <- TlbStats
  Requests <- TlbRequests
  HOSTTLB_SIZE = 1
  PteSlots <- TlbSlots
  PteValues <- Values
INVARIANTS EntriesWereMapped AsWalkedWhileQuiet CsrSound
PROPERTIES TablesWalked DasicsJumps
