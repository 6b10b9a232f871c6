SPECIFICATION AllSpec
CONSTANTS
  Builds <- PlainOnly
  BlockSize = 3
  MaxExecuted = 9
  MaxTraps = 2
  MaxCalls = 3
  UINT = 1000
INVARIANT AtMostMaxInstr
