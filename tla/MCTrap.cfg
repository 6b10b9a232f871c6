SPECIFICATION Spec
CONSTANTS
  Builds <- AllBuilds
  AllIrqs <- Interrupts
  AllExs <- Exceptions
  Addrs = {1}
  MPPs <- LegalModes
  MaxFlips = 1
  DutStates <- Duts
INVARIANTS MmuStateFresh TrapFramesKept
PROPERTIES QueryMatchesRaise HandlerRunsMasked NoSilentEnable
