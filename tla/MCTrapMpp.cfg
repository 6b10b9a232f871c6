SPECIFICATION Spec
CONSTANTS
  Builds <- PagingBuild
  AllIrqs <- Interrupts
  AllExs <- Exceptions
  Addrs = {1}
  MPPs <- AllModes
  MaxFlips = 1
  DutStates = {}
INVARIANT TranslatesForUOrS
