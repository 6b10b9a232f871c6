SPECIFICATION AllSpec
CONSTANTS
  Builds <- AllBuilds
  BlockSize = 3
  MaxExecuted = 8
  MaxTraps = 2
  MaxCalls = 3
  UINT = 1000
INVARIANTS BudgetIsCounted RunsItsBudget RightOrRejected TimerSound RequestsEndOnce
PROPERTIES DebuggerSound UserAreasSound KeyboardIsChannel SerialIsChannel MipsTlbSound
  MachineProgress
