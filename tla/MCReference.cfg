SPECIFICATION AllSpec
CONSTANTS
  STORE_QUEUE_SIZE = 3
  Addrs <- MCAddrs
  Data = {1}
  MaxPending = 4
INVARIANTS QueueIsPending CheckIsExact AmoTracksAtomics DifftestSound GdbSound
  CheckpointsScheduled CheckpointsRestored KconfigAsWritten
PROPERTIES AnswersDecide BuildInStep ReferenceProgress
