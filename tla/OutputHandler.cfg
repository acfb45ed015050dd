SPECIFICATION HandlerSpec
CONSTANTS
  Sizes <- SmallSizes
  Letters = {"a"}
  TabWidth = 2
  MaxScrolls = 1
  MessageLimit = 6
  RunningFrame = 1
  StoppedFrames = {2, 3}
  MaxOutputs = 6
INVARIANTS
  TypeOK
  NeverRaises
  BufferMatchesState
  HandlerTypeOK
  OutputIsDelivered
  StoppedJobsLeave
PROPERTIES
  KeepsPaper
CHECK_DEADLOCK FALSE
