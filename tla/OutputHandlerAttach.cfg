SPECIFICATION HandlerSpec
CONSTANTS
  Sizes <- OneSize
  Letters = {"a"}
  TabWidth = 2
  MaxScrolls = 1
  MessageLimit = 6
  RunningFrame = 1
  StoppedFrames = {2, 3}
  MaxOutputs = 6
INVARIANTS
  AttachedWhenDue
CHECK_DEADLOCK FALSE
