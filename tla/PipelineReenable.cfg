CONSTANTS
  NStages = 0
  Buffer = {b1}
  NULL = NULL
  Waiter = {}
  SourceActs <- PoliteSourceActs
  StageActs <- EagerStageActs
  SinkActs <- EagerSinkActs
  BlockSize = 8
  Interrupts = FALSE
  MaxItems = 1
  MaxSessions = 2
SPECIFICATION Spec
CHECK_DEADLOCK FALSE
PROPERTIES EnableMakesThreads
