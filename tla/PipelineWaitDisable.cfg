CONSTANTS
  NStages = 0
  Buffer = {b1}
  NULL = NULL
  Waiter = {t1}
  SourceActs <- AnySourceActs
  StageActs <- EagerStageActs
  SinkActs <- EagerSinkActs
  BlockSize = 8
  Interrupts = FALSE
  MaxItems = 1
  MaxSessions = 1
SPECIFICATION FairSpec
CHECK_DEADLOCK FALSE
PROPERTIES DisableResumesWaiter
