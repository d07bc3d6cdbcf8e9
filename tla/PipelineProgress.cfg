CONSTANTS
  NStages = 1
  Buffer = {b1, b2}
  NULL = NULL
  Waiter = {}
  SourceActs <- PoliteSourceActs
  StageActs <- EagerStageActs
  SinkActs <- EagerSinkActs
  BlockSize = 8
  Interrupts = FALSE
  MaxItems = 2
  MaxSessions = 1
SPECIFICATION FairSpec
CHECK_DEADLOCK FALSE
PROPERTIES DisableTerminates FilledIsConsumed StopSleeps
