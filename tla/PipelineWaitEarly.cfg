CONSTANTS
  NStages = 0
  Buffer = {b1, b2}
  NULL = NULL
  Waiter = {t1}
  SourceActs <- PoliteSourceActs
  StageActs <- EagerStageActs
  SinkActs <- EagerSinkActs
  BlockSize = 8
  Interrupts = FALSE
  MaxItems = 1
  MaxSessions = 1
SPECIFICATION Spec
CHECK_DEADLOCK FALSE
PROPERTIES WaitReturnsQuiescent
