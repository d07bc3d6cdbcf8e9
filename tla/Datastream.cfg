CONSTANTS
  NStages = 1
  Buffer = {b1, b2}
  NULL = NULL
  Waiter = {t1}
  SourceActs <- PayloadSourceActs
  StageActs <- PayloadStageActs
  SinkActs <- PayloadSinkActs
  BlockSize = 8
  Interrupts = TRUE
  MaxItems = 2
  MaxSessions = 1
SPECIFICATION DSpec
INVARIANTS NothingUsesFreed EveryBufferFreed
PROPERTIES ProgramEnds FinishResumesWaiter WaitReturnsAfterSource
CHECK_DEADLOCK FALSE
