CONSTANTS
  NStages = 1
  Buffer = {b1, b2}
  NULL = NULL
  Waiter = {}
  SourceActs <- AnySourceActs
  StageActs <- OneToOneStageActs
  SinkActs <- AnySinkActs
  BlockSize = 1
  Interrupts = FALSE
  MaxItems = 3
  MaxSessions = 1
SPECIFICATION Spec
SYMMETRY Symmetry
CHECK_DEADLOCK FALSE
PROPERTIES ImplementsStream
