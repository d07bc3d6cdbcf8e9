CONSTANTS
  NStages = 1
  Buffer = {b1, b2}
  NULL = NULL
  Waiter = {}
  SourceActs <- AnySourceActs
  StageActs <- AnyStageActs
  SinkActs <- AnySinkActs
  BlockSize = 1
  Interrupts = FALSE
  MaxItems = 2
  MaxSessions = 2
SPECIFICATION Spec
SYMMETRY Symmetry
CHECK_DEADLOCK FALSE
INVARIANTS TypeOK Ownership TokensMatch CallbackHasBuffers DisabledIsClean DisabledIsDone
PROPERTIES NeverBackwards
