CONSTANTS
  SizeLimit = 64
  MinAllocCap = 16
  MaxBuffers = 4
  Shrinks = FALSE
  ResizesPaused = FALSE
  MemoryFails = TRUE
SPECIFICATION LSpec
INVARIANTS TypeOK Conserved PutBackFits AssertionsPass SomebodyRuns
PROPERTIES AtomicSections
CHECK_DEADLOCK FALSE
