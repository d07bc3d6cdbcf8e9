CONSTANTS
  SizeLimit = 64
  MinAllocCap = 16
  MaxBuffers = 4
  Shrinks = FALSE
  ResizesPaused = TRUE
  MemoryFails = FALSE
SPECIFICATION Spec
INVARIANTS AssertHolds
