CONSTANTS
  Elem = {e1, e2}
  NULL = NULL
  BlockSize = 3
  ShiftPercent = 50
  MaxBlocks = 3
SPECIFICATION Spec
SYMMETRY Symmetry
INVARIANTS TypeOK OwnsBlocks FrontInLastBlock
PROPERTIES ImplementsQueue
