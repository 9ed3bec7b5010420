SPECIFICATION Spec
CONSTANTS
  Bytes <- AllBytes
  Chunks <- Pieces
  MaxLength = 23
INVARIANTS TypeOK PiecesHashAsWhole
CHECK_DEADLOCK FALSE
