SPECIFICATION Spec
CONSTANTS
  MaxLength = 6
  ChunkSize = 2
INVARIANTS
  Inv
  PiecesFit
  OneFinalChunk
  CompleteUnlessBroken
