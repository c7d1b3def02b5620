SPECIFICATION FairSpec
CONSTANTS
  File <- ThreeChunks
  OldFile <- Unrelated
  Absent = Absent
  EmptyChunk = EmptyChunk
  DiskFails = TRUE
  ReceiveWindow = 2
  MaxRetries = 2
INVARIANTS
  TypeOK
  Inv
  LockStep
  CompleteReplyMeansStored
  NothingLeftBehind
PROPERTIES
  DestinationReplacedWhole
  TransferEnds
