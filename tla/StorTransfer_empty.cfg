SPECIFICATION Spec
CONSTANTS
  File <- TwoChunks
  OldFile <- Unrelated
  Absent = Absent
  EmptyChunk = EmptyChunk
  DiskFails = FALSE
  ReceiveWindow = 2
  MaxRetries = 2
INVARIANT ReceivedAppendIsStored
