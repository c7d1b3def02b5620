SPECIFICATION Spec
CONSTANTS
  File <- TwoChunks
  OldFile <- Unrelated
  Absent = Absent
  EmptyChunk = EmptyChunk
  DiskFails = TRUE
  ReceiveWindow = 2
  MaxRetries = 2
INVARIANT CancelledAppendPreserves
