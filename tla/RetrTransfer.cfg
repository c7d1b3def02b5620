SPECIFICATION FairSpec
CONSTANTS
  File <- ThreeChunks
  OldFile <- Unrelated
  ReceiveWindow = 2
  InitialCwnd = 3
  MaxRetries = 1
INVARIANTS
  Inv
  WrittenIsPrefix
  CompleteReplyMeansSaved
  ResponsesMatchDisk
  AckedIsReceived
  WindowNeverOverrun
PROPERTIES
  DestinationReplacedWhole
  TransferEnds
  ContractSpec
