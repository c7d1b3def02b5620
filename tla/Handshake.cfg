SPECIFICATION FairSpec
CONSTANTS
  MaxAttempts = 2
  Window = 2
  Last = 2
INVARIANTS
  Inv
  ReadyMeansHeard
  WrittenInOrder
  AckedIsKept
  DoneMeansReceived
PROPERTY BothEnd
