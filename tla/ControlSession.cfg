SPECIFICATION FairSpec
CONSTANTS
  Verbs <- AllVerbs
  ThreadsFail = TRUE
  MaxCommands = 8
INVARIANTS
  Ledger
  NoThreadOverwritten
  AbortAimsAtItsTransfer
  EndpointsAgree
  WorkersPaired
  NothingLeftBehind
  MisreadNeedsUnpaired
PROPERTIES
  PromptReturns
  SessionEnds
