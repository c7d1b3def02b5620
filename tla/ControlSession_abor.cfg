SPECIFICATION Spec
CONSTANTS
  Verbs <- AllVerbs
  ThreadsFail = FALSE
  MaxCommands = 7
INVARIANT ReadsOwnReply
