SPECIFICATION Spec
CONSTANTS
  Verbs <- WithoutAbor
  ThreadsFail = FALSE
  MaxCommands = 6
INVARIANT BusyMeansUnreported
