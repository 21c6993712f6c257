\* A restart between a request and its response, and nothing else.
SPECIFICATION Spec
CONSTANTS
  Conversation <- TwoCalls
  MaxId = 4
  MaxErrors = 0
  MaxPollErrors = 0
  MaxCrashes = 1
  MaxPruned = 0
INVARIANT RestartLosesNothing
CHECK_DEADLOCK FALSE
