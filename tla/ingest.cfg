\* Rewrites, failing messages, a failing poll, a restart and retention.
SPECIFICATION FairSpec
CONSTANTS
  Conversation <- TwoCalls
  MaxId = 7
  MaxErrors = 1
  MaxPollErrors = 1
  MaxCrashes = 1
  MaxPruned = 1
INVARIANTS TypeOK CountsAreDistinct PrunedStaysOut NothingLost
PROPERTY CatchesUp
CHECK_DEADLOCK FALSE
