\* Two events of one session, a queue of one and pages of one, so that the
\* backlog takes several pages and the queue overflows; retention by age; two
\* of disconnection, crash and repeat; fairness.
SPECIFICATION FairSpec
CONSTANTS
  page1 = page1  s1 = s1  s2 = s2
  Clients = {page1}
  Sessions = {s1}
  QueueSize = 1
  PageSize = 1
  MaxEvents = 2
  AgePruning = TRUE
  MaxSeq = 2
  MaxFailures = 2
INVARIANTS TypeOK StreamInOrder NothingBetween NoSilentGap
PROPERTY CatchesUp
CHECK_DEADLOCK FALSE
