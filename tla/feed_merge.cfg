\* A merge of one session's history while the other's events are on their way.
SPECIFICATION Spec
CONSTANTS
  page1 = page1  s1 = s1  s2 = s2
  Clients = {page1}
  Sessions = {s1, s2}
  QueueSize = 2
  PageSize = 2
  MaxEvents = 2
  AgePruning = FALSE
  MaxSeq = 2
  MaxFailures = 1
INVARIANT NoMergeGap
CHECK_DEADLOCK FALSE
