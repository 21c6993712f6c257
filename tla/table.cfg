\* Two events of one session and another with none; two history requests in
\* flight, one row in an answer; pages and a cap of one row; two of
\* disconnection, lost and repeated message.
SPECIFICATION Spec
CONSTANTS
  Sessions = {"s1", "s2"}
  Event <- TwoEvents
  QuickFilters <- AlertsOrAll
  ColumnFilters <- PlainOrAll
  PageSize = 1
  MaxRows = 1
  HistoryLimit = 1
  MaxRequests = 2
  MaxFailures = 2
INVARIANTS TypeOK DomMatchesView TableComplete NewestFirst
CHECK_DEADLOCK FALSE
