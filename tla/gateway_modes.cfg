\* One session, two requests, every approval mode, under fairness: the second
\* request meets what the first left behind, and a restart may come between.
SPECIFICATION FairSpec
CONSTANTS
  g1 = g1  g2 = g2  read = read  shell = shell  scan = scan  ann = ann  bob = bob
  Gateways = {g1}
  Tools = {read, scan}
  UnknownTool = UnknownTool
  ListTools = ListTools
  NumServers = 2
  ServerOf <- TwoServers
  ToolTier <- TwoServerTiers
  DefaultTier <- TwoServerDefaults
  TierActions <- Actions
  Modes = {"queue", "tty", "auto_approve", "auto_deny"}
  Operators = {ann}
  MaxCalls = 2
  MaxClock = 2
INVARIANTS TypeOK DeniedNeverRuns AnswerMatchesAudit RunIsAudited NothingHeld
PROPERTIES EveryRequestEnds ContainersGo AnswerIsFinal ImplementsGate
CHECK_DEADLOCK FALSE
