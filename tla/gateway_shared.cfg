\* Two Goose sessions at once share the state directory: both gateways queue
\* their HIGH calls, may take the same call_id, and may be killed. Two people run
\* approve.py, and may open and write the same decision file in any order.
SPECIFICATION Spec
CONSTANTS
  g1 = g1  g2 = g2  read = read  shell = shell  scan = scan  ann = ann  bob = bob
  Gateways = {g1, g2}
  Tools = {read, shell}
  UnknownTool = UnknownTool
  ListTools = ListTools
  NumServers = 1
  ServerOf <- OneServer
  ToolTier <- OneServerTiers
  DefaultTier <- OneServerDefaults
  TierActions <- Actions
  Modes = {"queue"}
  Operators = {ann, bob}
  MaxCalls = 1
  MaxClock = 2
SYMMETRY Symmetry
INVARIANTS HighNeedsApproval ApprovalNamesTheCall PendingIsWaiting
CHECK_DEADLOCK FALSE
