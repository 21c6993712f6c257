\* One call and no failure: its decision takes longer than the window.
SPECIFICATION Spec
CONSTANTS
  c1 = c1  c2 = c2  bash = bash  target = target  password = password
  NoKey = NoKey
  Redacted = Redacted
  Calls = {c1}
  Tools = {bash}
  Keys = {target}
  Secrets = {}
  Window = 1
  MaxRecords = 2
  MaxTime = 3
  MaxFailures = 0
PROPERTY DecisionShown
CHECK_DEADLOCK FALSE
