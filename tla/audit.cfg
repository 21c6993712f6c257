\* An index of one line; two of rows, inserts and polls that fail, a rotation and
\* a restart.
SPECIFICATION Spec
CONSTANTS
  c1 = c1  c2 = c2  bash = bash   target = target  password = password
  NoKey = NoKey
  Redacted = Redacted
  Calls = {c1, c2}
  Tools = {bash}
  Keys = {target, password}
  Secrets = {password}
  Window = 1
  MaxRecords = 1
  MaxTime = 3
  MaxFailures = 2
SYMMETRY Symmetry
INVARIANTS TypeOK OneCallPerLine LabelIsOwn PassedIsDelivered
PROPERTY MissedForAReason
CHECK_DEADLOCK FALSE
