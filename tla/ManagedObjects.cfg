SPECIFICATION FairSpec
CONSTANTS
  r1 = r1
  d1 = d1
  q1 = q1
  q2 = q2
  None = None
  Roles = {r1}
  Databases = {d1}
  Requests = {q1, q2}
  ForeignKeys = {TRUE, FALSE}
  MaxOps = 4
  MaxFaults = 1
INVARIANTS
  TypeOK
  ReadyIsUsable
  GoneIsDropped
  SecretsFollowCommands
PROPERTIES
  OperationsEnd
CHECK_DEADLOCK FALSE
