SPECIFICATION FairSpec
CONSTANTS
  r1 = r1
  d1 = d1
  q1 = q1
  q2 = q2
  None = None
  Roles = {r1}
  Databases = {}
  Requests = {q1}
  ForeignKeys = {TRUE}
  MaxOps = 3
  MaxFaults = 0
PROPERTIES DeletionIsFinal
CHECK_DEADLOCK FALSE
