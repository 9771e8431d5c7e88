SPECIFICATION Spec
CONSTANTS
  n1 = n1
  n2 = n2
  n3 = n3
  s1 = s1
  r1 = r1
  r2 = r2
  None = None
  Nodes = {n1, n2, n3}
  FirstPrimary = n1
  Servers = {s1}
  Requests = {}
  ServedBy <- MCServedBy
  Timeout = 0
  Prompt = FALSE
  MaxPromotions = 2
  MaxCrashes = 1
  MaxEtcdFaults = 1
  MaxErrors = 1
  MaxFaults = 1
SYMMETRY ReplicaSymmetry
ACTION_CONSTRAINT OneDisturbance
INVARIANTS
  TypeOK
  PrimaryRecorded
  PromoteIsLastForPrimary
  ExtraPrimariesAccounted
