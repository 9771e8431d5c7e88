SPECIFICATION Spec
CONSTANTS
  n1 = n1
  n2 = n2
  n3 = n3
  s1 = s1
  r1 = r1
  r2 = r2
  None = None
  Nodes = {n1, n2, n3}
  FirstPrimary = n1
  Servers = {s1}
  Requests = {r1, r2}
  ServedBy <- MCServedBy
  Timeout = 0
  Prompt = TRUE
  MaxPromotions = 2
  MaxCrashes = 0
  MaxEtcdFaults = 0
  MaxErrors = 0
  MaxFaults = 0
INVARIANT
  ExtraPrimariesAccounted
