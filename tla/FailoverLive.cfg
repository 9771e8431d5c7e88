SPECIFICATION FairSpec
CONSTANTS
  n1 = n1
  n2 = n2
  n3 = n3
  s1 = s1
  r1 = r1
  r2 = r2
  None = None
  Nodes = {n1, n2}
  FirstPrimary = n1
  Servers = {s1}
  Requests = {r1}
  ServedBy <- MCServedBy
  Timeout = 1
  Prompt = TRUE
  MaxPromotions = 4
  MaxCrashes = 0
  MaxEtcdFaults = 0
  MaxErrors = 0
  MaxFaults = 1
PROPERTY
  DeadPrimaryReplaced
