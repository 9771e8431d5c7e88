SPECIFICATION FairSpec
CONSTANTS
  n1 = n1
  n2 = n2
  q1 = q1
  q2 = q2
  None = None
  Nodes = {n1}
  Requests = {q1}
  Operations = {"pause", "restart_node", "delete"}
  MaxOps = 2
  MaxFaults = 0
PROPERTIES DeletedIsStopped
CHECK_DEADLOCK FALSE
