SPECIFICATION FairSpec
CONSTANTS
  n1 = n1
  n2 = n2
  q1 = q1
  q2 = q2
  None = None
  Nodes = {n1}
  Requests = {q1}
  Operations = {"start", "pause", "restart", "delete", "restart_node", "drain", "rejoin", "delete_node"}
  MaxOps = 2
  MaxFaults = 1
INVARIANTS
  TypeOK
  HostFollowsLastOperation
  DeletedNodeIsStopped
PROPERTIES
  OperationTakesEffect
  RowCatchesUp
  QueueKept
CHECK_DEADLOCK FALSE
