SPECIFICATION Spec
CONSTANTS
  p = p
  r = r
  None = None
  Nodes = {p, r}
  Order <- PrimaryAndReplica
  Location = "native"
  Found = {"none"}
  Remembered = {"pending"}
  StaleInstalled = {}
  Choices = {"ADOPT", "PURGE", "ABORT"}
  MaxFailures = 0
  MaxDisturbances = 0
  MaxAborts = 0
  MaxResolves = 0
PROPERTY
  RunningWhenFinished
