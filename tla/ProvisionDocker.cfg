SPECIFICATION Spec
CONSTANTS
  p = p
  r = r
  None = None
  Nodes = {p, r}
  Order <- PrimaryAndReplica
  Location = "docker"
  Found = {"none"}
  Remembered = {"installed"}
  StaleInstalled = {}
  Choices = {"ADOPT", "PURGE", "ABORT"}
  MaxFailures = 1
  MaxDisturbances = 0
  MaxAborts = 1
  MaxResolves = 0
CONSTRAINT OnTime
INVARIANTS
  StoppedSkipsTheRest
PROPERTIES
  RunningWhenFinished
