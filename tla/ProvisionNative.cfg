SPECIFICATION FairSpec
CONSTANTS
  p = p
  r = r
  None = None
  Nodes = {p}
  Order <- OnlyPrimary
  Location = "native"
  Found = {"none", "installed", "data", "running", "leftover"}
  Remembered = {"pending", "installed"}
  StaleInstalled = {}
  Choices = {"ADOPT", "PURGE", "ABORT"}
  MaxFailures = 1
  MaxDisturbances = 1
  MaxAborts = 1
  MaxResolves = 1
INVARIANTS
  TypeOK
PROPERTIES
  RunningWhenFinished
  ProvisioningSettles
