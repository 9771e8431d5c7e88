SPECIFICATION FairSpec
CONSTANTS
  Parts = {"features", "registrations", "clusters", "logs", "process", "jobs"}
  FeatNodes = {n1}
  FeatPrimary = n1
  Extensions = {x1}
  Databases = {d1}
  Lists = {"none", "lan"}
  Modes = {"disabled", "required"}
  Params = {"p"}
  Mixes <- FeatMixes
  MaxRequests = 2
  MaxGiveUps = 1
  MaxFaults = 1
  MaxCuts = 1
  Hosts = {"h1", "h2"}
  Names = {"k1"}
  Tokens = {"t1"}
  MaxRows = 3
  MaxAgents = 3
  MaxCreates = 1
  MaxDeletes = 2
  MaxPoolFaults = 1
  Viewers = {v1}
  Scopes = {"cluster"}
  BatchSize = 2
  Buffer = 1
  Window = 2
  MaxLines = 2
  MaxLogFaults = 1
  People = {adm, usr}
  Admin = adm
  Viewer = {usr}
  Exercised = {"Login", "RefreshToken", "CreateUser", "DeleteUser", "CreateAPIKey", "DeleteAPIKey", "CreateCluster",
    "CreateStorageConfig", "DeleteStorageConfig"}
  CallIds = {c1}
  TokenExpiry = 1
  RefreshExpiry = 2
  MaxCalls = 1
  MaxClock = 2
  MaxStops = 1
  MaxServFaults = 1
  BackupClusters = {k1}
  ScheduleIds = {s1}
  MaxJobs = 1
  MaxScheduleCalls = 1
  MaxBackupFaults = 1
PROPERTIES
  AppliesSettle
  DeactivationRuns
  LinesArrive
  ShutdownEnds
  JobsSettle
CHECK_DEADLOCK FALSE
