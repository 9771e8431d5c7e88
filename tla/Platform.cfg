SPECIFICATION Spec
CONSTANTS
  Parts = {"features", "registrations", "clusters", "logs", "accounts", "storage", "process", "jobs", "schedules"}
  FeatNodes = {n1}
  FeatPrimary = n1
  Extensions = {x1}
  Databases = {d1}
  Lists = {"none", "lan"}
  Modes = {"disabled", "required"}
  Params = {"p"}
  Mixes <- FeatMixes
  MaxRequests = 3
  MaxGiveUps = 1
  MaxFaults = 1
  MaxCuts = 1
  Hosts = {"h1", "h2"}
  Names = {"k1", "k2"}
  Tokens = {"t1"}
  MaxRows = 3
  MaxAgents = 3
  MaxCreates = 2
  MaxDeletes = 2
  MaxPoolFaults = 1
  Viewers = {v1}
  Scopes = {"cluster"}
  BatchSize = 2
  Buffer = 1
  Window = 2
  MaxLines = 3
  MaxLogFaults = 1
  People = {adm, usr}
  Admin = adm
  Viewer = {usr}
  Exercised = {"Login", "RefreshToken", "CreateUser", "DeleteUser", "CreateAPIKey", "DeleteAPIKey", "CreateCluster",
    "CreateStorageConfig", "DeleteStorageConfig"}
  CallIds = {c1}
  TokenExpiry = 1
  RefreshExpiry = 2
  MaxCalls = 4
  MaxClock = 2
  MaxStops = 1
  MaxServFaults = 1
  BackupClusters = {k1}
  ScheduleIds = {s1}
  MaxJobs = 2
  MaxScheduleCalls = 4
  MaxBackupFaults = 1
INVARIANTS
  PlatformTypeOK
  AppliedIsOnHost
  ReadyExtensionsCreated
  ProfileKeepsUpdates
  OneRowPerHost
  LostNodesAccounted
  NoGap
  LiveIsDurable
  AccessEnds
  AuditComplete
  GRPCCallsComplete
  NoOrphanEntries
  RecordedIsTrue
  EntriesFollowRows
CHECK_DEADLOCK FALSE
