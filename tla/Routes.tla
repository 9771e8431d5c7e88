------------------------------- MODULE Routes -------------------------------
(***************************************************************************)
(* The methods the two transports of the server route, and the tables by   *)
(* which their interceptors decide: the service descriptors of the gRPC    *)
(* server, the handlers of the Connect server, the public methods, what a  *)
(* viewer may call and what is audited.  Methods have unique names.        *)
(***************************************************************************)

\* gRPC: one handler per method, registered in the service's descriptor.
AgentServiceDesc == {"RegisterAgent", "Heartbeat", "ReportStatus", "FetchCommand",
    "ReportCommandResult", "ReportCommandLog"}
AuthServiceDesc == {"Login", "RefreshToken", "ListUsers", "CreateUser", "DeleteUser",
    "CreateAPIKey", "ListAPIKeys", "DeleteAPIKey", "CreateAgentToken", "ListAgentTokens",
    "DeleteAgentToken", "GetAgentInstallCommand"}
BackupServiceDesc == {"CreateBackup", "ListBackups", "GetBackup", "DeleteBackup",
    "CreateRestoreJob", "ListRestoreJobs"}
ScheduleServiceDesc == {"CreateSchedule", "ListSchedules", "UpdateSchedule", "DeleteSchedule"}
ClusterServiceDesc == {"CreateCluster", "GetCluster", "GetClusterHealth", "ListClusters",
    "UpdateCluster", "DeleteCluster", "StartCluster", "PauseCluster", "RestartCluster",
    "FailoverCluster", "RestartNode", "ScaleCluster", "GetClusterSettings",
    "UpdateClusterSettings"}
NodeServiceDesc == {"ListNodes", "GetNode", "ListNodeMetrics", "DrainNode", "RejoinNode",
    "DeleteNode", "ResolveInstallationConflict", "ListNodeCommandLogs"}
StorageServiceDesc == {"CreateStorageConfig", "ListStorageConfigs", "GetStorageConfig",
    "DeleteStorageConfig", "ValidateStorageConfig"}

\* NewGRPCServer: PostgresManagementService is not registered.
NewGRPCServer == ClusterServiceDesc \cup NodeServiceDesc \cup AgentServiceDesc
    \cup StorageServiceDesc \cup BackupServiceDesc \cup ScheduleServiceDesc \cup AuthServiceDesc

\* Connect: one procedure per method, chosen by the path of the request.
AuthServiceHandler == {"Login", "RefreshToken", "ListUsers", "CreateUser", "DeleteUser",
    "CreateAPIKey", "ListAPIKeys", "DeleteAPIKey", "CreateAgentToken", "ListAgentTokens",
    "DeleteAgentToken", "GetAgentInstallCommand"}
ClusterServiceHandler == {"CreateCluster", "GetCluster", "GetClusterHealth", "ListClusters",
    "UpdateCluster", "DeleteCluster", "StartCluster", "PauseCluster", "RestartCluster",
    "FailoverCluster", "RestartNode", "ScaleCluster", "GetClusterSettings",
    "UpdateClusterSettings"}
NodeServiceHandler == {"ListNodes", "GetNode", "ListNodeMetrics", "DrainNode", "RejoinNode",
    "DeleteNode", "ResolveInstallationConflict", "ListNodeCommandLogs"}
StorageServiceHandler == {"CreateStorageConfig", "ListStorageConfigs", "GetStorageConfig",
    "DeleteStorageConfig", "ValidateStorageConfig"}
BackupServiceHandler == {"CreateBackup", "ListBackups", "GetBackup", "DeleteBackup",
    "CreateRestoreJob", "ListRestoreJobs"}
ScheduleServiceHandler == {"CreateSchedule", "ListSchedules", "UpdateSchedule", "DeleteSchedule"}
PostgresServiceHandler == {"GetConnectionProfile", "UpdateConnectionProfile",
    "GetNetworkAccess", "UpdateNetworkAccess", "ApplyHBA", "GetTLSConfig", "GenerateTLSCA",
    "GetTLSCACert", "UpdateTLSConfig", "ApplyTLS", "ListRoles", "CreateRole",
    "RotateRolePassword", "DeleteRole", "ListDatabases", "CreateDatabase", "DeleteDatabase",
    "GetExtensions", "SetExtension", "ApplyExtensions"}

\* The adapters behind the Connect handlers forward every method to the
\* service that also answers gRPC.
connectAuthService == AuthServiceDesc
connectClusterService == ClusterServiceDesc
connectNodeService == NodeServiceDesc
connectStorageService == StorageServiceDesc
connectBackupService == BackupServiceDesc
connectScheduleService == ScheduleServiceDesc
connectPostgresService == PostgresServiceHandler

\* serveConnectHTTP: AgentService is not mounted; two plain handlers are.
serveConnectHTTP == (AuthServiceHandler \cap connectAuthService)
    \cup (ClusterServiceHandler \cap connectClusterService)
    \cup (NodeServiceHandler \cap connectNodeService)
    \cup (StorageServiceHandler \cap connectStorageService)
    \cup (BackupServiceHandler \cap connectBackupService)
    \cup (ScheduleServiceHandler \cap connectScheduleService)
    \cup (PostgresServiceHandler \cap connectPostgresService)
    \cup {"ListAuditLogs", "StreamNodeCommandLogs"}

Serves(transport) == IF transport = "grpc" THEN NewGRPCServer ELSE serveConnectHTTP

\* unauthenticatedMethods and unauthenticatedPaths.
unauthenticatedMethods == {"Login", "RefreshToken"} \cup AgentServiceDesc
unauthenticatedPaths == {"Login", "RefreshToken"}
Public(transport) == IF transport = "grpc" THEN unauthenticatedMethods ELSE unauthenticatedPaths

\* A viewer is held to a list of reads on gRPC, and kept from a list of writes
\* on Connect.
viewerAllowedMethods == {"GetCluster", "ListClusters", "GetClusterSettings", "ListNodes",
    "GetNode", "ListNodeMetrics", "ListNodeCommandLogs", "GetConnectionProfile",
    "GetNetworkAccess", "ListRoles", "ListDatabases", "GetBackup", "ListBackups", "ListUsers",
    "ListAPIKeys"}
writeMethods == {"UpdateConnectionProfile", "UpdateNetworkAccess", "ApplyHBA", "CreateRole",
    "RotateRolePassword", "DeleteRole", "CreateDatabase", "DeleteDatabase", "SetExtension",
    "ApplyExtensions", "CreateCluster", "UpdateCluster", "DeleteCluster", "StartCluster",
    "PauseCluster", "RestartCluster", "FailoverCluster", "RestartNode", "ScaleCluster",
    "UpdateClusterSettings", "DrainNode", "RejoinNode", "DeleteNode",
    "ResolveInstallationConflict", "CreateBackup", "DeleteBackup", "CreateRestoreJob",
    "CreateSchedule", "UpdateSchedule", "DeleteSchedule", "CreateStorageConfig",
    "DeleteStorageConfig", "ValidateStorageConfig", "CreateUser", "DeleteUser",
    "CreateAPIKey", "DeleteAPIKey", "CreateAgentToken", "DeleteAgentToken"}
ViewerMay(transport, m) == IF transport = "grpc" THEN m \in viewerAllowedMethods
                           ELSE m \notin writeMethods

\* methodToAuditAction, as far as the gRPC server has the method.
methodToAuditAction == {"CreateCluster", "UpdateCluster", "DeleteCluster", "StartCluster",
    "PauseCluster", "RestartCluster", "FailoverCluster", "ScaleCluster", "DrainNode",
    "RejoinNode", "DeleteNode", "ResolveInstallationConflict", "CreateBackup",
    "DeleteBackup", "CreateRestoreJob", "Login", "CreateUser", "DeleteUser", "CreateAPIKey",
    "DeleteAPIKey"}
=============================================================================
