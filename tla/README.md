# Formal model of skylex

skylex is a control plane for PostgreSQL clusters. `skylex-server` keeps desired
and observed state in a metadata database (SQLite or PostgreSQL), serves the API
and runs a failover engine; one `skylex-agent` per host executes commands against
the local PostgreSQL. This directory holds TLA+ modules of the parts in which
goroutines, agents and operators meet on shared rows, the TLC configurations that
check them on small instances, and TLAPS proofs of results that hold for every
instance.

## 1. Inventory

| Part | State | Operations | Talks to |
|---|---|---|---|
| failover engine (`server/failover.go`) | none of its own; reads and writes `clusters.status`, `nodes.role/status`, `agent_commands` | `Run` (tick), `checkClusterHealth`, `executeFailover` | election, metadata store, agents through commands |
| election and DCS (`dcs/`) | etcd session, leader key, `PrimaryInfo` | `Campaign`, `Resign`, `IsLeader`, `SetPrimary` | etcd |
| cluster service (`server/cluster_service.go`) | `clusters` | create, delete, start, pause, restart, failover, settings | nodes, command queue |
| node service (`server/node_service.go`) | `nodes` | drain, rejoin, delete, resolve installation conflict | command queue |
| agent service (`server/agent_service.go`) | none; writes every table | register, heartbeat, status report, fetch, result, log | everything |
| command queue (`db/agent_command_repo.go`) | `agent_commands` | create, oldest pending, result, mass cancellation | server goroutines and agents |
| agent (`agent/`) | installation report in memory, running PostgreSQL | heartbeat loop, command loop, executors | server, PostgreSQL, installers |
| PostgreSQL management (`server/postgres_management_service.go`, `db/managed_*`, `db/tls_apply_repo.go`, `db/network_access_repo.go`, `db/cluster_extension_repo.go`) | managed roles and databases, access rules, TLS, extensions, command secrets | create, rotate, retry, delete, apply | command queue, result handlers |
| log pipeline (`agent/log.go`, `server/logstream*.go`) | batches in the agent, log rows, subscriber channels | log, flush, store, publish, stream | agent, browser |
| backups (`backup/`, `server/backup_service.go`) | `backups`, `restore_jobs`, `backup_schedules`, cron entries | create, restore, schedule, list | pgBackRest |
| authentication (`server/auth_*.go`, `server/jwt.go`) | users, API keys, issued tokens, audit entries | login, refresh, check, audit | every call |
| transports and process (`server/server.go`, `grpc.go`, `connect.go`, `gen/`) | listeners, calls in progress, the open database, the etcd session | start, serve, stop | everything |
| node pool (`server/agent_service.go`, `cluster_service.go`, `node_service.go`) | `nodes`, `agent_tokens` | register, assign, release, deactivate | agents, clusters |

What is hard here. Nothing in the server locks a cluster or a node: every handler is
a goroutine that reads rows, decides, and makes single-statement writes; only a few
groups of writes are transactions. Agents run a heartbeat loop and a command loop
side by side and report state read before one or two remote calls. Commands are
executed at least once (a command stays pending until its result is stored). Server
and agent processes crash and restart; leases expire. Status columns are therefore
written from several sides with stale values, and the cluster's status is evaluated
only when an event arrives.

## 2. Modules

| Module | Models | Kind |
|---|---|---|
| `Failover` | failover engine, election, heartbeats, promote/repoint/rewind | component |
| `Provisioning` | create cluster, agents, result handlers, conflict resolution | composition of cluster service, agents, result handlers, node service |
| `Lifecycle` | start, pause, restart, deletion of a provisioned cluster; drain, rejoin, restart, deletion of a node; agents and heartbeats | composition of cluster service, node service, agents, result handlers |
| `ManagedObjects` | roles and databases on the primary: requests, transactions, executors, result handlers, command secrets | composition of management service, repositories, agent |
| `CommandQueue` | what `agent_commands` promises: in order, one at a time, at least once unless cancelled | abstract specification, implemented by `Lifecycle` |
| `Features` | connection profile, network access, TLS, extensions and settings: requests, commands, files on the host, guarded results | composition of management service, repositories, agents |
| `NodePool` | registration of agents, assignment of nodes to clusters, deletion of clusters and nodes | composition of agent, cluster and node service |
| `LogPipeline` | log lines from the agent's buffer to the browser | composition of agent, agent service, broker, event streams |
| `Routes` | the methods of both transports and the tables of the interceptors | definitions |
| `Serving` | the server process: start, calls, accounts, tokens, audit, storage credentials, shutdown | composition of server, interceptors, auth and storage service |
| `Backups` | backup and restore jobs, schedules, the worker's cron entries | composition of backup service, engine, worker |
| `FailoverProofs`, `ProvisioningProofs`, `LifecycleProofs`, `ManagedObjectsProofs`, `FeaturesProofs`, `NodePoolProofs` | theorems about the module of the same name | proofs |
| `ServicesProofs` | theorems about `LogPipeline`, `Serving` and `Backups` | proofs |
| `PlatformProofs` | the composition of `MCPlatform` implements its five components | proofs |
| `MCFailover`, `MCProvisioning`, `MCLifecycle`, `MCManagedObjects`, `MCPlatform` | model values and bounds for TLC; `MCPlatform` takes `Features`, `NodePool`, `LogPipeline`, `Serving` and `Backups` together, one of them moving in a behaviour | model |

Each module states its bounds as constants (`Max...`), counts what was used and names
its assumptions in one `ASSUME`. Definitions
that end in a description of a mistake (`CheckCommandsOwnNode`, `FetchCommandOnce`,
`RecordReplicaForgotten`, ...) stand just before the definition they are a variant of:
they are what a plausible bug would look like, are used by no specification, and
every property checked below fails when one of them takes the place of the original.

### 2.1 Failover

State: one row per node (`role`, `status`, `age` = the age of `last_seen` in clock
periods, capped at `Timeout + 1`), the cluster's `status`, the pending commands of each
node, the host (`dead`, `pgdown`, `running`, what it follows, whether it is writable),
the server processes with their etcd sessions, the leader key, and for every goroutine
that runs `executeFailover` its place (`pc`) and what it remembers (`failed`, `best`,
`others`).

| Action | Code |
|---|---|
| `Start`, `StartWithoutElector`, `Elected`, `Shutdown`, `Crash`, `LeaseExpires`, `SessionDone` | `Server.Start`/`Stop`, `Election.Campaign`, `Resign`, `IsLeader`, the etcd session |
| `CheckClusterHealth`, `TickNilElector` | a tick of `FailoverEngine.Run` |
| `FailoverCluster` | the RPC that starts a failover in a goroutine |
| `MarkOffline` .. `Publish` | the writes of `executeFailover`, one step each, in order |
| `WriteFails` | the error path of the current write: return, or log and go on |
| `Heartbeat`, `ReportStatus` | the two writes of an agent's heartbeat |
| `ExecuteCommand` | fetch, execute and report of `pg_promote`, `repoint_replica`, `pg_rewind`; the report may be lost, the command then runs again |
| `HostChanges`, `Tick` | environment: hosts and PostgreSQL die and return; time |

### 2.2 Provisioning

Starts when the transaction of `CreateCluster` is committed and nothing is queued yet.
State: cluster and node rows, the command rows of each node (completed ones too, since
`updateClusterProvisioningStatus` reads them), the host, what the agent remembers and
what its heartbeat carries, the command being executed, and the place of every server
handler: the loop of `CreateCluster` that still inserts commands, one result handler
and one conflict resolution per node.

| Action | Code |
|---|---|
| `QueueCommand` | one INSERT of `queuePrimaryCommands`/`queueReplicaCommands` |
| `FetchCommand`, `ExecuteCommand`, `ReportCommandResult` | the agent's command loop; `CanWork` and `HostAfter` say what each executor needs and leaves |
| `SendHeartbeat`, `ReportStatus` | the report is read from memory, later stored by the server |
| `HandleResult`, `QueueContinuation`, `UpdateClusterLifecycleStatus`, `LifecycleWrite`, `CheckNodes`, `CheckCommands`, `CancelPending`, `WriteStatus` | the statements of `handleProvisioningCommandResult` and of `updateClusterProvisioningStatus` |
| `ResolveInstallationConflict`, `ResolveState`, `ResolveQueue`, `ResolveAbort` | the RPC, one statement each |
| `RestartAgent` | an agent process restarts |
| `AbortHandler` | a handler ends between two statements, or an error of `handleProvisioningCommandResult` is logged and the evaluation follows |

Nothing orders the two loops of an agent, nor an agent's poll and the INSERTs of the
request that queues its commands. The history kept in `used` says what the
properties need to know of it: `early` (a command was fetched while `CreateCluster` or
the operator's request was still queueing), `outdated` (a status report was stored
although a command had changed what it tells), `aborts` (a handler was cut short) and
`unmarked` (`MarkPendingFailedByNodeIDs` failed, which is only logged: the cluster is
stopped all the same). `Remembered` is what agents may still report from an
earlier cluster.

### 2.3 Lifecycle

State: rows (cluster, membership, node status, `status_detail`, readiness,
installation state, agent id), pending commands, hosts, agent processes, the handler of
each agent's result, the heartbeat on its way, the requests under way, and the history
variable `want`: what the last command queued for a node leaves behind.
`queueClusterLifecycle` is one action because its writes are one transaction.
`BeginDelete` and `CommitDelete` are two because `requireClusterStoppedForDelete` reads
before the transaction. Drain, rejoin, restart and deletion of a node are lists of
single statements (`Statements`), each a step. The heartbeat is split at its remote
calls and, on the server, between read and write (`SampleHost`, `HeartbeatRead`,
`HeartbeatWrite`, `ReportRead`, `ReportWriteStatus`, `ReportWriteFacts`); the result
handler at its statements (`UpdateResult`, `AgentLifecycleResult`, `FailureResult`,
`StatusResult`, `DetailResult`, `EvaluateCluster`, `WriteCluster`, `ResultStored`).
`AgentEnds` is a crash or a graceful stop, `RegisterAgent` gives the node a new agent id.

### 2.4 ManagedObjects

State: role and database rows by name, service operations, the primary's pending
commands, the commands that have secrets, the roles and databases on the server, the
command at work, the requests that have checked and not committed. A password is the
number of the operation that made it. `CreateRole` and `RotateRolePassword` check and
commit under the cluster's lock and are one step; deletion of a role and the database
operations check outside it and are `Begin...` and `Commit...`. `Execute` and `Refused`
follow what PostgreSQL does with the executors' statements (a role that owns a database
is not dropped, a missing object is not an error for a drop). Results go through
`UpdateResult`, `HandleRoleResult` or `HandleDatabaseResult`, `QueueGrantCommand`,
`DeleteSecrets`, without the lock. The history variables are `cut` (a handler did not
finish) and `revived` (a role created again while its drop was pending).

### 2.5 CommandQueue and its refinement

`CommandQueue` has two variables: the commands of each node, and whether its agent is
attempting none, the oldest, or a command cancelled meanwhile. `Lifecycle` implements it
(`QueueKept`) under the mapping `pending` = the actions in `queue`, `attempt` =
`AttemptOf`: `FetchCommand` is `Attempt`, `UpdateResult` is `StoreResult` (or `Forget`, for
a cancelled command), `LoseResult` and `AgentEnds` are `Forget`, `CommitDelete` is
`Cancel`, requests are `Enqueue`, the rest stutters. The step that is easy to get wrong
is the fetch of an agent that registered again: it must still see the commands queued
for its former agent id.

### 2.6 Features

State: the rows (`profile`, `tlsCA`, `tlsRow`, `hbaRow`, `extRow`, `settings`), the command
table in the order of `created_at`, the holder of the cluster's lock, the requests that
take no lock and are between their read and their write, the reports on their way, and
per node what the include file says (`file`), what PostgreSQL has loaded of it (`active`),
the managed `pg_hba` include (`hba`) and the rules that are loaded (`rules`). `BeginLocked` is the part of a request up to its reads; `UpdateNetworkAccess`,
`UpdateTLSConfig`, `ApplyHBA`, `ApplyTLS` and `ApplyExtensions` are the transactions that
follow. `UpdateConnectionProfile` and `UpdateClusterSettings` are split between read and
write, or between the replacement of the rows and the commands. `GiveUp` is the agent that
does not wait for the answer to its report: it executes the command again while the
first report may still arrive. `AgentDies` is the agent that ends between a file and
the reload: the command stays pending and is executed again. `Reloads` is `FALSE` for HBA
rules that are in the file already, as `ApplyHBA` returns early then (hba.go:56), and
`ExecuteFails` has the outcomes of a failed reload: file restored or not, rules loaded or
not. `unsure` holds the nodes on which an apply of HBA rules ended between its write and a
completed reload, `bare` those on which settings were written last. `RowAfter` and `ExtAfter` are the updates guarded by
`command_id`. `ProvisionAdmin` is the lazy creation of `skylex_admin`.

### 2.7 NodePool

`RegisterAgent` looks for the hostname, and takes the host for a new one when the lookup
fails; `LinkNode` links or inserts a row, `LinkFails` is a failing Create or UpdateAgentID,
which is only logged. `CheckNodes` and `CommitCluster` are the two halves of `CreateCluster`,
`BeginDeleteNode` and `QueueDeactivation` (or `DeleteUnlinked`, for a row without an agent)
those of `DeleteNode`; `DeleteCluster` is its transaction. A deactivation is executed
(`Deactivate`), then answered (`AnswerDeactivation`) or lost (`LoseDeactivation`); the agent
ends in either case. An installation is one step (`RunTask`): what happens on the host is
the subject of `Provisioning` and `Lifecycle`. `twins` (hosts with overlapping registrations
or a failed lookup) and `contested` (clusters committed while another call held one of
their nodes) are history.

### 2.8 LogPipeline

`Log`, `TimerFires`, `Flush`, `Close` are the methods of `commandLogger` under its mutex;
`FlushLocked` starts the goroutine that sends a batch. `StoreBatch`, `RefuseBatch`,
`PublishLiveLogs` and `SkipPublish` are `ReportCommandLog`. A stream is `Subscribe`,
`LoadBacklog`, `BacklogWritten`, then `WriteLogEvent` for each line in its channel. Channels
are bounded, batches overtake each other and are lost, the server restarts, the node
leaves the cluster.

### 2.9 Serving and Routes

`Routes` lists what each transport serves, what is public, what a viewer may call and what
is audited. In `Serving` a call arrives, is authenticated by the interceptor of its
transport, is handled and, on gRPC, audited; accounts, API keys, tokens (with their
kind, their expiry and the secret that signed them) and storage credentials are the rows and values
it works on. Neither `ValidateToken` nor `ValidateRefreshToken` asks for the kind of a token:
a call may be made with either, and either is exchanged for a new pair. The claims of a
refresh token have no user_id and no role (`HasUserID`). Nothing orders the two
configured lifetimes. The process campaigns, serves, is signalled, stops accepting, resigns,
drains gRPC, closes the database, waits for the members of its errgroup and exits.

### 2.10 Backups

`CreateBackup`, `CreateRestoreJob` and `CronFires` insert a running row and start a
goroutine, which reads the row, prepares the stanza, runs pgbackrest and records the
outcome, one step each; a failing read ends the goroutine without a record. `CreateSchedule` and `UpdateSchedule` write the row and call the
worker later (`ScheduleBackup`); `UnscheduleBackup` calls the worker and `DeleteScheduleRow`
deletes the row later, or fails. `TimeOut`, failing statements and `RestartWorker` are the
faults.

## 3. Runs

| Run | Bounds | What it shows |
|---|---|---|
| `Failover` | 3 nodes, 1 server, 2 promotions, late heartbeats, replica symmetry, at most one crash, failed write, etcd fault or host fault | `TypeOK`; `PrimaryRecorded`: `GetPrimary` never comes back empty; `PromoteIsLastForPrimary`: no left-over command turns a recorded primary into a standby; `ExtraPrimariesAccounted`: at rest, more than one recorded primary comes only from a crash or a failed write inside a failover |
| `FailoverLive` | 2 nodes, 1 manual failover, timeout 1, prompt heartbeats, 1 host fault, 4 promotions | `DeadPrimaryReplaced`: automatic failover happens |
| `FailoverRace` (violation) | 3 nodes, 2 manual failovers, no fault | `ExtraPrimariesAccounted` fails: nothing excludes a second failover |
| `ProvisionDocker` | primary and replica, containers, remembered reports, 1 failing command, 1 cut handler or failing cancellation | `StoppedSkipsTheRest`: a stopped cluster has no pending command; `RunningWhenFinished` |
| `ProvisionNative` | 1 native node, every content of the host, remembered reports, 1 failure, 1 lost report or restart, 1 cut handler or failing cancellation, 1 resolution | `TypeOK`; `RunningWhenFinished`; `ProvisioningSettles`: the cluster leaves `creating` |
| `ProvisionPremature` (violation) | 2 native nodes, no fault | `RunningWhenFinished` fails in the gap between a preflight's result and its continuation |
| `LifecycleOps` | 1 node, all 8 operations, 2 accepted, 1 request at a time, 1 fault | `TypeOK`; `HostFollowsLastOperation`; `DeletedNodeIsStopped`; `OperationTakesEffect`; `RowCatchesUp`; `QueueKept`: the queue is a `CommandQueue` |
| `LifecycleDelete` (violation) | pause, node restart, delete; no fault | `DeletedIsStopped` fails in the gap between `UpdateResult` and the node's status |
| `ManagedObjects` | 1 role, 1 database, 2 requests, 4 operations, 1 fault, both stores | `TypeOK`; `ReadyIsUsable`; `GoneIsDropped`; `SecretsFollowCommands`; `OperationsEnd` |
| `ManagedRevival` (violation) | 1 role, 3 operations, no fault | `DeletionIsFinal` fails: a stale result overwrites `deleting` |
| `Platform` | the five components of `MCPlatform`, see below | `PlatformTypeOK`; `AppliedIsOnHost`, `ReadyExtensionsCreated`, `ProfileKeepsUpdates` (Features); `OneRowPerHost`, `LostNodesAccounted` (NodePool); `NoGap`, `LiveIsDurable` (LogPipeline); `AccessEnds`, `AuditComplete`, `GRPCCallsComplete` (Serving); `NoOrphanEntries`, `RecordedIsTrue`, `EntriesFollowRows` (Backups) |
| `PlatformLive` | the same with smaller bounds | `AppliesSettle`, `DeactivationRuns`, `LinesArrive`, `ShutdownEnds`, `JobsSettle` |

Why the bounds are enough to be of use. A failover involves the failed primary, the one
promoted and the others, so three nodes are one of each kind; two promotions are needed
for a command of an earlier failover to meet a later one. Two overlapping failovers are
the least that can disagree. In provisioning the nodes meet only in the cluster's
status: a primary and a replica. `ProvisionDocker` stops (`OnTime`) at a command that was
fetched while its list was being queued, since both its properties except what follows;
the runs of native nodes go on. In `Lifecycle` nodes meet only in `EvaluateCluster` and
in the deletion check, and a second operation is the least that can meet the commands
and stale reports of a first; the safety properties were also run with three operations
and two requests, and with two nodes. In `ManagedObjects` four operations are creation,
rotation or deletion, retry and one more, over a role and a database that refer to each
other; the invariants were also run with two faults (2.3 million states).

`MCPlatform` has one variable more, `part`, chosen at the start: a behaviour moves one
component, since they share no state, and one state space is the sum of theirs. `Focus`
divides three of them further (accounts, stored credentials and shutdowns of `Serving`;
registrations and clusters of `NodePool`; jobs and schedules of `Backups`), because a call
that meets a shutdown does not need three accounts. `FeatMixes` are the groups of
requests that meet on the same rows and files; three of them follow each other, with one
report given up, one failing execution and one cut handler. Two lines in a batch, a
channel of one and a window of two make every limit of the log pipeline occur within
three lines. Two hosts and two clusters are the least that can compete for a node; two
registrations of a host the least that can overlap; one failing query, deactivation or
report (`MaxPoolFaults`) comes at any point of them. `OneDisturbance` in `MCFailover` bounds
faults to one of four kinds, within two failovers, or one when it is a host that fails:
combinations of them on three nodes exceed the time of a run. For `PrimaryRecorded` with one
engine the theorem of section 4 allows any number of crashes, etcd and host faults. A server
that cannot reach etcd when it is restarted after a crash is explored until the first
promotion.

Deadlock is checked in the Failover and Provisioning runs. In `Lifecycle`,
`ManagedObjects` and `MCPlatform` every operation may have been used up and the system then rests, or the
last node has been deactivated, so their configurations switch the check off.

### Fairness

- `Failover`: goroutines of `executeFailover` run (WF), the ticker fires (WF of
  `CheckClusterHealth`), live agents send heartbeats, etcd expires the lease of a
  process that is gone. `Prompt` says that a live agent's heartbeat is never as old as
  the timeout (10 s interval against 30 s in the code). Nothing is assumed of
  operators, crashes or restarts.
- `Provisioning`: insert loops, handlers, the command loop and the heartbeat loop of each
  agent go on, each by itself (WF). The operator answers a
  conflict in the end: `ResolveInstallationConflict` waits for nobody else.
- `Lifecycle`: requests, command loops and heartbeats go on; an agent that ended is
  started again (the installed unit has `Restart=always`).
- `ManagedObjects`: only the agent's loop and the handlers of its reports go on.
- `MCPlatform`: agents execute what they fetch and the handlers of their reports run;
  agents register (the service manager starts them) and link; the logger's timer fires
  and its goroutine flushes, a batch that was sent is stored or refused; the server's
  goroutines, calls in progress and shutdown steps go on (`ServStep`); the goroutine of a
  job goes on. Requests, signals, faults and cron are free. Weak fairness is enough: none of
  these steps is disabled by another one for a while and enabled again for ever.

## 4. Proofs

Each `...Proofs` module extends the component of its name, or the components of section 2,
and proves theorems of the form `Spec => []P` for every value of the constants: any sets of nodes, roles, hosts, calls and
so on, any limits and any number of faults, where the runs have one or two of each. The
properties are the definitions the runs check. Assumptions are the `ASSUME` of the component's module
and, where the table says so, a hypothesis of the theorem: the limits are natural numbers, the sets the code enumerates are finite,
and the value that stands for "no row" or "no cluster" is not a name.

Every module is laid out alike: the inductive invariant in named parts, lemmas about
the operators the actions use, one lemma per action and part it can disturb, and the
theorems at the end. The invariants were checked with TLC on instances like those of
section 3 before they were proved.

| Theorem | Statement |
|---|---|
| `TypeCorrect` (`Failover`) | `[]TypeOK` |
| `PrimaryRecordedHolds`, `PromoteIsLastHolds`, `ExtraPrimariesHold` | with one engine: `[]PrimaryRecorded`, `[]PromoteIsLastForPrimary`, `[]ExtraPrimariesAccounted` |
| `ProvisioningTypeCorrect` | `[]TypeOK` |
| `DockerStoppedSkipsTheRest`, `DockerRunningWhenFinished` | with docker nodes: `[]StoppedSkipsTheRest`, `RunningWhenFinished` |
| `NativeRunningWhenFinished` | with one native node, as `OneNative` says: `RunningWhenFinished` |
| `LifecycleTypeCorrect`, `HostFollowsHolds`, `DeletedNodeHolds` | `[]TypeOK`, `[]HostFollowsLastOperation`, `[]DeletedNodeIsStopped` |
| `QueueKeptHolds` | `Lifecycle` implements `CommandQueue` |
| `ManagedTypeCorrect`, `SecretsFollowHolds`, `ReadyIsUsableHolds`, `GoneIsDroppedHolds` | `[]TypeOK`, `[]SecretsFollowCommands`, `[]ReadyIsUsable`, `[]GoneIsDropped` |
| `AppliedIsOnHostHolds`, `ReadyExtensionsHold`, `ProfileKeepsUpdatesHolds`, `FeatTypeCorrect` | `[]AppliedIsOnHost`, `[]ReadyExtensionsCreated`, `[]ProfileKeepsUpdates`, `[]FeatTypeOK` |
| `OneRowPerHostHolds`, `LostNodesAccountedHolds`, `PoolTypeCorrect` | `[]OneRowPerHost`, `[]LostNodesAccounted`, `[]PoolTypeOK` |
| `NoGapHolds`, `LiveIsDurableHolds`, `LogTypeCorrect` | `[]NoGap`, `[]LiveIsDurable`, `[]LogTypeOK` |
| `GRPCCallsCompleteHolds`, `AccessEndsHolds`, `AuditCompleteHolds`, `ServTypeCorrect` | `[]GRPCCallsComplete`, `[]AccessEnds`, `[]AuditComplete`, `[]ServTypeOK` |
| `RecordedIsTrueHolds`, `NoOrphanEntriesHolds`, `EntriesFollowRowsHolds`, `BackupTypeCorrect` | `[]RecordedIsTrue`, `[]NoOrphanEntries`, `[]EntriesFollowRows`, `[]BackupTypeOK` |
| `PlatformImplements`, `PlatformTypeCorrect` | `MCPlatform` implements `Features`, `NodePool`, `LogPipeline`, `Serving` and `Backups`; `[]PlatformTypeOK` |

Why the properties need more than themselves, and what the strengthening says:

- **Failover.** The three properties assume `SingleEngine(s)` (one server, no manual
  failover); `FailoverRace` shows what overlapping failovers do. Crashes, restarts, expired
  leases, lost reports, late heartbeats, host failures and any number of failovers are
  included. From `PrimaryRecorded` alone `RecordReplica` could demote the only primary, and
  `Repoint` could append to the new primary's queue. `EngineInv` says what the engine's
  local variables say of the rows at each step: until `RecordReplica` the failed node is
  still a recorded primary; from `RecordPrimary` on the chosen one is, it is another node,
  and its last command is its promotion; the replicas still to be repointed exclude it. The
  induction is over `TypeOK /\ (no failed write => IInv)`: the count of failed writes never
  falls, so the hypothesis carries back over a step. `CountInv` relates the number of
  recorded primaries to the place of the engine.
- **Provisioning.** `TypeInv` adds to `TypeOK` what keeps it: a program is queueing exactly while
  it has commands left. `DecisionInv` says which status a handler has decided on at each of
  its steps. With docker nodes (`DockerInv`) `PassedAreQueued` says that every node the loop of
  `CreateCluster` has passed has its whole list. Until a command is fetched early nobody reports a
  result before `CreateCluster` is done with its lists, or was cut short, so a handler that decides, or skips what is pending,
  sees everything (`RunningDecided`, `OverWhenDone`), and nothing pending can appear afterwards
  unless the skipping failed (`Skipped`).
  The number of nodes is arbitrary; so are faults and late heartbeats.
  With one native node there is no such moment: the rest of the list is queued by the handler
  of the preflight, or by the operator's request, and heartbeats carry states from before.
  `NativeInv` says that a failed row stays failed and is seen by who decides
  (`WorkInv`, `NoFailureSeen`), and that, as long as the behaviour is `Orderly` and until a
  row fails, `Undisturbed` holds. Its core: a conflict that the agent still tells, or the row still
  says, is forgotten with the first command executed and applied after it
  (`ConflictForgotten`), because that command is the one the operator chose (`ChosenFirst`);
  hence a resolution is never in progress once the third command is begun
  (`ResolvedEarly`), and a handler and a resolution never queue for the same node at once.
  `LookAlone` covers the gap in which the preflight is the only row and completed: every state told then
  keeps the cluster waiting. `OneNative` says that there is one node and that no agent
  reports a conflict remembered from an earlier cluster; `Orderly`, in the property itself,
  excepts the races of section 5. With two native nodes the statement is
  false (`ProvisionPremature`).
- **Lifecycle.** `QueueInv` ties the handler of an agent to the oldest row of its queue,
  also after the row was cancelled; `AgentsInv` says that a result that is on its way is
  true of the host, and what an agent that deactivates can still do; `WantInv` that the last
  command in the queue which decides the state of the host decides what `want` says, and
  that a failed or cancelled one is followed by another. `QueueKeptHolds` proves the
  refinement action by action: each action of `Lifecycle` is `Enqueue`, `Cancel`, `Attempt`,
  `StoreResult` or `Forget` under the mapping of section 2.5, or changes neither variable.
- **ManagedObjects.** The argument is about `Live`, the commands whose results are still to
  be applied. The queue is in the order of the operations, grants apart (`QueueInv`); a
  result that says ok is true on the server until it is handled (`JobInv`). `RoleGone` and
  `DatabaseGone` say that an object without a row is dropped, or that a live drop is younger than
  every live command that creates it; `RoleReady` and `DatabaseReady` that a ready row without live
  commands agrees with the server. `GoneIsDropped` holds also while commands for the name are
  pending and after a cut handler, which the run had not claimed before the proof.
- **Features.** A row names the last command of its feature and node (`LastInv`), and no
  report is about a command with an older one of its node still pending (`ReportInv`). So
  once the last command was executed with success, the agent can only repeat that one, and
  what it wrote stays: `HBAInv`, `TLSInv` and `ExtInv` hold from the execution on, not only
  from the report. `HostInv` says that outside `unsure` the rules loaded are those of the file:
  every step that writes the file without a completed reload puts its node there. `ProfileInv` says that without an overlap every writer has read the row
  as it is. The order in which one request inserts the commands of the nodes
  (`SetToSeq`) is a bijection, since the set of nodes is finite.
- **NodePool.** `AgentInv`: an agent id belongs to one registration or to one row. `AgentHostInv`: a
  registration that found no row of its host is the only one, and there is none, unless the
  host is one of the `twins`. A deactivation that was executed and not answered still has the
  row it will delete marked (`RowInv`, `Queued`). `ClusterInv`:
  the nodes of an uncontested cluster are not being chosen or removed by a request that has
  checked them.
- **LogPipeline.** `StreamInv` is the property for every place of a stream: before the backlog is
  loaded nothing published since the subscription is lost except at a full channel;
  the batch that is published is stored. `BatchInv` keeps the buffer below a batch, `TimerInv` a
  timer for every line in it.
- **Serving.** `ProcInv` relates the phases of `Start` to the listeners and the database; a gRPC call
  in progress means serving or draining. `AccountInv` bounds the expiry of every token by the
  present, or by the deletion of its account, plus the longer lifetime; `CallInv` says which
  calls in progress know their caller's name (`NameOK`).
- **Backups.** `JobInv`: a row has at most one goroutine, which alone knows the outcome until
  the row is written; `EntryInv`: the worker's map and the cron runner are inverse to each
  other; `ScheduleInv` follows a schedule through the request that has written its row and
  not yet called the worker.

- **Platform.** The next-state relation of `MCPlatform` moves one component and leaves the
  variables of the others alone, so each of its steps is a step or a stutter of every component.
  By `PlatformImplements` the theorems about the components hold of the composition.

Only model-checked: the liveness properties and everything about fairness or enabledness
(the provers have no support for them), and the four properties that are violated. Every
invariant and every safety property over steps that a passing run checks is also a theorem,
under the hypotheses above.

## 5. Where code and expectation part

The violation runs above, with the quoted documents, are the findings in
`PROJECT.json`. What else the models keep as the code has it, and the properties state
around:

- Failover: nothing fences the old primary; health is `last_seen` alone, so a primary
  whose PostgreSQL is down under a live agent is left as it is; a lost lease is never
  campaigned for again.
- Provisioning: after a handler that was cut short, the prefix of commands it queued
  looks complete and the cluster becomes running; so does the prefix that an agent meets
  which polls between two INSERTs: an adoption takes moments (agent.go:602), and the cluster is then
  running with `pg_create_repl_user` still to be queued (node_service.go:389), and a
  container that fails at once leaves a stopped cluster whose remaining commands are queued
  afterwards; a failing `MarkPendingFailedByNodeIDs` is only logged (agent_service.go:799, 822), so
  a stopped cluster keeps commands that are executed; a status report that a command has
  overtaken may put a finished state over a conflict; a `pg_start` in flight turns a stopped
  cluster running; ABORT leaves the commands of other nodes, and the node's own command
  in flight; a restarted agent reports `pending` and its node is then not
  eligible for lifecycle operations; a replica's base backup fails if it runs before the
  primary is ready; a node recorded as installed whose host was purged skips its
  installation; a heartbeat on its way allows a second resolution, or undoes an adoption
  in the row and stalls provisioning. `CreateCluster` says it queues `pg_ensure_admin_role`
  after the primary's commands (cluster_service.go:320), but server.go never gives the cluster service its
  secret repositories (only tests do, cluster_service_test.go:571), so
  `queueAdminRoleCommand` returns at its first check and `Provisioning` queues no such command;
  the role is created with the first managed object.
- Lifecycle: the status `drained` is overwritten by the drain's own `pg_stop` result and
  by a registration (node_service.go:129 says it persists); `RejoinNode` on the primary
  repoints it to itself; `Heartbeat` marks a stopped node online until `ReportStatus`
  follows, and a cluster status evaluated in between says running; the two commands of
  a restart share `created_at`, so their order is not specified (want is `any`); a lost
  result of `agent_deactivate` leaves the node `deleting`; a graceful stop of an agent
  stops PostgreSQL and nothing starts it again; commands in flight, or inserted after
  DeleteCluster's cancellation, still run.
- Failover without etcd: a server that could not reach etcd at its start runs the engine
  with a nil elector (server.go:190, failover.go:58) and ends at its first tick.
- Managed objects: a cut handler leaves its operation running for ever; a failed database
  can only be deleted; with SQLite, where foreign keys are not enforced, a database may
  keep the id of an owner that is gone.
- Features: `ApplySettings` (postgres.go:873) writes the include file with its own settings
  only and so drops the TLS keys, while `TestTLSConfigSettingsPreservesExistingSettings`
  (postgres/tls_test.go:13) keeps them the other way round; `AppliedIsOnHost` exempts the
  nodes on which settings were written last (`bare`). An agent that dies between the
  HBA file and the reload executes the command again, finds the file up to date (hba.go:56), skips
  the reload and reports success with the old rules loaded, as does an apply after one
  whose failed reload could not be undone; `AppliedIsOnHost` exempts the loaded rules of such
  nodes (`unsure`) until something reloads, and keeps its claim about the file. An extension toggled while an apply
  is in flight is given the outcome of a command built without it; an apply without
  databases reports ready. `UpdateConnectionProfile` takes no lock and may undo an
  overlapping update (`overlap`). Two overlapping `UpdateClusterSettings` may queue in
  another order than they stored. A request cut between the stored admin password and
  its command leaves a password that no role has.
- Node pool: `CreateCluster` checks and assigns in two steps and may take a node from a
  cluster just created; it accepts nodes whose deactivation is pending, which then delete
  a member of a cluster; `DeleteNode` checks and acts in two steps; `node_ids` may name a node
  twice; hostnames are not unique, so overlapping registrations of a host make two rows, and
  so does one failing lookup, whose error is dropped (agent_service.go:144); a failed link leaves
  an agent that no row knows, or a row that no agent has; a deactivation whose report was lost
  stays pending with its row and deactivates the agent that is installed on the host next;
  an agent whose row is deleted while it registers is unknown to the server.
- Serving: a refresh token is accepted as a bearer token (jwt.go:64) and names nobody: its
  audit entries have no user and the viewer's restriction is not applied; an access token
  is accepted for a refresh; with a `token_expiry` above `refresh_expiry` the access token is
  the one that outlives the account longest; a signal during the campaign is not acted upon before the election is decided;
  Connect calls are cut, or find the database closed, when the server stops; the metrics
  listener returns `ErrServerClosed`, so a clean stop exits with status 1; without
  `auth.jwt_secret` a restart generates another secret, and tokens, storage credentials and
  stored secrets of before are lost (config.go:133); an API key's expiry is compared with its
  creation instead of the present time; two servers that start on an empty shared
  database both insert the default account.
- Backups: schedules are not loaded again after a restart, and `UpdateSchedule` hands the
  worker a schedule without its cluster, so that it takes no more backups
  (worker.go:90 finds no cluster); a running row stays running after a restart, after
  the thirty minutes and after a failing read at the start of its job (engine.go:31, 65); a
  failing DELETE leaves a listed and enabled schedule without its entry (backup_service.go:243); a restore does not look at its `backup_id`; an update of a missing
  schedule adds a cron entry; overlapping update and deletion leave one behind; on SQLite
  the rows of a deleted cluster stay.

## 6. Not modelled

- The web UI, a client of the API, and the generated marshalling under `gen/`, which is
  more than a third of the Go code and carries no behaviour; its service descriptors and
  path tables are in `Routes`.
- Code without a caller: webhooks, the metadata backup, `CleanupExpired`, the S3 upload,
  `RegisterMember` and the watch helpers of the DCS, single-key settings.
- pgBackRest, package managers, Docker, PostgreSQL and etcd themselves: external, present
  by what they may answer and leave behind.
- Metrics collection, redaction, formatting, validation of names and addresses.
- Replication lag and WAL positions: the engine chooses by `last_seen`, never by them.
- A failover while managed commands are pending: `ManagedObjects` and `Features` have a
  primary that stays the same.

## 7. What could follow

1. A failover that meets pending commands of managed objects or features (section 6).
2. `RunningWhenFinished` for native nodes under a continuation that is queued in one
   transaction with the preflight's result, which would close the gap of `ProvisionPremature`.
