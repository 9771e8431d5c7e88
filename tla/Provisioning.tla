---------------------------- MODULE Provisioning ----------------------------
(***************************************************************************)
(* The provisioning of a cluster: from the commit of CreateCluster         *)
(* (internal/server/cluster_service.go) through the commands the agents    *)
(* fetch, execute and report (internal/agent/agent.go), the conflicts an   *)
(* operator resolves (internal/server/node_service.go) and the handlers of *)
(* ReportCommandResult and ReportStatus (internal/server/agent_service.go) *)
(* to the cluster's first status other than creating.                      *)
(*                                                                         *)
(* Rows are written one statement at a time by goroutines that share no    *)
(* lock: CreateCluster, one result handler per node, one status report per *)
(* node, one conflict resolution per node.  An agent runs its heartbeat    *)
(* and its command loop side by side; what a heartbeat reports is read     *)
(* before two remote calls and stored after them.                          *)
(***************************************************************************)
EXTENDS Integers, Sequences, FiniteSets

CONSTANTS
  Nodes,          \* the selected nodes
  Order,          \* ListByCluster's order: the primary, then the replicas
  Location,       \* service_location: "native" or "docker"
  Found,          \* what PostgreSQL may be on a host at the start
  Remembered,     \* what an agent may report from an earlier cluster
  StaleInstalled, \* nodes recorded as installed whose host has nothing left
  Choices,        \* what the operator may choose in a conflict
  None,           \* nothing in flight
  MaxFailures,    \* bound: commands that fail for no modelled reason
  MaxDisturbances, \* bound: result and status reports lost, and agent restarts
  MaxAborts,      \* bound: handlers cut short by an error or a crash, and failing
                  \* attempts to skip what is pending
  MaxResolves     \* bound: conflict resolutions begun

\* Nothing; packages; packages and a data directory; a server; a data directory
\* without packages.
HostStates == {"none", "installed", "data", "running", "leftover"}
Conflicts == {"conflict", "conflict_data"}
InstallStates == {"pending", "nothing_found", "installing", "installed",
                  "failed", "adopted"} \cup Conflicts

ASSUME ProvisioningAssumption ==
  /\ IsFiniteSet(Nodes)
  /\ Order \in Seq(Nodes) /\ Order # <<>>
  /\ \A n \in Nodes : \E i \in 1..Len(Order) : Order[i] = n
  /\ Location \in {"native", "docker"}
  /\ Found \subseteq HostStates /\ Remembered \subseteq InstallStates
  /\ StaleInstalled \subseteq Nodes
  /\ Choices \subseteq {"ADOPT", "PURGE", "ABORT"}
  /\ {MaxFailures, MaxDisturbances, MaxAborts, MaxResolves} \subseteq Nat

VARIABLES
  cluster,   \* clusters.status
  inst,      \* nodes.installation_state with what conflict_details tells
  status,    \* nodes.status: online or offline
  cmds,      \* per node, the agent_commands rows in creation order
  pg,        \* per host: PostgreSQL packages, data directory, process
  replUser,  \* the replication user exists on the primary
  agent,     \* per agent, the installation report kept in memory
  beat,      \* per agent, the status report on its way, or None
  job,       \* per agent, the command being executed or reported
  creator,   \* the commands CreateCluster has still to insert
  handler,   \* per node, the ReportCommandResult handler
  resolver,  \* per node, the ResolveInstallationConflict handler
  used       \* how much of each bound has been used; history: whether a command was
             \* fetched early, whether an outdated report was stored

agentVars == <<pg, replUser, agent, beat, job>>
serverVars == <<creator, handler, resolver>>
vars == <<cluster, inst, status, cmds, agentVars, serverVars, used>>

Primary == Order[1]

-----------------------------------------------------------------------------
(* The command sequences.                                                  *)

primaryCommands == <<"pg_init", "pg_start", "pg_create_repl_user">>
replicaCommands == <<"pg_basebackup", "repoint_replica", "pg_start">>
RoleCommands(n) == IF n = Primary THEN primaryCommands ELSE replicaCommands

\* What CreateCluster queues for a node; native nodes are looked at first.
CreateCommands(n) ==
  IF Location = "native" THEN <<"pg_preflight">>
                         ELSE <<"pg_install_docker">> \o RoleCommands(n)

\* queueNativeProvisioningContinuation, after a preflight that found nothing.
Continuation(n) ==
  (IF n \in StaleInstalled THEN <<>> ELSE <<"pg_install_native">>) \o RoleCommands(n)

\* queueAdoptCommands and queuePurgeCommands.
ResolveCommands(n, choice) ==
  CASE choice = "PURGE" ->
         <<"pg_purge_native", "pg_install_native">> \o RoleCommands(n)
    [] choice = "ADOPT" /\ inst[n] = "conflict_data" ->
         <<"pg_adopt_native">> \o (IF n = Primary THEN <<"pg_create_repl_user">> ELSE <<>>)
    [] choice = "ADOPT" /\ inst[n] # "conflict_data" ->
         <<"pg_adopt_native">> \o RoleCommands(n)
    [] choice = "ABORT" -> <<>>

Actions == {"pg_preflight", "pg_install_native", "pg_install_docker",
            "pg_purge_native", "pg_adopt_native", "pg_init", "pg_start",
            "pg_create_repl_user", "pg_basebackup", "repoint_replica"}
InstallActions == {"pg_install_native", "pg_install_docker", "pg_purge_native"}
\* Actions whose failure the agent remembers in its installation report.
ReportedActions == InstallActions \cup {"pg_preflight", "pg_adopt_native"}

Statuses == {"pending", "completed", "failed"}
NoJob == [at |-> "idle", cmd |-> 0, ok |-> FALSE, found |-> "none"]
NoHandler == [at |-> "idle", todo |-> <<>>, next |-> "creating"]
NoResolver == [at |-> "idle", todo |-> <<>>]

Pending(n) == {i \in DOMAIN cmds[n] : cmds[n][i].st = "pending"}
AnyWith(st) == \E n \in Nodes : \E i \in DOMAIN cmds[n] : cmds[n][i].st = st
Insert(n, a) == cmds' = [cmds EXCEPT ![n] = Append(@, [action |-> a, st |-> "pending"])]

BoundNames == {"failures", "lost", "restarts", "aborts", "unmarked", "resolves", "early", "outdated"}
Use(b) == used' = [used EXCEPT ![b] = @ + 1]
MayDisturb == used["lost"] + used["restarts"] < MaxDisturbances
MayAbort == used["aborts"] + used["unmarked"] < MaxAborts
Note(b, met) == used' = IF met THEN [used EXCEPT ![b] = 1] ELSE used

-----------------------------------------------------------------------------
\* The transaction of CreateCluster has just been committed.
Init ==
  /\ cluster = "creating"
  /\ inst = [n \in Nodes |-> "pending"]
  /\ status = [n \in Nodes |-> "online"]
  /\ cmds = [n \in Nodes |-> <<>>]
  /\ pg \in [Nodes -> Found]
  /\ \A n \in StaleInstalled : pg[n] = "none"
  /\ replUser = FALSE
  /\ agent \in [Nodes -> Remembered]
  /\ beat = [n \in Nodes |-> None]
  /\ job = [n \in Nodes |-> NoJob]
  /\ creator = [k |-> 1, todo |-> CreateCommands(Order[1])]
  /\ handler = [n \in Nodes |-> NoHandler]
  /\ resolver = [n \in Nodes |-> NoResolver]
  /\ used = [b \in BoundNames |-> 0]

\* CreateCluster is still queueing commands.
Creating == creator.k <= Len(Order)

\* queuePrimaryCommands and queueReplicaCommands: one INSERT per command, the
\* nodes in order, outside any transaction.
QueueCommand ==
  /\ Creating
  /\ Insert(Order[creator.k], Head(creator.todo))
  /\ creator' = IF Len(creator.todo) > 1
                  THEN [creator EXCEPT !.todo = Tail(@)]
                  ELSE [k |-> creator.k + 1,
                        todo |-> IF creator.k < Len(Order)
                                   THEN CreateCommands(Order[creator.k + 1]) ELSE <<>>]
  /\ UNCHANGED <<cluster, inst, status, agentVars, handler, resolver, used>>

-----------------------------------------------------------------------------
(* The agent's command loop.                                               *)

\* FetchCommand: the oldest pending command, one at a time, also of a list that
\* CreateCluster or the operator's request is still queueing.
FetchCommand(n) ==
  /\ job[n].at = "idle" /\ Pending(n) # {}
  /\ Note("early", Creating \/ resolver[n].at # "idle")
  /\ \E i \in Pending(n) :
       /\ \A j \in Pending(n) : i <= j
       /\ job' = [job EXCEPT ![n] = [NoJob EXCEPT !.at = "run", !.cmd = i]]
       /\ agent' = [agent EXCEPT ![n] =
                      IF cmds[n][i].action \in InstallActions THEN "installing" ELSE @]
  /\ UNCHANGED <<cluster, inst, status, cmds, pg, replUser, beat, serverVars>>

Action(n) == cmds[n][job[n].cmd].action

\* IsInitialized: the data directory holds PG_VERSION.
IsInitialized(h) == h \in {"data", "running", "leftover"}

\* What executeCommand needs of the host, and of the primary.
CanWork(n, a) ==
  CASE a = "pg_adopt_native" -> pg[n] \notin {"none", "leftover"}
    [] a = "pg_init" -> pg[n] # "none"
    [] a = "pg_start" -> pg[n] \in {"data", "running"}
    [] a = "pg_create_repl_user" -> pg[n] = "running"
    [] a = "pg_basebackup" -> \/ IsInitialized(pg[n])
                              \/ pg[n] = "installed" /\ pg[Primary] = "running" /\ replUser
    [] a = "repoint_replica" -> IsInitialized(pg[n])
    [] OTHER -> TRUE

\* The host after each command.  Install adds the packages and stops a server
\* that they, or an earlier one, have started.
stopNativePostgres(h) == IF h = "running" THEN "data" ELSE h
NativeInstall(h) == CASE h = "none" -> "installed"
                      [] h = "leftover" -> "data"
                      [] OTHER -> stopNativePostgres(h)
DockerInstall(h) == "running"
NativePurge(h) == "none"
InitDB(h) == IF IsInitialized(h) THEN h ELSE "data"
Start(h) == "running"
BaseBackup(h) == IF IsInitialized(h) THEN h ELSE "data"

HostAfter(h, a) ==
  CASE a = "pg_install_native" -> NativeInstall(h)
    [] a = "pg_install_docker" -> DockerInstall(h)
    [] a = "pg_purge_native" -> NativePurge(h)
    [] a = "pg_init" -> InitDB(h)
    [] a = "pg_start" -> Start(h)
    [] a = "pg_basebackup" -> BaseBackup(h)
    [] OTHER -> h

\* Most commands do more than one thing: one that fails may have done its main
\* work, and a purge may have stopped the server or removed the packages only.
HostsAfterFailure(h, a) ==
  IF a = "pg_purge_native"
    THEN {h, stopNativePostgres(h)} \cup (IF IsInitialized(h) THEN {"leftover"} ELSE {})
    ELSE {h, HostAfter(h, a)}

\* Preflight's verdict, kept in the report and sent as the command's output.
Preflight(n) == CASE pg[n] = "none" -> "nothing_found"
                  [] pg[n] = "installed" -> "conflict"
                  [] OTHER -> "conflict_data"

\* The agent's installation report after a command that worked.
ReportAfter(n, a) ==
  CASE a = "pg_preflight" -> Preflight(n)
    [] a \in {"pg_install_native", "pg_install_docker"} -> "installed"
    [] a = "pg_adopt_native" -> "adopted"
    [] OTHER -> agent[n]

ExecuteCommand(n) ==
  /\ job[n].at = "run"
  /\ LET a == Action(n) IN
     \/ /\ CanWork(n, a)
        /\ pg' = [pg EXCEPT ![n] = HostAfter(@, a)]
        /\ replUser' = (replUser \/ a = "pg_create_repl_user")
        /\ agent' = [agent EXCEPT ![n] = ReportAfter(n, a)]
        /\ job' = [job EXCEPT ![n].at = "report", ![n].ok = TRUE, ![n].found = pg[n]]
        /\ UNCHANGED used
     \/ /\ \/ ~CanWork(n, a) /\ UNCHANGED <<pg, used>>
           \/ /\ CanWork(n, a) /\ used["failures"] < MaxFailures /\ Use("failures")
              /\ \E h \in HostsAfterFailure(pg[n], a) : pg' = [pg EXCEPT ![n] = h]
        /\ agent' = [agent EXCEPT ![n] = IF a \in ReportedActions THEN "failed" ELSE @]
        /\ job' = [job EXCEPT ![n].at = "report"]
        /\ UNCHANGED replUser
  /\ UNCHANGED <<cluster, inst, status, cmds, beat, serverVars>>

\* ReportCommandResult, UpdateResult: the row is overwritten whatever it says.
\* A result that is lost leaves the command pending: it is executed again.
ReportCommandResult(n) ==
  /\ job[n].at = "report"
  /\ \/ /\ cmds' = [cmds EXCEPT ![n][job[n].cmd].st =
                      IF job[n].ok THEN "completed" ELSE "failed"]
        /\ job' = [job EXCEPT ![n].at = "wait"]
        /\ handler' = [handler EXCEPT ![n].at = "apply"]
        /\ UNCHANGED used
     \/ /\ MayDisturb /\ Use("lost")
        /\ job' = [job EXCEPT ![n] = NoJob]
        /\ UNCHANGED <<cmds, handler>>
  /\ UNCHANGED <<cluster, inst, status, pg, replUser, agent, beat, creator, resolver>>

-----------------------------------------------------------------------------
(* The agent's heartbeat loop, and its restarts.                           *)

\* sendHeartbeat reads the installation report and whether PostgreSQL runs,
\* then calls Heartbeat, which records the node online.
SendHeartbeat(n) ==
  /\ beat[n] = None
  /\ beat' = [beat EXCEPT ![n] = [state |-> agent[n], running |-> pg[n] = "running"]]
  /\ status' = [status EXCEPT ![n] = "online"]
  /\ UNCHANGED <<cluster, inst, cmds, pg, replUser, agent, job, serverVars, used>>

\* ReportStatus stores what sendHeartbeat read, which a command begun or
\* executed meanwhile may have outdated.
ReportStatus(n) ==
  /\ beat[n] # None
  /\ beat' = [beat EXCEPT ![n] = None]
  /\ \/ /\ inst' = [inst EXCEPT ![n] = beat[n].state]
        /\ status' = [status EXCEPT ![n] = IF beat[n].running THEN "online" ELSE "offline"]
        /\ Note("outdated", beat[n].state # agent[n])
     \/ /\ MayDisturb /\ Use("lost")
        /\ UNCHANGED <<inst, status>>
  /\ UNCHANGED <<cluster, cmds, pg, replUser, agent, job, serverVars>>

\* A new agent process knows nothing of what the old one did.  An orderly
\* shutdown stops PostgreSQL, a crash leaves it alone.  The handler of a
\* result just sent goes on; AbortHandler ends it with the connection.
RestartAgent(n) ==
  /\ MayDisturb /\ Use("restarts")
  /\ agent' = [agent EXCEPT ![n] = "pending"]
  /\ beat' = [beat EXCEPT ![n] = None]
  /\ job' = [job EXCEPT ![n] = IF @.at = "wait" THEN @ ELSE NoJob]
  /\ pg' \in {pg, [pg EXCEPT ![n] = IF @ = "running" THEN "data" ELSE @]}
  /\ status' = [status EXCEPT ![n] = "online"]
  /\ UNCHANGED <<cluster, inst, cmds, replUser, serverVars>>

-----------------------------------------------------------------------------
(* The handler of a command result.                                        *)

\* The handler of n goes on at another step, or returns to the agent.
GotoStep(n, at) == handler' = [handler EXCEPT ![n].at = at] /\ UNCHANGED job
Decide(n, next, at) ==
  handler' = [handler EXCEPT ![n].at = at, ![n].next = next] /\ UNCHANGED job
\* Mutant: the agent waits for an answer for ever.
ReturnWithoutAnswer(n) ==
  /\ handler' = [handler EXCEPT ![n] = NoHandler]
  /\ UNCHANGED job

Return(n) ==
  /\ handler' = [handler EXCEPT ![n] = NoHandler]
  /\ job' = [job EXCEPT ![n] = NoJob]
SetInst(n, st) == inst' = [inst EXCEPT ![n] = st]
keepHosts == UNCHANGED <<pg, replUser, agent, beat>>

\* What handleProvisioningCommandResult stores in installation_state.
InstAfter(n) ==
  LET a == Action(n) IN
  CASE ~job[n].ok -> IF cluster = "creating" THEN "failed" ELSE inst[n]
    [] job[n].ok /\ a = "pg_preflight" ->
         CASE job[n].found = "none" -> "installing"
           [] job[n].found = "installed" -> "conflict"
           [] OTHER -> "conflict_data"
    [] job[n].ok /\ a \in {"pg_install_native", "pg_install_docker"} -> "installed"
    [] job[n].ok /\ a = "pg_purge_native" -> "installing"
    [] job[n].ok /\ a = "pg_adopt_native" -> "adopted"
    [] OTHER -> inst[n]

\* handleProvisioningCommandResult up to its first write.
HandleResult(n) ==
  /\ handler[n].at = "apply"
  /\ SetInst(n, InstAfter(n))
  /\ LET a == Action(n) IN
     \/ /\ ~job[n].ok
        /\ IF cluster = "creating" THEN GotoStep(n, "check")
                                   ELSE Decide(n, "degraded", "lifecycleWrite")
        /\ UNCHANGED status
     \/ /\ job[n].ok /\ a = "pg_preflight" /\ job[n].found = "none"
        /\ handler' = [handler EXCEPT ![n].at = "queue", ![n].todo = Continuation(n)]
        /\ UNCHANGED <<job, status>>
     \/ /\ job[n].ok /\ a = "pg_start"
        /\ status' = [status EXCEPT ![n] = "online"]
        /\ GotoStep(n, "lifecycle")
     \/ /\ job[n].ok /\ a # "pg_start"
        /\ ~(a = "pg_preflight" /\ job[n].found = "none")
        /\ GotoStep(n, "check")
        /\ UNCHANGED status
  /\ keepHosts
  /\ UNCHANGED <<cluster, cmds, creator, resolver, used>>

\* queueNativeProvisioningContinuation: one INSERT per command.
QueueContinuation(n) ==
  /\ handler[n].at = "queue"
  /\ Insert(n, Head(handler[n].todo))
  /\ handler' = [handler EXCEPT ![n].todo = Tail(@),
                                ![n].at = IF Len(handler[n].todo) > 1 THEN "queue" ELSE "check"]
  /\ keepHosts
  /\ UNCHANGED <<cluster, inst, status, job, creator, resolver, used>>

\* updateClusterLifecycleStatus, called after pg_start: it leaves a creating
\* cluster alone, and any other with a pg_start still to come.
UpdateClusterLifecycleStatus(n) ==
  /\ handler[n].at = "lifecycle"
  /\ LET starting == \E m \in Nodes : \E i \in Pending(m) : cmds[m][i].action = "pg_start"
         online == \E m \in Nodes : status[m] = "online"
     IN IF cluster = "creating" \/ starting THEN GotoStep(n, "check")
        ELSE Decide(n, IF online THEN "running" ELSE "stopped", "lifecycleWrite")
  /\ keepHosts
  /\ UNCHANGED <<cluster, inst, status, cmds, creator, resolver, used>>

LifecycleWrite(n) ==
  /\ handler[n].at = "lifecycleWrite"
  /\ cluster' = handler[n].next
  /\ GotoStep(n, "check")
  /\ keepHosts
  /\ UNCHANGED <<inst, status, cmds, creator, resolver, used>>

Unfinished == {"pending", "installing"} \cup Conflicts

\* Mutant: a failed node is one that is not finished yet.
CheckNodesFailedWaits(n) ==
  /\ handler[n].at = "check"
  /\ IF cluster = "creating" /\ \A m \in Nodes : inst[m] \notin Unfinished \cup {"failed"}
       THEN GotoStep(n, "list") ELSE Return(n)
  /\ keepHosts
  /\ UNCHANGED <<cluster, inst, status, cmds, creator, resolver, used>>

\* updateClusterProvisioningStatus, first part: the first node in order that
\* is unfinished or failed decides, if there is one.
CheckNodes(n) ==
  /\ handler[n].at = "check"
  /\ \/ /\ cluster # "creating" /\ Return(n)
     \/ /\ cluster = "creating"
        /\ \A m \in Nodes : inst[m] \notin Unfinished \cup {"failed"}
        /\ GotoStep(n, "list")
     \/ /\ cluster = "creating"
        /\ \E i \in 1..Len(Order) :
             /\ inst[Order[i]] \in Unfinished \cup {"failed"}
             /\ \A j \in 1..(i-1) : inst[Order[j]] \notin Unfinished \cup {"failed"}
             /\ IF inst[Order[i]] = "failed" THEN Decide(n, "stopped", "cancel")
                                             ELSE Return(n)
  /\ keepHosts
  /\ UNCHANGED <<cluster, inst, status, cmds, creator, resolver, used>>

\* Mutant: the installation states are trusted to show every failure.
CheckCommandsPendingOnly(n) ==
  /\ handler[n].at = "list"
  /\ IF AnyWith("pending") THEN Return(n) ELSE Decide(n, "running", "write")
  /\ keepHosts
  /\ UNCHANGED <<cluster, inst, status, cmds, creator, resolver, used>>

\* Mutant: only the commands of the reporting node are listed.
CheckCommandsOwnNode(n) ==
  /\ handler[n].at = "list"
  /\ \/ /\ AnyWith("failed") /\ Decide(n, "stopped", "cancel")
     \/ /\ ~AnyWith("failed") /\ Pending(n) # {} /\ Return(n)
     \/ /\ ~AnyWith("failed") /\ Pending(n) = {} /\ Decide(n, "running", "write")
  /\ keepHosts
  /\ UNCHANGED <<cluster, inst, status, cmds, creator, resolver, used>>

\* Second part: the commands.  A failed one stops the cluster, a pending one
\* leaves it creating, otherwise it runs.
CheckCommands(n) ==
  /\ handler[n].at = "list"
  /\ \/ /\ AnyWith("failed") /\ Decide(n, "stopped", "cancel")
     \/ /\ ~AnyWith("failed") /\ AnyWith("pending") /\ Return(n)
     \/ /\ ~AnyWith("failed") /\ ~AnyWith("pending") /\ Decide(n, "running", "write")
  /\ keepHosts
  /\ UNCHANGED <<cluster, inst, status, cmds, creator, resolver, used>>

\* Mutant: only the commands of the reporting node are skipped.
CancelPendingOwnNode(n) ==
  /\ handler[n].at = "cancel"
  /\ cmds' = [cmds EXCEPT ![n] = [i \in DOMAIN cmds[n] |->
                [cmds[n][i] EXCEPT !.st = IF @ = "pending" THEN "failed" ELSE @]]]
  /\ GotoStep(n, "write")
  /\ keepHosts
  /\ UNCHANGED <<cluster, inst, status, creator, resolver, used>>

\* MarkPendingFailedByNodeIDs: "skipped after provisioning failure".  Its error
\* is only logged.
CancelPending(n) ==
  /\ handler[n].at = "cancel"
  /\ \/ /\ cmds' = [m \in Nodes |-> [i \in DOMAIN cmds[m] |->
                     [cmds[m][i] EXCEPT !.st = IF @ = "pending" THEN "failed" ELSE @]]]
        /\ UNCHANGED used
     \/ MayAbort /\ Use("unmarked") /\ UNCHANGED cmds
  /\ GotoStep(n, "write")
  /\ keepHosts
  /\ UNCHANGED <<cluster, inst, status, creator, resolver>>

WriteStatus(n) ==
  /\ handler[n].at = "write"
  /\ cluster' = handler[n].next
  /\ Return(n)
  /\ keepHosts
  /\ UNCHANGED <<inst, status, cmds, creator, resolver, used>>

HandlerStep(n) ==
  \/ HandleResult(n) \/ QueueContinuation(n) \/ UpdateClusterLifecycleStatus(n)
  \/ LifecycleWrite(n) \/ CheckNodes(n) \/ CheckCommands(n) \/ CancelPending(n)
  \/ WriteStatus(n)

-----------------------------------------------------------------------------
(* The operator: ResolveInstallationConflict.                              *)

\* The checks; the node row read here decides what is queued later.
ResolveInstallationConflict(n, choice) ==
  /\ resolver[n].at = "idle"
  /\ inst[n] \in Conflicts /\ cluster = "creating" /\ Location = "native"
  /\ used["resolves"] < MaxResolves /\ Use("resolves")
  /\ resolver' = [resolver EXCEPT ![n] =
                    [at |-> IF choice = "ABORT" THEN "abort" ELSE "install",
                     todo |-> ResolveCommands(n, choice)]]
  /\ UNCHANGED <<cluster, inst, status, cmds, agentVars, creator, handler>>

\* The state written before anything is queued, or before the cluster stops.
ResolveState(n) ==
  /\ \/ /\ resolver[n].at = "install"
        /\ SetInst(n, "installing")
        /\ resolver' = [resolver EXCEPT ![n].at = "queue"]
     \/ /\ resolver[n].at = "abort"
        /\ SetInst(n, "failed")
        /\ resolver' = [resolver EXCEPT ![n].at = "stop"]
  /\ UNCHANGED <<cluster, status, cmds, agentVars, creator, handler, used>>

ResolveQueue(n) ==
  /\ resolver[n].at = "queue"
  /\ Insert(n, Head(resolver[n].todo))
  /\ resolver' = [resolver EXCEPT ![n].todo = Tail(@),
                                  ![n].at = IF Len(resolver[n].todo) > 1 THEN "queue" ELSE "idle"]
  /\ UNCHANGED <<cluster, inst, status, agentVars, creator, handler, used>>

ResolveAbort(n) ==
  /\ resolver[n].at = "stop"
  /\ cluster' = "stopped"
  /\ resolver' = [resolver EXCEPT ![n] = NoResolver]
  /\ UNCHANGED <<inst, status, cmds, agentVars, creator, handler, used>>

ResolverStep(n) == ResolveState(n) \/ ResolveQueue(n) \/ ResolveAbort(n)

\* A handler that ends early: an error of the database, a closed connection,
\* a crash of the server.  What it has written stays.  An error of
\* handleProvisioningCommandResult is logged and the evaluation follows.
AbortHandler ==
  /\ MayAbort /\ Use("aborts")
  /\ \/ /\ Creating
        /\ creator' = [k |-> Len(Order) + 1, todo |-> <<>>]
        /\ UNCHANGED <<job, handler, resolver>>
     \/ \E n \in Nodes : /\ handler[n].at # "idle"
                         /\ Return(n)
                         /\ UNCHANGED <<creator, resolver>>
     \/ \E n \in Nodes : /\ handler[n].at \in {"apply", "queue", "lifecycle", "lifecycleWrite"}
                         /\ handler' = [handler EXCEPT ![n].at = "check", ![n].todo = <<>>]
                         /\ UNCHANGED <<job, creator, resolver>>
     \/ \E n \in Nodes : /\ resolver[n].at # "idle"
                         /\ resolver' = [resolver EXCEPT ![n] = NoResolver]
                         /\ UNCHANGED <<job, creator, handler>>
  /\ keepHosts
  /\ UNCHANGED <<cluster, inst, status, cmds>>

AgentStep(n) == FetchCommand(n) \/ ExecuteCommand(n) \/ ReportCommandResult(n)
HeartbeatStep(n) == SendHeartbeat(n) \/ ReportStatus(n)

Next ==
  \/ QueueCommand
  \/ \E n \in Nodes : \/ AgentStep(n) \/ HeartbeatStep(n) \/ RestartAgent(n)
                      \/ HandlerStep(n) \/ ResolverStep(n)
                      \/ \E choice \in Choices : ResolveInstallationConflict(n, choice)
  \/ AbortHandler

Spec == Init /\ [][Next]_vars

-----------------------------------------------------------------------------
Jobs == [at : {"idle", "run", "report", "wait"}, cmd : Nat, ok : BOOLEAN, found : HostStates]
Steps == {"idle", "apply", "queue", "lifecycle", "lifecycleWrite", "check", "list",
          "cancel", "write"}
ClusterStates == {"creating", "running", "degraded", "stopped"}

\* The rows hold values the models package defines, the handlers run only for
\* a result that was reported, and what an agent works on is a row of its node.
TypeOK ==
  /\ cluster \in ClusterStates
  /\ inst \in [Nodes -> InstallStates]
  /\ status \in [Nodes -> {"online", "offline"}]
  /\ cmds \in [Nodes -> Seq([action : Actions, st : Statuses])]
  /\ pg \in [Nodes -> HostStates]
  /\ replUser \in BOOLEAN
  /\ agent \in [Nodes -> InstallStates]
  /\ beat \in [Nodes -> [state : InstallStates, running : BOOLEAN] \cup {None}]
  /\ job \in [Nodes -> Jobs]
  /\ creator \in [k : Nat, todo : Seq(Actions)]
  /\ handler \in [Nodes -> [at : Steps, todo : Seq(Actions), next : ClusterStates]]
  /\ resolver \in [Nodes -> [at : {"idle", "install", "abort", "queue", "stop"},
                             todo : Seq(Actions)]]
  /\ used \in [BoundNames -> Nat]
  /\ \A n \in Nodes : /\ job[n].at # "idle" => job[n].cmd \in DOMAIN cmds[n]
                       /\ (handler[n].at # "idle") <=> (job[n].at = "wait")

\* What GetClusterHealth shows: the status and the steps of the provisioning.
computeActionProgress ==
  LET With(st) == UNION {{<<n, i>> : i \in {j \in DOMAIN cmds[n] : cmds[n][j].st \in st}}
                           : n \in Nodes}
  IN [total |-> Cardinality(With(Statuses)), completed |-> Cardinality(With({"completed"})),
      failed |-> Cardinality(With({"failed"})), inProgress |-> With({"pending"}) # {}]

GetClusterHealth == [status |-> cluster, progress |-> computeActionProgress]

\* Every command the node needs has been queued.
AllQueued(n) ==
  /\ cmds[n] # <<>>
  /\ cmds[n][Len(cmds[n])].action \in
       IF n = Primary THEN {"pg_create_repl_user"} ELSE {"pg_start", "pg_adopt_native"}
  /\ handler[n].todo = <<>> /\ resolver[n].todo = <<>>

\* No handler was cut short, no agent met a list still being queued and, on native
\* nodes, no status report was stored that a command had overtaken.
Orderly == /\ used["aborts"] = 0 /\ used["early"] = 0
           /\ Location = "docker" \/ used["outdated"] = 0

\* A cluster shown as creating becomes running only when every node has been
\* given all it needs and the progress shown has reached the last step: no failed
\* command is forgotten when a heartbeat overwrites the failed state of its node,
\* no command is still to be queued.
\* Excepted is what the code does not prevent.  The inserts are not in a
\* transaction: after a handler that was cut short the prefix it queued looks
\* complete, and so does the prefix an agent meets that polls between two of
\* them (an adoption takes moments).  On native nodes a status report that a
\* command has overtaken may put an old state over a conflict.
RunningWhenFinished ==
  [][LET shown == GetClusterHealth IN
     shown.status = "creating" /\ cluster' = "running" /\ Orderly
       => /\ shown.progress.completed = shown.progress.total
          /\ \A n \in Nodes : AllQueued(n)]_vars

\* Once a failure has stopped the cluster nothing is left for the agents to
\* do: what was pending on any node has been skipped and nothing is queued any
\* more, even when the handler that skips is cut short and another finishes.
\* Excepted are a failure of the skipping statement itself, which is only logged,
\* and a failure reported by an agent that began before the list was queued.
StoppedSkipsTheRest ==
  cluster = "stopped" /\ used["early"] = 0 /\ used["unmarked"] = 0 => ~AnyWith("pending")

-----------------------------------------------------------------------------
\* Goroutines run, tickers tick and the operator answers.
Fairness ==
  /\ WF_vars(QueueCommand)
  /\ \A n \in Nodes :
       /\ WF_vars(AgentStep(n)) /\ WF_vars(HandlerStep(n)) /\ WF_vars(ResolverStep(n))
       /\ WF_vars(SendHeartbeat(n)) /\ WF_vars(ReportStatus(n))
       /\ WF_vars(\E choice \in Choices : ResolveInstallationConflict(n, choice))

FairSpec == Spec /\ Fairness

\* Provisioning comes to an end: whatever the hosts hold, whatever fails and
\* whatever the operator decides, the cluster leaves the creating status.
\* Excepted: an agent was restarted, a handler was cut short, or a status report
\* that a command had overtaken was stored (it may undo a conflict the operator
\* would be asked about, or the adoption that the last evaluation looks for).
ProvisioningSettles ==
  <>(cluster # "creating" \/ used["restarts"] + used["aborts"] + used["outdated"] > 0)
=============================================================================
