------------------------------ MODULE Lifecycle ------------------------------
(***************************************************************************)
(* The life of a provisioned native cluster: start, pause, restart and     *)
(* deletion (internal/server/cluster_service.go), drain, rejoin, restart   *)
(* and deletion of a node (internal/server/node_service.go), the agents    *)
(* that execute pg_start, pg_stop, repoint_replica and agent_deactivate    *)
(* (internal/agent/agent.go) and the handlers that store results and       *)
(* heartbeats (internal/server/agent_service.go).                          *)
(*                                                                         *)
(* Start, pause, restart and the end of DeleteCluster are transactions;    *)
(* every other operation is a list of single statements with other         *)
(* handlers between them.  Replication is the subject of Failover: here    *)
(* repoint_replica only takes its place in the queue.                      *)
(***************************************************************************)
EXTENDS Integers, Sequences, FiniteSets

CONSTANTS
  Nodes,        \* the nodes of the cluster
  Requests,     \* API requests that can be under way at the same time
  Operations,   \* the operations an operator may ask for
  None,         \* nothing under way
  MaxOps,       \* bound: operations accepted
  MaxFaults     \* bound: commands that fail, results that are lost, handlers
                \* cut short and ends of an agent process, all together

ClusterOperations == {"start", "pause", "restart"}
NodeOperations == {"restart_node", "drain", "rejoin", "delete_node"}

ASSUME LifecycleAssumption ==
  /\ IsFiniteSet(Nodes)
  /\ Operations \subseteq ClusterOperations \cup NodeOperations \cup {"delete"}
  /\ {MaxOps, MaxFaults} \subseteq Nat

VARIABLES
  cluster,  \* clusters.status, "gone" once the row is deleted
  member,   \* nodes.cluster_id is this cluster
  status,   \* nodes.status, "gone" once the row is deleted
  detail,   \* nodes.status_detail: TRUE when it says PostgreSQL is running
  ready,    \* nodes.postgres_installed and postgres_data_initialized
  inst,     \* nodes.installation_state
  agentID,  \* nodes.agent_id: a new one at every registration
  queue,    \* per node, the pending agent_commands rows in creation order
  pg,       \* per host, whether PostgreSQL runs
  proc,     \* per host, the agent process
  mem,      \* per agent, the installation state it reports
  job,      \* per agent, the command being executed or reported; cmd is its
            \* place among the pending ones, 0 once it is cancelled
  beat,     \* per agent, the heartbeat on its way, or None
  req,      \* per request, the statements it has still to make, or None
  want,     \* history: what the last command queued for a node leaves behind
  used      \* how much of each bound has been used

rowVars == <<cluster, member, status, detail, ready, inst, agentID>>
hostVars == <<pg, proc, mem>>
vars == <<rowVars, queue, hostVars, job, beat, req, want, used>>

Actions == {"pg_start", "pg_stop", "repoint_replica", "agent_deactivate"}
NodeStatuses == {"online", "offline", "drained", "deleting", "gone"}
InstStates == {"installed", "pending", "failed", "unset"}

BoundNames == {"ops", "faults"}
Limit == [ops |-> MaxOps, faults |-> MaxFaults]
Use(b) == used[b] < Limit[b] /\ used' = [used EXCEPT ![b] = @ + 1]

NoJob == [at |-> "idle", action |-> "pg_stop", cmd |-> 0, ok |-> FALSE]

Members == {n \in Nodes : member[n]}
Command(n, a) == [action |-> a, node |-> n, agent |-> agentID[n]]

\* isLifecycleOnlyAction, for a pending command of one of the nodes.
LifecyclePending(ns) ==
  \E n \in ns : \E i \in DOMAIN queue[n] : queue[n][i].action \in {"pg_start", "pg_stop"}

\* What a command leaves behind on the host.
Effect(n, a) ==
  CASE a = "pg_start" -> "running"
    [] a \in {"pg_stop", "agent_deactivate"} -> "stopped"
    [] a = "repoint_replica" -> want[n]

-----------------------------------------------------------------------------
\* Connected agents, and either a cluster whose provisioning is over or the
\* pool of nodes a deleted cluster left behind.
Init ==
  /\ cluster \in {"running", "gone"}
  /\ member = [n \in Nodes |-> cluster = "running"]
  /\ status = [n \in Nodes |-> IF cluster = "running" THEN "online" ELSE "offline"]
  /\ detail = [n \in Nodes |-> cluster = "running"]
  /\ ready = [n \in Nodes |-> TRUE]
  /\ inst = [n \in Nodes |-> IF cluster = "running" THEN "installed" ELSE "unset"]
  /\ agentID = [n \in Nodes |-> 0]
  /\ queue = [n \in Nodes |-> <<>>]
  /\ pg = [n \in Nodes |-> cluster = "running"]
  /\ proc = [n \in Nodes |-> "up"]
  /\ mem = [n \in Nodes |-> "installed"]
  /\ job = [n \in Nodes |-> NoJob]
  /\ beat = [n \in Nodes |-> None]
  /\ req = [q \in Requests |-> None]
  /\ want = [n \in Nodes |-> IF cluster = "running" THEN "running" ELSE "stopped"]
  /\ used = [b \in BoundNames |-> 0]

-----------------------------------------------------------------------------
(* Operations on the cluster.                                              *)

nodeEligibleForLifecycle(n) == ready[n] /\ inst[n] = "installed"

Eligible == {n \in Members : nodeEligibleForLifecycle(n)}

hasPendingClusterCommands(ns) == \E n \in ns : queue[n] # <<>>

\* The commands of an operation.  The two commands of a restart carry the same
\* created_at, the only key FetchCommand sorts by: either may come first.
LifecycleCommands(op) ==
  CASE op = "start" -> {<<"pg_start">>}
    [] op = "pause" -> {<<"pg_stop">>}
    [] op = "restart" -> {<<"pg_stop", "pg_start">>, <<"pg_start", "pg_stop">>}

\* queueClusterLifecycle: one transaction over all eligible nodes.
queueClusterLifecycle(op) ==
  /\ op \in Operations \cap ClusterOperations
  /\ cluster # "gone"
  /\ Eligible # {}
  /\ ~hasPendingClusterCommands(Eligible)
  /\ \E order \in LifecycleCommands(op) :
       queue' = [n \in Nodes |->
                   IF n \in Eligible
                     THEN queue[n] \o [i \in DOMAIN order |-> Command(n, order[i])]
                     ELSE queue[n]]
  /\ status' = [n \in Nodes |->
                  IF n \notin Eligible THEN status[n]
                  ELSE IF op = "pause" THEN "offline" ELSE "online"]
  /\ detail' = [n \in Nodes |-> detail[n] /\ n \notin Eligible]
  /\ cluster' = IF op = "pause" THEN "stopped" ELSE "running"
  /\ want' = [n \in Nodes |->
                IF n \notin Eligible THEN want[n]
                ELSE CASE op = "start" -> "running"
                       [] op = "pause" -> "stopped"
                       [] op = "restart" -> "any"]
  /\ Use("ops")
  /\ UNCHANGED <<member, ready, inst, agentID, hostVars, job, beat, req>>

\* requireClusterStoppedForDelete, read before the transaction.
requireClusterStopped ==
  /\ ~LifecyclePending(Members)
  /\ \A n \in Members : status[n] # "online" /\ ~detail[n]

BeginDelete(q) ==
  /\ "delete" \in Operations /\ req[q] = None
  /\ cluster # "gone"
  /\ requireClusterStopped
  /\ req' = [req EXCEPT ![q] = [node |-> None, todo |-> <<"delete">>]]
  /\ Use("ops")
  /\ UNCHANGED <<rowVars, queue, hostVars, job, beat, want>>

\* The transaction of DeleteCluster: pending commands fail, nodes go back to
\* the pool, the row is deleted.  A command an agent has fetched runs on.
CommitDelete(q) ==
  /\ req[q] # None /\ req[q].todo = <<"delete">>
  /\ cluster' = "gone"
  /\ queue' = [n \in Nodes |-> IF member[n] THEN <<>> ELSE queue[n]]
  /\ job' = [n \in Nodes |-> IF member[n] THEN [job[n] EXCEPT !.cmd = 0] ELSE job[n]]
  /\ inst' = [n \in Nodes |-> IF member[n] THEN "unset" ELSE inst[n]]
  /\ detail' = [n \in Nodes |-> detail[n] /\ ~member[n]]
  /\ member' = [n \in Nodes |-> FALSE]
  /\ want' = [n \in Nodes |-> IF member[n] THEN "any" ELSE want[n]]
  /\ req' = [req EXCEPT ![q] = None]
  /\ UNCHANGED <<status, ready, agentID, hostVars, beat, used>>

-----------------------------------------------------------------------------
(* Operations on a node: a check, then statements one by one.              *)

\* The statements of RestartNode, DrainNode, RejoinNode and DeleteNode, in
\* order: a command to insert, a status or a status_detail to write.
Statements(op) ==
  CASE op = "restart_node" -> <<"pg_stop", "pg_start">>
    [] op = "drain" -> <<"drained", "detail", "pg_stop">>
    [] op = "rejoin" -> <<"repoint_replica", "pg_start", "online", "detail">>
    [] op = "delete_node" -> <<"agent_deactivate", "deleting", "detail">>

\* What the operation checks of the node it has read.
Allowed(op, n) ==
  /\ status[n] # "gone"
  /\ op = "restart_node" => nodeEligibleForLifecycle(n)
  /\ op = "rejoin" => member[n]
  /\ op = "delete_node" => ~member[n]

BeginNodeOperation(q, n, op) ==
  /\ op \in Operations \cap NodeOperations /\ req[q] = None
  /\ Allowed(op, n)
  /\ req' = [req EXCEPT ![q] = [node |-> n, todo |-> Statements(op)]]
  /\ Use("ops")
  /\ UNCHANGED <<rowVars, queue, hostVars, job, beat, want>>

\* The request's next statement is one of those given, on node n.
NextStatement(q, n, stmts) ==
  /\ req[q] # None /\ req[q].node = n
  /\ Head(req[q].todo) \in stmts
  /\ req' = [req EXCEPT ![q] = IF Len(@.todo) = 1 THEN None
                               ELSE [@ EXCEPT !.todo = Tail(req[q].todo)]]

InsertCommand(q, n) ==
  /\ NextStatement(q, n, Actions)
  /\ LET a == Head(req[q].todo) IN
       /\ queue' = [queue EXCEPT ![n] = Append(@, Command(n, a))]
       /\ want' = [want EXCEPT ![n] = Effect(n, a)]
  /\ UNCHANGED <<rowVars, hostVars, job, beat, used>>

\* An UPDATE of a row that is gone changes nothing.
SetStatus(n, s) == status' = [status EXCEPT ![n] = IF @ = "gone" THEN @ ELSE s]

WriteStatus(q, n) ==
  /\ NextStatement(q, n, NodeStatuses)
  /\ SetStatus(n, Head(req[q].todo))
  /\ UNCHANGED <<cluster, member, detail, ready, inst, agentID, queue, hostVars,
                 job, beat, want, used>>

\* "drained", "rejoining" and "deactivating_agent" do not say running.
WriteDetail(q, n) ==
  /\ NextStatement(q, n, {"detail"})
  /\ detail' = [detail EXCEPT ![n] = FALSE]
  /\ UNCHANGED <<cluster, member, status, ready, inst, agentID, queue, hostVars,
                 job, beat, want, used>>

\* The rest of a request is lost with the server or with its client.
Abandon(q) ==
  /\ req[q] # None
  /\ req' = [req EXCEPT ![q] = None]
  /\ Use("faults")
  /\ UNCHANGED <<rowVars, queue, hostVars, job, beat, want>>

-----------------------------------------------------------------------------
(* The agent's command loop and the handler of its result.                 *)

Step(n, at) == job' = [job EXCEPT ![n].at = at]
Idle(n) == job' = [job EXCEPT ![n] = NoJob]

\* Every call of an agent looks for its node first.
nodeForAgent(n) == status[n] # "gone"

\* A node is healthy (or syncing) or stopped: PostgreSQL and its data are there.
computeNodeStatusDetail(up) == up

\* Mutant: commands of an earlier registration are not listed.
FetchableOwn(n) == {i \in DOMAIN queue[n] : queue[n][i].agent = agentID[n]}

\* ListPendingLimit selects by agent_id or by node_id, oldest first.
Fetchable(n) ==
  {i \in DOMAIN queue[n] : queue[n][i].agent = agentID[n] \/ queue[n][i].node = n}

\* Mutant: a command is no longer pending once it is fetched.
FetchCommandOnce(n) ==
  /\ proc[n] = "up" /\ nodeForAgent(n)
  /\ job[n].at = "idle"
  /\ queue[n] # <<>>
  /\ job' = [job EXCEPT ![n] = [at |-> "run", action |-> Head(queue[n]).action,
                                cmd |-> 0, ok |-> FALSE]]
  /\ queue' = [queue EXCEPT ![n] = Tail(@)]
  /\ UNCHANGED <<rowVars, hostVars, beat, req, want, used>>

FetchCommand(n) ==
  /\ proc[n] = "up" /\ nodeForAgent(n)
  /\ job[n].at = "idle"
  /\ \E i \in Fetchable(n) :
       /\ \A j \in Fetchable(n) : i <= j
       /\ job' = [job EXCEPT ![n] = [at |-> "run", action |-> queue[n][i].action,
                                     cmd |-> i, ok |-> FALSE]]
  /\ UNCHANGED <<rowVars, queue, hostVars, beat, req, want, used>>

\* Mutant: deactivation leaves PostgreSQL running.
UpAfterDeactivateOnly(up, a) == IF a = "agent_deactivate" THEN up ELSE a = "pg_start" \/ (up /\ a # "pg_stop")

\* Whether PostgreSQL runs after Start, Stop or the Stop of a deactivation; a
\* replica is repointed without a restart.
UpAfter(up, a) == a = "pg_start" \/ (up /\ a = "repoint_replica")

\* executeCommand: Start and Stop leave a server that is already in the wanted
\* state alone; deactivation stops PostgreSQL first.
Execute(n) ==
  /\ job[n].at = "run"
  /\ job' = [job EXCEPT ![n].at = "report", ![n].ok = TRUE]
  /\ pg' = [pg EXCEPT ![n] = UpAfter(@, job[n].action)]
  /\ UNCHANGED <<rowVars, queue, proc, mem, beat, req, want, used>>

\* A failed command changes nothing, but a failed deactivation may have stopped
\* PostgreSQL before it failed.  Stop cannot fail on a stopped server.
ExecuteFails(n) ==
  /\ job[n].at = "run"
  /\ job[n].action = "pg_stop" => pg[n]
  /\ job' = [job EXCEPT ![n].at = "report"]
  /\ \/ UNCHANGED pg
     \/ job[n].action = "agent_deactivate" /\ pg' = [pg EXCEPT ![n] = FALSE]
  /\ want' = [want EXCEPT ![n] = "any"]
  /\ Use("faults")
  /\ UNCHANGED <<rowVars, queue, proc, mem, beat, req>>

\* A deactivated agent shuts itself down once it has tried to report.
Shutdown(n) ==
  proc' = [proc EXCEPT ![n] = IF job[n].action = "agent_deactivate" /\ job[n].ok
                                THEN "deactivated" ELSE @]

LoseResult(n) ==
  /\ job[n].at = "report"
  /\ Idle(n) /\ Shutdown(n)
  /\ Use("faults")
  /\ UNCHANGED <<rowVars, queue, pg, mem, beat, req, want>>

\* UpdateResult: the command is no longer pending (it may have been cancelled).
UpdateResult(n) ==
  /\ job[n].at = "report"
  /\ queue' = [queue EXCEPT ![n] =
                 IF job[n].cmd = 0 THEN @
                 ELSE SubSeq(@, 1, job[n].cmd - 1) \o SubSeq(@, job[n].cmd + 1, Len(@))]
  /\ Step(n, CASE job[n].action = "agent_deactivate" -> "lifecycle"
               [] job[n].action # "agent_deactivate" /\ ~job[n].ok -> "failure"
               [] job[n].action = "repoint_replica" /\ job[n].ok -> "done"
               [] OTHER -> "status")
  /\ UNCHANGED <<rowVars, hostVars, beat, req, want, used>>

\* handleAgentLifecycleCommandResult: the node's row goes, or says offline.
AgentLifecycleResult(n) ==
  /\ job[n].at = "lifecycle"
  /\ IF job[n].ok
       THEN status' = [status EXCEPT ![n] = "gone"] /\ UNCHANGED detail
       ELSE SetStatus(n, "offline") /\ detail' = [detail EXCEPT ![n] = FALSE]
  /\ Step(n, "done")
  /\ UNCHANGED <<cluster, member, ready, inst, agentID, queue, hostVars, beat, req, want, used>>

\* handleProvisioningCommandResult of a failed command, with
\* handleLifecycleCommandFailure for a member of a cluster.
FailureResult(n) ==
  /\ job[n].at = "failure"
  /\ IF member[n]
       THEN /\ detail' = [detail EXCEPT ![n] = FALSE]
            /\ Step(n, "degraded")
            /\ UNCHANGED inst
       ELSE /\ inst' = [inst EXCEPT ![n] = "failed"]
            /\ Step(n, "done")
            /\ UNCHANGED detail
  /\ UNCHANGED <<cluster, member, status, ready, agentID, queue, hostVars, beat, req, want, used>>

\* The status of a pg_start or pg_stop that succeeded, then its detail.
StatusResult(n) ==
  /\ job[n].at = "status"
  /\ ready' = [ready EXCEPT ![n] = @ \/ job[n].action = "pg_start"]
  /\ SetStatus(n, IF job[n].action = "pg_start" THEN "online" ELSE "offline")
  /\ Step(n, "detail")
  /\ UNCHANGED <<cluster, member, detail, inst, agentID, queue, hostVars, beat, req, want, used>>

DetailResult(n) ==
  /\ job[n].at = "detail"
  /\ detail' = [detail EXCEPT ![n] = computeNodeStatusDetail(job[n].action = "pg_start")]
  /\ Step(n, "evaluate")
  /\ UNCHANGED <<cluster, member, status, ready, inst, agentID, queue, hostVars, beat,
                 req, want, used>>

\* Mutant: the nodes' status is taken for the cluster's.
EvaluateClusterAsNode(n) ==
  /\ job[n].at = "evaluate"
  /\ Step(n, IF ~member[n] \/ LifecyclePending(Members) THEN "done"
             ELSE IF \A m \in Members : status[m] \in {"offline", "drained"} THEN "offline"
             ELSE "running")
  /\ UNCHANGED <<rowVars, queue, hostVars, beat, req, want, used>>

\* updateClusterLifecycleStatus: what the nodes' rows say now ...
EvaluateCluster(n) ==
  /\ job[n].at = "evaluate"
  /\ Step(n, IF ~member[n] \/ LifecyclePending(Members) THEN "done"
             ELSE IF \A m \in Members : status[m] \in {"offline", "drained"} THEN "stopped"
             ELSE IF \E m \in Members : status[m] = "online" THEN "running"
             ELSE "done")
  /\ UNCHANGED <<rowVars, queue, hostVars, beat, req, want, used>>

\* ... is written a statement later.
WriteCluster(n) ==
  /\ job[n].at \in {"stopped", "running", "degraded"}
  /\ cluster' = IF cluster = "gone" THEN "gone" ELSE job[n].at
  /\ Step(n, "done")
  /\ UNCHANGED <<member, status, detail, ready, inst, agentID, queue, hostVars, beat,
                 req, want, used>>

ResultStored(n) ==
  /\ job[n].at = "done"
  /\ Idle(n) /\ Shutdown(n)
  /\ UNCHANGED <<rowVars, queue, pg, mem, beat, req, want, used>>

\* The handler stops after any of its statements; the agent goes on.
CutHandler(n) ==
  /\ job[n].at \notin {"idle", "run", "report", "done"}
  /\ Step(n, "done")
  /\ Use("faults")
  /\ UNCHANGED <<rowVars, queue, hostVars, beat, req, want>>

-----------------------------------------------------------------------------
(* Heartbeats: what is read on the host is stored after two calls.         *)

BeatStep(n, at) == beat' = [beat EXCEPT ![n].at = at]
EndBeat(n) == beat' = [beat EXCEPT ![n] = None]
Ignored == {"drained", "deleting"}

IsRunning(n) == pg[n]

SampleHost(n) ==
  /\ proc[n] = "up" /\ beat[n] = None
  /\ beat' = [beat EXCEPT ![n] = [at |-> "heartbeat", up |-> IsRunning(n), inst |-> mem[n]]]
  /\ UNCHANGED <<rowVars, queue, hostVars, job, req, want, used>>

\* Heartbeat reads the node's status and then marks it online.
HeartbeatRead(n) ==
  /\ beat[n] # None /\ beat[n].at = "heartbeat"
  /\ IF nodeForAgent(n) THEN BeatStep(n, IF status[n] \in Ignored THEN "report" ELSE "online")
     ELSE EndBeat(n)
  /\ UNCHANGED <<rowVars, queue, hostVars, job, req, want, used>>

HeartbeatWrite(n) ==
  /\ beat[n] # None /\ beat[n].at = "online"
  /\ SetStatus(n, "online")
  /\ BeatStep(n, "report")
  /\ UNCHANGED <<cluster, member, detail, ready, inst, agentID, queue, hostVars,
                 job, req, want, used>>

\* ReportStatus reads the node's status and then stores what was sampled.
ReportRead(n) ==
  /\ beat[n] # None /\ beat[n].at = "report"
  /\ IF nodeForAgent(n) /\ status[n] \notin Ignored THEN BeatStep(n, "status") ELSE EndBeat(n)
  /\ UNCHANGED <<rowVars, queue, hostVars, job, req, want, used>>

\* Mutant: only a running server is stored.
ReportWriteStatusUp(n) ==
  /\ beat[n] # None /\ beat[n].at = "status"
  /\ IF beat[n].up THEN SetStatus(n, "online") ELSE UNCHANGED status
  /\ BeatStep(n, "facts")
  /\ UNCHANGED <<cluster, member, detail, ready, inst, agentID, queue, hostVars,
                 job, req, want, used>>

ReportWriteStatus(n) ==
  /\ beat[n] # None /\ beat[n].at = "status"
  /\ SetStatus(n, IF beat[n].up THEN "online" ELSE "offline")
  /\ BeatStep(n, "facts")
  /\ UNCHANGED <<cluster, member, detail, ready, inst, agentID, queue, hostVars,
                 job, req, want, used>>

ReportWriteFacts(n) ==
  /\ beat[n] # None /\ beat[n].at = "facts"
  /\ ready' = [ready EXCEPT ![n] = TRUE]
  /\ detail' = [detail EXCEPT ![n] = computeNodeStatusDetail(beat[n].up)]
  /\ inst' = [inst EXCEPT ![n] = beat[n].inst]
  /\ EndBeat(n)
  /\ UNCHANGED <<cluster, member, status, agentID, queue, hostVars, job, req, want, used>>

-----------------------------------------------------------------------------
(* The agent process.                                                      *)

\* The process ends: on a signal it stops PostgreSQL first, on a crash it does
\* not.  Its calls end with it and the command stays pending; a handler the
\* server has begun is cut.
AgentEnds(n) ==
  /\ proc[n] = "up"
  /\ \/ UNCHANGED <<pg, want>>
     \/ /\ pg' = [pg EXCEPT ![n] = FALSE]
        /\ want' = [want EXCEPT ![n] =
                       IF \E i \in DOMAIN queue[n] : queue[n][i].action # "repoint_replica"
                         THEN @ ELSE "any"]
  /\ proc' = [proc EXCEPT ![n] = IF job[n].action = "agent_deactivate" /\ job[n].ok
                                   THEN "deactivated" ELSE "down"]
  /\ Idle(n) /\ EndBeat(n)
  /\ Use("faults")
  /\ UNCHANGED <<rowVars, queue, mem, req>>

\* RegisterAgent for a known hostname.  The agent has forgotten what it
\* installed, and its loops start after the answer.
RegisterAgent(n) ==
  /\ proc[n] = "down"
  /\ proc' = [proc EXCEPT ![n] = "up"]
  /\ agentID' = [agentID EXCEPT ![n] = @ + 1]
  /\ SetStatus(n, "online")
  /\ ready' = [ready EXCEPT ![n] = FALSE]
  /\ mem' = [mem EXCEPT ![n] = "pending"]
  /\ UNCHANGED <<cluster, member, detail, inst, queue, pg, job, beat, req, want, used>>

-----------------------------------------------------------------------------
Handler(n) ==
  \/ UpdateResult(n) \/ AgentLifecycleResult(n) \/ FailureResult(n) \/ StatusResult(n)
  \/ DetailResult(n) \/ EvaluateCluster(n) \/ WriteCluster(n) \/ ResultStored(n)

CommandLoop(n) == FetchCommand(n) \/ Execute(n) \/ Handler(n)

Beat(n) ==
  \/ SampleHost(n) \/ HeartbeatRead(n) \/ HeartbeatWrite(n) \/ ReportRead(n)
  \/ ReportWriteStatus(n) \/ ReportWriteFacts(n)

Request(q) ==
  \/ CommitDelete(q)
  \/ \E n \in Nodes : InsertCommand(q, n) \/ WriteStatus(q, n) \/ WriteDetail(q, n)

Next ==
  \/ \E op \in ClusterOperations : queueClusterLifecycle(op)
  \/ \E q \in Requests :
       \/ BeginDelete(q)
       \/ \E n \in Nodes, op \in NodeOperations : BeginNodeOperation(q, n, op)
       \/ Request(q)
       \/ Abandon(q)
  \/ \E n \in Nodes :
       \/ CommandLoop(n)
       \/ ExecuteFails(n) \/ LoseResult(n) \/ CutHandler(n)
       \/ Beat(n)
       \/ AgentEnds(n) \/ RegisterAgent(n)

Spec == Init /\ [][Next]_vars

\* Requests, command loops and reports go on, and the service manager starts
\* an agent that ended again.
FairSpec ==
  /\ Spec
  /\ \A q \in Requests : WF_vars(Request(q))
  /\ \A n \in Nodes : WF_vars(CommandLoop(n)) /\ WF_vars(Beat(n)) /\ WF_vars(RegisterAgent(n))

-----------------------------------------------------------------------------
\* The rows, the agents and the requests under way keep their types, and no
\* bound is overspent.
TypeOK ==
  /\ cluster \in {"running", "stopped", "degraded", "gone"}
  /\ member \in [Nodes -> BOOLEAN] /\ ready \in [Nodes -> BOOLEAN]
  /\ detail \in [Nodes -> BOOLEAN] /\ pg \in [Nodes -> BOOLEAN]
  /\ status \in [Nodes -> NodeStatuses]
  /\ inst \in [Nodes -> InstStates] /\ mem \in [Nodes -> {"installed", "pending"}]
  /\ agentID \in [Nodes -> Nat]
  /\ queue \in [Nodes -> Seq([action : Actions, node : Nodes, agent : Nat])]
  /\ proc \in [Nodes -> {"up", "down", "deactivated"}]
  /\ job \in [Nodes -> [at : {"idle", "run", "report", "lifecycle", "failure", "status",
                              "detail", "evaluate", "stopped", "running", "degraded", "done"},
                        action : Actions, cmd : Nat, ok : BOOLEAN]]
  /\ beat \in [Nodes -> {None} \cup
                 [at : {"heartbeat", "online", "report", "status", "facts"},
                  up : BOOLEAN, inst : {"installed", "pending"}]]
  /\ \A q \in Requests : req[q] = None \/ req[q].node \in Nodes \cup {None}
  /\ want \in [Nodes -> {"running", "stopped", "any"}]
  /\ \A b \in BoundNames : used[b] \in 0..Limit[b]

\* HostFollowsLastOperation: once the queue of a node is worked off, its host is
\* in the state the last accepted start, pause, drain, rejoin, node restart or
\* node deletion asked for, whatever results were lost, commands executed again
\* and agents restarted on the way.  It rests on FetchCommand's order, on
\* UpdateResult alone ending a command, and on Start and Stop being idempotent.
HostFollowsLastOperation ==
  \A n \in Nodes :
    /\ queue[n] = <<>> /\ job[n].at = "idle" /\ want[n] # "any"
    => pg[n] = (want[n] = "running")

\* DeletedNodeIsStopped: a node whose row is deleted after agent_deactivate runs
\* no PostgreSQL and has no agent that could start one.
DeletedNodeIsStopped ==
  \A n \in Nodes : status[n] = "gone" =>
    ~pg[n] /\ (proc[n] = "deactivated" \/ job[n].at = "done")

\* OperationTakesEffect: a command queued for a node is executed in the end, also
\* by an agent that registered again under another agent_id after it was queued.
OperationTakesEffect ==
  \A n \in Nodes :
    /\ (want[n] = "stopped") ~> (~pg[n] \/ want[n] # "stopped" \/ proc[n] = "deactivated")
    /\ (want[n] = "running") ~> (pg[n] \/ want[n] # "running" \/ proc[n] = "deactivated")

\* RowCatchesUp: as long as an agent runs, its node's row agrees with the host
\* again and again: a status stored from a stale sample, or by a handler that
\* was cut, does not last.  Drained and deleting nodes are not refreshed.
RowCatchesUp ==
  \A n \in Nodes :
    []<>(\/ proc[n] # "up"
         \/ status[n] \in Ignored \cup {"gone"}
         \/ (status[n] = "online") = pg[n] /\ detail[n] = pg[n])

\* The command a node's agent is busy with, as CommandQueue sees it.
AttemptOf(n) == IF job[n].at \notin {"run", "report"} THEN "none"
                ELSE IF job[n].cmd = 0 THEN "orphan" ELSE "head"

Queue == INSTANCE CommandQueue
  WITH Consumers <- Nodes, CommandKinds <- Actions,
       pending <- [n \in Nodes |-> [i \in DOMAIN queue[n] |-> queue[n][i].action]],
       attempt <- [n \in Nodes |-> AttemptOf(n)]

\* QueueKept: operations, agents that register again under another agent_id,
\* lost results, cut handlers and the deletion of the cluster use the table as
\* CommandQueue describes it: in order, each command until its result is stored.
QueueKept == Queue!QueueSpec

\* DeletedIsStopped: "PostgreSQL service is still running; pause/stop the cluster
\* before deleting it": the transaction of DeleteCluster finds every host of the
\* cluster stopped.
DeletedIsStopped ==
  [][\A q \in Requests : CommitDelete(q) => \A n \in Members : ~pg[n]]_vars
=============================================================================
