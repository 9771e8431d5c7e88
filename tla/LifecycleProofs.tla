-------------------------- MODULE LifecycleProofs --------------------------
(***************************************************************************)
(* What is proved of Lifecycle for every set of nodes and requests and     *)
(* every bound: the agent_commands table is used as CommandQueue says, the *)
(* host of a node ends up as the last operation asked, and a deleted node  *)
(* runs no PostgreSQL.                                                     *)
(***************************************************************************)
EXTENDS Lifecycle, SequenceTheorems, TLAPS

-----------------------------------------------------------------------------
(* Types.                                                                  *)

Phases == {"idle", "run", "report", "lifecycle", "failure", "status", "detail", "evaluate",
           "stopped", "running", "degraded", "done"}
Jobs == [at : Phases, action : Actions, cmd : Nat, ok : BOOLEAN]
Commands == [action : Actions, node : Nodes, agent : Nat]
Beats == [at : {"heartbeat", "online", "report", "status", "facts"},
          up : BOOLEAN, inst : {"installed", "pending"}]
Todo == Actions \cup {"drained", "online", "deleting", "detail", "delete"}
Reqs == [node : Nodes \cup {None}, todo : Seq(Todo)]

RowType ==
  /\ cluster \in {"running", "stopped", "degraded", "gone"}
  /\ member \in [Nodes -> BOOLEAN] /\ ready \in [Nodes -> BOOLEAN]
  /\ detail \in [Nodes -> BOOLEAN]
  /\ status \in [Nodes -> NodeStatuses]
  /\ inst \in [Nodes -> InstStates]
  /\ agentID \in [Nodes -> Nat]

HostType ==
  /\ pg \in [Nodes -> BOOLEAN] /\ mem \in [Nodes -> {"installed", "pending"}]
  /\ proc \in [Nodes -> {"up", "down", "deactivated"}]
  /\ beat \in [Nodes -> {None} \cup Beats]
  /\ want \in [Nodes -> {"running", "stopped", "any"}]

\* A request never has the deletion of a row among its statements.
ReqType == req \in [Requests -> {None} \cup Reqs] /\ \A q \in Requests : req[q] # None => req[q].todo # <<>>

QueueType == queue \in [Nodes -> Seq(Commands)]
JobType == job \in [Nodes -> Jobs]
UsedType == used \in [BoundNames -> Nat] /\ \A b \in BoundNames : used[b] <= Limit[b]

TypeInv == RowType /\ HostType /\ ReqType /\ QueueType /\ JobType /\ UsedType

LEMMA InitTypeInv == Init => TypeInv
  <1> SUFFICES ASSUME Init PROVE TypeInv
    OBVIOUS
  <1>1. RowType
    BY DEF Init, RowType, NodeStatuses, InstStates
  <1>2. HostType
    BY DEF Init, HostType
  <1>3. ReqType
    BY DEF Init, ReqType
  <1>4. QueueType
    BY DEF Init, QueueType
  <1>5. JobType
    BY DEF Init, JobType, NoJob, Jobs, Phases, Actions
  <1>6. UsedType
    BY LifecycleAssumption DEF Init, UsedType, BoundNames, Limit
  <1> QED
    BY <1>1, <1>2, <1>3, <1>4, <1>5, <1>6 DEF TypeInv

LEMMA UseKeepsType == ASSUME UsedType, NEW b \in BoundNames, Use(b) PROVE UsedType'
  <1>1. used[b] < Limit[b] /\ used' = [used EXCEPT ![b] = used[b] + 1] /\ Limit[b] \in Nat /\ used[b] \in Nat
    BY LifecycleAssumption DEF Use, UsedType, BoundNames, Limit
  <1>2. ASSUME NEW c \in BoundNames PROVE used'[c] <= Limit[c]
    <2>1. CASE c = b
      BY <1>1, <2>1 DEF UsedType
    <2>2. CASE c # b
      BY <1>1, <2>2 DEF UsedType
    <2> QED
      BY <2>1, <2>2
  <1> QED
    BY <1>1, <1>2 DEF UsedType

\* One field of a command's progress changes.
LEMMA StepType == ASSUME JobType, NEW n \in Nodes, NEW at \in Phases, Step(n, at) PROVE JobType'
  <1>1. [job[n] EXCEPT !.at = at] \in Jobs
    BY DEF JobType, Jobs
  <1>2. job' = [job EXCEPT ![n] = [job[n] EXCEPT !.at = at]]
    BY DEF Step
  <1> QED
    BY <1>1, <1>2 DEF JobType

LEMMA IdleType == ASSUME JobType, NEW n \in Nodes, Idle(n) PROVE JobType'
  BY DEF JobType, Idle, NoJob, Jobs, Phases, Actions

LEMMA BeatType ==
  ASSUME HostType, NEW n \in Nodes, beat[n] # None,
         NEW at \in {"heartbeat", "online", "report", "status", "facts"}, BeatStep(n, at)
  PROVE  beat' \in [Nodes -> {None} \cup Beats]
  <1>1. [beat[n] EXCEPT !.at = at] \in Beats
    BY DEF HostType, Beats
  <1>2. beat' = [beat EXCEPT ![n] = [beat[n] EXCEPT !.at = at]]
    BY DEF BeatStep
  <1> QED
    BY <1>1, <1>2 DEF HostType

LEMMA StatementType ==
  ASSUME ReqType, NEW q \in Requests, NEW n, NEW stmts, NextStatement(q, n, stmts)
  PROVE  ReqType' /\ Head(req[q].todo) \in Todo
  <1>1. req[q] \in Reqs /\ req[q].todo \in Seq(Todo) /\ req[q].todo # <<>>
    BY DEF ReqType, NextStatement, Reqs
  <1>2. Head(req[q].todo) \in Todo /\ Tail(req[q].todo) \in Seq(Todo) /\ Len(req[q].todo) \in Nat \ {0}
    BY <1>1
  <1>3. Len(req[q].todo) # 1 => Tail(req[q].todo) # <<>>
    <2>1. Len(Tail(req[q].todo)) = Len(req[q].todo) - 1
      BY <1>1, HeadTailProperties
    <2>2. Len(<<>>) = 0
      OBVIOUS
    <2>3. ASSUME Len(req[q].todo) # 1 PROVE Len(Tail(req[q].todo)) # 0
      BY <1>2, <2>1, <2>3
    <2> QED
      BY <2>2, <2>3
  <1>4. ASSUME NEW new, req' = [req EXCEPT ![q] = new], new = None \/ (new \in Reqs /\ new.todo # <<>>)
        PROVE  ReqType'
    <2>1. req' \in [Requests -> {None} \cup Reqs]
      BY <1>4 DEF ReqType
    <2>2. ASSUME NEW p \in Requests, req'[p] # None PROVE req'[p].todo # <<>>
      <3>1. CASE p = q
        BY <1>4, <2>2, <3>1 DEF ReqType
      <3>2. CASE p # q
        <4>1. req'[p] = req[p]
          BY <1>4, <3>2 DEF ReqType
        <4> QED
          BY <2>2, <4>1 DEF ReqType
      <3> QED
        BY <3>1, <3>2
    <2> QED
      BY <2>1, <2>2 DEF ReqType
  <1>5. CASE Len(req[q].todo) = 1
    <2>1. req' = [req EXCEPT ![q] = None]
      BY <1>5 DEF NextStatement, ReqType
    <2> QED
      BY <1>2, <1>4, <2>1
  <1>6. CASE Len(req[q].todo) # 1
    <2> DEFINE new == [req[q] EXCEPT !.todo = Tail(req[q].todo)]
    <2>1. req' = [req EXCEPT ![q] = new]
      BY <1>6 DEF NextStatement, ReqType
    <2>2. new \in Reqs /\ new.todo = Tail(req[q].todo)
      BY <1>1, <1>2 DEF Reqs
    <2> HIDE DEF new
    <2> QED
      BY <1>2, <1>3, <1>4, <1>6, <2>1, <2>2
  <1> QED
    BY <1>2, <1>5, <1>6

LEMMA StatementsType == ASSUME NEW op \in NodeOperations PROVE Statements(op) \in Seq(Todo) /\ Statements(op) # <<>>
  <1>1. Statements("restart_node") = <<"pg_stop", "pg_start">>
    BY DEF Statements
  <1>2. Statements("drain") = <<"drained", "detail", "pg_stop">>
    BY DEF Statements
  <1>3. Statements("rejoin") = <<"repoint_replica", "pg_start", "online", "detail">>
    BY DEF Statements
  <1>4. Statements("delete_node") = <<"agent_deactivate", "deleting", "detail">>
    BY DEF Statements
  <1>5. op \in {"restart_node", "drain", "rejoin", "delete_node"}
    BY DEF NodeOperations
  <1>6. \A x \in Todo, y \in Todo, z \in Todo, w \in Todo :
           /\ <<x, y>> \in Seq(Todo) /\ <<x, y>> # <<>> /\ <<x, y, z>> \in Seq(Todo) /\ <<x, y, z>> # <<>>
           /\ <<x, y, z, w>> \in Seq(Todo) /\ <<x, y, z, w>> # <<>>
    OBVIOUS
  <1>7. {"pg_stop", "pg_start", "repoint_replica", "agent_deactivate", "drained", "online", "deleting", "detail"}
           \subseteq Todo
    BY DEF Todo, Actions
  <1>8. CASE op = "restart_node"
    BY <1>1, <1>6, <1>7, <1>8
  <1>9. CASE op = "drain"
    BY <1>2, <1>6, <1>7, <1>9
  <1>10. CASE op = "rejoin"
    BY <1>3, <1>6, <1>7, <1>10
  <1>11. CASE op = "delete_node"
    BY <1>4, <1>6, <1>7, <1>11
  <1> QED
    BY <1>5, <1>8, <1>9, <1>10, <1>11

LEMMA SetStatusType ==
  ASSUME status \in [Nodes -> NodeStatuses], NEW n \in Nodes, NEW s \in NodeStatuses, SetStatus(n, s)
  PROVE  status' \in [Nodes -> NodeStatuses]
  BY DEF SetStatus

\* The commands of an operation: one, or the two of a restart in either order.
LEMMA OrderType ==
  ASSUME NEW op \in ClusterOperations, NEW order \in LifecycleCommands(op)
  PROVE  /\ order \in Seq(Actions) /\ Len(order) \in {1, 2}
         /\ op = "start" => order = <<"pg_start">>
         /\ op = "pause" => order = <<"pg_stop">>
  <1>1. LifecycleCommands("start") = {<<"pg_start">>}
    BY DEF LifecycleCommands
  <1>2. LifecycleCommands("pause") = {<<"pg_stop">>}
    BY DEF LifecycleCommands
  <1>3. LifecycleCommands("restart") = {<<"pg_stop", "pg_start">>, <<"pg_start", "pg_stop">>}
    BY DEF LifecycleCommands
  <1>4. op \in {"start", "pause", "restart"}
    BY DEF ClusterOperations
  <1>5. \A x, y \in Actions : /\ <<x>> \in Seq(Actions) /\ Len(<<x>>) = 1
                              /\ <<x, y>> \in Seq(Actions) /\ Len(<<x, y>>) = 2
    OBVIOUS
  <1>6. "pg_start" \in Actions /\ "pg_stop" \in Actions
    BY DEF Actions
  <1> QED
    BY <1>1, <1>2, <1>3, <1>4, <1>5, <1>6

\* What queueClusterLifecycle leaves in the queue of an eligible node, which was
\* empty.
LEMMA QueuedOperation ==
  ASSUME TypeInv, NEW op \in ClusterOperations, queueClusterLifecycle(op)
  PROVE  \E order \in LifecycleCommands(op) :
           /\ queue' \in [Nodes -> Seq(Commands)]
           /\ \A n \in Nodes \ Eligible : queue'[n] = queue[n]
           /\ \A n \in Eligible :
                /\ n \in Nodes /\ queue[n] = <<>> /\ Len(queue'[n]) = Len(order)
                /\ \A i \in 1..Len(order) : queue'[n][i].action = order[i] /\ queue'[n][i].node = n
  <1>1. PICK order \in LifecycleCommands(op) :
          queue' = [n \in Nodes |->
                      IF n \in Eligible THEN queue[n] \o [i \in DOMAIN order |-> Command(n, order[i])]
                      ELSE queue[n]]
    BY DEF queueClusterLifecycle
  <1>2. order \in Seq(Actions) /\ Len(order) \in Nat /\ DOMAIN order = 1..Len(order)
    BY OrderType
  <1>3. ASSUME NEW n \in Eligible
        PROVE  /\ n \in Nodes /\ queue[n] = <<>> /\ Len(queue'[n]) = Len(order)
               /\ queue'[n] \in Seq(Commands)
               /\ \A i \in 1..Len(order) : queue'[n][i].action = order[i] /\ queue'[n][i].node = n
    <2> DEFINE cmds == [i \in DOMAIN order |-> Command(n, order[i])]
    <2>1. n \in Nodes /\ queue[n] = <<>>
      BY DEF queueClusterLifecycle, hasPendingClusterCommands, Eligible, Members
    <2>2. \A i \in 1..Len(order) : /\ Command(n, order[i]) \in Commands
                                   /\ Command(n, order[i]).action = order[i]
                                   /\ Command(n, order[i]).node = n
      BY <1>2, <2>1 DEF Command, Commands, TypeInv, RowType
    <2>3. cmds \in Seq(Commands) /\ Len(cmds) = Len(order) /\ \A i \in 1..Len(order) : cmds[i] = Command(n, order[i])
      BY <1>2, <2>2
    <2>4. queue'[n] = <<>> \o cmds
      BY <1>1, <2>1
    <2> HIDE DEF cmds
    <2>5. <<>> \o cmds = cmds
      BY <2>3
    <2> QED
      BY <2>1, <2>2, <2>3, <2>4, <2>5
  <1>4. \A n \in Nodes \ Eligible : queue'[n] = queue[n]
    BY <1>1
  <1>5. queue' \in [Nodes -> Seq(Commands)]
    <2>1. ASSUME NEW n \in Nodes PROVE queue'[n] \in Seq(Commands)
      <3>1. CASE n \in Eligible
        BY <1>3, <3>1
      <3>2. CASE n \notin Eligible
        BY <1>4, <3>2 DEF TypeInv, QueueType
      <3> QED
        BY <3>1, <3>2
    <2>2. queue' = [n \in Nodes |-> queue'[n]]
      BY <1>1
    <2> QED
      BY <2>1, <2>2
  <1> QED
    BY <1>3, <1>4, <1>5

-----------------------------------------------------------------------------
(* Every step keeps the types.                                             *)

LEMMA NextUsedType == TypeInv /\ [Next]_vars => UsedType'
  <1> SUFFICES ASSUME TypeInv, [Next]_vars PROVE UsedType'
    OBVIOUS
  <1>1. used' = used \/ (\E b \in BoundNames : Use(b))
    <2>1. CASE UNCHANGED vars
      BY <2>1 DEF vars
    <2>2. ASSUME NEW op \in ClusterOperations, queueClusterLifecycle(op) PROVE Use("ops")
      BY <2>2 DEF queueClusterLifecycle
    <2>3. ASSUME NEW q \in Requests, BeginDelete(q) \/ \E n \in Nodes, op \in NodeOperations : BeginNodeOperation(q, n, op)
          PROVE  Use("ops")
      BY <2>3 DEF BeginDelete, BeginNodeOperation
    <2>4. ASSUME NEW q \in Requests, Request(q) PROVE used' = used
      BY <2>4 DEF Request, CommitDelete, InsertCommand, WriteStatus, WriteDetail
    <2>5. ASSUME NEW q \in Requests, Abandon(q) PROVE Use("faults")
      BY <2>5 DEF Abandon
    <2>6. ASSUME NEW n \in Nodes, CommandLoop(n) PROVE used' = used
      BY <2>6 DEF CommandLoop, FetchCommand, Execute, Handler, UpdateResult, AgentLifecycleResult, FailureResult,
                  StatusResult, DetailResult, EvaluateCluster, WriteCluster, ResultStored
    <2>7. ASSUME NEW n \in Nodes, ExecuteFails(n) \/ LoseResult(n) \/ CutHandler(n) \/ AgentEnds(n)
          PROVE  Use("faults")
      BY <2>7 DEF ExecuteFails, LoseResult, CutHandler, AgentEnds
    <2>8. ASSUME NEW n \in Nodes, Beat(n) \/ RegisterAgent(n) PROVE used' = used
      BY <2>8 DEF Beat, SampleHost, HeartbeatRead, HeartbeatWrite, ReportRead, ReportWriteStatus,
                  ReportWriteFacts, RegisterAgent
    <2> QED
      BY <2>1, <2>2, <2>3, <2>4, <2>5, <2>6, <2>7, <2>8, Zenon DEF Next, BoundNames
  <1> QED
    BY <1>1, UseKeepsType DEF TypeInv, UsedType

LEMMA NextReqType == TypeInv /\ [Next]_vars => ReqType'
  <1> SUFFICES ASSUME TypeInv, [Next]_vars PROVE ReqType'
    OBVIOUS
  <1>0. ReqType
    BY DEF TypeInv
  <1>1. CASE UNCHANGED req
    BY <1>0, <1>1 DEF ReqType
  <1>2. ASSUME NEW q \in Requests, NEW new, req' = [req EXCEPT ![q] = new], new = None \/ (new \in Reqs /\ new.todo # <<>>)
        PROVE  ReqType'
    <2>1. req' \in [Requests -> {None} \cup Reqs]
      BY <1>0, <1>2 DEF ReqType
    <2>2. ASSUME NEW p \in Requests, req'[p] # None PROVE req'[p].todo # <<>>
      <3>1. CASE p = q
        BY <1>0, <1>2, <2>2, <3>1 DEF ReqType
      <3>2. CASE p # q
        <4>1. req'[p] = req[p]
          BY <1>0, <1>2, <3>2 DEF ReqType
        <4> QED
          BY <1>0, <2>2, <4>1 DEF ReqType
      <3> QED
        BY <3>1, <3>2
    <2> QED
      BY <2>1, <2>2 DEF ReqType
  <1>3. ASSUME NEW q \in Requests, BeginDelete(q) PROVE ReqType'
    <2> DEFINE new == [node |-> None, todo |-> <<"delete">>]
    <2>1. req' = [req EXCEPT ![q] = new]
      BY <1>3 DEF BeginDelete
    <2>2. <<"delete">> \in Seq(Todo) /\ <<"delete">> # <<>>
      BY DEF Todo
    <2>3. new \in Reqs /\ new.todo # <<>>
      BY <2>2 DEF Reqs
    <2> HIDE DEF new
    <2> QED
      BY <1>2, <2>1, <2>3
  <1>4. ASSUME NEW q \in Requests, NEW n \in Nodes, NEW op \in NodeOperations, BeginNodeOperation(q, n, op)
        PROVE  ReqType'
    <2> DEFINE new == [node |-> n, todo |-> Statements(op)]
    <2>1. req' = [req EXCEPT ![q] = new]
      BY <1>4 DEF BeginNodeOperation
    <2>2. new \in Reqs /\ new.todo # <<>>
      BY StatementsType DEF Reqs
    <2> HIDE DEF new
    <2> QED
      BY <1>2, <2>1, <2>2
  <1>5. ASSUME NEW q \in Requests, CommitDelete(q) \/ Abandon(q) PROVE ReqType'
    <2>1. req' = [req EXCEPT ![q] = None]
      BY <1>5 DEF CommitDelete, Abandon
    <2> QED
      BY <1>2, <2>1
  <1>6. ASSUME NEW q \in Requests, NEW n \in Nodes, InsertCommand(q, n) \/ WriteStatus(q, n) \/ WriteDetail(q, n)
        PROVE  ReqType'
    <2>1. \E stmts : NextStatement(q, n, stmts)
      BY <1>6 DEF InsertCommand, WriteStatus, WriteDetail
    <2> QED
      BY <1>0, <2>1, StatementType
  <1>7. ASSUME NEW op \in ClusterOperations, queueClusterLifecycle(op) PROVE req' = req
    BY <1>7 DEF queueClusterLifecycle
  <1>8. ASSUME NEW n \in Nodes,
               CommandLoop(n) \/ ExecuteFails(n) \/ LoseResult(n) \/ CutHandler(n) \/ Beat(n) \/ AgentEnds(n) \/ RegisterAgent(n)
        PROVE  req' = req
    BY <1>8 DEF CommandLoop, FetchCommand, Execute, Handler, UpdateResult, AgentLifecycleResult, FailureResult,
                StatusResult, DetailResult, EvaluateCluster, WriteCluster, ResultStored, ExecuteFails, LoseResult,
                CutHandler, AgentEnds, Beat, SampleHost, HeartbeatRead, HeartbeatWrite, ReportRead,
                ReportWriteStatus, ReportWriteFacts, RegisterAgent
  <1>9. CASE UNCHANGED vars
    BY <1>1, <1>9 DEF vars
  <1> QED
    BY <1>1, <1>3, <1>4, <1>5, <1>6, <1>7, <1>8, <1>9, Zenon DEF Next, Request

-----------------------------------------------------------------------------
(* The queue and the command an agent is busy with.                        *)

\* A node's rows carry its node_id, so its agent fetches the oldest of them
\* whatever agent_id they were queued under; the command under way is that
\* one, until it is cancelled.
NodeQueue(n) ==
  /\ \A i \in DOMAIN queue[n] : queue[n][i].node = n
  /\ job[n].at \in {"run", "report"} =>
       \/ job[n].cmd = 0
       \/ job[n].cmd = 1 /\ queue[n] # <<>> /\ queue[n][1].action = job[n].action

QueueInv == \A n \in Nodes : NodeQueue(n)

LEMMA FetchesTheOldest ==
  ASSUME TypeInv, QueueInv, NEW n \in Nodes, FetchCommand(n)
  PROVE  /\ queue[n] # <<>> /\ queue[n][1] \in Commands
         /\ job[n].at = "idle"
         /\ job' = [job EXCEPT ![n] = [at |-> "run", action |-> queue[n][1].action, cmd |-> 1, ok |-> FALSE]]
  <1>1. queue[n] \in Seq(Commands) /\ DOMAIN queue[n] = 1..Len(queue[n]) /\ Len(queue[n]) \in Nat
    BY DEF TypeInv, QueueType
  <1>2. Fetchable(n) = 1..Len(queue[n])
    BY <1>1 DEF Fetchable, QueueInv, NodeQueue
  <1>3. PICK i \in Fetchable(n) :
           /\ \A j \in Fetchable(n) : i <= j
           /\ job' = [job EXCEPT ![n] = [at |-> "run", action |-> queue[n][i].action, cmd |-> i, ok |-> FALSE]]
    BY DEF FetchCommand
  <1>4. i = 1 /\ 1 \in 1..Len(queue[n])
    <2>1. i \in 1..Len(queue[n]) /\ \A j \in 1..Len(queue[n]) : i <= j
      BY <1>2, <1>3
    <2>2. 1 \in 1..Len(queue[n])
      BY <1>1, <2>1
    <2> QED
      BY <1>1, <2>1, <2>2
  <1>5. queue[n][1] \in Commands /\ queue[n] # <<>>
    BY <1>1, <1>4
  <1> QED
    BY <1>3, <1>4, <1>5 DEF FetchCommand

\* Storing the result of the command under way takes the oldest row away.
LEMMA StoresTheOldest ==
  ASSUME TypeInv, QueueInv, NEW n \in Nodes, UpdateResult(n)
  PROVE  \/ job[n].cmd = 0 /\ queue' = queue
         \/ job[n].cmd = 1 /\ queue[n] # <<>> /\ queue' = [queue EXCEPT ![n] = Tail(queue[n])]
  <1>1. queue[n] \in Seq(Commands) /\ Len(queue[n]) \in Nat
    BY DEF TypeInv, QueueType
  <1>2. CASE job[n].cmd = 0
    BY <1>2 DEF UpdateResult, TypeInv, QueueType
  <1>3. CASE job[n].cmd # 0
    <2>1. job[n].cmd = 1 /\ queue[n] # <<>>
      BY <1>3 DEF UpdateResult, QueueInv, NodeQueue
    <2>2. SubSeq(queue[n], 1, 0) \o SubSeq(queue[n], 2, Len(queue[n])) = Tail(queue[n])
      <3>1. Len(queue[n]) >= 1
        BY <1>1, <2>1
      <3>2. SubSeq(queue[n], 1, 0) = <<>>
        BY <1>1
      <3>3. SubSeq(queue[n], 2, Len(queue[n])) = Tail(queue[n])
        BY <1>1, <3>1
      <3>4. <<>> \o Tail(queue[n]) = Tail(queue[n])
        BY <1>1, <2>1
      <3> QED
        BY <3>2, <3>3, <3>4
    <2>3. job[n].cmd - 1 = 0 /\ job[n].cmd + 1 = 2
      BY <2>1
    <2> QED
      BY <1>3, <2>1, <2>2, <2>3 DEF UpdateResult
  <1> QED
    BY <1>2, <1>3

LEMMA NextQueueType == TypeInv /\ QueueInv /\ [Next]_vars => QueueType'
  <1> SUFFICES ASSUME TypeInv, QueueInv, [Next]_vars PROVE QueueType'
    OBVIOUS
  <1>0. queue \in [Nodes -> Seq(Commands)] /\ agentID \in [Nodes -> Nat]
    BY DEF TypeInv, QueueType, RowType
  <1>1. CASE UNCHANGED queue
    BY <1>0, <1>1 DEF QueueType
  <1>2. ASSUME NEW op \in ClusterOperations, queueClusterLifecycle(op) PROVE QueueType'
    BY <1>2, QueuedOperation DEF QueueType
  <1>3. ASSUME NEW q \in Requests, CommitDelete(q) PROVE QueueType'
    BY <1>0, <1>3 DEF CommitDelete, QueueType
  <1>4. ASSUME NEW q \in Requests, NEW n \in Nodes, InsertCommand(q, n) PROVE QueueType'
    <2>1. Head(req[q].todo) \in Actions
      BY <1>4 DEF InsertCommand, NextStatement
    <2>2. Command(n, Head(req[q].todo)) \in Commands
      BY <1>0, <2>1 DEF Command, Commands
    <2>3. queue' = [queue EXCEPT ![n] = Append(queue[n], Command(n, Head(req[q].todo)))]
      BY <1>4 DEF InsertCommand
    <2> QED
      BY <1>0, <2>2, <2>3 DEF QueueType
  <1>5. ASSUME NEW n \in Nodes, UpdateResult(n) PROVE QueueType'
    <2>1. queue[n] # <<>> => Tail(queue[n]) \in Seq(Commands)
      BY <1>0
    <2> QED
      BY <1>0, <1>5, <2>1, StoresTheOldest DEF QueueType
  <1>6. ASSUME NEW q \in Requests,
               \/ BeginDelete(q) \/ Abandon(q)
               \/ \E n \in Nodes, op \in NodeOperations : BeginNodeOperation(q, n, op)
               \/ \E n \in Nodes : WriteStatus(q, n) \/ WriteDetail(q, n)
        PROVE  queue' = queue
    BY <1>6 DEF BeginDelete, Abandon, BeginNodeOperation, WriteStatus, WriteDetail
  <1>7. ASSUME NEW n \in Nodes,
               \/ FetchCommand(n) \/ Execute(n) \/ AgentLifecycleResult(n) \/ FailureResult(n) \/ StatusResult(n)
               \/ DetailResult(n) \/ EvaluateCluster(n) \/ WriteCluster(n) \/ ResultStored(n)
               \/ ExecuteFails(n) \/ LoseResult(n) \/ CutHandler(n) \/ Beat(n) \/ AgentEnds(n) \/ RegisterAgent(n)
        PROVE  queue' = queue
    BY <1>7 DEF FetchCommand, Execute, AgentLifecycleResult, FailureResult,
                StatusResult, DetailResult, EvaluateCluster, WriteCluster, ResultStored, ExecuteFails, LoseResult,
                CutHandler, AgentEnds, Beat, SampleHost, HeartbeatRead, HeartbeatWrite, ReportRead,
                ReportWriteStatus, ReportWriteFacts, RegisterAgent
  <1>8. CASE UNCHANGED vars
    BY <1>1, <1>8 DEF vars
  <1> QED
    BY <1>1, <1>2, <1>3, <1>4, <1>5, <1>6, <1>7, <1>8, Zenon DEF Next, Request, CommandLoop, Handler

LEMMA NextJobType == TypeInv /\ QueueInv /\ [Next]_vars => JobType'
  <1> SUFFICES ASSUME TypeInv, QueueInv, [Next]_vars PROVE JobType'
    OBVIOUS
  <1>0. JobType
    BY DEF TypeInv
  <1>1. CASE UNCHANGED job
    BY <1>0, <1>1 DEF JobType
  <1>2. ASSUME NEW q \in Requests, CommitDelete(q) PROVE JobType'
    <2>1. \A n \in Nodes : [job[n] EXCEPT !.cmd = 0] \in Jobs /\ job[n] \in Jobs
      BY <1>0 DEF JobType, Jobs
    <2>2. job' = [n \in Nodes |-> IF member[n] THEN [job[n] EXCEPT !.cmd = 0] ELSE job[n]]
      BY <1>2 DEF CommitDelete
    <2> QED
      BY <2>1, <2>2 DEF JobType
  <1>3. ASSUME NEW n \in Nodes, FetchCommand(n) PROVE JobType'
    <2>1. [at |-> "run", action |-> queue[n][1].action, cmd |-> 1, ok |-> FALSE] \in Jobs
      BY <1>3, FetchesTheOldest DEF Jobs, Commands, Phases
    <2>2. job' = [job EXCEPT ![n] = [at |-> "run", action |-> queue[n][1].action, cmd |-> 1, ok |-> FALSE]]
      BY <1>3, FetchesTheOldest
    <2> QED
      BY <1>0, <2>1, <2>2 DEF JobType
  <1>4. ASSUME NEW n \in Nodes, Execute(n) PROVE JobType'
    <2>1. [job[n] EXCEPT !.at = "report", !.ok = TRUE] \in Jobs
      BY <1>0 DEF JobType, Jobs, Phases
    <2>2. job' = [job EXCEPT ![n] = [job[n] EXCEPT !.at = "report", !.ok = TRUE]]
      BY <1>0, <1>4 DEF Execute, JobType
    <2> QED
      BY <1>0, <2>1, <2>2 DEF JobType
  <1>5. ASSUME NEW n \in Nodes, \E at \in Phases : Step(n, at) PROVE JobType'
    BY <1>0, <1>5, StepType
  <1>6. ASSUME NEW n \in Nodes,
               \/ ExecuteFails(n) \/ UpdateResult(n) \/ AgentLifecycleResult(n) \/ FailureResult(n) \/ StatusResult(n)
               \/ DetailResult(n) \/ EvaluateCluster(n) \/ WriteCluster(n) \/ CutHandler(n)
        PROVE  \E at \in Phases : Step(n, at)
    <2>1. CASE ExecuteFails(n)
      BY <2>1 DEF ExecuteFails, Step, Phases
    <2>2. CASE UpdateResult(n)
      <3>1. job[n].action \in Actions /\ job[n].ok \in BOOLEAN
        BY <1>0 DEF JobType, Jobs
      <3> QED
        BY <2>2, <3>1 DEF UpdateResult, Phases
    <2>3. CASE AgentLifecycleResult(n) \/ FailureResult(n) \/ StatusResult(n) \/ DetailResult(n) \/ WriteCluster(n) \/ CutHandler(n)
      BY <2>3 DEF AgentLifecycleResult, FailureResult, StatusResult, DetailResult, WriteCluster, CutHandler, Phases
    <2>4. CASE EvaluateCluster(n)
      BY <2>4 DEF EvaluateCluster, Phases
    <2> QED
      BY <1>6, <2>1, <2>2, <2>3, <2>4
  <1>7. ASSUME NEW n \in Nodes, LoseResult(n) \/ ResultStored(n) \/ AgentEnds(n) PROVE JobType'
    BY <1>0, <1>7, IdleType DEF LoseResult, ResultStored, AgentEnds
  <1>8. ASSUME NEW q \in Requests,
               \/ BeginDelete(q) \/ Abandon(q)
               \/ \E n \in Nodes, op \in NodeOperations : BeginNodeOperation(q, n, op)
               \/ \E n \in Nodes : InsertCommand(q, n) \/ WriteStatus(q, n) \/ WriteDetail(q, n)
        PROVE  job' = job
    BY <1>8 DEF BeginDelete, Abandon, BeginNodeOperation, InsertCommand, WriteStatus, WriteDetail
  <1>9. ASSUME NEW n \in Nodes, Beat(n) \/ RegisterAgent(n) PROVE job' = job
    BY <1>9 DEF Beat, SampleHost, HeartbeatRead, HeartbeatWrite, ReportRead,
                ReportWriteStatus, ReportWriteFacts, RegisterAgent
  <1>10. ASSUME NEW op \in ClusterOperations, queueClusterLifecycle(op) PROVE job' = job
    BY <1>10 DEF queueClusterLifecycle
  <1>11. CASE UNCHANGED vars
    BY <1>1, <1>11 DEF vars
  <1> QED
    BY <1>1, <1>2, <1>3, <1>4, <1>5, <1>6, <1>7, <1>8, <1>9, <1>10, <1>11, Zenon
    DEF Next, Request, CommandLoop, Handler

LEMMA NextRowType == TypeInv /\ [Next]_vars => RowType'
  <1> SUFFICES ASSUME TypeInv, [Next]_vars PROVE RowType'
    OBVIOUS
  <1>0. RowType /\ HostType /\ ReqType /\ JobType
    BY DEF TypeInv
  <1>1. CASE UNCHANGED rowVars
    BY <1>0, <1>1 DEF rowVars, RowType
  <1>2. ASSUME NEW op \in ClusterOperations, queueClusterLifecycle(op) PROVE RowType'
    <2>1. status' \in [Nodes -> NodeStatuses]
      BY <1>0, <1>2 DEF queueClusterLifecycle, RowType, NodeStatuses
    <2>2. detail' \in [Nodes -> BOOLEAN]
      BY <1>2 DEF queueClusterLifecycle
    <2> QED
      BY <1>0, <1>2, <2>1, <2>2 DEF queueClusterLifecycle, RowType
  <1>3. ASSUME NEW q \in Requests, CommitDelete(q) PROVE RowType'
    <2>1. inst' \in [Nodes -> InstStates]
      BY <1>0, <1>3 DEF CommitDelete, RowType, InstStates
    <2>2. detail' \in [Nodes -> BOOLEAN] /\ member' \in [Nodes -> BOOLEAN]
      BY <1>3 DEF CommitDelete
    <2> QED
      BY <1>0, <1>3, <2>1, <2>2 DEF CommitDelete, RowType
  <1>4. ASSUME NEW n \in Nodes, NEW s \in NodeStatuses, SetStatus(n, s) PROVE status' \in [Nodes -> NodeStatuses]
    BY <1>0, <1>4, SetStatusType DEF RowType
  <1>5. "online" \in NodeStatuses /\ "offline" \in NodeStatuses
    BY DEF NodeStatuses
  <1>6. ASSUME NEW q \in Requests, NEW n \in Nodes, WriteStatus(q, n) PROVE RowType'
    <2>1. Head(req[q].todo) \in NodeStatuses
      BY <1>6 DEF WriteStatus, NextStatement
    <2>2. status' \in [Nodes -> NodeStatuses]
      BY <1>4, <1>6, <2>1 DEF WriteStatus
    <2> QED
      BY <1>0, <1>6, <2>2 DEF WriteStatus, RowType
  <1>7. ASSUME NEW q \in Requests, NEW n \in Nodes, WriteDetail(q, n) PROVE RowType'
    BY <1>0, <1>7 DEF WriteDetail, RowType
  <1>8. ASSUME NEW n \in Nodes, AgentLifecycleResult(n) PROVE RowType'
    <2>1. status' \in [Nodes -> NodeStatuses]
      <3>1. CASE job[n].ok
        BY <1>0, <1>8, <3>1 DEF AgentLifecycleResult, RowType, NodeStatuses
      <3>2. CASE ~job[n].ok
        BY <1>4, <1>5, <1>8, <3>2 DEF AgentLifecycleResult
      <3> QED
        BY <3>1, <3>2
    <2>2. detail' \in [Nodes -> BOOLEAN]
      BY <1>0, <1>8 DEF AgentLifecycleResult, RowType
    <2> QED
      BY <1>0, <1>8, <2>1, <2>2 DEF AgentLifecycleResult, RowType
  <1>9. ASSUME NEW n \in Nodes, FailureResult(n) PROVE RowType'
    <2>1. detail' \in [Nodes -> BOOLEAN] /\ inst' \in [Nodes -> InstStates]
      BY <1>0, <1>9 DEF FailureResult, RowType, InstStates
    <2> QED
      BY <1>0, <1>9, <2>1 DEF FailureResult, RowType
  <1>10. ASSUME NEW n \in Nodes, StatusResult(n) PROVE RowType'
    <2>1. status' \in [Nodes -> NodeStatuses]
      BY <1>4, <1>5, <1>10 DEF StatusResult
    <2>2. ready' \in [Nodes -> BOOLEAN]
      BY <1>0, <1>10 DEF StatusResult, RowType
    <2> QED
      BY <1>0, <1>10, <2>1, <2>2 DEF StatusResult, RowType
  <1>11. ASSUME NEW n \in Nodes, DetailResult(n) PROVE RowType'
    <2>1. detail' \in [Nodes -> BOOLEAN]
      BY <1>0, <1>11 DEF DetailResult, RowType, computeNodeStatusDetail
    <2> QED
      BY <1>0, <1>11, <2>1 DEF DetailResult, RowType
  <1>12. ASSUME NEW n \in Nodes, WriteCluster(n) PROVE RowType'
    BY <1>0, <1>12 DEF WriteCluster, RowType
  <1>13. ASSUME NEW n \in Nodes, HeartbeatWrite(n) \/ ReportWriteStatus(n) PROVE RowType'
    <2>1. status' \in [Nodes -> NodeStatuses]
      BY <1>4, <1>5, <1>13 DEF HeartbeatWrite, ReportWriteStatus
    <2> QED
      BY <1>0, <1>13, <2>1 DEF HeartbeatWrite, ReportWriteStatus, RowType
  <1>14. ASSUME NEW n \in Nodes, ReportWriteFacts(n) PROVE RowType'
    <2>1. beat[n] \in Beats
      BY <1>0, <1>14 DEF ReportWriteFacts, HostType
    <2>2. detail' \in [Nodes -> BOOLEAN] /\ ready' \in [Nodes -> BOOLEAN]
      BY <1>0, <1>14, <2>1 DEF ReportWriteFacts, RowType, Beats, computeNodeStatusDetail
    <2>3. inst' \in [Nodes -> InstStates]
      BY <1>0, <1>14, <2>1 DEF ReportWriteFacts, RowType, Beats, InstStates
    <2> QED
      BY <1>0, <1>14, <2>2, <2>3 DEF ReportWriteFacts, RowType
  <1>15. ASSUME NEW n \in Nodes, RegisterAgent(n) PROVE RowType'
    <2>1. status' \in [Nodes -> NodeStatuses]
      BY <1>4, <1>5, <1>15 DEF RegisterAgent
    <2>2. ready' \in [Nodes -> BOOLEAN] /\ agentID' \in [Nodes -> Nat]
      BY <1>0, <1>15 DEF RegisterAgent, RowType
    <2> QED
      BY <1>0, <1>15, <2>1, <2>2 DEF RegisterAgent, RowType
  <1>16. ASSUME NEW q \in Requests,
                \/ BeginDelete(q) \/ Abandon(q)
                \/ \E n \in Nodes, op \in NodeOperations : BeginNodeOperation(q, n, op)
                \/ \E n \in Nodes : InsertCommand(q, n)
         PROVE  UNCHANGED rowVars
    BY <1>16 DEF BeginDelete, Abandon, BeginNodeOperation, InsertCommand
  <1>17. ASSUME NEW n \in Nodes,
                \/ FetchCommand(n) \/ Execute(n) \/ UpdateResult(n) \/ EvaluateCluster(n) \/ ResultStored(n)
                \/ ExecuteFails(n) \/ LoseResult(n) \/ CutHandler(n) \/ AgentEnds(n)
                \/ SampleHost(n) \/ HeartbeatRead(n) \/ ReportRead(n)
         PROVE  UNCHANGED rowVars
    BY <1>17 DEF FetchCommand, Execute, UpdateResult, EvaluateCluster, ResultStored, ExecuteFails, LoseResult,
                 CutHandler, AgentEnds, SampleHost, HeartbeatRead, ReportRead
  <1>18. CASE UNCHANGED vars
    BY <1>1, <1>18 DEF vars
  <1> QED
    BY <1>1, <1>2, <1>3, <1>6, <1>7, <1>8, <1>9, <1>10, <1>11, <1>12, <1>13, <1>14, <1>15, <1>16, <1>17, <1>18, Zenon
    DEF Next, Request, CommandLoop, Handler, Beat

LEMMA NextHostType == TypeInv /\ [Next]_vars => HostType'
  <1> SUFFICES ASSUME TypeInv, [Next]_vars PROVE HostType'
    OBVIOUS
  <1>0. HostType /\ ReqType /\ JobType
    BY DEF TypeInv
  <1>1. CASE UNCHANGED <<hostVars, beat, want>>
    BY <1>0, <1>1 DEF hostVars, HostType
  <1>2. ASSUME NEW op \in ClusterOperations, queueClusterLifecycle(op) PROVE HostType'
    <2>1. op \in {"start", "pause", "restart"}
      BY DEF ClusterOperations
    <2>2. want' \in [Nodes -> {"running", "stopped", "any"}]
      BY <1>0, <1>2, <2>1 DEF queueClusterLifecycle, HostType
    <2> QED
      BY <1>0, <1>2, <2>2 DEF queueClusterLifecycle, HostType, hostVars
  <1>3. ASSUME NEW q \in Requests, CommitDelete(q) PROVE HostType'
    BY <1>0, <1>3 DEF CommitDelete, HostType, hostVars
  <1>4. ASSUME NEW q \in Requests, NEW n \in Nodes, InsertCommand(q, n) PROVE HostType'
    <2>1. Head(req[q].todo) \in Actions
      BY <1>4 DEF InsertCommand, NextStatement
    <2>2. Effect(n, Head(req[q].todo)) \in {"running", "stopped", "any"}
      BY <1>0, <2>1 DEF Effect, Actions, HostType
    <2>3. want' = [want EXCEPT ![n] = Effect(n, Head(req[q].todo))]
      BY <1>4 DEF InsertCommand
    <2> QED
      BY <1>0, <1>4, <2>2, <2>3 DEF InsertCommand, HostType, hostVars
  <1>5. ASSUME NEW n \in Nodes, Execute(n) PROVE HostType'
    <2>1. UpAfter(pg[n], job[n].action) \in BOOLEAN
      BY <1>0 DEF UpAfter, HostType
    <2>2. pg' = [pg EXCEPT ![n] = UpAfter(pg[n], job[n].action)]
      BY <1>5 DEF Execute
    <2> QED
      BY <1>0, <1>5, <2>1, <2>2 DEF Execute, HostType
  <1>6. ASSUME NEW n \in Nodes, ExecuteFails(n) PROVE HostType'
    BY <1>0, <1>6 DEF ExecuteFails, HostType
  <1>7. ASSUME NEW n \in Nodes, LoseResult(n) \/ ResultStored(n) PROVE HostType'
    <2>1. proc' \in [Nodes -> {"up", "down", "deactivated"}]
      BY <1>0, <1>7 DEF LoseResult, ResultStored, Shutdown, HostType
    <2> QED
      BY <1>0, <1>7, <2>1 DEF LoseResult, ResultStored, HostType
  <1>8. ASSUME NEW n \in Nodes, AgentEnds(n) PROVE HostType'
    <2>1. proc' \in [Nodes -> {"up", "down", "deactivated"}]
      BY <1>0, <1>8 DEF AgentEnds, HostType
    <2>2. beat' \in [Nodes -> {None} \cup Beats]
      BY <1>0, <1>8 DEF AgentEnds, EndBeat, HostType
    <2>3. want' \in [Nodes -> {"running", "stopped", "any"}] /\ pg' \in [Nodes -> BOOLEAN]
      BY <1>0, <1>8 DEF AgentEnds, HostType
    <2> QED
      BY <1>0, <1>8, <2>1, <2>2, <2>3 DEF AgentEnds, HostType
  <1>9. ASSUME NEW n \in Nodes, RegisterAgent(n) PROVE HostType'
    BY <1>0, <1>9 DEF RegisterAgent, HostType
  <1>10. ASSUME NEW n \in Nodes, Beat(n) PROVE HostType'
    <2>1. UNCHANGED <<hostVars, want>>
      BY <1>10 DEF Beat, SampleHost, HeartbeatRead, HeartbeatWrite, ReportRead, ReportWriteStatus, ReportWriteFacts
    <2>2. beat' \in [Nodes -> {None} \cup Beats]
      <3>1. CASE SampleHost(n)
        <4>1. [at |-> "heartbeat", up |-> IsRunning(n), inst |-> mem[n]] \in Beats
          BY <1>0 DEF Beats, IsRunning, HostType
        <4> QED
          BY <1>0, <3>1, <4>1 DEF SampleHost, HostType
      <3>2. CASE EndBeat(n)
        BY <1>0, <3>2 DEF EndBeat, HostType
      <3>3. ASSUME NEW at \in {"heartbeat", "online", "report", "status", "facts"}, beat[n] # None, BeatStep(n, at)
            PROVE  beat' \in [Nodes -> {None} \cup Beats]
        BY <1>0, <3>3, BeatType
      <3>4. CASE HeartbeatRead(n) \/ HeartbeatWrite(n) \/ ReportRead(n) \/ ReportWriteStatus(n) \/ ReportWriteFacts(n)
        BY <3>2, <3>3, <3>4 DEF HeartbeatRead, HeartbeatWrite, ReportRead, ReportWriteStatus, ReportWriteFacts
      <3> QED
        BY <1>10, <3>1, <3>4 DEF Beat
    <2> QED
      BY <1>0, <2>1, <2>2 DEF HostType, hostVars
  <1>11. ASSUME NEW q \in Requests,
                \/ BeginDelete(q) \/ Abandon(q)
                \/ \E n \in Nodes, op \in NodeOperations : BeginNodeOperation(q, n, op)
                \/ \E n \in Nodes : WriteStatus(q, n) \/ WriteDetail(q, n)
         PROVE  UNCHANGED <<hostVars, beat, want>>
    BY <1>11 DEF BeginDelete, Abandon, BeginNodeOperation, WriteStatus, WriteDetail
  <1>12. ASSUME NEW n \in Nodes,
                \/ FetchCommand(n) \/ UpdateResult(n) \/ AgentLifecycleResult(n) \/ FailureResult(n) \/ StatusResult(n)
                \/ DetailResult(n) \/ EvaluateCluster(n) \/ WriteCluster(n) \/ CutHandler(n)
         PROVE  UNCHANGED <<hostVars, beat, want>>
    BY <1>12 DEF FetchCommand, UpdateResult, AgentLifecycleResult, FailureResult, StatusResult, DetailResult,
                 EvaluateCluster, WriteCluster, CutHandler
  <1>13. CASE UNCHANGED vars
    BY <1>1, <1>13 DEF vars
  <1> QED
    BY <1>1, <1>2, <1>3, <1>4, <1>5, <1>6, <1>7, <1>8, <1>9, <1>10, <1>11, <1>12, <1>13, Zenon
    DEF Next, Request, CommandLoop, Handler

LEMMA NextTypeInv == TypeInv /\ QueueInv /\ [Next]_vars => TypeInv'
  BY NextUsedType, NextReqType, NextQueueType, NextJobType, NextRowType, NextHostType, Zenon DEF TypeInv

-----------------------------------------------------------------------------
(* What a step of the system does to the queue, the host and the agent of  *)
(* one node.                                                               *)

Unmoved(n) == queue'[n] = queue[n] /\ pg'[n] = pg[n] /\ want'[n] = want[n]

\* A request queues one more command.
Added(n) ==
  /\ job'[n] = job[n] /\ pg'[n] = pg[n]
  /\ \E a \in Actions : queue'[n] = Append(queue[n], Command(n, a)) /\ want'[n] = Effect(n, a)

\* queueClusterLifecycle queues the commands of an operation.
Queued(n) ==
  /\ job'[n] = job[n] /\ pg'[n] = pg[n] /\ queue[n] = <<>>
  /\ \E op \in ClusterOperations : \E order \in LifecycleCommands(op) :
       /\ Len(queue'[n]) = Len(order)
       /\ \A i \in 1..Len(order) : queue'[n][i].action = order[i] /\ queue'[n][i].node = n
       /\ want'[n] = CASE op = "start" -> "running" [] op = "pause" -> "stopped" [] op = "restart" -> "any"

\* The cluster is deleted.
Cancelled(n) ==
  queue'[n] = <<>> /\ job'[n] = [job[n] EXCEPT !.cmd = 0] /\ pg'[n] = pg[n] /\ want'[n] = "any"

Fetched(n) ==
  /\ Unmoved(n) /\ queue[n] # <<>>
  /\ proc[n] = "up" /\ status[n] # "gone" /\ job[n].at = "idle"
  /\ job'[n] = [at |-> "run", action |-> queue[n][1].action, cmd |-> 1, ok |-> FALSE]

Ran(n) ==
  /\ job[n].at = "run" /\ queue'[n] = queue[n] /\ want'[n] = want[n]
  /\ job'[n] = [job[n] EXCEPT !.at = "report", !.ok = TRUE]
  /\ pg'[n] = UpAfter(pg[n], job[n].action)

FailedRun(n) ==
  /\ job[n].at = "run" /\ queue'[n] = queue[n] /\ want'[n] = "any"
  /\ job'[n] = [job[n] EXCEPT !.at = "report"]
  /\ pg'[n] = pg[n] \/ pg'[n] = FALSE

\* Phases of the handler that follow UpdateResult.
Handling == Phases \ {"idle", "run", "report"}

Stored(n) ==
  /\ job[n].at = "report" /\ pg'[n] = pg[n] /\ want'[n] = want[n]
  /\ \/ job[n].cmd = 0 /\ queue'[n] = queue[n]
     \/ job[n].cmd = 1 /\ queue[n] # <<>> /\ queue'[n] = Tail(queue[n])
  /\ \E at \in Handling : /\ job'[n] = [job[n] EXCEPT !.at = at]
                          /\ at = "lifecycle" => job[n].action = "agent_deactivate"

\* The attempt is over, or the agent process is.
Ended(n) ==
  /\ queue'[n] = queue[n] /\ job'[n] = NoJob
  /\ \/ pg'[n] = pg[n] /\ want'[n] = want[n]
     \/ /\ pg'[n] = FALSE
        /\ want'[n] = IF \E i \in DOMAIN queue[n] : queue[n][i].action # "repoint_replica"
                        THEN want[n] ELSE "any"

Quiet(n) ==
  /\ Unmoved(n)
  /\ \/ job'[n] = job[n]
     \/ /\ job[n].at \in Handling \ {"done"}
        /\ \E at \in Handling \ {"lifecycle"} : job'[n] = [job[n] EXCEPT !.at = at]

NodeSteps(n) ==
  \/ Added(n) \/ Queued(n) \/ Cancelled(n) \/ Fetched(n) \/ Ran(n) \/ FailedRun(n)
  \/ Stored(n) \/ Ended(n) \/ Quiet(n)

LEMMA StepAt ==
  ASSUME JobType, NEW m \in Nodes, NEW at, Step(m, at), NEW n \in Nodes
  PROVE  job'[n] = IF n = m THEN [job[n] EXCEPT !.at = at] ELSE job[n]
  BY DEF JobType, Step

LEMMA NodeStep == ASSUME TypeInv, QueueInv, [Next]_vars, NEW n \in Nodes PROVE NodeSteps(n)
  <1>0. JobType /\ QueueType /\ HostType /\ job[n] \in Jobs
    BY DEF TypeInv, JobType
  <1>1. CASE UNCHANGED <<queue, pg, want, job>>
    BY <1>1 DEF NodeSteps, Quiet, Unmoved
  <1>2. ASSUME NEW op \in ClusterOperations, queueClusterLifecycle(op) PROVE NodeSteps(n)
    <2>0. job' = job /\ pg' = pg
      BY <1>2 DEF queueClusterLifecycle, hostVars
    <2>1. CASE n \in Eligible
      <3>1. want'[n] = CASE op = "start" -> "running" [] op = "pause" -> "stopped" [] op = "restart" -> "any"
        BY <1>2, <2>1 DEF queueClusterLifecycle
      <3>2. PICK order \in LifecycleCommands(op) :
              /\ queue[n] = <<>> /\ Len(queue'[n]) = Len(order)
              /\ \A i \in 1..Len(order) : queue'[n][i].action = order[i] /\ queue'[n][i].node = n
        BY <1>2, <2>1, QueuedOperation
      <3>3. Queued(n)
        BY <2>0, <3>1, <3>2 DEF Queued
      <3> QED
        BY <3>3 DEF NodeSteps
    <2>2. CASE n \notin Eligible
      <3>1. queue'[n] = queue[n]
        BY <1>2, <2>2, QueuedOperation
      <3>2. want'[n] = want[n]
        BY <1>2, <2>2 DEF queueClusterLifecycle
      <3> QED
        BY <2>0, <3>1, <3>2 DEF NodeSteps, Quiet, Unmoved
    <2> QED
      BY <2>1, <2>2
  <1>3. ASSUME NEW q \in Requests, CommitDelete(q) PROVE NodeSteps(n)
    <2>1. CASE member[n]
      BY <1>3, <2>1 DEF CommitDelete, hostVars, NodeSteps, Cancelled
    <2>2. CASE ~member[n]
      BY <1>3, <2>2 DEF CommitDelete, hostVars, NodeSteps, Quiet, Unmoved
    <2> QED
      BY <2>1, <2>2
  <1>4. ASSUME NEW q \in Requests, NEW m \in Nodes, InsertCommand(q, m) PROVE NodeSteps(n)
    <2> DEFINE a == Head(req[q].todo)
    <2>1. a \in Actions
      BY <1>4 DEF InsertCommand, NextStatement
    <2>2. /\ queue' = [queue EXCEPT ![m] = Append(queue[m], Command(m, a))]
          /\ want' = [want EXCEPT ![m] = Effect(m, a)]
          /\ job' = job /\ pg' = pg
      BY <1>4 DEF InsertCommand, hostVars
    <2> HIDE DEF a
    <2>3. CASE n = m
      <3>1. queue'[n] = Append(queue[n], Command(n, a)) /\ want'[n] = Effect(n, a)
        BY <1>0, <2>2, <2>3 DEF QueueType, HostType
      <3> QED
        BY <2>1, <2>2, <3>1 DEF NodeSteps, Added
    <2>4. CASE n # m
      BY <1>0, <2>2, <2>4 DEF NodeSteps, Quiet, Unmoved, QueueType, HostType
    <2> QED
      BY <2>3, <2>4
  <1>5. ASSUME NEW m \in Nodes, FetchCommand(m) PROVE NodeSteps(n)
    <2>1. /\ queue[m] # <<>> /\ proc[m] = "up" /\ status[m] # "gone" /\ job[m].at = "idle"
          /\ job' = [job EXCEPT ![m] = [at |-> "run", action |-> queue[m][1].action, cmd |-> 1, ok |-> FALSE]]
          /\ queue' = queue /\ pg' = pg /\ want' = want
      BY <1>5, FetchesTheOldest DEF FetchCommand, hostVars, nodeForAgent
    <2>2. CASE n = m
      BY <1>0, <2>1, <2>2 DEF NodeSteps, Fetched, Unmoved, JobType
    <2>3. CASE n # m
      BY <1>0, <2>1, <2>3 DEF NodeSteps, Quiet, Unmoved, JobType
    <2> QED
      BY <2>2, <2>3
  <1>6. ASSUME NEW m \in Nodes, Execute(m) PROVE NodeSteps(n)
    <2>1. /\ job[m].at = "run" /\ queue' = queue /\ want' = want
          /\ job' = [job EXCEPT ![m] = [job[m] EXCEPT !.at = "report", !.ok = TRUE]]
          /\ pg' = [pg EXCEPT ![m] = UpAfter(pg[m], job[m].action)]
      BY <1>0, <1>6 DEF Execute, JobType
    <2>2. CASE n = m
      BY <1>0, <2>1, <2>2 DEF NodeSteps, Ran, JobType, HostType
    <2>3. CASE n # m
      BY <1>0, <2>1, <2>3 DEF NodeSteps, Quiet, Unmoved, JobType, HostType
    <2> QED
      BY <2>2, <2>3
  <1>7. ASSUME NEW m \in Nodes, ExecuteFails(m) PROVE NodeSteps(n)
    <2>1. /\ job[m].at = "run" /\ queue' = queue /\ want' = [want EXCEPT ![m] = "any"]
          /\ Step(m, "report")
          /\ pg' = pg \/ pg' = [pg EXCEPT ![m] = FALSE]
      BY <1>7 DEF ExecuteFails, Step
    <2>2. job'[n] = IF n = m THEN [job[n] EXCEPT !.at = "report"] ELSE job[n]
      BY <1>0, <2>1, StepAt
    <2>3. CASE n = m
      BY <1>0, <2>1, <2>2, <2>3 DEF NodeSteps, FailedRun, HostType
    <2>4. CASE n # m
      BY <1>0, <2>1, <2>2, <2>4 DEF NodeSteps, Quiet, Unmoved, HostType
    <2> QED
      BY <2>3, <2>4
  <1>8. ASSUME NEW m \in Nodes, UpdateResult(m) PROVE NodeSteps(n)
    <2>1. /\ job[m].at = "report" /\ pg' = pg /\ want' = want
          /\ \/ job[m].cmd = 0 /\ queue' = queue
             \/ job[m].cmd = 1 /\ queue[m] # <<>> /\ queue' = [queue EXCEPT ![m] = Tail(queue[m])]
      BY <1>8, StoresTheOldest DEF UpdateResult, hostVars
    <2>2. PICK at \in Handling : Step(m, at) /\ (at = "lifecycle" => job[m].action = "agent_deactivate")
      <3>1. job[m].action \in Actions /\ job[m].ok \in BOOLEAN
        BY <1>0 DEF JobType, Jobs
      <3> QED
        BY <1>8, <3>1 DEF UpdateResult, Handling, Phases
    <2>3. job'[n] = IF n = m THEN [job[n] EXCEPT !.at = at] ELSE job[n]
      BY <1>0, <2>2, StepAt
    <2>4. CASE n = m
      BY <1>0, <2>1, <2>2, <2>3, <2>4 DEF NodeSteps, Stored, QueueType
    <2>5. CASE n # m
      BY <1>0, <2>1, <2>3, <2>5 DEF NodeSteps, Quiet, Unmoved, QueueType
    <2> QED
      BY <2>4, <2>5
  <1>9. ASSUME NEW m \in Nodes,
               \/ AgentLifecycleResult(m) \/ FailureResult(m) \/ StatusResult(m) \/ DetailResult(m)
               \/ EvaluateCluster(m) \/ WriteCluster(m) \/ CutHandler(m)
        PROVE  NodeSteps(n)
    <2>1. queue' = queue /\ pg' = pg /\ want' = want
      BY <1>9 DEF AgentLifecycleResult, FailureResult, StatusResult, DetailResult, EvaluateCluster, WriteCluster,
                  CutHandler, hostVars
    <2>2. job[m].at \in Handling \ {"done"}
      <3>1. job[m].at \in Phases
        BY <1>0 DEF JobType, Jobs
      <3> QED
        BY <1>9, <3>1 DEF AgentLifecycleResult, FailureResult, StatusResult, DetailResult, EvaluateCluster,
                          WriteCluster, CutHandler, Handling
    <2>3. PICK at \in Handling \ {"lifecycle"} : Step(m, at)
      BY <1>9 DEF AgentLifecycleResult, FailureResult, StatusResult, DetailResult, EvaluateCluster,
                  WriteCluster, CutHandler, Handling, Phases
    <2>4. job'[n] = IF n = m THEN [job[n] EXCEPT !.at = at] ELSE job[n]
      BY <1>0, <2>3, StepAt
    <2> QED
      BY <2>1, <2>2, <2>4 DEF NodeSteps, Quiet, Unmoved
  <1>10. ASSUME NEW m \in Nodes, LoseResult(m) \/ ResultStored(m) PROVE NodeSteps(n)
    <2>1. queue' = queue /\ pg' = pg /\ want' = want /\ job' = [job EXCEPT ![m] = NoJob]
      BY <1>10 DEF LoseResult, ResultStored, Idle
    <2>2. CASE n = m
      BY <1>0, <2>1, <2>2 DEF NodeSteps, Ended, JobType
    <2>3. CASE n # m
      BY <1>0, <2>1, <2>3 DEF NodeSteps, Quiet, Unmoved, JobType
    <2> QED
      BY <2>2, <2>3
  <1>11. ASSUME NEW m \in Nodes, AgentEnds(m) PROVE NodeSteps(n)
    <2>1. queue' = queue /\ job' = [job EXCEPT ![m] = NoJob]
      BY <1>11 DEF AgentEnds, Idle
    <2>2. \/ pg' = pg /\ want' = want
          \/ /\ pg' = [pg EXCEPT ![m] = FALSE]
             /\ want' = [want EXCEPT ![m] =
                           IF \E i \in DOMAIN queue[m] : queue[m][i].action # "repoint_replica"
                             THEN want[m] ELSE "any"]
      BY <1>11 DEF AgentEnds
    <2>3. CASE n = m
      BY <1>0, <2>1, <2>2, <2>3 DEF NodeSteps, Ended, JobType, HostType
    <2>4. CASE n # m
      BY <1>0, <2>1, <2>2, <2>4 DEF NodeSteps, Quiet, Unmoved, JobType, HostType
    <2> QED
      BY <2>3, <2>4
  <1>12. ASSUME NEW q \in Requests,
                \/ BeginDelete(q) \/ Abandon(q)
                \/ \E m \in Nodes, op \in NodeOperations : BeginNodeOperation(q, m, op)
                \/ \E m \in Nodes : WriteStatus(q, m) \/ WriteDetail(q, m)
         PROVE  UNCHANGED <<queue, pg, want, job>>
    BY <1>12 DEF BeginDelete, Abandon, BeginNodeOperation, WriteStatus, WriteDetail, hostVars
  <1>13. ASSUME NEW m \in Nodes, Beat(m) \/ RegisterAgent(m) PROVE UNCHANGED <<queue, pg, want, job>>
    BY <1>13 DEF Beat, SampleHost, HeartbeatRead, HeartbeatWrite, ReportRead, ReportWriteStatus, ReportWriteFacts,
                 RegisterAgent, hostVars
  <1>14. CASE UNCHANGED vars
    BY <1>1, <1>14 DEF vars, hostVars
  <1> QED
    BY <1>1, <1>2, <1>3, <1>4, <1>5, <1>6, <1>7, <1>8, <1>9, <1>10, <1>11, <1>12, <1>13, <1>14, Zenon
    DEF Next, Request, CommandLoop, Handler

\* What the handlers leave of the command under way.
LEMMA HandledJob ==
  ASSUME NEW n, job[n] \in Jobs, Stored(n) \/ Quiet(n)
  PROVE  /\ job'[n].action = job[n].action /\ job'[n].ok = job[n].ok /\ job'[n].cmd = job[n].cmd
         /\ \/ job'[n] = job[n]
            \/ /\ job'[n].at \in Handling /\ job[n].at \notin {"idle", "run", "done"}
               /\ job'[n].at = "lifecycle" => job[n].action = "agent_deactivate"
  <1>1. CASE job'[n] = job[n]
    BY <1>1
  <1>2. ASSUME NEW at \in Handling, job'[n] = [job[n] EXCEPT !.at = at]
        PROVE  job'[n].at = at /\ job'[n].action = job[n].action /\ job'[n].ok = job[n].ok /\ job'[n].cmd = job[n].cmd
    BY <1>2 DEF Jobs
  <1>3. CASE Stored(n)
    <2>1. PICK at \in Handling : /\ job'[n] = [job[n] EXCEPT !.at = at]
                                 /\ at = "lifecycle" => job[n].action = "agent_deactivate"
      BY <1>3 DEF Stored
    <2>2. job[n].at = "report"
      BY <1>3 DEF Stored
    <2>3. job'[n].at = at /\ job'[n].action = job[n].action /\ job'[n].ok = job[n].ok /\ job'[n].cmd = job[n].cmd
      BY <1>2, <2>1
    <2> QED
      BY <2>1, <2>2, <2>3
  <1>4. CASE Quiet(n) /\ job'[n] # job[n]
    <2>1. job[n].at \in Handling \ {"done"}
      BY <1>4 DEF Quiet
    <2>2. PICK at \in Handling \ {"lifecycle"} : job'[n] = [job[n] EXCEPT !.at = at]
      BY <1>4 DEF Quiet
    <2> QED
      BY <1>2, <2>1, <2>2 DEF Handling
  <1> QED
    BY <1>1, <1>3, <1>4

LEMMA NextQueueInv == TypeInv /\ QueueInv /\ [Next]_vars => QueueInv'
  <1> SUFFICES ASSUME TypeInv, QueueInv, [Next]_vars, NEW n \in Nodes PROVE NodeQueue(n)'
    BY DEF QueueInv
  <1>0. /\ queue[n] \in Seq(Commands) /\ queue'[n] \in Seq(Commands) /\ NodeQueue(n)
        /\ job[n] \in Jobs
    BY NextQueueType DEF TypeInv, QueueType, QueueInv, JobType
  <1>1. CASE Added(n)
    <2>1. PICK a \in Actions : queue'[n] = Append(queue[n], Command(n, a))
      BY <1>1 DEF Added
    <2>2. Command(n, a).node = n
      BY DEF Command
    <2>3. /\ Len(queue'[n]) = Len(queue[n]) + 1 /\ Len(queue[n]) \in Nat
          /\ \A i \in 1..Len(queue[n]) : queue'[n][i] = queue[n][i]
          /\ queue'[n][Len(queue[n]) + 1] = Command(n, a)
      BY <1>0, <2>1
    <2>4. ASSUME NEW i \in DOMAIN queue'[n] PROVE queue'[n][i].node = n
      BY <1>0, <2>2, <2>3, <2>4 DEF NodeQueue
    <2>5. queue[n] # <<>> => queue'[n] # <<>> /\ queue'[n][1] = queue[n][1]
      BY <1>0, <2>3
    <2> QED
      BY <1>0, <1>1, <2>4, <2>5 DEF NodeQueue, Added
  <1>2. CASE Queued(n)
    <2>1. /\ \A i \in DOMAIN queue'[n] : queue'[n][i].node = n
      BY <1>0, <1>2 DEF Queued
    <2> QED
      BY <1>0, <1>2, <2>1 DEF NodeQueue, Queued
  <1>3. CASE Cancelled(n)
    BY <1>0, <1>3 DEF Cancelled, NodeQueue, Jobs
  <1>4. CASE Fetched(n)
    BY <1>0, <1>4 DEF Fetched, Unmoved, NodeQueue
  <1>5. CASE Ran(n)
    BY <1>0, <1>5 DEF Ran, NodeQueue, Jobs
  <1>6. CASE FailedRun(n)
    BY <1>0, <1>6 DEF FailedRun, NodeQueue, Jobs
  <1>7. CASE Stored(n)
    <2>1. job'[n].at \notin {"run", "report"}
      <3>1. PICK at \in Handling : /\ job'[n] = [job[n] EXCEPT !.at = at]
                                   /\ at = "lifecycle" => job[n].action = "agent_deactivate"
        BY <1>7 DEF Stored
      <3> QED
        BY <1>0, <3>1 DEF Handling, Jobs
    <2>2. ASSUME NEW i \in DOMAIN queue'[n] PROVE queue'[n][i].node = n
      <3>1. CASE queue'[n] = queue[n]
        BY <1>0, <2>2, <3>1 DEF NodeQueue
      <3>2. CASE queue[n] # <<>> /\ queue'[n] = Tail(queue[n])
        <4>1. i + 1 \in DOMAIN queue[n] /\ queue'[n][i] = queue[n][i + 1]
          BY <1>0, <2>2, <3>2
        <4> QED
          BY <1>0, <4>1 DEF NodeQueue
      <3> QED
        BY <1>7, <3>1, <3>2 DEF Stored
    <2> QED
      BY <2>1, <2>2 DEF NodeQueue
  <1>8. CASE Ended(n)
    BY <1>0, <1>8 DEF Ended, NodeQueue, NoJob
  <1>9. CASE Quiet(n)
    BY <1>0, <1>9 DEF Quiet, Unmoved, NodeQueue, Jobs, Handling
  <1> QED
    BY NodeStep, <1>1, <1>2, <1>3, <1>4, <1>5, <1>6, <1>7, <1>8, <1>9 DEF NodeSteps

-----------------------------------------------------------------------------
(* The command under way and the deleted rows.                             *)

\* A result that says ok is true of the host until the agent turns to the next
\* command; only a deactivation leads to the deletion of the row; an agent that
\* has ended is not busy.  A deleted row means a stopped server whose agent has
\* ended for good, or is about to: it can only report and shut down.
AgentInv(n) ==
  /\ job[n].at = "run" => ~job[n].ok
  /\ job[n].ok /\ job[n].at \notin {"idle", "run"} /\ job[n].action # "repoint_replica" =>
       pg[n] = (job[n].action = "pg_start")
  /\ job[n].at = "lifecycle" => job[n].action = "agent_deactivate"
  /\ proc[n] # "up" => job[n].at = "idle"
  /\ status[n] = "gone" =>
       /\ ~pg[n]
       /\ \/ proc[n] = "deactivated"
          \/ job[n].at = "done" /\ job[n].ok /\ job[n].action = "agent_deactivate"

AgentsInv == \A n \in Nodes : AgentInv(n)

\* A row is deleted by the result of a deactivation and by nothing else.
LEMMA GoneStep ==
  ASSUME TypeInv, [Next]_vars, NEW n \in Nodes, status'[n] = "gone"
  PROVE  \/ status[n] = "gone"
         \/ /\ job[n].at = "lifecycle" /\ job[n].ok /\ pg'[n] = pg[n] /\ proc'[n] = proc[n]
            /\ job'[n] = [job[n] EXCEPT !.at = "done"]
  <1>0. RowType /\ ReqType /\ JobType /\ status \in [Nodes -> NodeStatuses]
    BY DEF TypeInv, RowType
  <1>1. CASE UNCHANGED status
    BY <1>1
  <1>2. ASSUME NEW m \in Nodes, NEW s, s # "gone", SetStatus(m, s) PROVE status[n] = "gone"
    BY <1>0, <1>2 DEF SetStatus
  <1>3. ASSUME NEW op \in ClusterOperations, queueClusterLifecycle(op) PROVE status[n] = "gone"
    BY <1>0, <1>3 DEF queueClusterLifecycle
  <1>4. ASSUME NEW q \in Requests, NEW m \in Nodes, WriteStatus(q, m) PROVE status[n] = "gone"
    <2>1. Head(req[q].todo) \in Todo
      BY <1>0, <1>4, StatementType DEF WriteStatus
    <2>2. Head(req[q].todo) # "gone"
      BY <2>1 DEF Todo, Actions
    <2> QED
      BY <1>2, <1>4, <2>2 DEF WriteStatus
  <1>5. CASE AgentLifecycleResult(n) /\ job[n].ok
    <2>1. job'[n] = [job[n] EXCEPT !.at = "done"]
      BY <1>0, <1>5, StepAt DEF AgentLifecycleResult
    <2> QED
      BY <1>5, <2>1 DEF AgentLifecycleResult, hostVars
  <1>6. ASSUME NEW m \in Nodes, AgentLifecycleResult(m), ~(m = n /\ job[n].ok) PROVE status[n] = "gone"
    <2>1. CASE job[m].ok
      BY <1>0, <1>6, <2>1 DEF AgentLifecycleResult
    <2>2. CASE ~job[m].ok
      BY <1>2, <1>6, <2>2 DEF AgentLifecycleResult
    <2> QED
      BY <2>1, <2>2
  <1>7. ASSUME NEW m \in Nodes, StatusResult(m) \/ HeartbeatWrite(m) \/ ReportWriteStatus(m) \/ RegisterAgent(m)
        PROVE  status[n] = "gone"
    BY <1>2, <1>7 DEF StatusResult, HeartbeatWrite, ReportWriteStatus, RegisterAgent
  <1>8. ASSUME NEW q \in Requests,
               \/ BeginDelete(q) \/ Abandon(q) \/ CommitDelete(q)
               \/ \E m \in Nodes, op \in NodeOperations : BeginNodeOperation(q, m, op)
               \/ \E m \in Nodes : InsertCommand(q, m) \/ WriteDetail(q, m)
        PROVE  UNCHANGED status
    BY <1>8 DEF BeginDelete, Abandon, CommitDelete, BeginNodeOperation, InsertCommand, WriteDetail, rowVars
  <1>9. ASSUME NEW m \in Nodes,
               \/ FetchCommand(m) \/ Execute(m) \/ UpdateResult(m) \/ FailureResult(m) \/ DetailResult(m)
               \/ EvaluateCluster(m) \/ WriteCluster(m) \/ ResultStored(m)
               \/ ExecuteFails(m) \/ LoseResult(m) \/ CutHandler(m) \/ AgentEnds(m)
               \/ SampleHost(m) \/ HeartbeatRead(m) \/ ReportRead(m) \/ ReportWriteFacts(m)
        PROVE  UNCHANGED status
    BY <1>9 DEF FetchCommand, Execute, UpdateResult, FailureResult, DetailResult, EvaluateCluster, WriteCluster,
                ResultStored, ExecuteFails, LoseResult, CutHandler, AgentEnds, SampleHost, HeartbeatRead, ReportRead,
                ReportWriteFacts, rowVars
  <1>10. CASE UNCHANGED vars
    BY <1>1, <1>10 DEF vars, rowVars
  <1> QED
    BY <1>1, <1>3, <1>4, <1>5, <1>6, <1>7, <1>8, <1>9, <1>10, Zenon DEF Next, Request, CommandLoop, Handler, Beat

\* The agent process: it ends with its command, for good after a deactivation
\* that succeeded, and only one that ended otherwise comes back.
LEMMA ProcStep ==
  ASSUME TypeInv, [Next]_vars, NEW n \in Nodes
  PROVE  /\ proc'[n] = proc[n] \/ job'[n] = NoJob \/ (proc[n] = "down" /\ proc'[n] = "up")
         /\ proc[n] = "deactivated" => proc'[n] = "deactivated"
         /\ \/ job'[n] # NoJob \/ job[n].at = "idle"
            \/ ~(job[n].ok /\ job[n].action = "agent_deactivate") \/ proc'[n] = "deactivated"
  <1> DEFINE Good == /\ proc'[n] = proc[n] \/ job'[n] = NoJob \/ (proc[n] = "down" /\ proc'[n] = "up")
                     /\ proc[n] = "deactivated" => proc'[n] = "deactivated"
                     /\ \/ job'[n] # NoJob \/ job[n].at = "idle"
                        \/ ~(job[n].ok /\ job[n].action = "agent_deactivate") \/ proc'[n] = "deactivated"
  <1>0. JobType /\ job[n] \in Jobs /\ proc \in [Nodes -> {"up", "down", "deactivated"}]
    BY DEF TypeInv, JobType, HostType
  <1>1. ASSUME UNCHANGED <<job, proc>> PROVE Good
    BY <1>1 DEF NoJob
  <1>2. ASSUME NEW m \in Nodes, UNCHANGED proc, NEW at \in Phases \ {"idle"}, Step(m, at) PROVE Good
    <2>1. job'[n] = IF n = m THEN [job[n] EXCEPT !.at = at] ELSE job[n]
      BY <1>0, <1>2, StepAt
    <2> QED
      BY <1>0, <1>2, <2>1 DEF NoJob, Jobs
  <1>3. ASSUME NEW q \in Requests, CommitDelete(q) PROVE Good
    <2>1. proc' = proc /\ (job'[n] = job[n] \/ job'[n] = [job[n] EXCEPT !.cmd = 0])
      BY <1>3 DEF CommitDelete, hostVars
    <2> QED
      BY <1>0, <2>1 DEF NoJob, Jobs
  <1>4. ASSUME NEW m \in Nodes, FetchCommand(m) PROVE Good
    <2>1. proc' = proc /\ job' = [job EXCEPT ![m] = job'[m]] /\ job'[m].at = "run"
      BY <1>0, <1>4 DEF FetchCommand, hostVars, JobType
    <2> QED
      BY <1>0, <2>1 DEF NoJob, JobType
  <1>5. ASSUME NEW m \in Nodes, Execute(m) PROVE Good
    <2>1. proc' = proc /\ job' = [job EXCEPT ![m] = job'[m]] /\ job'[m].at = "report"
      BY <1>0, <1>5 DEF Execute, JobType, Jobs
    <2> QED
      BY <1>0, <2>1 DEF NoJob, JobType
  <1>6. ASSUME NEW m \in Nodes,
               \/ ExecuteFails(m) \/ UpdateResult(m) \/ AgentLifecycleResult(m) \/ FailureResult(m) \/ StatusResult(m)
               \/ DetailResult(m) \/ EvaluateCluster(m) \/ WriteCluster(m) \/ CutHandler(m)
        PROVE  UNCHANGED proc /\ \E at \in Phases \ {"idle"} : Step(m, at)
    <2>1. CASE ExecuteFails(m)
      BY <2>1 DEF ExecuteFails, Step, Phases
    <2>2. CASE UpdateResult(m)
      <3>1. job[m].action \in Actions /\ job[m].ok \in BOOLEAN
        BY <1>0 DEF JobType, Jobs
      <3> QED
        BY <2>2, <3>1 DEF UpdateResult, Phases, hostVars
    <2>3. CASE AgentLifecycleResult(m) \/ FailureResult(m) \/ StatusResult(m) \/ DetailResult(m) \/ WriteCluster(m) \/ CutHandler(m)
      BY <2>3 DEF AgentLifecycleResult, FailureResult, StatusResult, DetailResult, WriteCluster, CutHandler, Phases, hostVars
    <2>4. CASE EvaluateCluster(m)
      BY <2>4 DEF EvaluateCluster, Phases, hostVars
    <2> QED
      BY <1>6, <2>1, <2>2, <2>3, <2>4
  <1>7. ASSUME NEW m \in Nodes, LoseResult(m) \/ ResultStored(m) PROVE Good
    <2>1. /\ job' = [job EXCEPT ![m] = NoJob]
          /\ proc' = [proc EXCEPT ![m] = IF job[m].action = "agent_deactivate" /\ job[m].ok THEN "deactivated" ELSE proc[m]]
      BY <1>7 DEF LoseResult, ResultStored, Idle, Shutdown
    <2>2. CASE n = m
      BY <1>0, <2>1, <2>2 DEF JobType
    <2>3. CASE n # m
      BY <1>0, <2>1, <2>3 DEF JobType, NoJob
    <2> QED
      BY <2>2, <2>3
  <1>8. ASSUME NEW m \in Nodes, AgentEnds(m) PROVE Good
    <2>1. /\ job' = [job EXCEPT ![m] = NoJob] /\ proc[m] = "up"
          /\ proc' = [proc EXCEPT ![m] = IF job[m].action = "agent_deactivate" /\ job[m].ok THEN "deactivated" ELSE "down"]
      BY <1>8 DEF AgentEnds, Idle
    <2>2. CASE n = m
      BY <1>0, <2>1, <2>2 DEF JobType
    <2>3. CASE n # m
      BY <1>0, <2>1, <2>3 DEF JobType, NoJob
    <2> QED
      BY <2>2, <2>3
  <1>9. ASSUME NEW m \in Nodes, RegisterAgent(m) PROVE Good
    BY <1>0, <1>9 DEF RegisterAgent, NoJob
  <1>10. ASSUME NEW q \in Requests,
                \/ BeginDelete(q) \/ Abandon(q)
                \/ \E m \in Nodes, op \in NodeOperations : BeginNodeOperation(q, m, op)
                \/ \E m \in Nodes : InsertCommand(q, m) \/ WriteStatus(q, m) \/ WriteDetail(q, m)
         PROVE  UNCHANGED <<job, proc>>
    BY <1>10 DEF BeginDelete, Abandon, BeginNodeOperation, InsertCommand, WriteStatus, WriteDetail, hostVars
  <1>11. ASSUME NEW m \in Nodes, Beat(m) PROVE UNCHANGED <<job, proc>>
    BY <1>11 DEF Beat, SampleHost, HeartbeatRead, HeartbeatWrite, ReportRead, ReportWriteStatus, ReportWriteFacts, hostVars
  <1>12. ASSUME NEW op \in ClusterOperations, queueClusterLifecycle(op) PROVE UNCHANGED <<job, proc>>
    BY <1>12 DEF queueClusterLifecycle, hostVars
  <1>13. ASSUME UNCHANGED vars PROVE Good
    BY <1>1, <1>13 DEF vars, hostVars
  <1> HIDE DEF Good
  <1>14. Good
    BY <1>1, <1>2, <1>3, <1>4, <1>5, <1>6, <1>7, <1>8, <1>9, <1>10, <1>11, <1>12, <1>13, Zenon
    DEF Next, Request, CommandLoop, Handler
  <1> QED
    BY <1>14 DEF Good

LEMMA NextAgentsInv == TypeInv /\ QueueInv /\ AgentsInv /\ [Next]_vars => AgentsInv'
  <1> SUFFICES ASSUME TypeInv, QueueInv, AgentsInv, [Next]_vars, NEW n \in Nodes PROVE AgentInv(n)'
    BY DEF AgentsInv
  <1>0. /\ AgentInv(n) /\ job[n] \in Jobs /\ pg[n] \in BOOLEAN /\ pg'[n] \in BOOLEAN
        /\ proc[n] \in {"up", "down", "deactivated"}
    BY NextHostType DEF TypeInv, JobType, HostType, AgentsInv
  <1>1. NodeSteps(n)
    BY NodeStep
  <1>2. (job[n].at = "run" => ~job[n].ok)'
    <2>1. CASE Stored(n) \/ Quiet(n)
      BY <1>0, <2>1, HandledJob DEF AgentInv, Handling
    <2>2. CASE Added(n) \/ Queued(n)
      BY <1>0, <2>2 DEF Added, Queued, AgentInv
    <2>3. CASE Cancelled(n)
      BY <1>0, <2>3 DEF Cancelled, AgentInv, Jobs
    <2>4. CASE Fetched(n)
      BY <2>4 DEF Fetched
    <2>5. CASE Ran(n) \/ FailedRun(n)
      <3>1. job'[n].at = "report"
        BY <1>0, <2>5 DEF Ran, FailedRun, Jobs
      <3> QED
        BY <3>1
    <2>6. CASE Ended(n)
      BY <2>6 DEF Ended, NoJob
    <2> QED
      BY <1>1, <2>1, <2>2, <2>3, <2>4, <2>5, <2>6 DEF NodeSteps
  <1>3. (job[n].at = "lifecycle" => job[n].action = "agent_deactivate")'
    <2>1. CASE Stored(n) \/ Quiet(n)
      BY <1>0, <2>1, HandledJob DEF AgentInv, Handling
    <2>2. CASE Added(n) \/ Queued(n)
      BY <1>0, <2>2 DEF Added, Queued, AgentInv
    <2>3. CASE Cancelled(n)
      BY <1>0, <2>3 DEF Cancelled, AgentInv, Jobs
    <2>4. CASE Fetched(n)
      BY <2>4 DEF Fetched
    <2>5. CASE Ran(n) \/ FailedRun(n)
      <3>1. job'[n].at = "report"
        BY <1>0, <2>5 DEF Ran, FailedRun, Jobs
      <3> QED
        BY <3>1
    <2>6. CASE Ended(n)
      BY <2>6 DEF Ended, NoJob
    <2> QED
      BY <1>1, <2>1, <2>2, <2>3, <2>4, <2>5, <2>6 DEF NodeSteps
  <1>4. (job[n].ok /\ job[n].at \notin {"idle", "run"} /\ job[n].action # "repoint_replica" =>
           pg[n] = (job[n].action = "pg_start"))'
    <2>1. CASE Ran(n)
      BY <1>0, <2>1 DEF Ran, UpAfter, Jobs
    <2>2. CASE FailedRun(n)
      BY <1>0, <2>2 DEF FailedRun, AgentInv, Jobs
    <2>3. CASE Added(n) \/ Queued(n)
      BY <1>0, <2>3 DEF Added, Queued, AgentInv
    <2>4. CASE Cancelled(n) \/ Fetched(n) \/ Ended(n)
      BY <1>0, <2>4 DEF Cancelled, Fetched, Ended, NoJob, AgentInv, Jobs
    <2>5. CASE Stored(n) \/ Quiet(n)
      <3>1. pg'[n] = pg[n]
        BY <2>5 DEF Stored, Quiet, Unmoved
      <3>2. /\ job'[n].action = job[n].action /\ job'[n].ok = job[n].ok
            /\ job'[n].at = job[n].at \/ job[n].at \notin {"idle", "run"}
        BY <1>0, <2>5, HandledJob
      <3> QED
        BY <1>0, <3>1, <3>2, Zenon DEF AgentInv
    <2> QED
      BY <1>1, <2>1, <2>2, <2>3, <2>4, <2>5 DEF NodeSteps
  <1>5. (proc[n] # "up" => job[n].at = "idle")'
    <2> SUFFICES ASSUME proc'[n] # "up" PROVE job'[n].at = "idle"
      OBVIOUS
    <2>1. CASE job'[n] = NoJob
      BY <2>1 DEF NoJob
    <2>2. CASE proc'[n] = proc[n]
      <3>1. job[n].at = "idle" /\ proc[n] # "up"
        BY <1>0, <2>2 DEF AgentInv
      <3> QED
        BY <1>0, <1>1, <3>1 DEF NodeSteps, Added, Queued, Cancelled, Fetched, Ran, FailedRun, Stored, Ended, Quiet,
                                Handling, NoJob, Jobs
    <2> QED
      BY <2>1, <2>2, ProcStep
  <1>6. ASSUME status'[n] = "gone"
        PROVE  /\ ~pg'[n]
               /\ \/ proc'[n] = "deactivated"
                  \/ job'[n].at = "done" /\ job'[n].ok /\ job'[n].action = "agent_deactivate"
    <2>1. CASE status[n] = "gone"
      <3>0. ~pg[n] /\ (proc[n] = "deactivated" => job[n].at = "idle") /\ job[n].at \in {"idle", "done"}
        BY <1>0, <2>1 DEF AgentInv
      <3>1. ~pg'[n]
        BY <1>0, <1>1, <3>0 DEF NodeSteps, Added, Queued, Cancelled, Fetched, Ran, FailedRun, Stored, Ended, Quiet, Unmoved
      <3>2. CASE proc[n] = "deactivated"
        BY <3>1, <3>2, ProcStep
      <3>3. CASE job[n].at = "done" /\ job[n].ok /\ job[n].action = "agent_deactivate"
        <4>1. CASE job'[n] = NoJob
          BY <3>1, <3>3, <4>1, ProcStep
        <4>2. CASE job'[n] # NoJob
          BY <1>0, <1>1, <3>1, <3>3, <4>2 DEF NodeSteps, Added, Queued, Cancelled, Fetched, Ran, FailedRun, Stored, Ended,
                                             Quiet, Jobs
        <4> QED
          BY <4>1, <4>2
      <3> QED
        BY <1>0, <2>1, <3>2, <3>3 DEF AgentInv
    <2>2. CASE /\ job[n].at = "lifecycle" /\ job[n].ok /\ pg'[n] = pg[n] /\ proc'[n] = proc[n]
               /\ job'[n] = [job[n] EXCEPT !.at = "done"]
      BY <1>0, <2>2 DEF AgentInv, Jobs
    <2> QED
      BY <1>6, <2>1, <2>2, GoneStep
  <1> QED
    BY <1>2, <1>3, <1>4, <1>5, <1>6 DEF AgentInv

-----------------------------------------------------------------------------
(* The last operation asked.                                               *)

\* The pending commands that start or stop PostgreSQL.
Deciding(n) == {i \in DOMAIN queue[n] : queue[n][i].action # "repoint_replica"}

Result(a) == IF a = "pg_start" THEN "running" ELSE "stopped"

\* Where the last operation asked is known: the last deciding command brings it
\* about, and without one the host is there already.  An attempt of a cancelled
\* command, or a failed one about to leave the queue, has a later deciding
\* command behind it that will put things right.
WantNode(n) ==
  want[n] # "any" =>
    /\ Deciding(n) = {} => pg[n] = (want[n] = "running")
    /\ \A i \in Deciding(n) : (\A j \in Deciding(n) : j <= i) => want[n] = Result(queue[n][i].action)
    /\ job[n].at \in {"run", "report"} /\ job[n].cmd = 0 => Deciding(n) # {}
    /\ job[n].at = "report" /\ job[n].cmd = 1 /\ ~job[n].ok => \E i \in Deciding(n) : i > 1

WantInv == \A n \in Nodes : WantNode(n)

LEMMA NextWantInv == TypeInv /\ QueueInv /\ AgentsInv /\ WantInv /\ [Next]_vars => WantInv'
  <1> SUFFICES ASSUME TypeInv, QueueInv, AgentsInv, WantInv, [Next]_vars, NEW n \in Nodes, want'[n] # "any"
               PROVE  /\ Deciding(n)' = {} => pg'[n] = (want'[n] = "running")
                      /\ \A i \in Deciding(n)' : (\A j \in Deciding(n)' : j <= i) => want'[n] = Result(queue'[n][i].action)
                      /\ job'[n].at \in {"run", "report"} /\ job'[n].cmd = 0 => Deciding(n)' # {}
                      /\ job'[n].at = "report" /\ job'[n].cmd = 1 /\ ~job'[n].ok => \E i \in Deciding(n)' : i > 1
    BY DEF WantInv, WantNode
  <1>0. /\ queue[n] \in Seq(Commands) /\ queue'[n] \in Seq(Commands) /\ NodeQueue(n) /\ AgentInv(n) /\ WantNode(n)
        /\ job[n] \in Jobs /\ pg[n] \in BOOLEAN /\ pg'[n] \in BOOLEAN
        /\ want[n] \in {"running", "stopped", "any"} /\ want'[n] \in {"running", "stopped", "any"}
    BY NextQueueType, NextHostType DEF TypeInv, QueueType, QueueInv, JobType, HostType, AgentsInv, WantInv
  <1>00. Len(queue[n]) \in Nat /\ DOMAIN queue[n] = 1..Len(queue[n]) /\ Len(queue'[n]) \in Nat /\ DOMAIN queue'[n] = 1..Len(queue'[n])
    BY <1>0
  <1>1. CASE Added(n)
    <2>1. PICK a \in Actions : queue'[n] = Append(queue[n], Command(n, a)) /\ want'[n] = Effect(n, a)
      BY <1>1 DEF Added
    <2>2. job'[n] = job[n] /\ pg'[n] = pg[n]
      BY <1>1 DEF Added
    <2>3. /\ Len(queue'[n]) = Len(queue[n]) + 1
          /\ \A i \in 1..Len(queue[n]) : queue'[n][i] = queue[n][i]
          /\ queue'[n][Len(queue[n]) + 1].action = a
      BY <1>0, <2>1 DEF Command
    <2>4. CASE a = "repoint_replica"
      <3>1. Deciding(n)' = Deciding(n)
        BY <1>00, <2>3, <2>4 DEF Deciding
      <3>2. want'[n] = want[n]
        BY <2>1, <2>4 DEF Effect
      <3>3. \A i \in Deciding(n) : queue'[n][i] = queue[n][i]
        BY <1>00, <2>3 DEF Deciding
      <3> QED
        BY <1>0, <2>2, <3>1, <3>2, <3>3 DEF WantNode
    <2>5. CASE a # "repoint_replica"
      <3>1. Len(queue[n]) + 1 \in Deciding(n)' /\ \A i \in Deciding(n)' : i <= Len(queue[n]) + 1 /\ i \in Nat
        BY <1>00, <2>3, <2>5 DEF Deciding
      <3>2. want'[n] = Result(a)
        BY <2>1, <2>5 DEF Effect, Result, Actions
      <3>3. ASSUME NEW i \in Deciding(n)', \A j \in Deciding(n)' : j <= i PROVE want'[n] = Result(queue'[n][i].action)
        <4>1. i = Len(queue[n]) + 1
          BY <1>00, <3>1, <3>3
        <4> QED
          BY <2>3, <3>2, <4>1
      <3>4. job[n].at = "report" /\ job[n].cmd = 1 => Len(queue[n]) + 1 > 1
        BY <1>0, <1>00 DEF NodeQueue
      <3> QED
        BY <2>2, <3>1, <3>3, <3>4
    <2> QED
      BY <2>4, <2>5
  <1>2. CASE Queued(n)
    <2>1. job'[n] = job[n] /\ pg'[n] = pg[n] /\ queue[n] = <<>>
      BY <1>2 DEF Queued
    <2>0. PICK op \in ClusterOperations : \E order \in LifecycleCommands(op) :
            /\ Len(queue'[n]) = Len(order)
            /\ \A i \in 1..Len(order) : queue'[n][i].action = order[i] /\ queue'[n][i].node = n
            /\ want'[n] = CASE op = "start" -> "running" [] op = "pause" -> "stopped" [] op = "restart" -> "any"
      BY <1>2 DEF Queued
    <2>2. PICK order \in LifecycleCommands(op) :
            /\ Len(queue'[n]) = Len(order)
            /\ \A i \in 1..Len(order) : queue'[n][i].action = order[i] /\ queue'[n][i].node = n
            /\ want'[n] = CASE op = "start" -> "running" [] op = "pause" -> "stopped" [] op = "restart" -> "any"
      BY <2>0
    <2>3. (op = "start" /\ want'[n] = "running") \/ (op = "pause" /\ want'[n] = "stopped")
      BY <2>2 DEF ClusterOperations
    <2>4. (op = "start" => order = <<"pg_start">>) /\ (op = "pause" => order = <<"pg_stop">>)
      BY OrderType
    <2>5. Len(queue'[n]) = 1 /\ queue'[n][1].action = IF op = "start" THEN "pg_start" ELSE "pg_stop"
      BY <2>2, <2>3, <2>4
    <2>6. Deciding(n)' = {1}
      BY <1>00, <2>5 DEF Deciding
    <2>7. want'[n] = Result(queue'[n][1].action)
      BY <2>3, <2>5 DEF Result
    <2>8. ~(job[n].at = "report" /\ job[n].cmd = 1)
      BY <1>0, <2>1 DEF NodeQueue
    <2> QED
      BY <2>1, <2>6, <2>7, <2>8
  <1>3. CASE Cancelled(n) \/ FailedRun(n)
    BY <1>3 DEF Cancelled, FailedRun
  <1>4. CASE Fetched(n)
    <2>1. Unmoved(n) /\ Deciding(n)' = Deciding(n) /\ job'[n].at = "run" /\ job'[n].cmd = 1
      BY <1>4 DEF Fetched, Unmoved, Deciding
    <2> QED
      BY <1>0, <2>1 DEF WantNode, Unmoved
  <1>5. CASE Ran(n)
    <2>1. /\ job[n].at = "run" /\ queue'[n] = queue[n] /\ want'[n] = want[n] /\ Deciding(n)' = Deciding(n)
          /\ job'[n].ok /\ job'[n].cmd = job[n].cmd
          /\ pg'[n] = UpAfter(pg[n], job[n].action)
      BY <1>0, <1>5 DEF Ran, Deciding, Jobs
    <2>2. ASSUME Deciding(n) = {} PROVE pg'[n] = pg[n]
      <3>1. job[n].cmd = 1 /\ queue[n] # <<>> /\ queue[n][1].action = job[n].action
        BY <1>0, <2>1, <2>2 DEF WantNode, NodeQueue
      <3>2. job[n].action = "repoint_replica"
        BY <1>00, <2>2, <3>1, <1>0 DEF Deciding
      <3> QED
        BY <1>0, <2>1, <3>2 DEF UpAfter
    <2>3. job[n].cmd = 0 => Deciding(n) # {}
      BY <1>0, <2>1 DEF WantNode
    <2> QED
      BY <1>0, <2>1, <2>2, <2>3 DEF WantNode
  <1>6. CASE Stored(n)
    <2>1. /\ job[n].at = "report" /\ pg'[n] = pg[n] /\ want'[n] = want[n]
          /\ \/ job[n].cmd = 0 /\ queue'[n] = queue[n]
             \/ job[n].cmd = 1 /\ queue[n] # <<>> /\ queue'[n] = Tail(queue[n])
      BY <1>6 DEF Stored
    <2>2. job'[n].at \notin {"run", "report"}
      <3>1. PICK at \in Handling : /\ job'[n] = [job[n] EXCEPT !.at = at]
                                   /\ at = "lifecycle" => job[n].action = "agent_deactivate"
        BY <1>6 DEF Stored
      <3> QED
        BY <1>0, <3>1 DEF Handling, Jobs
    <2>3. CASE queue'[n] = queue[n]
      <3>1. Deciding(n)' = Deciding(n)
        BY <2>3 DEF Deciding
      <3> QED
        BY <1>0, <2>1, <2>2, <2>3, <3>1 DEF WantNode
    <2>4. CASE job[n].cmd = 1 /\ queue[n] # <<>> /\ queue'[n] = Tail(queue[n])
      <3>1. /\ Len(queue'[n]) = Len(queue[n]) - 1 /\ 1 <= Len(queue[n])
            /\ \A i \in 1..Len(queue'[n]) : queue'[n][i] = queue[n][i + 1]
        BY <1>0, <1>00, <2>4
      <3>2. \A i \in Deciding(n)' : i + 1 \in Deciding(n) /\ i \in Nat /\ queue'[n][i] = queue[n][i + 1]
        BY <1>00, <3>1 DEF Deciding
      <3>3. ASSUME NEW i \in Deciding(n), i > 1 PROVE i - 1 \in Deciding(n)' /\ i \in Nat
        <4>1. i \in 1..Len(queue[n]) /\ i - 1 \in 1..Len(queue'[n]) /\ (i - 1) + 1 = i
          BY <1>00, <3>1, <3>3 DEF Deciding
        <4>2. queue'[n][i - 1] = queue[n][i]
          BY <3>1, <4>1
        <4> QED
          BY <1>00, <3>3, <4>1, <4>2 DEF Deciding
      <3>4. ASSUME Deciding(n)' = {} PROVE pg'[n] = (want'[n] = "running")
        <4>1. \A i \in Deciding(n) : i = 1
          BY <1>00, <3>3, <3>4 DEF Deciding
        <4>2. job[n].ok
          BY <1>0, <2>1, <2>4, <4>1 DEF WantNode
        <4>3. CASE Deciding(n) = {}
          BY <1>0, <2>1, <4>3 DEF WantNode
        <4>4. CASE 1 \in Deciding(n)
          <5>1. want[n] = Result(queue[n][1].action)
            BY <1>0, <2>1, <4>1, <4>4 DEF WantNode
          <5>2. queue[n][1].action = job[n].action /\ job[n].action # "repoint_replica"
            BY <1>0, <2>1, <2>4, <4>4 DEF NodeQueue, Deciding
          <5>3. pg[n] = (job[n].action = "pg_start")
            BY <1>0, <2>1, <4>2, <5>2 DEF AgentInv
          <5>4. (want[n] = "running") = (job[n].action = "pg_start")
            BY <5>1, <5>2 DEF Result
          <5> QED
            BY <2>1, <5>3, <5>4
        <4> QED
          BY <4>1, <4>3, <4>4
      <3>5. ASSUME NEW i \in Deciding(n)', \A j \in Deciding(n)' : j <= i
            PROVE  want'[n] = Result(queue'[n][i].action)
        <4>1. i + 1 \in Deciding(n) /\ queue'[n][i] = queue[n][i + 1] /\ i \in Nat
          BY <3>2
        <4>2. ASSUME NEW j \in Deciding(n) PROVE j <= i + 1
          <5>1. j \in Nat /\ j >= 1
            BY <1>00 DEF Deciding
          <5>2. CASE j > 1
            <6>1. j - 1 <= i
              BY <3>3, <3>5, <5>2
            <6> QED
              BY <4>1, <5>1, <6>1
          <5> QED
            BY <4>1, <5>1, <5>2
        <4> QED
          BY <1>0, <2>1, <4>1, <4>2 DEF WantNode
      <3> QED
        BY <2>2, <3>4, <3>5
    <2> QED
      BY <2>1, <2>3, <2>4
  <1>7. CASE Ended(n)
    <2>1. queue'[n] = queue[n] /\ Deciding(n)' = Deciding(n) /\ job'[n].at = "idle"
      BY <1>7 DEF Ended, Deciding, NoJob
    <2>2. CASE pg'[n] = pg[n] /\ want'[n] = want[n]
      BY <1>0, <2>1, <2>2 DEF WantNode
    <2>3. CASE Deciding(n) # {} /\ want'[n] = want[n]
      BY <1>0, <2>1, <2>3 DEF WantNode
    <2> QED
      BY <1>7, <2>2, <2>3 DEF Ended, Deciding
  <1>8. CASE Quiet(n)
    <2>1. Unmoved(n) /\ Deciding(n)' = Deciding(n)
      BY <1>8 DEF Quiet, Unmoved, Deciding
    <2>2. job'[n] = job[n] \/ job'[n].at \notin {"run", "report"}
      BY <1>0, <1>8, HandledJob DEF Handling
    <2> QED
      BY <1>0, <2>1, <2>2 DEF WantNode, Unmoved
  <1> QED
    BY NodeStep, <1>1, <1>2, <1>3, <1>4, <1>5, <1>6, <1>7, <1>8 DEF NodeSteps

-----------------------------------------------------------------------------
\* The invariant the theorems below follow from.
LEMMA LifecycleInvariant == Spec => [](TypeInv /\ QueueInv /\ AgentsInv /\ WantInv)
  <1>1. Init => TypeInv /\ QueueInv /\ AgentsInv /\ WantInv
    <2> SUFFICES ASSUME Init PROVE QueueInv /\ AgentsInv /\ WantInv
      BY InitTypeInv
    <2>1. QueueInv
      BY DEF Init, QueueInv, NodeQueue, NoJob
    <2>2. AgentsInv
      BY DEF Init, AgentsInv, AgentInv, NoJob
    <2>3. ASSUME NEW n \in Nodes PROVE WantNode(n)
      <3>1. Deciding(n) = {} /\ job[n].at = "idle"
        BY DEF Init, Deciding, NoJob
      <3>2. pg[n] = (want[n] = "running")
        BY DEF Init
      <3> QED
        BY <3>1, <3>2 DEF WantNode
    <2> QED
      BY <2>1, <2>2, <2>3 DEF WantInv
  <1>2. TypeInv /\ QueueInv /\ AgentsInv /\ WantInv /\ [Next]_vars => (TypeInv /\ QueueInv /\ AgentsInv /\ WantInv)'
    BY NextTypeInv, NextQueueInv, NextAgentsInv, NextWantInv
  <1> QED
    BY <1>1, <1>2, PTL DEF Spec

\* Rows, hosts, agents, requests and queued commands keep their types.
THEOREM LifecycleTypeCorrect == Spec => []TypeOK
  <1>1. TypeInv => TypeOK
    <2> SUFFICES ASSUME TypeInv PROVE TypeOK
      OBVIOUS
    <2>1. \A q \in Requests : req[q] = None \/ req[q].node \in Nodes \cup {None}
      BY DEF TypeInv, ReqType, Reqs
    <2>2. \A b \in BoundNames : used[b] \in 0..Limit[b]
      BY LifecycleAssumption DEF TypeInv, UsedType, BoundNames, Limit
    <2> QED
      BY <2>1, <2>2 DEF TypeOK, TypeInv, RowType, HostType, QueueType, JobType, Commands, Jobs, Phases, Beats
  <1> QED
    BY <1>1, LifecycleInvariant, PTL

\* Once a node's queue is worked off, its host is as the last operation asked:
\* the order of FetchCommand, UpdateResult as the only end of a command and the
\* idempotence of Start and Stop are enough, for any number of nodes, requests,
\* lost results, failed commands and agent restarts.
THEOREM HostFollowsHolds == Spec => []HostFollowsLastOperation
  <1>1. TypeInv /\ WantInv => HostFollowsLastOperation
    BY DEF WantInv, WantNode, Deciding, HostFollowsLastOperation
  <1> QED
    BY <1>1, LifecycleInvariant, PTL

\* A node's row is deleted by the result of agent_deactivate alone, with its
\* PostgreSQL stopped and an agent that will start nothing any more.
THEOREM DeletedNodeHolds == Spec => []DeletedNodeIsStopped
  <1>1. AgentsInv => DeletedNodeIsStopped
    BY DEF AgentsInv, AgentInv, DeletedNodeIsStopped
  <1> QED
    BY <1>1, LifecycleInvariant, PTL

-----------------------------------------------------------------------------
(* The agent_commands table implements CommandQueue.                       *)

Kinds(s) == [i \in DOMAIN s |-> s[i].action]

Pending == [n \in Nodes |-> Kinds(queue[n])]
Attempts == [n \in Nodes |-> AttemptOf(n)]

LEMMA KindsOfQueue ==
  ASSUME NEW s \in Seq(Commands)
  PROVE  /\ Kinds(s) \in Seq(Actions) /\ Len(Kinds(s)) = Len(s) /\ \A i \in 1..Len(s) : Kinds(s)[i] = s[i].action
         /\ s # <<>> => Kinds(Tail(s)) = Tail(Kinds(s)) /\ Kinds(s) # <<>>
         /\ Kinds(<<>>) = <<>>
  <1>1. Len(s) \in Nat /\ DOMAIN s = 1..Len(s) /\ \A i \in 1..Len(s) : s[i].action \in Actions
    <2>1. Len(s) \in Nat /\ DOMAIN s = 1..Len(s) /\ \A i \in 1..Len(s) : s[i] \in Commands
      OBVIOUS
    <2> QED
      BY <2>1 DEF Commands
  <1>2. Kinds(s) \in Seq(Actions) /\ Len(Kinds(s)) = Len(s) /\ \A i \in 1..Len(s) : Kinds(s)[i] = s[i].action
    BY <1>1 DEF Kinds
  <1>3. Kinds(<<>>) = <<>>
    BY DEF Kinds
  <1>4. ASSUME s # <<>> PROVE Kinds(Tail(s)) = Tail(Kinds(s)) /\ Kinds(s) # <<>>
    <2>1. Tail(s) \in Seq(Commands) /\ Len(Tail(s)) = Len(s) - 1 /\ \A i \in 1..(Len(s) - 1) : Tail(s)[i] = s[i + 1]
      BY <1>1, <1>4
    <2>2. Kinds(s) # <<>>
      BY <1>1, <1>2, <1>4
    <2>3. /\ Tail(Kinds(s)) \in Seq(Actions) /\ Len(Tail(Kinds(s))) = Len(s) - 1
          /\ \A i \in 1..(Len(s) - 1) : Tail(Kinds(s))[i] = Kinds(s)[i + 1]
      BY <1>1, <1>2, <2>2
    <2>4. DOMAIN Tail(s) = 1..(Len(s) - 1) /\ DOMAIN Tail(Kinds(s)) = 1..(Len(s) - 1)
      BY <2>1, <2>3
    <2>5. ASSUME NEW i \in 1..(Len(s) - 1) PROVE Kinds(Tail(s))[i] = Tail(Kinds(s))[i]
      <3>1. i + 1 \in 1..Len(s)
        BY <1>1
      <3>2. Kinds(Tail(s))[i] = s[i + 1].action
        BY <2>1, <2>4 DEF Kinds
      <3> QED
        BY <1>2, <2>3, <3>1, <3>2
    <2>6. Kinds(Tail(s)) = [i \in 1..(Len(s) - 1) |-> Kinds(Tail(s))[i]]
      BY <2>4 DEF Kinds
    <2>7. Tail(Kinds(s)) = [i \in 1..(Len(s) - 1) |-> Tail(Kinds(s))[i]]
      <3>1. \A t \in Seq(Actions) : t = [i \in DOMAIN t |-> t[i]]
        OBVIOUS
      <3> QED
        BY <2>3, <2>4, <3>1
    <2> QED
      BY <2>2, <2>5, <2>6, <2>7
  <1> QED
    BY <1>2, <1>3, <1>4

\* Commands behind the ones already there leave those where they are.
LEMMA KindsOfPrefix ==
  ASSUME NEW s \in Seq(Commands), NEW t \in Seq(Commands), Len(s) <= Len(t), \A i \in 1..Len(s) : t[i] = s[i]
  PROVE  Len(Kinds(s)) <= Len(Kinds(t)) /\ SubSeq(Kinds(t), 1, Len(Kinds(s))) = Kinds(s)
  <1>1. /\ Len(s) \in Nat /\ Len(t) \in Nat
        /\ Kinds(s) \in Seq(Actions) /\ Len(Kinds(s)) = Len(s) /\ \A i \in 1..Len(s) : Kinds(s)[i] = s[i].action
        /\ Kinds(t) \in Seq(Actions) /\ Len(Kinds(t)) = Len(t) /\ \A i \in 1..Len(t) : Kinds(t)[i] = t[i].action
    BY KindsOfQueue
  <1>2. ASSUME NEW i \in 1..Len(s) PROVE Kinds(t)[i] = Kinds(s)[i]
    BY <1>1
  <1>3. SubSeq(Kinds(t), 1, Len(s)) = Kinds(s)
    <2>1. /\ SubSeq(Kinds(t), 1, Len(s)) \in Seq(Actions) /\ Len(SubSeq(Kinds(t), 1, Len(s))) = Len(s)
          /\ \A i \in 1..Len(s) : SubSeq(Kinds(t), 1, Len(s))[i] = Kinds(t)[i]
      BY <1>1
    <2> QED
      BY <1>1, <1>2, <2>1
  <1> QED
    BY <1>1, <1>3

\* The steps of CommandQueue under the mapping.
LEMMA QueueSteps ==
  /\ (Pending' \in [Nodes -> Seq(Actions)] /\ Attempts' = Attempts
      /\ \A n \in Nodes : Len(Pending[n]) <= Len(Pending'[n]) /\ SubSeq(Pending'[n], 1, Len(Pending[n])) = Pending[n])
     => Queue!QueueNext
  /\ \A m \in Nodes : Attempts[m] = "none" /\ Pending[m] # <<>> /\ Pending' = Pending
                      /\ Attempts' = [Attempts EXCEPT ![m] = "head"] => Queue!QueueNext
  /\ \A m \in Nodes : Attempts[m] = "head" /\ Pending' = [Pending EXCEPT ![m] = Tail(Pending[m])]
                      /\ Attempts' = [Attempts EXCEPT ![m] = "none"] => Queue!QueueNext
  /\ \A m \in Nodes : Attempts[m] # "none" /\ Pending' = Pending
                      /\ Attempts' = [Attempts EXCEPT ![m] = "none"] => Queue!QueueNext
  /\ \A ns \in SUBSET Nodes :
       Pending' = [n \in Nodes |-> IF n \in ns THEN <<>> ELSE Pending[n]]
       /\ Attempts' = [n \in Nodes |-> IF n \in ns /\ Attempts[n] = "head" THEN "orphan" ELSE Attempts[n]]
       => Queue!QueueNext
  /\ Pending' = Pending /\ Attempts' = Attempts => UNCHANGED Queue!queueVars
  /\ (Pending = [n \in Nodes |-> <<>>] /\ Attempts = [n \in Nodes |-> "none"]) => Queue!QueueInit
  BY DEF Pending, Attempts, Kinds, Queue!QueueNext, Queue!Enqueue, Queue!Attempt, Queue!StoreResult, Queue!Forget,
         Queue!Cancel, Queue!queueVars, Queue!QueueInit

LEMMA MapValues ==
  ASSUME TypeInv, NEW n \in Nodes
  PROVE  /\ Pending[n] = Kinds(queue[n]) /\ Pending[n] \in Seq(Actions) /\ queue[n] \in Seq(Commands)
         /\ Attempts[n] = AttemptOf(n)
  BY KindsOfQueue DEF TypeInv, QueueType, Pending, Attempts

\* A step that moves one node at most.
LEMMA OneNodeQueueStep ==
  ASSUME TypeInv, TypeInv', NEW m \in Nodes, NodeSteps(m),
         \A n \in Nodes \ {m} : queue'[n] = queue[n] /\ job'[n] = job[n]
  PROVE  Queue!QueueNext \/ UNCHANGED Queue!queueVars
  <1>0. /\ queue[m] \in Seq(Commands) /\ queue'[m] \in Seq(Commands) /\ job[m] \in Jobs
        /\ \A n \in Nodes : Kinds(queue'[n]) \in Seq(Actions)
    BY KindsOfQueue DEF TypeInv, QueueType, JobType
  <1>1. /\ Pending' = [Pending EXCEPT ![m] = Kinds(queue'[m])]
        /\ Attempts' = [Attempts EXCEPT ![m] = AttemptOf(m)']
    BY DEF Pending, Attempts, AttemptOf
  <1>2. /\ Pending[m] = Kinds(queue[m]) /\ Attempts[m] = AttemptOf(m)
        /\ queue'[m] = queue[m] => Pending' = Pending
        /\ AttemptOf(m)' = AttemptOf(m) => Attempts' = Attempts
    BY <1>1 DEF Pending, Attempts
  <1>3. ASSUME Len(queue[m]) <= Len(queue'[m]), \A i \in 1..Len(queue[m]) : queue'[m][i] = queue[m][i],
               job'[m] = job[m]
        PROVE  Queue!QueueNext
    <2>1. Pending' \in [Nodes -> Seq(Actions)]
      BY <1>0 DEF Pending
    <2>2. Attempts' = Attempts
      BY <1>2, <1>3 DEF AttemptOf
    <2>3. ASSUME NEW n \in Nodes
          PROVE  Len(Pending[n]) <= Len(Pending'[n]) /\ SubSeq(Pending'[n], 1, Len(Pending[n])) = Pending[n]
      <3>1. Len(queue[n]) <= Len(queue'[n]) /\ \A i \in 1..Len(queue[n]) : queue'[n][i] = queue[n][i]
        <4>1. CASE n = m
          BY <1>3, <4>1
        <4>2. CASE n # m
          <5>1. queue'[n] = queue[n] /\ Len(queue[n]) \in Nat
            BY <4>2 DEF TypeInv, QueueType
          <5> QED
            BY <5>1
        <4> QED
          BY <4>1, <4>2
      <3>2. queue[n] \in Seq(Commands) /\ queue'[n] \in Seq(Commands)
        BY DEF TypeInv, QueueType
      <3>3. Pending[n] = Kinds(queue[n]) /\ Pending'[n] = Kinds(queue'[n])
        BY DEF Pending
      <3> QED
        BY <3>1, <3>2, <3>3, KindsOfPrefix
    <2> QED
      BY <2>1, <2>2, <2>3, QueueSteps
  <1>4. CASE Added(m)
    <2>1. PICK a \in Actions : queue'[m] = Append(queue[m], Command(m, a))
      BY <1>4 DEF Added
    <2>2. Len(queue[m]) <= Len(queue'[m]) /\ \A i \in 1..Len(queue[m]) : queue'[m][i] = queue[m][i]
      BY <1>0, <2>1
    <2> QED
      BY <1>3, <1>4, <2>2 DEF Added
  <1>5. CASE Queued(m)
    <2>1. queue[m] = <<>> /\ job'[m] = job[m] /\ Len(queue'[m]) \in Nat /\ Len(queue[m]) = 0
      BY <1>0, <1>5 DEF Queued
    <2> QED
      BY <1>3, <2>1
  <1>6. CASE Cancelled(m)
    <2>1. /\ queue'[m] = <<>> /\ job'[m].at = job[m].at /\ job'[m].cmd = 0
      BY <1>0, <1>6 DEF Cancelled, Jobs
    <2>2. AttemptOf(m)' = IF AttemptOf(m) = "head" THEN "orphan" ELSE AttemptOf(m)
      BY <2>1 DEF AttemptOf
    <2>3. Kinds(queue'[m]) = <<>>
      BY <2>1, KindsOfQueue, <1>0
    <2>4. /\ Pending' = [n \in Nodes |-> IF n \in {m} THEN <<>> ELSE Pending[n]]
          /\ Attempts' = [n \in Nodes |-> IF n \in {m} /\ Attempts[n] = "head" THEN "orphan" ELSE Attempts[n]]
      BY <1>1, <1>2, <2>2, <2>3 DEF Pending, Attempts
    <2> QED
      BY <2>4, QueueSteps
  <1>7. CASE Fetched(m)
    <2>1. AttemptOf(m) = "none" /\ AttemptOf(m)' = "head" /\ queue'[m] = queue[m] /\ queue[m] # <<>>
      BY <1>7 DEF Fetched, Unmoved, AttemptOf
    <2> QED
      BY <1>0, <1>1, <1>2, <2>1, QueueSteps, KindsOfQueue
  <1>8. CASE Ran(m) \/ FailedRun(m)
    <2>1. /\ queue'[m] = queue[m] /\ job[m].at = "run" /\ job'[m].at = "report" /\ job'[m].cmd = job[m].cmd
      BY <1>0, <1>8 DEF Ran, FailedRun, Jobs
    <2>2. AttemptOf(m)' = AttemptOf(m)
      BY <2>1 DEF AttemptOf
    <2> QED
      BY <1>2, <2>1, <2>2, QueueSteps
  <1>9. CASE Stored(m)
    <2>1. job'[m].at \notin {"run", "report"}
      BY <1>0, <1>9, HandledJob DEF Handling, Stored
    <2>2. job[m].at = "report" /\ AttemptOf(m)' = "none"
      BY <1>9, <2>1 DEF Stored, AttemptOf
    <2>3. CASE job[m].cmd = 0 /\ queue'[m] = queue[m]
      <3>1. AttemptOf(m) = "orphan"
        BY <2>2, <2>3 DEF AttemptOf
      <3> QED
        BY <1>1, <1>2, <2>2, <2>3, <3>1, QueueSteps
    <2>4. CASE job[m].cmd = 1 /\ queue[m] # <<>> /\ queue'[m] = Tail(queue[m])
      <3>1. AttemptOf(m) = "head"
        BY <2>2, <2>4 DEF AttemptOf
      <3>2. Kinds(queue'[m]) = Tail(Pending[m])
        BY <1>0, <1>2, <2>4, KindsOfQueue
      <3> QED
        BY <1>1, <1>2, <2>2, <3>1, <3>2, QueueSteps
    <2> QED
      BY <1>9, <2>3, <2>4 DEF Stored
  <1>10. CASE Ended(m)
    <2>1. queue'[m] = queue[m] /\ AttemptOf(m)' = "none"
      BY <1>10 DEF Ended, NoJob, AttemptOf
    <2>2. CASE AttemptOf(m) = "none"
      BY <1>2, <2>1, <2>2, QueueSteps
    <2>3. CASE AttemptOf(m) # "none"
      BY <1>1, <1>2, <2>1, <2>3, QueueSteps
    <2> QED
      BY <2>2, <2>3
  <1>11. CASE Quiet(m)
    <2>1. queue'[m] = queue[m]
      BY <1>11 DEF Quiet, Unmoved
    <2>2. AttemptOf(m)' = AttemptOf(m)
      <3>1. CASE job'[m] = job[m]
        BY <3>1 DEF AttemptOf
      <3>2. CASE job'[m] # job[m]
        <4>1. job[m].at \in Handling
          BY <1>11, <3>2 DEF Quiet
        <4>2. job'[m].at \in Handling
          BY <1>0, <1>11, <3>2, HandledJob
        <4> QED
          BY <4>1, <4>2 DEF AttemptOf, Handling
      <3> QED
        BY <3>1, <3>2
    <2> QED
      BY <1>2, <2>1, <2>2, QueueSteps
  <1> QED
    BY <1>4, <1>5, <1>6, <1>7, <1>8, <1>9, <1>10, <1>11 DEF NodeSteps

LEMMA QueueStepsOfNext ==
  TypeInv /\ QueueInv /\ TypeInv' /\ [Next]_vars => Queue!QueueNext \/ UNCHANGED Queue!queueVars
  <1> SUFFICES ASSUME TypeInv, QueueInv, TypeInv', [Next]_vars PROVE Queue!QueueNext \/ UNCHANGED Queue!queueVars
    OBVIOUS
  <1> DEFINE Goal == Queue!QueueNext \/ UNCHANGED Queue!queueVars
  <1> DEFINE Others(m) == \A n \in Nodes \ {m} : queue'[n] = queue[n] /\ job'[n] = job[n]
  <1>0. JobType /\ QueueType
    BY DEF TypeInv
  <1>1. ASSUME UNCHANGED <<queue, job>> PROVE Goal
    <2>1. Pending' = Pending /\ Attempts' = Attempts
      BY <1>1 DEF Pending, Attempts, AttemptOf
    <2> QED
      BY <2>1, QueueSteps
  <1>2. ASSUME NEW m \in Nodes, Others(m) PROVE Goal
    BY <1>2, NodeStep, OneNodeQueueStep
  <1>3. ASSUME NEW op \in ClusterOperations, queueClusterLifecycle(op) PROVE Goal
    <2>1. job' = job
      BY <1>3 DEF queueClusterLifecycle
    <2>2. Attempts' = Attempts
      BY <2>1 DEF Attempts, AttemptOf
    <2>3. ASSUME NEW n \in Nodes
          PROVE  /\ Pending'[n] \in Seq(Actions)
                 /\ Len(Pending[n]) <= Len(Pending'[n]) /\ SubSeq(Pending'[n], 1, Len(Pending[n])) = Pending[n]
      <3>1. queue[n] \in Seq(Commands) /\ queue'[n] \in Seq(Commands)
        BY DEF TypeInv, QueueType
      <3>2. queue[n] = <<>> \/ queue'[n] = queue[n]
        BY <1>3, QueuedOperation
      <3>3. Len(queue[n]) <= Len(queue'[n]) /\ \A i \in 1..Len(queue[n]) : queue'[n][i] = queue[n][i]
        BY <3>1, <3>2
      <3>4. Pending[n] = Kinds(queue[n]) /\ Pending'[n] = Kinds(queue'[n])
        BY DEF Pending
      <3> QED
        BY <3>1, <3>3, <3>4, KindsOfPrefix, KindsOfQueue
    <2>4. Pending' \in [Nodes -> Seq(Actions)]
      BY <2>3 DEF Pending
    <2> QED
      BY <2>2, <2>3, <2>4, QueueSteps
  <1>4. ASSUME NEW q \in Requests, CommitDelete(q) PROVE Goal
    <2>1. /\ queue' = [n \in Nodes |-> IF member[n] THEN <<>> ELSE queue[n]]
          /\ job' = [n \in Nodes |-> IF member[n] THEN [job[n] EXCEPT !.cmd = 0] ELSE job[n]]
      BY <1>4 DEF CommitDelete
    <2>2. ASSUME NEW n \in Nodes
          PROVE  /\ Kinds(queue'[n]) = IF n \in Members THEN <<>> ELSE Kinds(queue[n])
                 /\ AttemptOf(n)' = IF n \in Members /\ AttemptOf(n) = "head" THEN "orphan" ELSE AttemptOf(n)
      <3>1. CASE member[n]
        <4>1. queue'[n] = <<>> /\ job'[n] = [job[n] EXCEPT !.cmd = 0] /\ job[n] \in Jobs /\ n \in Members
          BY <1>0, <2>1, <3>1 DEF JobType, Members
        <4>2. job'[n].at = job[n].at /\ job'[n].cmd = 0
          BY <4>1 DEF Jobs
        <4>3. Kinds(<<>>) = <<>>
          BY DEF Kinds
        <4>4. AttemptOf(n)' = IF AttemptOf(n) = "head" THEN "orphan" ELSE AttemptOf(n)
          BY <4>2 DEF AttemptOf
        <4> QED
          BY <4>1, <4>3, <4>4
      <3>2. CASE ~member[n]
        BY <2>1, <3>2 DEF AttemptOf, Members
      <3> QED
        BY <3>1, <3>2
    <2>3. /\ Pending' = [n \in Nodes |-> IF n \in Members THEN <<>> ELSE Pending[n]]
          /\ Attempts' = [n \in Nodes |-> IF n \in Members /\ Attempts[n] = "head" THEN "orphan" ELSE Attempts[n]]
      BY <2>2 DEF Pending, Attempts
    <2>4. Members \in SUBSET Nodes
      BY DEF Members
    <2> HIDE DEF Goal
    <2> QED
      BY <2>3, <2>4, QueueSteps DEF Goal
  <1>5. ASSUME NEW q \in Requests, NEW m \in Nodes, InsertCommand(q, m) PROVE Others(m)
    BY <1>0, <1>5 DEF InsertCommand, QueueType
  <1>6. ASSUME NEW m \in Nodes,
               \/ FetchCommand(m) \/ Execute(m) \/ AgentLifecycleResult(m) \/ FailureResult(m) \/ StatusResult(m)
               \/ DetailResult(m) \/ EvaluateCluster(m) \/ WriteCluster(m) \/ ResultStored(m)
               \/ ExecuteFails(m) \/ LoseResult(m) \/ CutHandler(m) \/ AgentEnds(m)
        PROVE  Others(m)
    <2>1. queue' = queue
      BY <1>6 DEF FetchCommand, Execute, AgentLifecycleResult, FailureResult, StatusResult, DetailResult, EvaluateCluster,
                  WriteCluster, ResultStored, ExecuteFails, LoseResult, CutHandler, AgentEnds
    <2>2. \A n \in Nodes \ {m} : job'[n] = job[n]
      BY <1>0, <1>6 DEF FetchCommand, Execute, AgentLifecycleResult, FailureResult, StatusResult, DetailResult,
                        EvaluateCluster, WriteCluster, ResultStored, ExecuteFails, LoseResult, CutHandler, AgentEnds,
                        Step, Idle, JobType
    <2> QED
      BY <2>1, <2>2
  <1>7. ASSUME NEW m \in Nodes, UpdateResult(m) PROVE Others(m)
    BY <1>0, <1>7 DEF UpdateResult, Step, JobType, QueueType
  <1>8. ASSUME NEW q \in Requests,
               \/ BeginDelete(q) \/ Abandon(q)
               \/ \E m \in Nodes, op \in NodeOperations : BeginNodeOperation(q, m, op)
               \/ \E m \in Nodes : WriteStatus(q, m) \/ WriteDetail(q, m)
        PROVE  UNCHANGED <<queue, job>>
    BY <1>8 DEF BeginDelete, Abandon, BeginNodeOperation, WriteStatus, WriteDetail
  <1>9. ASSUME NEW m \in Nodes, Beat(m) \/ RegisterAgent(m) PROVE UNCHANGED <<queue, job>>
    BY <1>9 DEF Beat, SampleHost, HeartbeatRead, HeartbeatWrite, ReportRead, ReportWriteStatus, ReportWriteFacts,
                RegisterAgent
  <1>10. ASSUME UNCHANGED vars PROVE UNCHANGED <<queue, job>>
    BY <1>10 DEF vars
  <1> HIDE DEF Goal, Others
  <1>11. Goal
    BY <1>1, <1>2, <1>3, <1>4, <1>5, <1>6, <1>7, <1>8, <1>9, <1>10, Zenon DEF Next, Request, CommandLoop, Handler
  <1> QED
    BY <1>11 DEF Goal

\* Start, pause, restart, drain, rejoin, the deletions, the agents' loops, lost
\* results and new registrations use the agent_commands table as CommandQueue
\* says: commands are attempted one at a time and in the order they were queued,
\* each until a result is stored or the node's commands are cancelled.
THEOREM QueueKeptHolds == Spec => QueueKept
  <1>1. Init => Queue!QueueInit
    <2> SUFFICES ASSUME Init PROVE Queue!QueueInit
      OBVIOUS
    <2>1. Pending = [n \in Nodes |-> <<>>] /\ Attempts = [n \in Nodes |-> "none"]
      BY DEF Init, Pending, Kinds, Attempts, AttemptOf, NoJob
    <2> QED
      BY <2>1, QueueSteps
  <1>2. TypeInv /\ QueueInv /\ TypeInv' /\ [Next]_vars => [Queue!QueueNext]_(Queue!queueVars)
    BY QueueStepsOfNext
  <1> QED
    BY <1>1, <1>2, LifecycleInvariant, PTL DEF Spec, QueueKept, Queue!QueueSpec

=============================================================================
