--------------------------- MODULE FailoverProofs ---------------------------
(***************************************************************************)
(* Proofs about Failover for every set of nodes and servers and every      *)
(* bound.                                                                  *)
(***************************************************************************)
EXTENDS Failover, FiniteSetTheorems, TLAPS

USE DEF Engines

-----------------------------------------------------------------------------
(* Type correctness.                                                       *)

\* Spending a bound keeps the counters natural numbers.
LEMMA UseType ==
  ASSUME used \in [BoundNames -> Nat], NEW b \in BoundNames, Use(b)
  PROVE  used' \in [BoundNames -> Nat]
  BY DEF Use

\* The five counters.
LEMMA BoundNamesFact ==
  /\ "promotions" \in BoundNames /\ "crashes" \in BoundNames
  /\ "etcd" \in BoundNames /\ "errors" \in BoundNames /\ "faults" \in BoundNames
  BY DEF BoundNames

\* A goroutine that starts executeFailover remembers the failed primary.
LEMMA BeginEngType ==
  ASSUME eng \in [Engines -> EngineType], NEW e \in Engines, NEW p \in Nodes,
         eng' = [eng EXCEPT ![e].pc = "markOffline", ![e].failed = p]
  PROVE  eng' \in [Engines -> EngineType]
<1>1. [eng[e] EXCEPT !.pc = "markOffline", !.failed = p] \in EngineType
  BY DEF EngineType, EarlySteps
<1>2. eng' = [eng EXCEPT ![e] = [eng[e] EXCEPT !.pc = "markOffline", !.failed = p]]
  OBVIOUS
<1> QED BY <1>1, <1>2

\* Moving to another step, and returning, keep the goroutine's record typed.
LEMMA GotoType ==
  ASSUME eng \in [Engines -> EngineType], NEW e \in Engines,
         NEW pc \in EarlySteps \cup LateSteps, Goto(e, pc)
  PROVE  eng' \in [Engines -> EngineType]
<1>1. [eng[e] EXCEPT !.pc = pc] \in EngineType
  BY DEF EngineType
<1>2. eng' = [eng EXCEPT ![e] = [eng[e] EXCEPT !.pc = pc]]
  BY DEF Goto
<1> QED BY <1>1, <1>2

\* Choosing a replica keeps the goroutine's record typed.
LEMMA PickType ==
  ASSUME eng \in [Engines -> EngineType], NEW e \in Engines,
         NEW b \in Nodes, NEW S \in SUBSET Nodes,
         eng' = [eng EXCEPT ![e].pc = "markPromoting", ![e].best = b,
                            ![e].others = S]
  PROVE  eng' \in [Engines -> EngineType]
<1> DEFINE r == [eng[e] EXCEPT !.pc = "markPromoting", !.best = b, !.others = S]
<1>1. r \in EngineType
  BY DEF EngineType, EarlySteps
<1>2. eng' = [eng EXCEPT ![e] = r]
  OBVIOUS
<1> QED BY <1>1, <1>2

\* One replica of the list has been dealt with.
LEMMA OthersType ==
  ASSUME eng \in [Engines -> EngineType], NEW e \in Engines, NEW n,
         eng' = [eng EXCEPT ![e].others = @ \ {n}]
  PROVE  eng' \in [Engines -> EngineType]
<1> DEFINE r == [eng[e] EXCEPT !.others = @ \ {n}]
<1>1. eng[e].others \ {n} \in SUBSET Nodes
  BY DEF EngineType
<1>2. r \in EngineType
  BY <1>1 DEF EngineType
<1>3. eng' = [eng EXCEPT ![e] = r]
  OBVIOUS
<1> QED BY <1>2, <1>3

\* Creating a command appends to the pending commands of its node.
LEMMA QueueType ==
  ASSUME cmds \in [Nodes -> Seq(Commands)], NEW n, NEW c \in Commands, Queue(n, c)
  PROVE  cmds' \in [Nodes -> Seq(Commands)]
<1>1. CASE n \in Nodes
  <2>1. Append(cmds[n], c) \in Seq(Commands)
    BY <1>1
  <2> QED BY <1>1, <2>1 DEF Queue
<1>2. CASE n \notin Nodes
  BY <1>2 DEF Queue
<1> QED BY <1>1, <1>2

\* So does the end of executeFailover.
LEMMA ReturnType ==
  ASSUME eng \in [Engines -> EngineType], NEW e \in Engines, Return(e)
  PROVE  eng' \in [Engines -> EngineType]
  BY DEF Return, Idle, EngineType

\* The initial state is well typed.
LEMMA InitType == Init => TypeOK
  BY FailoverAssumption DEF Init, TypeOK, Idle, EngineType, MaxAge, Commands

\* Steps of a server process and of its monitoring loop.
LEMMA ServerStepType ==
  ASSUME TypeOK, NEW s \in Servers, ServerStep(s)
  PROVE  TypeOK'
<1> USE DEF TypeOK, recordVars, nodeVars, serverVars
<1>1. CASE Start(s)
  BY <1>1 DEF Start
<1>2. CASE StartWithoutElector(s)
  BY <1>2, UseType, BoundNamesFact DEF StartWithoutElector
<1>3. CASE Elected(s)
  BY <1>3 DEF Elected
<1>4. CASE SessionDone(s)
  BY <1>4 DEF SessionDone
<1>5. CASE Crash(s)
  <2>1. eng' \in [Engines -> EngineType]
    BY <1>5 DEF Crash, StopGoroutines, Idle, EngineType
  <2> QED BY <1>5, <2>1, UseType, BoundNamesFact DEF Crash
<1>6. CASE Shutdown(s)
  <2>1. eng' \in [Engines -> EngineType]
    BY <1>6 DEF Shutdown, StopGoroutines, Idle, EngineType
  <2> QED BY <1>6, <2>1, UseType, BoundNamesFact DEF Shutdown
<1>7. CASE TickNilElector(s)
  <2>1. eng' \in [Engines -> EngineType]
    BY <1>7 DEF TickNilElector, StopGoroutines, Idle, EngineType
  <2> QED BY <1>7, <2>1 DEF TickNilElector
<1>8. ASSUME NEW p \in Nodes, CheckClusterHealth(s, p)
      PROVE  TypeOK'
  <2>1. eng' \in [Engines -> EngineType]
    BY <1>8, BeginEngType DEF CheckClusterHealth, Begin
  <2> QED BY <1>8, <2>1 DEF CheckClusterHealth, Begin
<1> QED BY <1>1, <1>2, <1>3, <1>4, <1>5, <1>6, <1>7, <1>8 DEF ServerStep

\* A FailoverCluster request.
LEMMA RequestType ==
  ASSUME TypeOK, NEW r \in Requests, NEW p \in Nodes, FailoverCluster(r, p)
  PROVE  TypeOK'
<1> USE DEF TypeOK, recordVars, nodeVars, serverVars
<1>1. eng' \in [Engines -> EngineType]
  BY BeginEngType DEF FailoverCluster, Begin
<1> QED BY <1>1 DEF FailoverCluster, Begin

\* Steps of a node, of its agent and of its PostgreSQL.
LEMMA NodeStepType ==
  ASSUME TypeOK, NEW n \in Nodes, NodeStep(n)
  PROVE  TypeOK'
<1> USE DEF TypeOK, recordVars, nodeVars, serverVars, SetStatus
<1>1. CASE Heartbeat(n)
  BY <1>1, FailoverAssumption DEF Heartbeat, MaxAge
<1>2. CASE ReportStatus(n)
  BY <1>2 DEF ReportStatus
<1>3. CASE ExecuteCommand(n)
  <2>1. Head(cmds[n]) \in Commands /\ Tail(cmds[n]) \in Seq(Commands)
    BY <1>3 DEF ExecuteCommand
  <2>2. cmds' \in [Nodes -> Seq(Commands)]
    BY <1>3, <2>1 DEF ExecuteCommand
  <2>3. /\ follows' \in [Nodes -> Nodes \cup {None}]
        /\ writable' \in [Nodes -> BOOLEAN]
    BY <1>3, <2>1 DEF ExecuteCommand, Apply, Commands
  <2> QED BY <1>3, <2>2, <2>3 DEF ExecuteCommand
<1>4. CASE HostChanges(n)
  <2>1. /\ host' \in [Nodes -> {"dead", "pgdown", "running"}]
        /\ writable' \in [Nodes -> BOOLEAN]
    BY <1>4 DEF HostChanges
  <2>2. used' \in [BoundNames -> Nat]
    BY <1>4, UseType, BoundNamesFact DEF HostChanges
  <2> QED BY <1>4, <2>1, <2>2 DEF HostChanges
<1> QED BY <1>1, <1>2, <1>3, <1>4 DEF NodeStep

\* The writes of executeFailover, one by one.
LEMMA EngineStepType ==
  ASSUME TypeOK, NEW e \in Engines, EngineStep(e)
  PROVE  TypeOK'
<1> USE DEF TypeOK, recordVars, nodeVars, serverVars, SetStatus, SetRole
<1>0. /\ eng[e].failed \in Nodes \cup {None}
      /\ eng[e].best \in Nodes \cup {None}
      /\ eng[e].others \subseteq Nodes
  BY DEF EngineType
<1>s. EarlySteps \cup LateSteps =
        {"markOffline", "markDegraded", "pickReplica", "markPromoting",
         "queuePromote", "recordPrimary", "markOnline", "recordReplica",
         "repoint", "rewind", "markRunning", "publish"}
  BY DEF EarlySteps, LateSteps
<1>1. CASE MarkOffline(e)
  BY <1>1, <1>s, GotoType DEF MarkOffline
<1>2. CASE MarkDegraded(e)
  BY <1>2, <1>s, GotoType DEF MarkDegraded
<1>3. CASE PickReplica(e)
  <2>1. CASE Return(e)
    BY <1>3, <2>1, ReturnType DEF PickReplica
  <2>2. ASSUME NEW b \in Online,
               eng' = [eng EXCEPT ![e].pc = "markPromoting", ![e].best = b,
                                  ![e].others = Online \ {b}]
        PROVE  eng' \in [Engines -> EngineType]
    <3>1. b \in Nodes /\ Online \ {b} \in SUBSET Nodes
      BY DEF Online, Replicas
    <3> QED BY <2>2, <3>1, PickType
  <2> QED BY <1>3, <2>1, <2>2 DEF PickReplica
<1>4. CASE MarkPromoting(e)
  BY <1>4, <1>s, GotoType DEF MarkPromoting
<1>5. CASE QueuePromote(e)
  <2>1. Command("pg_promote", None) \in Commands
    BY DEF Command, Commands
  <2> QED BY <1>5, <2>1, QueueType, <1>s, GotoType, UseType, BoundNamesFact DEF QueuePromote
<1>6. CASE RecordPrimary(e)
  BY <1>6, <1>s, GotoType DEF RecordPrimary
<1>7. CASE MarkOnline(e)
  BY <1>7, <1>s, GotoType DEF MarkOnline
<1>8. CASE RecordReplica(e)
  BY <1>8, <1>s, GotoType DEF RecordReplica
<1>9. CASE Repoint(e)
  <2>1. ASSUME NEW n \in eng[e].others,
               Queue(n, Command("repoint_replica", eng[e].best)),
               eng' = [eng EXCEPT ![e].others = @ \ {n}]
        PROVE  /\ cmds' \in [Nodes -> Seq(Commands)]
               /\ eng' \in [Engines -> EngineType]
    <3>1. Command("repoint_replica", eng[e].best) \in Commands
      BY <1>0 DEF Command, Commands
    <3> QED BY <2>1, <3>1, QueueType, OthersType
  <2> QED BY <1>9, <2>1, <1>s, GotoType DEF Repoint
<1>10. CASE Rewind(e)
  <2>1. Command("pg_rewind", eng[e].best) \in Commands
    BY <1>0 DEF Command, Commands
  <2> QED BY <1>10, <2>1, QueueType, <1>s, GotoType DEF Rewind
<1>11. CASE MarkRunning(e)
  BY <1>11, <1>s, GotoType DEF MarkRunning
<1>12. CASE Publish(e)
  BY <1>12, <1>0, ReturnType DEF Publish
<1> QED BY <1>1, <1>2, <1>3, <1>4, <1>5, <1>6, <1>7, <1>8, <1>9, <1>10, <1>11,
           <1>12 DEF EngineStep

\* A write that fails.
LEMMA WriteFailsType ==
  ASSUME TypeOK, NEW e \in Engines, WriteFails(e)
  PROVE  TypeOK'
<1> USE DEF TypeOK, recordVars, nodeVars, serverVars
<1>1. eng' \in [Engines -> EngineType]
  BY OthersType, GotoType, ReturnType DEF WriteFails, LateSteps
<1> QED BY <1>1, UseType, BoundNamesFact DEF WriteFails

\* Every step keeps the types.
LEMMA TypeStep == TypeOK /\ [Next]_vars => TypeOK'
<1> SUFFICES ASSUME TypeOK, [Next]_vars PROVE TypeOK'
  OBVIOUS
<1>1. CASE LeaseExpires
  BY <1>1, UseType, BoundNamesFact DEF LeaseExpires, TypeOK, recordVars, nodeVars
<1>2. CASE Tick
  <2>1. age' \in [Nodes -> 0..MaxAge]
    BY <1>2, FailoverAssumption DEF Tick, TypeOK, MaxAge
  <2> QED BY <1>2, <2>1 DEF Tick, TypeOK, nodeVars, serverVars
<1>3. CASE UNCHANGED vars
  BY <1>3 DEF TypeOK, vars, recordVars, nodeVars, serverVars
<1> QED BY <1>1, <1>2, <1>3, ServerStepType, RequestType, EngineStepType,
           WriteFailsType, NodeStepType DEF Next

\* Every behaviour of the failover engine, of the servers and of the nodes is
\* well typed, with any number of nodes, servers and manual failovers.
THEOREM TypeCorrect == Spec => []TypeOK
  BY InitType, TypeStep, PTL DEF Spec

-----------------------------------------------------------------------------
(* One engine: a single server and no FailoverCluster calls.  Crashes,     *)
(* restarts, lost leases, host failures, late heartbeats, lost command     *)
(* reports and any number of failovers remain, until a write fails.        *)

SingleEngine(s) == Servers = {s} /\ Requests = {}

PromotedLast(n) ==
  cmds[n] # <<>> => cmds[n][Len(cmds[n])].action = "pg_promote"

\* What holds while the engine is in the middle of executeFailover.  Before
\* RecordReplica the failed node is still the recorded primary; from
\* RecordPrimary on the new one is, and it was told to promote; the replicas
\* still to be repointed are recorded replicas, and neither is among them.
EngineInv(s) ==
  LET r == eng[s] IN
  /\ r.pc \in EarlySteps \cup {"recordPrimary", "markOnline", "recordReplica"}
       => r.failed \in Primaries
  /\ r.pc \in {"markPromoting", "queuePromote", "recordPrimary"}
       => r.best \in Replicas
  /\ r.pc = "recordPrimary" => PromotedLast(r.best)
  /\ r.pc \in {"markOnline", "recordReplica"}
       => r.best \in Primaries /\ r.best # r.failed
  /\ r.pc \in {"repoint", "rewind"}
       => r.best \in Primaries /\ r.failed \in Replicas
  /\ r.pc \in {"markPromoting", "queuePromote"} \cup LateSteps
       => r.others \subseteq Replicas /\ r.best \notin r.others

\* The inductive invariant: the two properties, and EngineInv, without which
\* RecordReplica could demote the only primary and Repoint could direct it.
IInv(s) == TypeOK /\ HasPrimary /\ PrimariesPromotedLast /\ EngineInv(s)


\* The last element of a queue survives fetching the first.
LEMMA TailLast ==
  ASSUME NEW S, NEW q \in Seq(S), q # <<>>, Tail(q) # <<>>
  PROVE  Tail(q)[Len(Tail(q))] = q[Len(q)]
  OBVIOUS

\* A command just queued is the last.
LEMMA AppendLast ==
  ASSUME NEW S, NEW q \in Seq(S), NEW c \in S
  PROVE  /\ Append(q, c) # <<>>
         /\ Append(q, c)[Len(Append(q, c))] = c
  OBVIOUS

\* A step that leaves roles and commands alone keeps what is said of them.
LEMMA RolesAndCommandsKept ==
  ASSUME HasPrimary, PrimariesPromotedLast, UNCHANGED <<role, cmds>>
  PROVE  HasPrimary' /\ PrimariesPromotedLast'
  BY DEF HasPrimary, PrimariesPromotedLast, Primaries

\* A step that leaves the goroutines alone too keeps EngineInv.
LEMMA EngineKept ==
  ASSUME NEW s, EngineInv(s), UNCHANGED <<role, cmds, eng>>
  PROVE  EngineInv(s)'
  BY DEF EngineInv, Primaries, Replicas, PromotedLast

\* An idle engine satisfies EngineInv.
LEMMA IdleEngine ==
  ASSUME NEW s, eng[s].pc \in {"idle", "done"}
  PROVE  EngineInv(s)
  BY DEF EngineInv, EarlySteps, LateSteps

\* The initial state satisfies the inductive invariant.
LEMMA SingleInit ==
  ASSUME NEW s, SingleEngine(s), Init
  PROVE  IInv(s)
<1>1. TypeOK
  BY InitType
<1>2. HasPrimary /\ PrimariesPromotedLast
  BY FailoverAssumption
     DEF Init, HasPrimary, PrimariesPromotedLast, Primaries
<1>3. eng[s].pc = "idle"
  BY DEF Init, Idle, SingleEngine
<1> QED BY <1>1, <1>2, <1>3, IdleEngine DEF IInv

\* A server crash, restart or election leaves roles and commands alone; a
\* tick of the engine starts from a recorded primary.
LEMMA SingleServerStep ==
  ASSUME NEW s, SingleEngine(s), IInv(s), ServerStep(s)
  PROVE  HasPrimary' /\ PrimariesPromotedLast' /\ EngineInv(s)'
<1> USE DEF recordVars
<1>0. s \in Servers /\ s \in Engines /\ TypeOK /\ EngineInv(s)
  BY DEF SingleEngine, IInv
<1>1. UNCHANGED <<role, cmds>>
  BY DEF ServerStep, Start, StartWithoutElector, Elected, SessionDone, Crash,
         Shutdown, TickNilElector, CheckClusterHealth, Begin
<1>2. HasPrimary' /\ PrimariesPromotedLast'
  BY <1>1, RolesAndCommandsKept DEF IInv
<1>3. CASE UNCHANGED eng
  BY <1>0, <1>1, <1>2, <1>3, EngineKept
<1>4. CASE StopGoroutines(s)
  <2>1. eng'[s].pc = "idle"
    BY <1>0, <1>4 DEF StopGoroutines, Home, Idle
  <2> QED BY <2>1, <1>2 DEF EngineInv, EarlySteps, LateSteps
<1>5. ASSUME NEW p \in Nodes, CheckClusterHealth(s, p)
      PROVE  EngineInv(s)'
  <2>1. eng'[s].pc = "markOffline" /\ eng'[s].failed = p
    BY <1>0, <1>5 DEF CheckClusterHealth, Begin, TypeOK, EngineType
  <2>2. p \in Primaries'
    BY <1>1, <1>5 DEF CheckClusterHealth, Primaries
  <2> QED BY <2>1, <2>2 DEF EngineInv, LateSteps
<1>6. UNCHANGED eng \/ StopGoroutines(s) \/ \E p \in Nodes : CheckClusterHealth(s, p)
  BY DEF ServerStep, Start, StartWithoutElector, Elected, SessionDone, Crash,
         Shutdown, TickNilElector
<1> QED BY <1>2, <1>3, <1>4, <1>5, <1>6

\* Agents only take commands from the head of their queue.
LEMMA SingleNodeStep ==
  ASSUME NEW s, SingleEngine(s), IInv(s), NEW n \in Nodes, NodeStep(n)
  PROVE  HasPrimary' /\ PrimariesPromotedLast' /\ EngineInv(s)'
<1>0. TypeOK /\ EngineInv(s) /\ HasPrimary /\ PrimariesPromotedLast
  BY DEF IInv
<1>1. UNCHANGED <<role, eng>>
  BY DEF NodeStep, Heartbeat, ReportStatus, ExecuteCommand, HostChanges, recordVars
<1>2. CASE UNCHANGED cmds
  BY <1>0, <1>1, <1>2, RolesAndCommandsKept, EngineKept
<1>3. CASE cmds[n] # <<>> /\ cmds' = [cmds EXCEPT ![n] = Tail(@)]
  <2>1. \A m \in Nodes : PromotedLast(m) => PromotedLast(m)'
    <3> SUFFICES ASSUME NEW m \in Nodes, PromotedLast(m)
                 PROVE  PromotedLast(m)'
      OBVIOUS
    <3>1. CASE m # n
      BY <1>3, <3>1, <1>0 DEF PromotedLast, TypeOK
    <3>2. CASE m = n
      <4>1. cmds[n] \in Seq(Commands) /\ cmds'[n] = Tail(cmds[n])
        BY <1>0, <1>3 DEF TypeOK
      <4>2. Tail(cmds[n]) # <<>>
              => Tail(cmds[n])[Len(Tail(cmds[n]))] = cmds[n][Len(cmds[n])]
        BY <4>1, <1>3, TailLast
      <4> QED BY <3>2, <4>1, <4>2, <1>3 DEF PromotedLast
    <3> QED BY <3>1, <3>2
  <2>2. Primaries' = Primaries /\ Replicas' = Replicas
    BY <1>1 DEF Primaries, Replicas
  <2>3. HasPrimary'
    BY <1>0, <2>2 DEF HasPrimary
  <2>4. PrimariesPromotedLast'
    BY <1>0, <2>1, <2>2 DEF PrimariesPromotedLast, PromotedLast, Primaries
  <2>5. eng[s].pc = "recordPrimary" => PromotedLast(eng[s].best)'
    <3> SUFFICES ASSUME eng[s].pc = "recordPrimary"
                 PROVE  PromotedLast(eng[s].best)'
      OBVIOUS
    <3>1. eng[s].best \in Nodes /\ PromotedLast(eng[s].best)
      BY <1>0 DEF EngineInv, Replicas
    <3> QED BY <1>1, <2>1, <3>1 DEF PromotedLast
  <2>6. EngineInv(s)'
    BY <1>0, <1>1, <2>2, <2>5 DEF EngineInv, PromotedLast
  <2> QED BY <2>3, <2>4, <2>6
<1>4. UNCHANGED cmds \/ (cmds[n] # <<>> /\ cmds' = [cmds EXCEPT ![n] = Tail(@)])
  BY DEF NodeStep, Heartbeat, ReportStatus, ExecuteCommand, HostChanges
<1> QED BY <1>2, <1>3, <1>4


\* The engine's writes: the only steps that change roles and queue commands.
LEMMA SingleEngineStep ==
  ASSUME NEW s, SingleEngine(s), IInv(s), EngineStep(s)
  PROVE  HasPrimary' /\ PrimariesPromotedLast' /\ EngineInv(s)'
<1>0. /\ s \in Engines
      /\ TypeOK /\ EngineInv(s) /\ HasPrimary /\ PrimariesPromotedLast
  BY DEF IInv, SingleEngine
<1>t. /\ eng \in [Engines -> EngineType] /\ role \in [Nodes -> {"primary", "replica"}]
      /\ cmds \in [Nodes -> Seq(Commands)]
  BY <1>0 DEF TypeOK
<1>r. Primaries \cap Replicas = {} /\ Primaries \subseteq Nodes /\ Replicas \subseteq Nodes
  BY DEF Primaries, Replicas
<1>g. ASSUME NEW pc, Goto(s, pc)
      PROVE  /\ eng'[s].pc = pc /\ eng'[s].failed = eng[s].failed
             /\ eng'[s].best = eng[s].best /\ eng'[s].others = eng[s].others
  BY <1>0, <1>t, <1>g DEF Goto, EngineType
<1> USE DEF EarlySteps, LateSteps
<1>1. CASE MarkOffline(s) \/ MarkDegraded(s) \/ MarkPromoting(s) \/ MarkOnline(s)
           \/ MarkRunning(s)
  <2>1. UNCHANGED <<role, cmds>>
    BY <1>1 DEF MarkOffline, MarkDegraded, MarkPromoting, MarkOnline, MarkRunning
  <2>2. HasPrimary' /\ PrimariesPromotedLast'
    BY <1>0, <2>1, RolesAndCommandsKept
  <2>3. Primaries' = Primaries /\ Replicas' = Replicas
    BY <2>1 DEF Primaries, Replicas
  <2>4. \/ eng[s].pc = "markOffline" /\ Goto(s, "markDegraded")
        \/ eng[s].pc = "markDegraded" /\ Goto(s, "pickReplica")
        \/ eng[s].pc = "markPromoting" /\ Goto(s, "queuePromote")
        \/ eng[s].pc = "markOnline" /\ Goto(s, "recordReplica")
        \/ eng[s].pc = "markRunning" /\ Goto(s, "publish")
    BY <1>1 DEF MarkOffline, MarkDegraded, MarkPromoting, MarkOnline, MarkRunning, At
  <2>5. EngineInv(s)'
    BY <1>0, <1>g, <2>3, <2>4 DEF EngineInv
  <2> QED BY <2>2, <2>5
<1>2. CASE PickReplica(s)
  <2>1. UNCHANGED <<role, cmds>>
    BY <1>2 DEF PickReplica, recordVars
  <2>2. HasPrimary' /\ PrimariesPromotedLast'
    BY <1>0, <2>1, RolesAndCommandsKept
  <2>3. Primaries' = Primaries /\ Replicas' = Replicas
    BY <2>1 DEF Primaries, Replicas
  <2>4. CASE Return(s)
    <3>1. eng'[s].pc \in {"idle", "done"}
      BY <1>0, <1>t, <2>4 DEF Return, Idle
    <3> QED BY <2>2, <3>1 DEF EngineInv
  <2>5. ASSUME NEW b \in Online,
               eng' = [eng EXCEPT ![s].pc = "markPromoting", ![s].best = b,
                                  ![s].others = Online \ {b}]
        PROVE  EngineInv(s)'
    <3>1. /\ eng'[s].pc = "markPromoting" /\ eng'[s].failed = eng[s].failed
          /\ eng'[s].best = b /\ eng'[s].others = Online \ {b}
      BY <1>0, <1>t, <2>5 DEF EngineType
    <3>2. /\ eng'[s].best \in Replicas'
          /\ eng'[s].others \subseteq Replicas' /\ eng'[s].best \notin eng'[s].others
      <4>1. b \in Replicas /\ Online \ {b} \subseteq Replicas
        BY DEF Online
      <4>2. b \notin Online \ {b}
        OBVIOUS
      <4> QED BY <2>3, <3>1, <4>1, <4>2
    <3>3. eng'[s].failed \in Primaries'
      BY <1>0, <1>2, <2>3, <3>1 DEF EngineInv, PickReplica, At
    <3> QED BY <3>1, <3>2, <3>3 DEF EngineInv
  <2> QED BY <1>2, <2>2, <2>4, <2>5 DEF PickReplica
<1>3. CASE QueuePromote(s)
  <2> DEFINE b == eng[s].best
  <2>1. b \in Replicas /\ b \in Nodes /\ Goto(s, "recordPrimary") /\ UNCHANGED role
    BY <1>0, <1>3, <1>r DEF EngineInv, QueuePromote, At, recordVars
  <2>2. cmds' = [cmds EXCEPT ![b] = Append(@, Command("pg_promote", None))]
    BY <1>3 DEF QueuePromote, Queue
  <2>3. Command("pg_promote", None) \in Commands
    BY DEF Command, Commands
  <2>4. cmds'[b] = Append(cmds[b], Command("pg_promote", None)) /\ cmds[b] \in Seq(Commands)
    BY <1>t, <2>1, <2>2
  <2>5. cmds'[b][Len(cmds'[b])] = Command("pg_promote", None)
    BY <2>3, <2>4, AppendLast
  <2>6. cmds'[b][Len(cmds'[b])].action = "pg_promote"
    BY <2>5 DEF Command
  <2>7. Primaries' = Primaries /\ Replicas' = Replicas
    BY <2>1 DEF Primaries, Replicas
  <2>8. HasPrimary'
    BY <1>0, <2>7 DEF HasPrimary
  <2>9. \A n \in Primaries : cmds'[n] = cmds[n]
    BY <1>t, <1>r, <2>1, <2>2
  <2>10. PrimariesPromotedLast'
    BY <1>0, <2>7, <2>9 DEF PrimariesPromotedLast
  <2>11. PromotedLast(eng[s].best)'
    BY <1>g, <2>1, <2>6 DEF PromotedLast
  <2>12. EngineInv(s)'
    BY <1>0, <1>3, <1>g, <2>1, <2>7, <2>11 DEF EngineInv, QueuePromote, At
  <2> QED BY <2>8, <2>10, <2>12
<1>4. CASE RecordPrimary(s)
  <2> DEFINE b == eng[s].best
  <2>1. /\ b \in Replicas /\ b \in Nodes /\ eng[s].failed \in Primaries
        /\ PromotedLast(b) /\ b \notin eng[s].others /\ eng[s].others \subseteq Replicas
    BY <1>0, <1>4, <1>r DEF EngineInv, RecordPrimary, At
  <2>2. Goto(s, "markOnline") /\ UNCHANGED cmds /\ role' = [role EXCEPT ![b] = "primary"]
    BY <1>4 DEF RecordPrimary, SetRole
  <2>3. Primaries' = Primaries \cup {b} /\ Replicas' = Replicas \ {b}
    BY <1>t, <2>1, <2>2 DEF Primaries, Replicas
  <2>4. HasPrimary'
    BY <2>3 DEF HasPrimary
  <2>5. PrimariesPromotedLast'
    BY <1>0, <2>1, <2>2, <2>3 DEF PrimariesPromotedLast, PromotedLast
  <2>6. EngineInv(s)'
    BY <1>g, <1>r, <2>1, <2>2, <2>3 DEF EngineInv
  <2> QED BY <2>4, <2>5, <2>6
<1>5. CASE RecordReplica(s)
  <2> DEFINE f == eng[s].failed
  <2>1. /\ f \in Primaries /\ f \in Nodes /\ eng[s].best \in Primaries
        /\ eng[s].best # f
        /\ eng[s].best \notin eng[s].others /\ eng[s].others \subseteq Replicas
    BY <1>0, <1>5, <1>r DEF EngineInv, RecordReplica, At
  <2>2. Goto(s, "repoint") /\ UNCHANGED cmds /\ role' = [role EXCEPT ![f] = "replica"]
    BY <1>5, <2>1 DEF RecordReplica, SetRole
  <2>3. Primaries' = Primaries \ {f} /\ Replicas' = Replicas \cup {f}
    BY <1>t, <2>1, <2>2 DEF Primaries, Replicas
  <2>4. HasPrimary'
    BY <2>1, <2>3 DEF HasPrimary
  <2>5. PrimariesPromotedLast'
    BY <1>0, <2>2, <2>3 DEF PrimariesPromotedLast
  <2>6. EngineInv(s)'
    BY <1>g, <2>1, <2>2, <2>3 DEF EngineInv
  <2> QED BY <2>4, <2>5, <2>6
<1>6. CASE Repoint(s)
  <2>0. /\ eng[s].best \in Primaries /\ eng[s].failed \in Replicas
        /\ eng[s].pc = "repoint"
        /\ eng[s].best \notin eng[s].others /\ eng[s].others \subseteq Replicas
    BY <1>0, <1>6 DEF EngineInv, Repoint, At
  <2>1. UNCHANGED role
    BY <1>6 DEF Repoint, recordVars
  <2>2. Primaries' = Primaries /\ Replicas' = Replicas
    BY <2>1 DEF Primaries, Replicas
  <2>3. HasPrimary'
    BY <1>0, <2>2 DEF HasPrimary
  <2>4. CASE Goto(s, "rewind") /\ UNCHANGED cmds
    BY <1>0, <1>g, <2>0, <2>2, <2>3, <2>4 DEF EngineInv, PrimariesPromotedLast
  <2>5. ASSUME NEW n \in eng[s].others,
               Queue(n, Command("repoint_replica", eng[s].best)),
               eng' = [eng EXCEPT ![s].others = @ \ {n}]
        PROVE  PrimariesPromotedLast' /\ EngineInv(s)'
    <3>1. \A m \in Primaries : cmds'[m] = cmds[m]
      BY <1>t, <1>r, <2>0, <2>5 DEF Queue
    <3>2. PrimariesPromotedLast'
      BY <1>0, <2>2, <3>1 DEF PrimariesPromotedLast
    <3>3. /\ eng'[s].pc = "repoint" /\ eng'[s].best = eng[s].best
          /\ eng'[s].failed = eng[s].failed /\ eng'[s].others = eng[s].others \ {n}
      BY <1>0, <1>t, <2>0, <2>5 DEF EngineType
    <3> QED BY <2>0, <2>2, <3>2, <3>3 DEF EngineInv
  <2> QED BY <1>6, <2>3, <2>4, <2>5 DEF Repoint
<1>7. CASE Rewind(s)
  <2>0. /\ eng[s].best \in Primaries /\ eng[s].failed \in Replicas
        /\ eng[s].best \notin eng[s].others /\ eng[s].others \subseteq Replicas
    BY <1>0, <1>7 DEF EngineInv, Rewind, At
  <2>1. Primaries' = Primaries /\ Replicas' = Replicas
    BY <1>7 DEF Rewind, recordVars, Primaries, Replicas
  <2>2. \A m \in Primaries : cmds'[m] = cmds[m]
    BY <1>7, <1>t, <1>r, <2>0 DEF Rewind, Queue
  <2>3. HasPrimary' /\ PrimariesPromotedLast'
    BY <1>0, <2>1, <2>2 DEF HasPrimary, PrimariesPromotedLast
  <2>4. EngineInv(s)'
    BY <1>7, <1>g, <2>0, <2>1 DEF EngineInv, Rewind
  <2> QED BY <2>3, <2>4
<1>8. CASE Publish(s)
  <2>1. UNCHANGED <<role, cmds>> /\ Return(s)
    BY <1>8 DEF Publish, recordVars
  <2>2. eng'[s].pc \in {"idle", "done"}
    BY <1>0, <1>t, <2>1 DEF Return, Idle
  <2>3. EngineInv(s)'
    BY <2>2 DEF EngineInv
  <2> QED BY <1>0, <2>1, <2>3, RolesAndCommandsKept
<1> QED BY <1>1, <1>2, <1>3, <1>4, <1>5, <1>6, <1>7, <1>8 DEF EngineStep

\* A step that leaves no failed write behind had none to begin with, and is
\* none itself.
LEMMA NoErrorBefore ==
  ASSUME TypeOK, [Next]_vars, used'["errors"] = 0
  PROVE  used["errors"] = 0 /\ ~ \E e \in Engines : WriteFails(e)
<1>1. used \in [BoundNames -> Nat]
  BY DEF TypeOK
<1>2. UNCHANGED used \/ \E b \in BoundNames : Use(b)
  BY BoundNamesFact
     DEF Next, ServerStep, Start, StartWithoutElector, Elected, SessionDone, Crash, Shutdown,
         TickNilElector, CheckClusterHealth, FailoverCluster, Begin, EngineStep, MarkOffline,
         MarkDegraded, PickReplica, MarkPromoting, QueuePromote, RecordPrimary, MarkOnline,
         RecordReplica, Repoint, Rewind, MarkRunning, Publish, WriteFails, NodeStep, Heartbeat,
         ReportStatus, ExecuteCommand, HostChanges, LeaseExpires, Tick, vars, serverVars,
         recordVars, nodeVars
<1>3. used["errors"] = 0
  BY <1>1, <1>2, BoundNamesFact DEF Use
<1>4. ASSUME NEW e \in Engines, WriteFails(e) PROVE FALSE
  BY <1>1, <1>3, <1>4, BoundNamesFact DEF WriteFails, Use
<1> QED BY <1>3, <1>4

LEMMA SingleEngineInvariant ==
  ASSUME NEW s, SingleEngine(s)
  PROVE  Spec => [](used["errors"] = 0 => IInv(s))
<1> DEFINE UInv == TypeOK /\ (used["errors"] = 0 => IInv(s))
<1>1. Init => UInv
  BY SingleInit DEF IInv
<1>2. UInv /\ [Next]_vars => UInv'
  <2> SUFFICES ASSUME UInv, [Next]_vars, used'["errors"] = 0 PROVE IInv(s)'
    BY TypeStep
  <2>0. Servers = {s} /\ Engines = {s} /\ Requests = {}
    BY DEF SingleEngine
  <2>1. IInv(s) /\ ~ \E e \in Engines : WriteFails(e)
    BY NoErrorBefore
  <2>2. CASE LeaseExpires \/ Tick \/ UNCHANGED vars
    <3>1. UNCHANGED <<role, cmds, eng>>
      BY <2>2 DEF LeaseExpires, Tick, vars, recordVars
    <3> QED BY <2>1, <3>1, RolesAndCommandsKept, EngineKept, TypeStep DEF IInv
  <2>3. CASE ServerStep(s)
    BY <2>1, <2>3, SingleServerStep, TypeStep DEF IInv
  <2>4. CASE EngineStep(s)
    BY <2>1, <2>4, SingleEngineStep, TypeStep DEF IInv
  <2>5. CASE \E n \in Nodes : NodeStep(n)
    BY <2>1, <2>5, SingleNodeStep, TypeStep DEF IInv
  <2> QED BY <2>0, <2>1, <2>2, <2>3, <2>4, <2>5 DEF Next
<1> QED BY <1>1, <1>2, PTL DEF Spec

\* With one engine, whatever the number of nodes, the order of heartbeats,
\* crashes, restarts, lost reports and host failures, and until a write fails,
\* GetPrimary finds a primary: executeFailover records the new one first.
THEOREM PrimaryRecordedHolds ==
  ASSUME NEW s, SingleEngine(s)
  PROVE  Spec => []PrimaryRecorded
<1>1. (used["errors"] = 0 => IInv(s)) => PrimaryRecorded
  BY DEF IInv, PrimaryRecorded
<1> QED BY <1>1, SingleEngineInvariant, PTL

\* Under the same conditions a recorded primary is never left with a pending
\* command that would make it follow another node after its promotion.
THEOREM PromoteIsLastHolds ==
  ASSUME NEW s, SingleEngine(s)
  PROVE  Spec => []PromoteIsLastForPrimary
<1>1. (used["errors"] = 0 => IInv(s)) => PromoteIsLastForPrimary
  BY DEF IInv, PromoteIsLastForPrimary
<1> QED BY <1>1, SingleEngineInvariant, PTL

-----------------------------------------------------------------------------
(* How many primaries are recorded, failed writes and crashes included.    *)

Spent == used["crashes"] + used["errors"]

\* The engine is about to demote the primary it replaced; until then that node
\* is recorded as one and is not the node it promotes.  Between the two writes
\* of a role there is one primary more.  An engine at work has an elector, so
\* the panic of a server without one interrupts no failover.
CountInv(s) ==
  /\ eng[s].pc \in EarlySteps \cup {"recordPrimary", "markOnline", "recordReplica"}
       => eng[s].failed \in Primaries
  /\ eng[s].pc \in {"markPromoting", "queuePromote", "recordPrimary", "markOnline", "recordReplica"}
       => eng[s].best \in Nodes /\ eng[s].best # eng[s].failed
  /\ eng[s].pc \in {"markOnline", "recordReplica"} => Cardinality(Primaries) <= 2 + Spent
  /\ eng[s].pc \notin {"markOnline", "recordReplica"} => Cardinality(Primaries) <= 1 + Spent
  /\ eng[s].pc # "idle" => elector[s] # "nil"

LEMMA PrimariesFinite == IsFiniteSet(Primaries) /\ Cardinality(Primaries) \in Nat
<1>1. Primaries \subseteq Nodes
  BY DEF Primaries
<1> QED BY <1>1, FailoverAssumption, FS_Subset, FS_CardinalityType

\* One bound is spent at most, and only a crash, a shutdown or a failed write
\* counts here.
LEMMA SpentStep ==
  ASSUME TypeOK, NEW b \in BoundNames, Use(b)
  PROVE  /\ Spent \in Nat /\ Spent' \in Nat /\ Spent <= Spent'
         /\ b \in {"crashes", "errors"} => Spent' = Spent + 1
<1>1. used \in [BoundNames -> Nat] /\ used' = [used EXCEPT ![b] = used[b] + 1]
  BY DEF TypeOK, Use
<1>2. /\ used["crashes"] \in Nat /\ used["errors"] \in Nat
      /\ used'["crashes"] = IF b = "crashes" THEN used["crashes"] + 1 ELSE used["crashes"]
      /\ used'["errors"] = IF b = "errors" THEN used["errors"] + 1 ELSE used["errors"]
  BY <1>1, BoundNamesFact
<1> QED BY <1>2 DEF Spent

\* A step of anyone but the engine, and one that only spends bounds.
LEMMA CountKept ==
  ASSUME NEW s, CountInv(s), UNCHANGED <<role, eng>>, elector'[s] = "nil" => elector[s] = "nil",
         Spent \in Nat, Spent' \in Nat, Spent <= Spent'
  PROVE  CountInv(s)'
<1>1. Primaries' = Primaries /\ Cardinality(Primaries) \in Nat
  BY PrimariesFinite DEF Primaries
<1> QED BY <1>1 DEF CountInv

\* An engine that has stopped.
LEMMA CountStopped ==
  ASSUME NEW s, CountInv(s), UNCHANGED role, eng'[s].pc \in {"idle", "done"},
         eng'[s].pc = "done" => elector'[s] # "nil",
         Spent \in Nat, Spent' \in Nat, Spent <= Spent',
         eng[s].pc \in {"markOnline", "recordReplica"} => Spent' = Spent + 1
  PROVE  CountInv(s)'
<1>1. Primaries' = Primaries /\ Cardinality(Primaries) \in Nat
  BY PrimariesFinite DEF Primaries
<1>2. Cardinality(Primaries') <= 1 + Spent'
  BY <1>1 DEF CountInv
<1> QED BY <1>2 DEF CountInv, EarlySteps

LEMMA SpentKept ==
  ASSUME TypeOK, UNCHANGED used PROVE Spent \in Nat /\ Spent' = Spent
  BY BoundNamesFact DEF TypeOK, Spent

LEMMA CountServerStep ==
  ASSUME NEW s, SingleEngine(s), TypeOK, CountInv(s), ServerStep(s)
  PROVE  CountInv(s)'
<1>0. s \in Servers /\ s \in Engines /\ elector \in [Servers -> {"nil", "live", "done"}]
  BY DEF SingleEngine, TypeOK
<1>1. CASE Start(s) \/ Elected(s) \/ SessionDone(s)
  <2>1. UNCHANGED <<role, eng, used>> /\ (elector'[s] = "nil" => elector[s] = "nil")
    BY <1>0, <1>1 DEF Start, Elected, SessionDone, recordVars
  <2> QED BY <2>1, SpentKept, CountKept
<1>2. CASE StartWithoutElector(s)
  <2>1. UNCHANGED <<role, eng, elector>> /\ Use("etcd")
    BY <1>2 DEF StartWithoutElector, recordVars
  <2> QED BY <2>1, SpentStep, BoundNamesFact, CountKept
<1>3. CASE Crash(s) \/ Shutdown(s)
  <2>1. UNCHANGED role /\ StopGoroutines(s) /\ Use("crashes")
    BY <1>3 DEF Crash, Shutdown, recordVars
  <2>2. eng'[s].pc = "idle"
    BY <1>0, <2>1 DEF StopGoroutines, Home, Idle
  <2> QED BY <2>1, <2>2, SpentStep, BoundNamesFact, CountStopped
<1>4. CASE TickNilElector(s)
  <2>1. UNCHANGED <<role, elector, used>> /\ StopGoroutines(s) /\ eng[s].pc = "idle"
    BY <1>4 DEF TickNilElector, CountInv, recordVars
  <2>2. eng'[s].pc = "idle"
    BY <1>0, <2>1 DEF StopGoroutines
  <2> QED BY <2>1, <2>2, SpentKept, CountStopped
<1>5. ASSUME NEW p \in Nodes, CheckClusterHealth(s, p) PROVE CountInv(s)'
  <2>1. /\ UNCHANGED <<role, elector, used>> /\ eng[s].pc = "idle" /\ elector[s] = "live" /\ p \in Primaries
        /\ eng' = [eng EXCEPT ![s].pc = "markOffline", ![s].failed = p]
    BY <1>5 DEF CheckClusterHealth, Begin, At, IsLeader, recordVars, serverVars
  <2>2. eng'[s].pc = "markOffline" /\ eng'[s].failed = p
    BY <1>0, <2>1 DEF TypeOK, EngineType
  <2>3. Primaries' = Primaries /\ Spent' = Spent
    BY <2>1, SpentKept DEF Primaries
  <2> QED BY <2>1, <2>2, <2>3 DEF CountInv
<1> QED BY <1>1, <1>2, <1>3, <1>4, <1>5 DEF ServerStep

\* The two writes of roles, the steps between them and a failed write.
LEMMA CountEngineStep ==
  ASSUME NEW s, SingleEngine(s), TypeOK, CountInv(s), EngineStep(s) \/ WriteFails(s)
  PROVE  CountInv(s)'
<1>0. /\ s \in Servers /\ s \in Engines /\ eng \in [Engines -> EngineType]
      /\ role \in [Nodes -> {"primary", "replica"}] /\ Primaries \subseteq Nodes
  BY DEF SingleEngine, TypeOK, Primaries
<1>c. IsFiniteSet(Primaries) /\ Cardinality(Primaries) \in Nat
  BY PrimariesFinite
<1>e. UNCHANGED elector
  BY DEF EngineStep, MarkOffline, MarkDegraded, PickReplica, MarkPromoting, QueuePromote, RecordPrimary, MarkOnline,
         RecordReplica, Repoint, Rewind, MarkRunning, Publish, WriteFails, serverVars
<1>s. /\ Spent \in Nat /\ Spent' \in Nat /\ Spent <= Spent'
      /\ WriteFails(s) => Spent' = Spent + 1
  <2>1. UNCHANGED used \/ Use("promotions") \/ Use("errors")
    BY DEF EngineStep, MarkOffline, MarkDegraded, PickReplica, MarkPromoting, QueuePromote, RecordPrimary, MarkOnline,
           RecordReplica, Repoint, Rewind, MarkRunning, Publish, WriteFails
  <2>2. CASE UNCHANGED used
    <3>1. ~Use("errors")
      BY <2>2, BoundNamesFact DEF Use, TypeOK
    <3> QED BY <2>2, <3>1, SpentKept DEF WriteFails
  <2>3. CASE Use("errors")
    BY <2>3, SpentStep, BoundNamesFact
  <2>4. CASE Use("promotions")
    <3>1. ~Use("errors")
      <4>1. used \in [BoundNames -> Nat]
        BY DEF TypeOK
      <4>2. used'["errors"] = used["errors"]
        BY <2>4, <4>1, BoundNamesFact DEF Use
      <4> QED BY <4>1, <4>2, BoundNamesFact DEF Use
    <3> QED BY <2>4, <3>1, SpentStep, BoundNamesFact DEF WriteFails
  <2> QED BY <2>1, <2>2, <2>3, <2>4
<1>g. ASSUME NEW pc, Goto(s, pc)
      PROVE  /\ eng'[s].pc = pc /\ eng'[s].failed = eng[s].failed /\ eng'[s].best = eng[s].best
  BY <1>0, <1>g DEF Goto, EngineType
<1>r. ASSUME Return(s) PROVE eng'[s].pc = "idle"
  BY <1>0, <1>r DEF Return, Idle
<1>n. eng[s].pc # "idle" => elector'[s] # "nil"
  BY <1>e DEF CountInv
\* Steps that keep the roles and stay on one side of the two writes.
<1>k. ASSUME UNCHANGED role, eng'[s].failed = eng[s].failed, eng'[s].best = eng[s].best,
             \/ eng[s].pc = "markOffline" /\ eng'[s].pc = "markDegraded"
             \/ eng[s].pc = "markDegraded" /\ eng'[s].pc = "pickReplica"
             \/ eng[s].pc = "markPromoting" /\ eng'[s].pc = "queuePromote"
             \/ eng[s].pc = "queuePromote" /\ eng'[s].pc = "recordPrimary"
             \/ eng[s].pc = "markOnline" /\ eng'[s].pc = "recordReplica"
             \/ eng[s].pc \in {"repoint", "rewind", "markRunning"} /\ eng'[s].pc \in {"repoint", "rewind", "markRunning", "publish"}
      PROVE  CountInv(s)'
  <2>1. Primaries' = Primaries
    BY <1>k DEF Primaries
  <2> QED BY <1>c, <1>k, <1>n, <1>s, <2>1 DEF CountInv, EarlySteps
<1>1. CASE MarkOffline(s) \/ MarkDegraded(s) \/ MarkPromoting(s) \/ QueuePromote(s) \/ MarkOnline(s)
           \/ Rewind(s) \/ MarkRunning(s)
  <2>1. UNCHANGED role
    BY <1>1 DEF MarkOffline, MarkDegraded, MarkPromoting, QueuePromote, MarkOnline, Rewind, MarkRunning, recordVars
  <2>2. \/ eng[s].pc = "markOffline" /\ Goto(s, "markDegraded")
        \/ eng[s].pc = "markDegraded" /\ Goto(s, "pickReplica")
        \/ eng[s].pc = "markPromoting" /\ Goto(s, "queuePromote")
        \/ eng[s].pc = "queuePromote" /\ Goto(s, "recordPrimary")
        \/ eng[s].pc = "markOnline" /\ Goto(s, "recordReplica")
        \/ eng[s].pc = "rewind" /\ Goto(s, "markRunning")
        \/ eng[s].pc = "markRunning" /\ Goto(s, "publish")
    BY <1>1 DEF MarkOffline, MarkDegraded, MarkPromoting, QueuePromote, MarkOnline, Rewind, MarkRunning, At
  <2> QED BY <1>g, <1>k, <2>1, <2>2
<1>2. CASE PickReplica(s)
  <2>1. UNCHANGED role /\ eng[s].pc = "pickReplica"
    BY <1>2 DEF PickReplica, At, recordVars
  <2>2. CASE Return(s)
    BY <1>r, <1>s, <2>1, <2>2, CountStopped
  <2>3. ASSUME NEW b \in Online,
               eng' = [eng EXCEPT ![s].pc = "markPromoting", ![s].best = b, ![s].others = Online \ {b}]
        PROVE  CountInv(s)'
    <3>1. eng'[s].pc = "markPromoting" /\ eng'[s].failed = eng[s].failed /\ eng'[s].best = b
      BY <1>0, <2>3 DEF EngineType
    <3>2. Primaries' = Primaries
      BY <2>1 DEF Primaries
    <3>3. eng[s].failed \in Primaries /\ b \in Nodes /\ b \notin Primaries
      BY <2>1 DEF CountInv, EarlySteps, Online, Replicas, Primaries
    <3> QED BY <1>c, <1>n, <1>s, <2>1, <3>1, <3>2, <3>3 DEF CountInv
  <2> QED BY <1>2, <2>2, <2>3 DEF PickReplica
<1>3. CASE RecordPrimary(s)
  <2> DEFINE b == eng[s].best
  <2>1. eng[s].pc = "recordPrimary" /\ Goto(s, "markOnline") /\ role' = [role EXCEPT ![b] = "primary"]
    BY <1>3 DEF RecordPrimary, SetRole, At
  <2>2. b \in Nodes /\ b # eng[s].failed /\ eng[s].failed \in Primaries /\ Cardinality(Primaries) <= 1 + Spent
    BY <2>1 DEF CountInv
  <2>3. Primaries' = Primaries \cup {b}
    BY <1>0, <2>1, <2>2 DEF Primaries
  <2>4. Cardinality(Primaries') <= 2 + Spent
    <3>1. Cardinality(Primaries \cup {b}) \in {Cardinality(Primaries), Cardinality(Primaries) + 1}
      BY <1>c, FS_AddElement
    <3> QED BY <1>c, <1>s, <2>2, <2>3, <3>1
  <2>5. Cardinality(Primaries') \in Nat
    BY <1>c, <2>3, FS_AddElement
  <2> QED BY <1>g, <1>n, <1>s, <2>1, <2>2, <2>3, <2>4, <2>5 DEF CountInv
<1>4. CASE RecordReplica(s)
  <2> DEFINE f == eng[s].failed
  <2>1. f \in Primaries /\ f \in Nodes /\ eng[s].best # f /\ eng[s].pc = "recordReplica" /\ Cardinality(Primaries) <= 2 + Spent
    BY <1>0, <1>4 DEF CountInv, RecordReplica, At
  <2>2. Goto(s, "repoint") /\ role' = [role EXCEPT ![f] = "replica"]
    BY <1>4, <2>1 DEF RecordReplica, SetRole
  <2>3. Primaries' = Primaries \ {f}
    BY <1>0, <2>1, <2>2 DEF Primaries
  <2>4. Cardinality(Primaries') = Cardinality(Primaries) - 1
    BY <1>c, <2>1, <2>3, FS_RemoveElement
  <2> QED BY <1>c, <1>g, <1>n, <1>s, <2>1, <2>2, <2>4 DEF CountInv, EarlySteps
<1>5. CASE Repoint(s)
  <2>1. UNCHANGED role /\ eng[s].pc = "repoint"
    BY <1>5 DEF Repoint, At, recordVars
  <2>2. CASE Goto(s, "rewind")
    BY <1>g, <1>k, <2>1, <2>2
  <2>3. ASSUME NEW n, eng' = [eng EXCEPT ![s].others = @ \ {n}] PROVE CountInv(s)'
    <3>1. eng'[s].pc = eng[s].pc /\ eng'[s].failed = eng[s].failed /\ eng'[s].best = eng[s].best
      BY <1>0, <2>3 DEF EngineType
    <3> QED BY <1>k, <2>1, <3>1
  <2> QED BY <1>5, <2>2, <2>3 DEF Repoint
<1>6. CASE Publish(s)
  <2>1. UNCHANGED role /\ Return(s) /\ eng[s].pc = "publish"
    BY <1>6 DEF Publish, At, recordVars
  <2> QED BY <1>r, <1>s, <2>1, CountStopped
<1>7. CASE WriteFails(s)
  <2>1. UNCHANGED role
    BY <1>7 DEF WriteFails, recordVars
  <2>2. Spent' = Spent + 1 /\ Primaries' = Primaries
    BY <1>7, <1>s, <2>1 DEF Primaries
  <2>3. CASE Return(s)
    BY <1>r, <1>s, <2>1, <2>2, <2>3, CountStopped
  <2>4. CASE eng[s].pc = "recordPrimary" /\ Goto(s, "markOnline")
    BY <1>c, <1>g, <1>n, <1>s, <2>2, <2>4 DEF CountInv
  <2>5. CASE eng[s].pc = "markOnline" /\ Goto(s, "recordReplica")
    BY <1>g, <1>k, <2>1, <2>5
  <2>6. CASE eng[s].pc = "recordReplica" /\ Goto(s, "repoint")
    BY <1>c, <1>g, <1>n, <1>s, <2>2, <2>6 DEF CountInv, EarlySteps
  <2>7. ASSUME eng[s].pc = "repoint", NEW n, eng' = [eng EXCEPT ![s].others = @ \ {n}] PROVE CountInv(s)'
    <3>1. eng'[s].pc = eng[s].pc /\ eng'[s].failed = eng[s].failed /\ eng'[s].best = eng[s].best
      BY <1>0, <2>7 DEF EngineType
    <3> QED BY <1>k, <2>1, <2>7, <3>1
  <2>8. CASE \/ eng[s].pc = "rewind" /\ Goto(s, "markRunning")
             \/ eng[s].pc = "markRunning" /\ Goto(s, "publish")
    BY <1>g, <1>k, <2>1, <2>8
  <2> QED BY <1>7, <2>3, <2>4, <2>5, <2>6, <2>7, <2>8 DEF WriteFails
<1> QED BY <1>1, <1>2, <1>3, <1>4, <1>5, <1>6, <1>7 DEF EngineStep

\* With one engine, at rest there is one recorded primary and at most one more
\* for every crash, shutdown and failed write: repeated failovers, heartbeats,
\* elections, restarts and panics of a server without an elector add none.
THEOREM ExtraPrimariesHold ==
  ASSUME NEW s, SingleEngine(s)
  PROVE  Spec => []ExtraPrimariesAccounted
<1> DEFINE UInv == TypeOK /\ CountInv(s)
<1>0. Servers = {s} /\ Engines = {s} /\ Requests = {}
  BY DEF SingleEngine
<1>1. Init => UInv
  <2> SUFFICES ASSUME Init PROVE CountInv(s)
    BY InitType
  <2>1. Primaries = {FirstPrimary} /\ eng[s].pc = "idle"
    BY <1>0, FailoverAssumption DEF Init, Primaries, Idle
  <2>2. Cardinality({FirstPrimary}) = 1
    BY FS_Singleton
  <2>3. Spent = 0
    BY BoundNamesFact DEF Init, Spent
  <2> QED BY <2>1, <2>2, <2>3 DEF CountInv, EarlySteps
<1>2. UInv /\ [Next]_vars => UInv'
  <2> SUFFICES ASSUME UInv, [Next]_vars PROVE CountInv(s)'
    BY TypeStep
  <2>1. CASE LeaseExpires
    <3>1. UNCHANGED <<role, eng, elector>> /\ (UNCHANGED used \/ Use("etcd"))
      BY <2>1 DEF LeaseExpires, recordVars
    <3> QED BY <3>1, SpentKept, SpentStep, BoundNamesFact, CountKept
  <2>2. CASE Tick \/ UNCHANGED vars
    <3>1. UNCHANGED <<role, eng, elector, used>>
      BY <2>2 DEF Tick, vars, recordVars, serverVars
    <3> QED BY <3>1, SpentKept, CountKept
  <2>3. ASSUME NEW n \in Nodes, NodeStep(n) PROVE CountInv(s)'
    <3>1. UNCHANGED <<role, eng, elector>> /\ (UNCHANGED used \/ Use("faults"))
      BY <2>3 DEF NodeStep, Heartbeat, ReportStatus, ExecuteCommand, HostChanges, recordVars, serverVars
    <3> QED BY <3>1, SpentKept, SpentStep, BoundNamesFact, CountKept
  <2> QED BY <1>0, <2>1, <2>2, <2>3, CountServerStep, CountEngineStep DEF Next
<1>3. UInv => ExtraPrimariesAccounted
  <2> SUFFICES ASSUME TypeOK, CountInv(s), AtRest PROVE Cardinality(Primaries) <= 1 + used["crashes"] + used["errors"]
    BY DEF ExtraPrimariesAccounted
  <2>1. eng[s].pc \notin {"markOnline", "recordReplica"}
    BY <1>0 DEF AtRest
  <2>2. Cardinality(Primaries) <= 1 + Spent
    BY <2>1 DEF CountInv
  <2> QED BY <2>2, BoundNamesFact DEF Spent, TypeOK
<1> QED BY <1>1, <1>2, <1>3, PTL DEF Spec

=============================================================================
