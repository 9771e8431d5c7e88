------------------------------ MODULE Failover ------------------------------
(***************************************************************************)
(* The failover engine of skylex-server (internal/server/failover.go), the *)
(* leader election that gates it (internal/dcs/election.go, wired by       *)
(* Server.Start) and the part of the agents it talks to: heartbeats and    *)
(* the commands pg_promote, repoint_replica and pg_rewind.                 *)
(*                                                                         *)
(* One cluster.  A failover is a goroutine that makes a sequence of        *)
(* separate single-row writes; nothing locks the cluster and nothing is    *)
(* rolled back, so every write is a step of its own and other goroutines,  *)
(* heartbeats, a crash of the server or a failed write may come between.   *)
(*                                                                         *)
(* last_seen is modelled by its age in clock periods, capped just above    *)
(* the heartbeat timeout.                                                  *)
(***************************************************************************)
EXTENDS Integers, Sequences, FiniteSets

CONSTANTS
  Nodes,          \* nodes of the cluster
  FirstPrimary,   \* the node CreateCluster made primary
  Servers,        \* skylex-server processes: each runs one engine loop
  Requests,       \* FailoverCluster calls: each runs one goroutine
  ServedBy,       \* [Requests -> Servers]
  None,           \* no node, no server
  Timeout,        \* heartbeat timeout, in clock periods
  Prompt,         \* TRUE: heartbeats of live agents are never late
  MaxPromotions,  \* bound: no failover begins after so many promotions
  MaxCrashes,     \* bound: server crashes and shutdowns
  MaxEtcdFaults,  \* bound: leases lost by a live server, starts without one
  MaxErrors,      \* bound: failed database writes
  MaxFaults       \* bound: host and PostgreSQL failures

ASSUME FailoverAssumption ==
  /\ IsFiniteSet(Nodes) /\ FirstPrimary \in Nodes
  /\ ServedBy \in [Requests -> Servers]
  /\ Servers \cap Requests = {}
  /\ Prompt \in BOOLEAN
  /\ None \notin Nodes \cup Servers
  /\ {Timeout, MaxPromotions, MaxCrashes, MaxEtcdFaults, MaxErrors, MaxFaults}
        \subseteq Nat

VARIABLES
  cluster,   \* clusters.status
  role,      \* nodes.role
  status,    \* nodes.status
  age,       \* now - nodes.last_seen, in clock periods
  cmds,      \* per node, the pending agent_commands rows, oldest first
  host,      \* per node: "dead", "pgdown" (agent up, no PostgreSQL), "running"
  follows,   \* per node: the upstream its standby.signal names, or None
  writable,  \* per node: PostgreSQL started outside recovery, or promoted
  proc,      \* per server: "down", "campaigning" or "serving"
  elector,   \* per server: "nil", "live" (session open), "done" (expired)
  lease,     \* holder of the leader key in etcd, or None
  published, \* PrimaryInfo written to etcd by SetPrimary
  eng,       \* per engine goroutine: where it is and what it remembers
  used       \* how much of each bound has been used

recordVars == <<cluster, role, status, age>>
nodeVars == <<host, follows, writable>>
serverVars == <<proc, elector, lease>>
vars == <<recordVars, cmds, nodeVars, serverVars, published, eng, used>>

Engines == Servers \cup Requests

\* The server process an engine goroutine lives in.
Home(e) == IF e \in Servers THEN e ELSE ServedBy[e]

Command(a, t) == [action |-> a, target |-> t]
Commands == [action : {"pg_promote", "repoint_replica", "pg_rewind"},
             target : Nodes \cup {None}]

\* Steps of executeFailover, named for the write that comes next.
EarlySteps == {"markOffline", "markDegraded", "pickReplica", "markPromoting",
               "queuePromote"}
LateSteps == {"recordPrimary", "markOnline", "recordReplica", "repoint",
              "rewind", "markRunning", "publish"}
Idle == [pc |-> "idle", failed |-> None, best |-> None, others |-> {}]

Primaries == {n \in Nodes : role[n] = "primary"}
Replicas == {n \in Nodes : role[n] = "replica"}
MaxAge == Timeout + 1
ServerUp == \E s \in Servers : proc[s] = "serving"
IsLeader(s) == proc[s] = "serving" /\ elector[s] = "live"

BoundNames == {"promotions", "crashes", "etcd", "errors", "faults"}
Use(b) == used' = [used EXCEPT ![b] = @ + 1]

-----------------------------------------------------------------------------
\* A running cluster: one server leads, the replicas follow the primary.
Init ==
  /\ cluster = "running"
  /\ role = [n \in Nodes |-> IF n = FirstPrimary THEN "primary" ELSE "replica"]
  /\ status = [n \in Nodes |-> "online"]
  /\ age = [n \in Nodes |-> 0]
  /\ cmds = [n \in Nodes |-> <<>>]
  /\ host = [n \in Nodes |-> "running"]
  /\ follows = [n \in Nodes |-> IF n = FirstPrimary THEN None ELSE FirstPrimary]
  /\ writable = [n \in Nodes |-> n = FirstPrimary]
  /\ lease \in Servers
  /\ proc = [s \in Servers |-> IF s = lease THEN "serving" ELSE "down"]
  /\ elector = [s \in Servers |-> IF s = lease THEN "live" ELSE "nil"]
  /\ published = None
  /\ eng = [e \in Engines |-> Idle]
  /\ used = [b \in BoundNames |-> 0]

-----------------------------------------------------------------------------
(* Server.Start and the election.                                          *)

\* dcs.New succeeded: Start blocks in Campaign before it serves anything.
Start(s) ==
  /\ proc[s] \in {"down", "panicked"}
  /\ proc' = [proc EXCEPT ![s] = "campaigning"]
  /\ UNCHANGED <<recordVars, cmds, nodeVars, elector, lease, published, eng, used>>

\* "continuing without DCS" / "continuing without leader": the engine is
\* started all the same, with a nil elector.
StartWithoutElector(s) ==
  /\ proc[s] \in {"down", "campaigning"}
  /\ used["etcd"] < MaxEtcdFaults
  /\ proc' = [proc EXCEPT ![s] = "serving"]
  /\ Use("etcd")
  /\ UNCHANGED <<recordVars, cmds, nodeVars, elector, lease, published, eng>>

Elected(s) ==
  /\ proc[s] = "campaigning" /\ lease = None
  /\ lease' = s
  /\ elector' = [elector EXCEPT ![s] = "live"]
  /\ proc' = [proc EXCEPT ![s] = "serving"]
  /\ UNCHANGED <<recordVars, cmds, nodeVars, published, eng, used>>

\* etcd drops the lease of a dead process, or of a live one it cannot hear.
LeaseExpires ==
  /\ lease # None
  /\ \/ elector[lease] # "live" /\ UNCHANGED used
     \/ elector[lease] = "live" /\ used["etcd"] < MaxEtcdFaults /\ Use("etcd")
  /\ lease' = None
  /\ UNCHANGED <<recordVars, cmds, nodeVars, proc, elector, published, eng>>

\* The client notices: session.Done() closes and IsLeader turns false.
\* Nothing campaigns again: only a restart of the process does.
SessionDone(s) ==
  /\ elector[s] = "live" /\ lease # s
  /\ elector' = [elector EXCEPT ![s] = "done"]
  /\ UNCHANGED <<recordVars, cmds, nodeVars, proc, lease, published, eng, used>>

\* The goroutines of s stop where they are.
StopGoroutines(s) ==
  eng' = [e \in Engines |->
            IF Home(e) # s \/ eng[e].pc = "idle" THEN eng[e]
            ELSE [Idle EXCEPT !.pc = IF e \in Servers THEN "idle" ELSE "done"]]

Crash(s) ==
  /\ proc[s] # "down" /\ used["crashes"] < MaxCrashes
  /\ proc' = [proc EXCEPT ![s] = "down"]
  /\ elector' = [elector EXCEPT ![s] = "nil"]
  /\ StopGoroutines(s)
  /\ Use("crashes")
  /\ UNCHANGED <<recordVars, cmds, nodeVars, lease, published>>

\* Orderly shutdown: as a crash, but Resign gives the leader key back.
Shutdown(s) ==
  /\ proc[s] = "serving" /\ used["crashes"] < MaxCrashes
  /\ proc' = [proc EXCEPT ![s] = "down"]
  /\ elector' = [elector EXCEPT ![s] = "nil"]
  /\ lease' = IF lease = s THEN None ELSE lease
  /\ StopGoroutines(s)
  /\ Use("crashes")
  /\ UNCHANGED <<recordVars, cmds, nodeVars, published>>

\* The first tick of Run calls IsLeader on a nil elector: the process dies.
TickNilElector(s) ==
  /\ proc[s] = "serving" /\ elector[s] = "nil"
  /\ proc' = [proc EXCEPT ![s] = "panicked"]
  /\ StopGoroutines(s)
  /\ UNCHANGED <<recordVars, cmds, nodeVars, elector, lease, published, used>>

-----------------------------------------------------------------------------
(* The engine.                                                             *)

Goto(e, pc) == eng' = [eng EXCEPT ![e].pc = pc]
Return(e) == eng' = [eng EXCEPT ![e] = [Idle EXCEPT !.pc =
                       IF e \in Servers THEN "idle" ELSE "done"]]
At(e, pc) == eng[e].pc = pc /\ proc[Home(e)] = "serving"
Queue(n, c) == cmds' = [cmds EXCEPT ![n] = Append(@, c)]
SetRole(n, r) == role' = [role EXCEPT ![n] = r]
SetStatus(n, st) == status' = [status EXCEPT ![n] = st]

Begin(e, p) ==
  /\ used["promotions"] < MaxPromotions
  /\ eng' = [eng EXCEPT ![e].pc = "markOffline", ![e].failed = p]
  /\ UNCHANGED <<recordVars, cmds, nodeVars, serverVars, published, used>>

\* A tick of Run that finds the primary of the cluster silent for too long.
\* GetPrimary is a LIMIT 1 query: with two primaries it returns either.
CheckClusterHealth(s, p) ==
  /\ At(s, "idle") /\ IsLeader(s)
  /\ cluster \in {"running", "degraded"}
  /\ p \in Primaries
  /\ age[p] > Timeout
  /\ status[p] # "promoting"
  /\ Begin(s, p)

\* The API call: no leader check, no check that a failover is under way.
FailoverCluster(r, p) ==
  /\ At(r, "idle")
  /\ p \in Primaries
  /\ Begin(r, p)

MarkOffline(e) ==
  /\ At(e, "markOffline")
  /\ SetStatus(eng[e].failed, "offline")
  /\ Goto(e, "markDegraded")
  /\ UNCHANGED <<cluster, role, age, cmds, nodeVars, serverVars, published, used>>

MarkDegraded(e) ==
  /\ At(e, "markDegraded")
  /\ cluster' = "degraded"
  /\ Goto(e, "pickReplica")
  /\ UNCHANGED <<role, status, age, cmds, nodeVars, serverVars, published, used>>

Online == {n \in Replicas : status[n] = "online"}

\* Mutant: the chosen replica stays in the list of replicas to repoint.
PickReplicaKeepsBest(e) ==
  /\ At(e, "pickReplica")
  /\ \/ /\ Online = {}
        /\ Return(e)
     \/ \E b \in Online :
          /\ \A n \in Online : age[b] <= age[n]
          /\ eng' = [eng EXCEPT ![e].pc = "markPromoting", ![e].best = b,
                                ![e].others = Online]
  /\ UNCHANGED <<recordVars, cmds, nodeVars, serverVars, published, used>>

\* The most recently seen replica that is recorded online; the others that
\* are online are remembered for repoint_replica.
PickReplica(e) ==
  /\ At(e, "pickReplica")
  /\ \/ /\ Online = {}
        /\ Return(e)
     \/ \E b \in Online :
          /\ \A n \in Online : age[b] <= age[n]
          /\ eng' = [eng EXCEPT ![e].pc = "markPromoting", ![e].best = b,
                                ![e].others = Online \ {b}]
  /\ UNCHANGED <<recordVars, cmds, nodeVars, serverVars, published, used>>

\* Mutant: another status of the models package.
MarkPromotingAsSyncing(e) ==
  /\ At(e, "markPromoting")
  /\ SetStatus(eng[e].best, "syncing")
  /\ Goto(e, "queuePromote")
  /\ UNCHANGED <<cluster, role, age, cmds, nodeVars, serverVars, published, used>>


MarkPromoting(e) ==
  /\ At(e, "markPromoting")
  /\ SetStatus(eng[e].best, "promoting")
  /\ Goto(e, "queuePromote")
  /\ UNCHANGED <<cluster, role, age, cmds, nodeVars, serverVars, published, used>>

\* The engine sleeps five seconds after this and never reads the result.
QueuePromote(e) ==
  /\ At(e, "queuePromote")
  /\ Queue(eng[e].best, Command("pg_promote", None))
  /\ Goto(e, "recordPrimary")
  /\ Use("promotions")
  /\ UNCHANGED <<recordVars, nodeVars, serverVars, published>>

\* Mutant: the new primary's role is never written.
RecordPrimaryForgotten(e) ==
  /\ At(e, "recordPrimary")
  /\ Goto(e, "markOnline")
  /\ UNCHANGED <<recordVars, cmds, nodeVars, serverVars, published, used>>


RecordPrimary(e) ==
  /\ At(e, "recordPrimary")
  /\ SetRole(eng[e].best, "primary")
  /\ Goto(e, "markOnline")
  /\ UNCHANGED <<cluster, status, age, cmds, nodeVars, serverVars, published, used>>

MarkOnline(e) ==
  /\ At(e, "markOnline")
  /\ SetStatus(eng[e].best, "online")
  /\ Goto(e, "recordReplica")
  /\ UNCHANGED <<cluster, role, age, cmds, nodeVars, serverVars, published, used>>

\* Mutant: the old primary is not demoted.
RecordReplicaForgotten(e) ==
  /\ At(e, "recordReplica")
  /\ Goto(e, "repoint")
  /\ UNCHANGED <<recordVars, cmds, nodeVars, serverVars, published, used>>


RecordReplica(e) ==
  /\ At(e, "recordReplica")
  /\ IF eng[e].failed # eng[e].best THEN SetRole(eng[e].failed, "replica")
                                    ELSE UNCHANGED role
  /\ Goto(e, "repoint")
  /\ UNCHANGED <<cluster, status, age, cmds, nodeVars, serverVars, published, used>>

Repoint(e) ==
  /\ At(e, "repoint")
  /\ \/ \E n \in eng[e].others :
          /\ Queue(n, Command("repoint_replica", eng[e].best))
          /\ eng' = [eng EXCEPT ![e].others = @ \ {n}]
     \/ /\ eng[e].others = {}
        /\ Goto(e, "rewind")
        /\ UNCHANGED cmds
  /\ UNCHANGED <<recordVars, nodeVars, serverVars, published, used>>

Rewind(e) ==
  /\ At(e, "rewind")
  /\ IF eng[e].failed # eng[e].best
       THEN Queue(eng[e].failed, Command("pg_rewind", eng[e].best))
       ELSE UNCHANGED cmds
  /\ Goto(e, "markRunning")
  /\ UNCHANGED <<recordVars, nodeVars, serverVars, published, used>>

MarkRunning(e) ==
  /\ At(e, "markRunning")
  /\ cluster' = "running"
  /\ Goto(e, "publish")
  /\ UNCHANGED <<role, status, age, cmds, nodeVars, serverVars, published, used>>

\* SetPrimary in etcd, skipped by a server that runs without DCS.  A server
\* whose campaign failed has a store all the same, and no elector.
Publish(e) ==
  /\ At(e, "publish")
  /\ \/ published' = eng[e].best
     \/ elector[Home(e)] = "nil" /\ UNCHANGED published
  /\ Return(e)
  /\ UNCHANGED <<recordVars, cmds, nodeVars, serverVars, used>>

\* A write that fails: before the promotion it ends the failover, after it
\* it is logged and the next write is made all the same.
WriteFails(e) ==
  /\ proc[Home(e)] = "serving"
  /\ used["errors"] < MaxErrors /\ Use("errors")
  /\ \/ /\ eng[e].pc \in EarlySteps
        /\ Return(e)
     \/ /\ eng[e].pc = "recordPrimary" /\ Goto(e, "markOnline")
     \/ /\ eng[e].pc = "markOnline" /\ Goto(e, "recordReplica")
     \/ /\ eng[e].pc = "recordReplica" /\ Goto(e, "repoint")
     \/ /\ eng[e].pc = "repoint"
        /\ \E n \in eng[e].others : eng' = [eng EXCEPT ![e].others = @ \ {n}]
     \/ /\ eng[e].pc = "rewind" /\ Goto(e, "markRunning")
     \/ /\ eng[e].pc = "markRunning" /\ Goto(e, "publish")
     \/ /\ eng[e].pc = "publish" /\ Return(e)
  /\ UNCHANGED <<recordVars, cmds, nodeVars, serverVars, published>>

EngineStep(e) ==
  \/ MarkOffline(e) \/ MarkDegraded(e) \/ PickReplica(e) \/ MarkPromoting(e)
  \/ QueuePromote(e) \/ RecordPrimary(e) \/ MarkOnline(e) \/ RecordReplica(e)
  \/ Repoint(e) \/ Rewind(e) \/ MarkRunning(e) \/ Publish(e)

-----------------------------------------------------------------------------
(* Nodes: hosts, agents and PostgreSQL.                                    *)

\* One clock period without news from the nodes.
Tick ==
  /\ Prompt /\ ServerUp => \A n \in Nodes : host[n] # "dead" => age[n] < Timeout
  /\ age' = [n \in Nodes |-> IF age[n] < MaxAge THEN age[n] + 1 ELSE age[n]]
  /\ age' # age
  /\ UNCHANGED <<cluster, role, status, cmds, nodeVars, serverVars, published, eng, used>>

\* sendHeartbeat, first call: the node is online, whatever its PostgreSQL does.
Heartbeat(n) ==
  /\ host[n] # "dead" /\ ServerUp
  /\ SetStatus(n, "online")
  /\ age' = [age EXCEPT ![n] = 0]
  /\ UNCHANGED <<cluster, role, cmds, nodeVars, serverVars, published, eng, used>>

\* sendHeartbeat, second call: online or offline by the PostgreSQL process.
ReportStatus(n) ==
  /\ host[n] # "dead" /\ ServerUp
  /\ SetStatus(n, IF host[n] = "running" THEN "online" ELSE "offline")
  /\ UNCHANGED <<cluster, role, age, cmds, nodeVars, serverVars, published, eng, used>>

\* executeCommand succeeds.  Promote needs a running server; Rewind runs the
\* external pg_rewind, which needs it stopped; repoint_replica only writes
\* standby.signal.
Apply(n, c) ==
  \/ /\ c.action = "pg_promote" /\ host[n] = "running"
     /\ writable' = [writable EXCEPT ![n] = TRUE]
     /\ follows' = [follows EXCEPT ![n] = None]
  \/ /\ c.action = "pg_rewind" /\ host[n] = "pgdown"
     /\ follows' = [follows EXCEPT ![n] = c.target]
     /\ UNCHANGED writable
  \/ /\ c.action = "repoint_replica"
     /\ follows' = [follows EXCEPT ![n] = c.target]
     /\ UNCHANGED writable

\* FetchCommand, executeCommand, ReportCommandResult for the oldest pending
\* command.  A command stays pending until a result arrives: when the report
\* is lost it is fetched and executed again.  A failed repoint_replica is a
\* provisioning action of a cluster that is not creating: it degrades it.
ExecuteCommand(n) ==
  /\ host[n] # "dead" /\ ServerUp /\ cmds[n] # <<>>
  /\ LET c == Head(cmds[n])
         done == cmds' = [cmds EXCEPT ![n] = Tail(@)]
     IN \/ /\ Apply(n, c)
           /\ done \/ UNCHANGED cmds
           /\ UNCHANGED cluster
        \/ /\ done
           /\ cluster' = IF c.action = "repoint_replica" THEN "degraded" ELSE cluster
           /\ UNCHANGED <<follows, writable>>
  /\ UNCHANGED <<role, status, age, host, serverVars, published, eng, used>>

\* Failures and returns of a host and of its PostgreSQL.  PostgreSQL starts
\* in recovery exactly when a standby.signal file is there.
HostChanges(n) ==
  /\ \/ /\ host[n] # "dead" /\ used["faults"] < MaxFaults /\ Use("faults")
        /\ host' = [host EXCEPT ![n] = "dead"]
        /\ UNCHANGED writable
     \/ /\ host[n] = "running" /\ used["faults"] < MaxFaults /\ Use("faults")
        /\ host' = [host EXCEPT ![n] = "pgdown"]
        /\ UNCHANGED writable
     \/ /\ host[n] = "dead"
        /\ host' = [host EXCEPT ![n] = "pgdown"]
        /\ UNCHANGED <<writable, used>>
     \/ /\ host[n] = "pgdown"
        /\ host' = [host EXCEPT ![n] = "running"]
        /\ writable' = [writable EXCEPT ![n] = follows[n] = None]
        /\ UNCHANGED used
  /\ UNCHANGED <<recordVars, cmds, follows, serverVars, published, eng>>

ServerStep(s) ==
  \/ Start(s) \/ StartWithoutElector(s) \/ Elected(s) \/ SessionDone(s)
  \/ Crash(s) \/ Shutdown(s) \/ TickNilElector(s)
  \/ \E p \in Nodes : CheckClusterHealth(s, p)

NodeStep(n) ==
  Heartbeat(n) \/ ReportStatus(n) \/ ExecuteCommand(n) \/ HostChanges(n)

Next ==
  \/ \E s \in Servers : ServerStep(s)
  \/ \E r \in Requests, p \in Nodes : FailoverCluster(r, p)
  \/ \E e \in Engines : EngineStep(e) \/ WriteFails(e)
  \/ \E n \in Nodes : NodeStep(n)
  \/ LeaseExpires
  \/ Tick

Spec == Init /\ [][Next]_vars

-----------------------------------------------------------------------------
EngineType ==
  [pc : {"idle", "done"} \cup EarlySteps \cup LateSteps,
   failed : Nodes \cup {None}, best : Nodes \cup {None}, others : SUBSET Nodes]

\* The rows, the agents and the goroutines keep their types: the statuses
\* and roles are the ones models/ defines, ages stay below the cap.
TypeOK ==
  /\ cluster \in {"running", "degraded"}
  /\ role \in [Nodes -> {"primary", "replica"}]
  /\ status \in [Nodes -> {"online", "offline", "promoting"}]
  /\ age \in [Nodes -> 0..MaxAge]
  /\ cmds \in [Nodes -> Seq(Commands)]
  /\ host \in [Nodes -> {"dead", "pgdown", "running"}]
  /\ follows \in [Nodes -> Nodes \cup {None}]
  /\ writable \in [Nodes -> BOOLEAN]
  /\ proc \in [Servers -> {"down", "campaigning", "serving", "panicked"}]
  /\ elector \in [Servers -> {"nil", "live", "done"}]
  /\ lease \in Servers \cup {None}
  /\ published \in Nodes \cup {None}
  /\ eng \in [Engines -> EngineType]
  /\ used \in [BoundNames -> Nat]

AtRest == \A e \in Engines : eng[e].pc \in {"idle", "done"}

HasPrimary == Primaries # {}

\* Until a write fails the cluster has a recorded primary: executeFailover
\* records the new one before it demotes the old one (failover.go, UpdateRole
\* twice), so neither an interleaved heartbeat nor a crash between the writes
\* leaves GetPrimary empty-handed.
PrimaryRecorded == used["errors"] = 0 => HasPrimary

\* Between failovers there is one recorded primary, and at most one more for
\* every crash of a server in the middle of a failover and for every failed
\* write: overlapping heartbeats and repeated failovers add none.
ExtraPrimariesAccounted ==
  AtRest => Cardinality(Primaries) <= 1 + used["crashes"] + used["errors"]

PrimariesPromotedLast ==
  \A n \in Primaries :
    cmds[n] # <<>> => cmds[n][Len(cmds[n])].action = "pg_promote"

\* Until a write fails the agent of a recorded primary will execute pg_promote
\* after every command that makes it follow another node: commands of earlier
\* failovers still in its queue cannot turn it back into a standby.
PromoteIsLastForPrimary == used["errors"] = 0 => PrimariesPromotedLast

-----------------------------------------------------------------------------
\* Scheduling: goroutines run, tickers tick, live agents send heartbeats,
\* etcd expires the lease of a process that is gone.  Operators, failures and
\* restarts owe nothing.
Fairness ==
  /\ \A e \in Engines : WF_vars(EngineStep(e))
  /\ \A s \in Servers :
       WF_vars(Elected(s)) /\ WF_vars(\E p \in Nodes : CheckClusterHealth(s, p))
  /\ \A n \in Nodes : WF_vars(Heartbeat(n)) /\ WF_vars(ReportStatus(n))
  /\ WF_vars(LeaseExpires /\ UNCHANGED used)
  /\ WF_vars(Tick)

FairSpec == Spec /\ Fairness

\* Automatic failover: a host that died for good does not stay the recorded
\* primary while another node of the cluster is there to take over.
DeadPrimaryReplaced ==
  \A n \in Nodes :
    (<>[](host[n] = "dead") /\ <>[](\E m \in Nodes \ {n} : host[m] = "running"))
       => <>[](role[n] = "replica")
=============================================================================
