------------------------------ MODULE NodePool ------------------------------
(***************************************************************************)
(* The pool of nodes: agents that register with a token and are linked to  *)
(* a row of nodes by hostname, clusters that are made of idle nodes, and   *)
(* clusters and nodes that are deleted.                                    *)
(*                                                                         *)
(* RegisterAgent, CreateCluster and DeleteNode read first and write later, *)
(* with other calls in between.  What the agents do on their hosts is the  *)
(* subject of Provisioning and Lifecycle: here an installation is executed *)
(* and reported in one step, and a deactivation in two.                    *)
(***************************************************************************)
EXTENDS Naturals, Sequences, FiniteSets, SequencesExt

CONSTANTS Hosts, Names,     \* hostnames, names of clusters
          Tokens,           \* agent tokens; the token of a host is the one it was installed with
          MaxRows,          \* bound: rows of nodes
          MaxAgents,        \* bound: registrations
          MaxCreates,       \* bound: CreateCluster calls
          MaxDeletes,       \* bound: DeleteCluster and DeleteNode calls, revoked tokens
          MaxPoolFaults     \* bound: failing queries, deactivations and reports

ASSUME PoolAssumption ==
    /\ {MaxRows, MaxAgents, MaxCreates, MaxDeletes, MaxPoolFaults} \subseteq Nat
    /\ "none" \notin Names     \* stands for no cluster

VARIABLES nodeRows,     \* rows of nodes by number; leaving: its deactivation has been queued
          clusterNodes, \* per cluster row, the node ids it was created with; <<>> without a row
          agentTokens,  \* rows of agent_tokens
          hostToken,    \* the token in the host's configuration
          agentProc,    \* per host: off, registering, up, leaving (the marker is written) or marked
          agentKnows,   \* per host, the agent id its process was given
          registering,  \* RegisterAgent handlers that have looked for the hostname
          choosing,     \* CreateCluster handlers that have checked their nodes
          removing,     \* DeleteNode handlers that have checked their node
          tasks,        \* pending agent_commands
          finishing,    \* deactivations that were executed and not yet answered
          twins,        \* history: hosts with overlapping registrations or a failed lookup
          contested,    \* history: clusters committed while another call held one of their nodes
          nextRow, nextAgent, creates, deletes, poolFaults

poolVars == <<nodeRows, clusterNodes, agentTokens, hostToken, agentProc, agentKnows, registering,
              choosing, removing, tasks, finishing, twins, contested, nextRow, nextAgent, creates, deletes,
              poolFaults>>

RowIds == 1..MaxRows
NoNode == [host |-> "none"]
Exists(r) == nodeRows[r] # NoNode
Idle == "none"              \* cluster_id NULL
RowsOf(h) == {r \in RowIds : Exists(r) /\ nodeRows[r].host = h}
MembersOf(c) == {r \in RowIds : Exists(r) /\ nodeRows[r].cluster = c}
ListNodes(c) == MembersOf(c)   \* all pages together
RowOfAgent(a) == {r \in RowIds : Exists(r) /\ nodeRows[r].agent = a}

PoolInit ==
    /\ nodeRows = [r \in RowIds |-> NoNode]
    /\ clusterNodes = [c \in Names |-> <<>>]
    /\ agentTokens = Tokens /\ hostToken \in [Hosts -> Tokens]
    /\ agentProc = [h \in Hosts |-> "off"] /\ agentKnows = [h \in Hosts |-> 0]
    /\ registering = {} /\ choosing = {} /\ removing = {} /\ tasks = {} /\ finishing = {}
    /\ twins = {} /\ contested = {}
    /\ nextRow = 1 /\ nextAgent = 1 /\ creates = 0 /\ deletes = 0 /\ poolFaults = 0

Deletion == deletes < MaxDeletes /\ deletes' = deletes + 1
PoolFault == poolFaults < MaxPoolFaults /\ poolFaults' = poolFaults + 1

-----------------------------------------------------------------------------
(* Agents and tokens.                                                      *)

\* DeleteAgentToken revokes: validateAgentToken finds no row any more.
DeleteAgentToken(t) ==
    /\ t \in agentTokens
    /\ Deletion
    /\ agentTokens' = agentTokens \ {t}
    /\ UNCHANGED <<nodeRows, clusterNodes, hostToken, agentProc, agentKnows, registering, choosing,
                   removing, tasks, twins, contested, nextRow, nextAgent, creates, finishing,
                   poolFaults>>

GetByTokenHash(t) == t \in agentTokens

\* The marker a deactivated agent leaves in its work directory: the process
\* started there ends at once.  GetAgentInstallCommand makes a token, with which an operator installs the
\* agent again; the installation removes the deactivation marker.
IsDeactivated(h) == agentProc[h] = "marked"

InstallAgent(h, t) ==
    /\ IsDeactivated(h) \/ (agentProc[h] = "off" /\ ~GetByTokenHash(hostToken[h]))
    /\ agentTokens' = agentTokens \cup {t}
    /\ hostToken' = [hostToken EXCEPT ![h] = t]
    /\ agentProc' = [agentProc EXCEPT ![h] = "off"]
    /\ UNCHANGED <<nodeRows, clusterNodes, agentKnows, registering, choosing, removing, tasks, twins,
                   contested, nextRow, nextAgent, creates, deletes, finishing,
                   poolFaults>>

\* validateAgentToken, a new agent id, and GetByHostname, which takes any row of
\* the name.  Its error is ignored: then there is no row to link.
FindHostNever(h) == {0}
FindHost(h) == IF RowsOf(h) = {} THEN {0} ELSE RowsOf(h)

RegisterAgent(h) ==
    /\ agentProc[h] = "off"
    /\ GetByTokenHash(hostToken[h])
    /\ nextAgent <= MaxAgents
    /\ \E found \in FindHost(h) \cup {0} :
         /\ IF found \in FindHost(h) THEN UNCHANGED poolFaults ELSE PoolFault
         /\ registering' = registering \cup {[host |-> h, agent |-> nextAgent, found |-> found]}
         /\ twins' = IF found \notin FindHost(h) \/ \E g \in registering : g.host = h
                     THEN twins \cup {h} ELSE twins
    /\ nextAgent' = nextAgent + 1
    /\ agentProc' = [agentProc EXCEPT ![h] = "registering"]
    /\ agentKnows' = [agentKnows EXCEPT ![h] = nextAgent]
    /\ UNCHANGED <<nodeRows, clusterNodes, agentTokens, hostToken, choosing, removing, tasks, finishing,
                   contested, nextRow, creates, deletes>>

InsertNode(h, a) ==
    /\ nextRow <= MaxRows
    /\ nodeRows' = [nodeRows EXCEPT ![nextRow] = [host |-> h, agent |-> a, cluster |-> Idle,
                                                  role |-> "replica", leaving |-> FALSE]]
    /\ nextRow' = nextRow + 1

\* The answer reaches the process that asked, when it still runs.
Linked(g) == agentProc' = IF agentProc[g.host] = "registering" /\ agentKnows[g.host] = g.agent
                            THEN [agentProc EXCEPT ![g.host] = "up"] ELSE agentProc

\* The row found is given the agent id, or a new one is inserted.  An UPDATE of
\* a row that is gone links the agent to nothing.
LinkNode(g) ==
    /\ registering' = registering \ {g}
    /\ IF g.found = 0
       THEN InsertNode(g.host, g.agent)
       ELSE /\ nodeRows' = IF Exists(g.found) THEN [nodeRows EXCEPT ![g.found].agent = g.agent] ELSE nodeRows
            /\ UNCHANGED nextRow
    /\ Linked(g)
    /\ UNCHANGED <<clusterNodes, agentTokens, hostToken, agentKnows, choosing, removing, tasks, finishing,
                   twins, contested, nextAgent, creates, deletes, poolFaults>>

\* A failing Create or UpdateAgentID is only logged: the agent is answered and
\* no row has its id.  0 is a row without an agent.
LinkFails(g) ==
    /\ PoolFault
    /\ registering' = registering \ {g}
    /\ \/ UNCHANGED <<nodeRows, nextRow>>
       \/ g.found = 0 /\ InsertNode(g.host, 0)
    /\ Linked(g)
    /\ UNCHANGED <<clusterNodes, agentTokens, hostToken, agentKnows, choosing, removing, tasks, finishing,
                   twins, contested, nextAgent, creates, deletes>>

\* The process ends, also while its registration is under way; the service
\* manager starts it again.
StopAgent(h) ==
    /\ agentProc[h] \in {"up", "registering"}
    /\ nextAgent <= MaxAgents
    /\ agentProc' = [agentProc EXCEPT ![h] = "off"]
    /\ UNCHANGED <<nodeRows, clusterNodes, agentTokens, hostToken, agentKnows, registering, choosing,
                   removing, tasks, twins, contested, nextRow, nextAgent, creates, deletes, finishing,
                   poolFaults>>

-----------------------------------------------------------------------------
(* Clusters.                                                               *)

\* CreateCluster: the name is free, every node exists, is idle and has an agent.
GetByIDs(ids) == {r \in ToSet(ids) : Exists(r)}
SelectableAny(r) == nodeRows[r].agent # 0
Selectable(r) == nodeRows[r].cluster = Idle /\ nodeRows[r].agent # 0

CheckNodes(c, ids) ==
    /\ creates < MaxCreates
    /\ creates' = creates + 1
    /\ clusterNodes[c] = <<>>
    /\ GetByIDs(ids) = ToSet(ids)
    /\ \A r \in GetByIDs(ids) : Selectable(r)
    /\ choosing' = choosing \cup {[name |-> c, ids |-> ids, n |-> creates,
                                   agents |-> [i \in DOMAIN ids |-> nodeRows[ids[i]].agent]]}
    /\ UNCHANGED <<nodeRows, clusterNodes, agentTokens, hostToken, agentProc, agentKnows, registering,
                   removing, tasks, twins, contested, nextRow, nextAgent, deletes, finishing,
                   poolFaults>>

\* The transaction: the row of the cluster (names are unique), then the nodes,
\* the first as primary.  A node is written whatever its row says by now.
Assign(d) == [r \in RowIds |->
    IF Exists(r) /\ r \in ToSet(d.ids)
    THEN [nodeRows[r] EXCEPT !.cluster = d.name, !.role = IF r = d.ids[1] THEN "primary" ELSE "replica"]
    ELSE nodeRows[r]]

\* A node of d is claimed by another CreateCluster that has checked it, or by a
\* DeleteNode that has begun.
Claimed(d) ==
    \/ \E other \in choosing \ {d} : ToSet(other.ids) \cap ToSet(d.ids) # {}
    \/ \E r \in ToSet(d.ids) : ~Exists(r) \/ nodeRows[r].leaving \/ \E x \in removing : x.row = r

CommitCluster(d) ==
    /\ choosing' = choosing \ {d}
    /\ IF clusterNodes[d.name] # <<>>
       THEN UNCHANGED <<nodeRows, clusterNodes, tasks, contested>>
       ELSE /\ nodeRows' = Assign(d)
            /\ clusterNodes' = [clusterNodes EXCEPT ![d.name] = d.ids]
            /\ tasks' = tasks \cup
                 {[row |-> d.ids[i], agent |-> d.agents[i], action |-> "install", n |-> d.n] : i \in DOMAIN d.ids}
            /\ contested' = IF Claimed(d) THEN contested \cup {d.name} ELSE contested
    /\ UNCHANGED <<agentTokens, hostToken, agentProc, agentKnows, registering, removing, twins, nextRow,
                   nextAgent, creates, deletes, finishing,
                   poolFaults>>

\* DeleteCluster of a stopped cluster: pending commands of its nodes are
\* cancelled and the nodes go back to the pool, in one transaction.
DeleteCluster(c) ==
    /\ clusterNodes[c] # <<>>
    /\ Deletion
    /\ tasks' = {t \in tasks : t.row \notin MembersOf(c)}
    /\ nodeRows' = [r \in RowIds |->
                      IF r \in MembersOf(c) THEN [nodeRows[r] EXCEPT !.cluster = Idle, !.role = "none"]
                      ELSE nodeRows[r]]
    /\ clusterNodes' = [clusterNodes EXCEPT ![c] = <<>>]
    /\ contested' = contested \ {c}
    /\ UNCHANGED <<agentTokens, hostToken, agentProc, agentKnows, registering, choosing, removing, twins,
                   nextRow, nextAgent, creates, finishing,
                   poolFaults>>

-----------------------------------------------------------------------------
(* Nodes.                                                                  *)

\* DeleteNode: the node is idle when it is read ...
BeginDeleteNode(r) ==
    /\ Exists(r) /\ nodeRows[r].cluster = Idle
    /\ Deletion
    /\ removing' = removing \cup {[row |-> r, agent |-> nodeRows[r].agent, n |-> deletes]}
    /\ UNCHANGED <<nodeRows, clusterNodes, agentTokens, hostToken, agentProc, agentKnows, registering,
                   choosing, tasks, twins, contested, nextRow, nextAgent, creates, finishing,
                   poolFaults>>

\* ... its deactivation is queued and the row marked later; a row without an
\* agent is deleted.
QueueDeactivation(x) ==
    /\ x.agent # 0
    /\ removing' = removing \ {x}
    /\ tasks' = tasks \cup {[row |-> x.row, agent |-> x.agent, action |-> "deactivate", n |-> x.n]}
    /\ nodeRows' = IF Exists(x.row) THEN [nodeRows EXCEPT ![x.row].leaving = TRUE] ELSE nodeRows
    /\ UNCHANGED <<clusterNodes, agentTokens, hostToken, agentProc, agentKnows, registering, choosing,
                   finishing, twins, contested, nextRow, nextAgent, creates, deletes, poolFaults>>

DeleteUnlinked(x) ==
    /\ x.agent = 0
    /\ removing' = removing \ {x}
    /\ nodeRows' = [nodeRows EXCEPT ![x.row] = NoNode]
    /\ UNCHANGED <<clusterNodes, agentTokens, hostToken, agentProc, agentKnows, registering, choosing,
                   tasks, finishing, twins, contested, nextRow, nextAgent, creates, deletes, poolFaults>>

\* ListPendingLimit and requireCommandForAgent, for the node the agent is linked
\* to: commands of its agent id or of its node.
ForOwnId(h, t) == RowOfAgent(agentKnows[h]) # {} /\ t.agent = agentKnows[h]
ForAgent(h, t) == \E r \in RowOfAgent(agentKnows[h]) : t.agent = agentKnows[h] \/ t.row = r
Listed(h) == {t \in tasks : ForAgent(h, t)}

\* An installation is executed and reported; one whose report is lost stays
\* pending and is executed again.
RunTask(h, t) ==
    /\ agentProc[h] = "up"
    /\ t \in Listed(h) /\ t.action = "install"
    /\ tasks' = tasks \ {t}
    /\ UNCHANGED <<nodeRows, clusterNodes, agentTokens, hostToken, agentProc, agentKnows, registering,
                   choosing, removing, finishing, twins, contested, nextRow, nextAgent, creates, deletes,
                   poolFaults>>

\* agent_deactivate stops PostgreSQL and writes the marker; what follows cannot
\* make it fail.
Deactivate(h, t) ==
    /\ agentProc[h] = "up"
    /\ t \in Listed(h) /\ t.action = "deactivate"
    /\ agentProc' = [agentProc EXCEPT ![h] = "leaving"]
    /\ finishing' = finishing \cup {[host |-> h, task |-> t]}
    /\ UNCHANGED <<nodeRows, clusterNodes, agentTokens, hostToken, agentKnows, registering, choosing,
                   removing, tasks, twins, contested, nextRow, nextAgent, creates, deletes, poolFaults>>

\* Without the marker the command has failed, is reported as such, and the row
\* and the agent stay.
DeactivationFails(h, t) ==
    /\ agentProc[h] = "up"
    /\ t \in Listed(h) /\ t.action = "deactivate"
    /\ PoolFault
    /\ tasks' = tasks \ {t}
    /\ UNCHANGED <<nodeRows, clusterNodes, agentTokens, hostToken, agentProc, agentKnows, registering,
                   choosing, removing, finishing, twins, contested, nextRow, nextAgent, creates, deletes>>

\* The agent reports and ends whatever the answer is.  The handler records the
\* result and deletes the row, also of a command that was cancelled meanwhile;
\* it refuses a report for a node the agent is not linked to.
AnswerDeactivation(f) ==
    /\ finishing' = finishing \ {f}
    /\ agentProc' = [agentProc EXCEPT ![f.host] = "marked"]
    /\ IF ForAgent(f.host, f.task)
       THEN tasks' = tasks \ {f.task} /\ nodeRows' = [nodeRows EXCEPT ![f.task.row] = NoNode]
       ELSE UNCHANGED <<tasks, nodeRows>>
    /\ UNCHANGED <<clusterNodes, agentTokens, hostToken, agentKnows, registering, choosing, removing, twins,
                   contested, nextRow, nextAgent, creates, deletes, poolFaults>>

\* The process dies before its report, the report is lost, or the row is not
\* deleted after the result was recorded.
LoseDeactivation(f) ==
    /\ PoolFault
    /\ finishing' = finishing \ {f}
    /\ agentProc' = [agentProc EXCEPT ![f.host] = "marked"]
    /\ tasks' \in {tasks, tasks \ {f.task}}
    /\ UNCHANGED <<nodeRows, clusterNodes, agentTokens, hostToken, agentKnows, registering, choosing,
                   removing, twins, contested, nextRow, nextAgent, creates, deletes>>

\* node_ids of one or two nodes; a request does not name a node twice.
NodeLists == {<<r>> : r \in RowIds} \cup {<<p[1], p[2]>> : p \in {p \in RowIds \X RowIds : p[1] # p[2]}}

PoolNext ==
    \/ \E t \in Tokens : DeleteAgentToken(t) \/ \E h \in Hosts : InstallAgent(h, t)
    \/ \E h \in Hosts : RegisterAgent(h) \/ StopAgent(h)
    \/ \E g \in registering : LinkNode(g) \/ LinkFails(g)
    \/ \E c \in Names : DeleteCluster(c) \/ \E ids \in NodeLists : CheckNodes(c, ids)
    \/ \E d \in choosing : CommitCluster(d)
    \/ \E r \in RowIds : BeginDeleteNode(r)
    \/ \E x \in removing : QueueDeactivation(x) \/ DeleteUnlinked(x)
    \/ \E h \in Hosts, t \in tasks : RunTask(h, t) \/ Deactivate(h, t) \/ DeactivationFails(h, t)
    \/ \E f \in finishing : AnswerDeactivation(f) \/ LoseDeactivation(f)

PoolSpec == PoolInit /\ [][PoolNext]_poolVars

AgentStep(h) == \/ RegisterAgent(h)
                \/ \E g \in registering : g.host = h /\ LinkNode(g)
                \/ \E t \in tasks : RunTask(h, t) \/ Deactivate(h, t)
                \/ \E f \in finishing : f.host = h /\ AnswerDeactivation(f)

-----------------------------------------------------------------------------
(* Properties.                                                             *)

\* Rows, processes and requests are in states the code can be in, and no two
\* rows are linked to one agent.
PoolTypeOK ==
    /\ \A r \in RowIds : Exists(r) => /\ r < nextRow
                                      /\ nodeRows[r].cluster \in Names \cup {Idle}
                                      /\ nodeRows[r].role \in {"primary", "replica", "none"}
    /\ \A r1, r2 \in RowIds : Exists(r1) /\ Exists(r2) /\ nodeRows[r1].agent = nodeRows[r2].agent
                               /\ nodeRows[r1].agent # 0 => r1 = r2
    /\ \A h \in Hosts : agentProc[h] \in {"off", "registering", "up", "leaving", "marked"} /\ agentKnows[h] < nextAgent
    /\ \A r \in RowIds : Exists(r) /\ nodeRows[r].cluster # Idle => clusterNodes[nodeRows[r].cluster] # <<>>

\* A host has one row however often its agent restarts, is installed again or is
\* deleted, and whatever writes fail, unless two of its registrations overlap or
\* GetByHostname fails in one.
OneRowPerHost == \A h \in Hosts \ twins : Cardinality(RowsOf(h)) <= 1

\* A cluster keeps exactly the nodes it was created with, the first as its only
\* primary; only a CreateCluster that had checked one of them, or a DeleteNode
\* that had begun, before its transaction can take a node from it.
LostNodesAccounted ==
    \A c \in Names : clusterNodes[c] # <<>> /\ c \notin contested
        => /\ ListNodes(c) = ToSet(clusterNodes[c])
           /\ {r \in ListNodes(c) : nodeRows[r].role = "primary"} = {clusterNodes[c][1]}

\* A node to be deactivated does not stay with its agent, also when the agent
\* registers again in between: sooner or later the agent has executed the command
\* and left its host, or the command is no longer pending, because it failed or
\* was cancelled with a cluster that had taken the node.  The row is another
\* matter: it stays, with the command, when the report is lost.  Excepted are
\* hosts with two rows, an agent no row is linked to after a failed write, a
\* revoked token and the bound on registrations.
DeactivationRuns ==
    \A h \in Hosts :
        (\E t \in tasks : t.action = "deactivate" /\ t.row \in RowsOf(h))
        ~> \/ agentProc[h] = "marked"
           \/ ~ \E t \in tasks : t.action = "deactivate" /\ t.row \in RowsOf(h)
           \/ agentProc[h] = "up" /\ RowOfAgent(agentKnows[h]) = {}
           \/ h \in twins \/ hostToken[h] \notin agentTokens \/ nextAgent > MaxAgents

=============================================================================
