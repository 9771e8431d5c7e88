--------------------------- MODULE NodePoolProofs ---------------------------
(***************************************************************************)
(* What is proved of NodePool for any number of hosts, rows, clusters and  *)
(* calls, and whichever queries and reports fail: a host has one row       *)
(* unless its registrations overlap or its lookup failed, an agent is      *)
(* linked to one row, and a cluster keeps its nodes unless another call    *)
(* held one of them when it was committed.                                 *)
(***************************************************************************)
EXTENDS NodePool, FiniteSetTheorems, TLAPS

-----------------------------------------------------------------------------
(* The inductive invariant, in four parts.                                 *)

NodeRecords == [host : Hosts, agent : Nat, cluster : Names \cup {Idle},
         role : {"primary", "replica", "none"}, leaving : BOOLEAN]
Links == [host : Hosts, agent : Nat, found : RowIds \cup {0}]

\* Deactivations that are pending or were executed and not answered.
Queued == {t \in tasks : t.action = "deactivate"} \cup {f.task : f \in finishing}

\* Rows are inserted at nextRow and never again; what is queued names rows that
\* were inserted, and the row of a node to be deactivated is marked.
RowInv ==
    /\ nodeRows \in [RowIds -> NodeRecords \cup {NoNode}]
    /\ nextRow \in Nat \ {0}
    /\ \A r \in RowIds : Exists(r) => r < nextRow
    /\ registering \subseteq Links
    /\ \A d \in choosing : d.name \in Names /\ d.ids \in NodeLists
    /\ \A x \in removing : x.row \in RowIds /\ x.row < nextRow
    /\ \A t \in Queued :
          t.row \in RowIds /\ t.row < nextRow /\ (Exists(t.row) => nodeRows[t.row].leaving)
    /\ \A f \in finishing : f.host \in Hosts

\* An agent id is that of one registration under way or of one row.
AgentInv ==
    /\ nextAgent \in Nat \ {0}
    /\ agentProc \in [Hosts -> {"off", "registering", "up", "leaving", "marked"}]
    /\ agentKnows \in [Hosts -> Nat]
    /\ \A h \in Hosts : agentKnows[h] < nextAgent
    /\ \A g \in registering : g.agent < nextAgent /\ g.agent # 0
    /\ \A r \in RowIds : Exists(r) => nodeRows[r].agent < nextAgent
    /\ \A g1, g2 \in registering : g1.agent = g2.agent => g1 = g2
    /\ \A g \in registering, r \in RowIds : Exists(r) => nodeRows[r].agent # g.agent
    /\ \A r1, r2 \in RowIds : Exists(r1) /\ Exists(r2) /\ nodeRows[r1].agent = nodeRows[r2].agent
                               /\ nodeRows[r1].agent # 0 => r1 = r2

\* A host whose lookups succeed and do not overlap has at most one registration
\* under way, and a row that it did not find is not there.
AgentHostInv ==
    /\ \A g1, g2 \in registering : g1.host = g2.host /\ g1.host \notin twins => g1 = g2
    /\ \A g \in registering, r \in RowIds :
          g.host \notin twins /\ g.found = 0 /\ Exists(r) => nodeRows[r].host # g.host
    /\ \A r1, r2 \in RowIds :
          /\ Exists(r1) /\ Exists(r2) /\ nodeRows[r1].host = nodeRows[r2].host
          /\ nodeRows[r1].host \notin twins
          => r1 = r2

\* The nodes of a cluster that was committed without a rival: they are its
\* members, and no call that began earlier holds one of them.
Kept(c) ==
    /\ \A r \in RowIds : (Exists(r) /\ nodeRows[r].cluster = c) <=> r \in ToSet(clusterNodes[c])
    /\ \A r \in ToSet(clusterNodes[c]) :
          /\ nodeRows[r].role = "primary" <=> r = clusterNodes[c][1]
          /\ ~nodeRows[r].leaving
          /\ \A x \in removing : x.row # r
          /\ \A d \in choosing : r \notin ToSet(d.ids)

ClusterInv ==
    /\ clusterNodes \in [Names -> NodeLists \cup {<<>>}]
    /\ \A r \in RowIds : Exists(r) /\ nodeRows[r].cluster # Idle => clusterNodes[nodeRows[r].cluster] # <<>>
    /\ \A c \in Names : clusterNodes[c] # <<>> /\ c \notin contested => Kept(c)

-----------------------------------------------------------------------------
(* Rows and requests.                                                      *)

LEMMA NoNodeIsNoRow == NoNode \notin NodeRecords
  <1>1. SUFFICES ASSUME NoNode \in NodeRecords PROVE FALSE
    OBVIOUS
  <1>2. DOMAIN NoNode = {"host"} /\ "agent" \in DOMAIN NoNode
    BY <1>1 DEF NodeRecords, NoNode
  <1> QED
    BY <1>2

LEMMA RowFields ==
  ASSUME RowInv, NEW r \in RowIds
  PROVE  Exists(r) <=> nodeRows[r] \in NodeRecords
  BY NoNodeIsNoRow DEF RowInv, Exists

LEMMA RowIdsAreNumbers == MaxRows \in Nat /\ RowIds \subseteq Nat \ {0}
  BY PoolAssumption DEF RowIds

\* A list of nodes names its first one.
LEMMA ListFields ==
  ASSUME NEW ids \in NodeLists
  PROVE  /\ ids # <<>> /\ 1 \in DOMAIN ids
         /\ ids[1] \in ToSet(ids) /\ ToSet(ids) \subseteq RowIds
         /\ \A i \in DOMAIN ids : ids[i] \in RowIds
  <1>1. CASE \E r \in RowIds : ids = <<r>>
    <2>1. PICK r \in RowIds : ids = <<r>>
      BY <1>1
    <2>2. DOMAIN ids = {1} /\ ids[1] = r
      BY <2>1
    <2> QED
      BY <2>1, <2>2 DEF ToSet
  <1>2. CASE \E p \in RowIds \X RowIds : ids = <<p[1], p[2]>>
    <2>1. PICK p \in RowIds \X RowIds : ids = <<p[1], p[2]>>
      BY <1>2
    <2>2. p[1] \in RowIds /\ p[2] \in RowIds /\ DOMAIN ids = {1, 2} /\ ids[1] = p[1] /\ ids[2] = p[2]
      BY <2>1
    <2> QED
      BY <2>1, <2>2 DEF ToSet
  <1> QED
    BY <1>1, <1>2 DEF NodeLists

-----------------------------------------------------------------------------
(* What the actions do to the rows.                                        *)

\* Rows stay in place and keep what identifies them.
SameIdentity ==
    /\ nodeRows' \in [RowIds -> NodeRecords \cup {NoNode}]
    /\ \A r \in RowIds : Exists(r)' <=> Exists(r)
    /\ \A r \in RowIds : Exists(r) => /\ nodeRows'[r].host = nodeRows[r].host
                                      /\ nodeRows'[r].agent = nodeRows[r].agent
                                      /\ nodeRows'[r].leaving = nodeRows[r].leaving

LEMMA UnchangedRows == ASSUME RowInv, UNCHANGED nodeRows PROVE SameIdentity
  BY DEF SameIdentity, RowInv, Exists

\* A row is inserted where there was none.
LEMMA InsertedRow ==
  ASSUME RowInv, NEW h \in Hosts, NEW a \in Nat, InsertNode(h, a)
  PROVE  /\ nextRow \in RowIds /\ ~Exists(nextRow) /\ nextRow' = nextRow + 1
         /\ nodeRows' \in [RowIds -> NodeRecords \cup {NoNode}]
         /\ \A r \in RowIds : Exists(r)' <=> Exists(r) \/ r = nextRow
         /\ \A r \in RowIds \ {nextRow} : nodeRows'[r] = nodeRows[r]
         /\ nodeRows'[nextRow].host = h /\ nodeRows'[nextRow].agent = a
         /\ nodeRows'[nextRow].cluster = Idle
  <1> DEFINE row == [host |-> h, agent |-> a, cluster |-> Idle, role |-> "replica",
                     leaving |-> FALSE]
  <1>1. nextRow <= MaxRows /\ nodeRows' = [nodeRows EXCEPT ![nextRow] = row] /\ nextRow' = nextRow + 1
    BY DEF InsertNode
  <1>2. nextRow \in RowIds /\ ~Exists(nextRow)
    BY <1>1, RowIdsAreNumbers DEF RowInv, RowIds
  <1>3. row \in NodeRecords /\ row # NoNode
    BY DEF NodeRecords, NoNode
  <1>4. row.host = h /\ row.agent = a /\ row.cluster = Idle
    OBVIOUS
  <1> HIDE DEF row
  <1> QED
    BY <1>1, <1>2, <1>3, <1>4 DEF RowInv, Exists

\* A registration that ends inserts a row, with its agent id or, after a failed
\* write, with none; or it links the row it found; or, after a failed write, it
\* leaves the rows alone.
LEMMA LinkCases ==
  ASSUME RowInv, NEW g \in registering, LinkNode(g) \/ LinkFails(g)
  PROVE  /\ g.host \in Hosts /\ g.agent \in Nat
         /\ registering' = registering \ {g}
         /\ UNCHANGED <<clusterNodes, agentKnows, choosing, removing, tasks, finishing, twins, contested,
                        nextAgent>>
         /\ Linked(g)
         /\ \/ g.found = 0 /\ \E a \in {g.agent, 0} : InsertNode(g.host, a)
            \/ g.found # 0 /\ LinkNode(g)
            \/ UNCHANGED <<nodeRows, nextRow>>
  <1>1. g.host \in Hosts /\ g.agent \in Nat
    BY DEF RowInv, Links
  <1>2. CASE LinkNode(g)
    BY <1>1, <1>2 DEF LinkNode
  <1>3. CASE LinkFails(g)
    BY <1>1, <1>3 DEF LinkFails
  <1> QED
    BY <1>2, <1>3

\* The row found, when it is still there, gets the agent.
LEMMA LinkedRow ==
  ASSUME RowInv, NEW g \in registering, LinkNode(g), g.found # 0
  PROVE  /\ UNCHANGED nextRow /\ g.found \in RowIds
         /\ nodeRows' \in [RowIds -> NodeRecords \cup {NoNode}]
         /\ \A r \in RowIds : Exists(r)' <=> Exists(r)
         /\ \A r \in RowIds \ {g.found} : nodeRows'[r] = nodeRows[r]
         /\ Exists(g.found) => /\ nodeRows'[g.found].agent = g.agent
                               /\ nodeRows'[g.found].host = nodeRows[g.found].host
                               /\ nodeRows'[g.found].cluster = nodeRows[g.found].cluster
                               /\ nodeRows'[g.found].role = nodeRows[g.found].role
                               /\ nodeRows'[g.found].leaving = nodeRows[g.found].leaving
  <1>1. g.found \in RowIds /\ g.agent \in Nat /\ UNCHANGED nextRow
    BY DEF LinkNode, RowInv, Links
  <1>2. CASE ~Exists(g.found)
    <2>1. UNCHANGED nodeRows
      BY <1>2 DEF LinkNode
    <2> QED
      BY <1>1, <1>2, <2>1 DEF RowInv, Exists
  <1>3. CASE Exists(g.found)
    <2> DEFINE row == [nodeRows[g.found] EXCEPT !.agent = g.agent]
    <2>1. nodeRows' = [nodeRows EXCEPT ![g.found] = row]
      BY <1>1, <1>3 DEF LinkNode, RowInv
    <2>2. nodeRows[g.found] \in NodeRecords
      BY <1>1, <1>3, RowFields
    <2>3. /\ row \in NodeRecords /\ row.agent = g.agent /\ row.host = nodeRows[g.found].host
          /\ row.cluster = nodeRows[g.found].cluster /\ row.role = nodeRows[g.found].role
          /\ row.leaving = nodeRows[g.found].leaving
      BY <1>1, <2>2 DEF NodeRecords
    <2> HIDE DEF row
    <2>4. row # NoNode
      BY <2>3, NoNodeIsNoRow
    <2> QED
      BY <1>1, <1>3, <2>1, <2>3, <2>4 DEF RowInv, Exists
  <1> QED
    BY <1>2, <1>3

\* The assignments of CreateCluster.
LEMMA AssignedRows ==
  ASSUME RowInv, NEW d \in choosing, nodeRows' = Assign(d)
  PROVE  /\ SameIdentity
         /\ \A r \in RowIds \ ToSet(d.ids) : nodeRows'[r] = nodeRows[r]
         /\ \A r \in ToSet(d.ids) : Exists(r) =>
              /\ nodeRows'[r].cluster = d.name
              /\ nodeRows'[r].role = (IF r = d.ids[1] THEN "primary" ELSE "replica")
  <1>1. d.name \in Names /\ ToSet(d.ids) \subseteq RowIds
    BY ListFields DEF RowInv
  <1>2. ASSUME NEW r \in RowIds, ~(Exists(r) /\ r \in ToSet(d.ids))
        PROVE  nodeRows'[r] = nodeRows[r]
    BY <1>2 DEF Assign
  <1>3. ASSUME NEW r \in RowIds, Exists(r), r \in ToSet(d.ids)
        PROVE  /\ nodeRows'[r] \in NodeRecords /\ nodeRows'[r] # NoNode
               /\ nodeRows'[r].host = nodeRows[r].host /\ nodeRows'[r].agent = nodeRows[r].agent
               /\ nodeRows'[r].leaving = nodeRows[r].leaving /\ nodeRows'[r].cluster = d.name
               /\ nodeRows'[r].role = (IF r = d.ids[1] THEN "primary" ELSE "replica")
    <2> DEFINE row == [nodeRows[r] EXCEPT !.cluster = d.name,
                                          !.role = IF r = d.ids[1] THEN "primary" ELSE "replica"]
    <2>1. nodeRows[r] \in NodeRecords
      BY <1>3, RowFields
    <2>2. nodeRows'[r] = row
      BY <1>3 DEF Assign
    <2>3. /\ row \in NodeRecords /\ row.agent = nodeRows[r].agent /\ row.host = nodeRows[r].host
          /\ row.cluster = d.name /\ row.leaving = nodeRows[r].leaving
          /\ row.role = (IF r = d.ids[1] THEN "primary" ELSE "replica")
      BY <1>1, <2>1 DEF NodeRecords
    <2> HIDE DEF row
    <2>4. row # NoNode
      BY <2>3, NoNodeIsNoRow
    <2> QED
      BY <2>2, <2>3, <2>4
  <1>4. nodeRows' = [r \in RowIds |-> nodeRows'[r]]
    BY DEF Assign
  <1>5. ASSUME NEW r \in RowIds PROVE nodeRows'[r] \in NodeRecords \cup {NoNode}
    BY <1>2, <1>3 DEF RowInv
  <1>6. nodeRows' \in [RowIds -> NodeRecords \cup {NoNode}]
    BY <1>4, <1>5
  <1> QED
    BY <1>1, <1>2, <1>3, <1>6 DEF SameIdentity, Exists

\* DeleteCluster gives the members back.
LEMMA ReleasedRows ==
  ASSUME RowInv, NEW c \in Names, DeleteCluster(c)
  PROVE  /\ SameIdentity
         /\ \A r \in RowIds \ MembersOf(c) : nodeRows'[r] = nodeRows[r]
         /\ \A r \in MembersOf(c) : nodeRows'[r].cluster = Idle
  <1>1. ASSUME NEW r \in RowIds, r \notin MembersOf(c)
        PROVE  nodeRows'[r] = nodeRows[r]
    BY <1>1 DEF DeleteCluster
  <1>2. ASSUME NEW r \in RowIds, r \in MembersOf(c)
        PROVE  /\ nodeRows'[r] \in NodeRecords /\ nodeRows'[r] # NoNode /\ Exists(r)
               /\ nodeRows'[r].host = nodeRows[r].host /\ nodeRows'[r].agent = nodeRows[r].agent
               /\ nodeRows'[r].leaving = nodeRows[r].leaving /\ nodeRows'[r].cluster = Idle
    <2> DEFINE row == [nodeRows[r] EXCEPT !.cluster = Idle, !.role = "none"]
    <2>1. nodeRows[r] \in NodeRecords /\ Exists(r)
      BY <1>2, RowFields DEF MembersOf
    <2>2. nodeRows'[r] = row
      BY <1>2 DEF DeleteCluster
    <2>3. /\ row \in NodeRecords /\ row.agent = nodeRows[r].agent /\ row.host = nodeRows[r].host
          /\ row.cluster = Idle /\ row.leaving = nodeRows[r].leaving
      BY <2>1 DEF NodeRecords
    <2> HIDE DEF row
    <2>4. row # NoNode
      BY <2>3, NoNodeIsNoRow
    <2> QED
      BY <2>1, <2>2, <2>3, <2>4
  <1>3. nodeRows' = [r \in RowIds |-> nodeRows'[r]]
    BY DEF DeleteCluster
  <1>4. ASSUME NEW r \in RowIds PROVE nodeRows'[r] \in NodeRecords \cup {NoNode}
    BY <1>1, <1>2 DEF RowInv
  <1>5. nodeRows' \in [RowIds -> NodeRecords \cup {NoNode}]
    BY <1>3, <1>4
  <1>6. MembersOf(c) \subseteq RowIds
    BY DEF MembersOf
  <1> QED
    BY <1>1, <1>2, <1>5, <1>6 DEF SameIdentity, Exists

\* QueueDeactivation marks the row, when it is still there.
LEMMA MarkedRow ==
  ASSUME RowInv, NEW x \in removing, QueueDeactivation(x)
  PROVE  /\ nodeRows' \in [RowIds -> NodeRecords \cup {NoNode}] /\ x.row \in RowIds
         /\ \A r \in RowIds : Exists(r)' <=> Exists(r)
         /\ \A r \in RowIds \ {x.row} : nodeRows'[r] = nodeRows[r]
         /\ Exists(x.row) => /\ nodeRows'[x.row].leaving = TRUE
                             /\ nodeRows'[x.row].host = nodeRows[x.row].host
                             /\ nodeRows'[x.row].agent = nodeRows[x.row].agent
                             /\ nodeRows'[x.row].cluster = nodeRows[x.row].cluster
  <1>1. x.row \in RowIds
    BY DEF RowInv
  <1>2. CASE ~Exists(x.row)
    <2>1. UNCHANGED nodeRows
      BY <1>2 DEF QueueDeactivation
    <2> QED
      BY <1>1, <1>2, <2>1 DEF RowInv, Exists
  <1>3. CASE Exists(x.row)
    <2> DEFINE row == [nodeRows[x.row] EXCEPT !.leaving = TRUE]
    <2>1. nodeRows' = [nodeRows EXCEPT ![x.row] = row]
      BY <1>1, <1>3 DEF QueueDeactivation, RowInv
    <2>2. nodeRows[x.row] \in NodeRecords
      BY <1>1, <1>3, RowFields
    <2>3. /\ row \in NodeRecords /\ row.agent = nodeRows[x.row].agent /\ row.host = nodeRows[x.row].host
          /\ row.cluster = nodeRows[x.row].cluster /\ row.leaving = TRUE
      BY <2>2 DEF NodeRecords
    <2> HIDE DEF row
    <2>4. row # NoNode
      BY <2>3, NoNodeIsNoRow
    <2> QED
      BY <1>1, <1>3, <2>1, <2>3, <2>4 DEF RowInv, Exists
  <1> QED
    BY <1>2, <1>3

\* A row is deleted: of a deactivated agent, or without one.
LEMMA RemovedRow ==
  ASSUME RowInv, NEW row \in RowIds, nodeRows' = [nodeRows EXCEPT ![row] = NoNode]
  PROVE  /\ nodeRows' \in [RowIds -> NodeRecords \cup {NoNode}]
         /\ ~Exists(row)'
         /\ \A r \in RowIds \ {row} : nodeRows'[r] = nodeRows[r]
         /\ \A r \in RowIds : Exists(r)' => Exists(r) /\ nodeRows'[r] = nodeRows[r]
  BY DEF RowInv, Exists

-----------------------------------------------------------------------------
(* RowInv.                                                                 *)

LEMMA InitRowInv == PoolInit => RowInv
  BY DEF PoolInit, RowInv, Exists, Queued

LEMMA SameRowInv ==
  ASSUME RowInv, SameIdentity, UNCHANGED nextRow, registering' \subseteq Links,
         \A d \in choosing' : d.name \in Names /\ d.ids \in NodeLists,
         \A x \in removing' : x.row \in RowIds /\ x.row < nextRow,
         Queued' \subseteq Queued, \A f \in finishing' : f.host \in Hosts
  PROVE  RowInv'
  <1>1. \A r \in RowIds : Exists(r)' => r < nextRow
    BY DEF RowInv, SameIdentity
  <1>2. ASSUME NEW t \in Queued'
        PROVE  t.row \in RowIds /\ t.row < nextRow /\ (Exists(t.row)' => nodeRows'[t.row].leaving)
    BY <1>2 DEF RowInv, SameIdentity
  <1> QED
    BY <1>1, <1>2 DEF RowInv, SameIdentity

LEMMA NextRowInv == RowInv /\ AgentInv /\ [PoolNext]_poolVars => RowInv'
  <1> SUFFICES ASSUME RowInv, AgentInv, [PoolNext]_poolVars PROVE RowInv'
    OBVIOUS
  <1>0. ASSUME UNCHANGED <<tasks, finishing>>
        PROVE  Queued' \subseteq Queued /\ \A f \in finishing' : f.host \in Hosts
    BY <1>0 DEF Queued, RowInv
  \* Steps that leave the rows and the requests alone.
  <1>1. ASSUME UNCHANGED <<nodeRows, nextRow, registering, choosing, removing>>,
               Queued' \subseteq Queued, \A f \in finishing' : f.host \in Hosts
        PROVE  RowInv'
    <2>1. SameIdentity
      BY <1>1, UnchangedRows
    <2>2. /\ registering' \subseteq Links
          /\ \A d \in choosing' : d.name \in Names /\ d.ids \in NodeLists
          /\ \A x \in removing' : x.row \in RowIds /\ x.row < nextRow
      BY <1>1 DEF RowInv
    <2> QED
      BY <1>1, <2>1, <2>2, SameRowInv
  <1>2. ASSUME NEW h \in Hosts, NEW t, InstallAgent(h, t) \/ StopAgent(h) PROVE RowInv'
    <2>1. UNCHANGED <<nodeRows, nextRow, registering, choosing, removing, tasks, finishing>>
      BY <1>2 DEF InstallAgent, StopAgent
    <2> QED
      BY <1>0, <1>1, <2>1
  <1>3. ASSUME NEW t, DeleteAgentToken(t) PROVE RowInv'
    <2>1. UNCHANGED <<nodeRows, nextRow, registering, choosing, removing, tasks, finishing>>
      BY <1>3 DEF DeleteAgentToken
    <2> QED
      BY <1>0, <1>1, <2>1
  <1>4. ASSUME NEW h \in Hosts, RegisterAgent(h) PROVE RowInv'
    <2>1. UNCHANGED <<nodeRows, nextRow, choosing, removing, tasks, finishing>>
      BY <1>4 DEF RegisterAgent
    <2>2. PICK found \in FindHost(h) \cup {0} :
             registering' = registering \cup {[host |-> h, agent |-> nextAgent, found |-> found]}
      BY <1>4 DEF RegisterAgent
    <2>3. found \in RowIds \cup {0}
      BY DEF FindHost, RowsOf
    <2>4. registering' \subseteq Links
      BY <2>2, <2>3 DEF RowInv, AgentInv, Links
    <2>5. /\ \A d \in choosing' : d.name \in Names /\ d.ids \in NodeLists
          /\ \A x \in removing' : x.row \in RowIds /\ x.row < nextRow
      BY <2>1 DEF RowInv
    <2>6. SameIdentity
      BY <2>1, UnchangedRows
    <2> QED
      BY <1>0, <2>1, <2>4, <2>5, <2>6, SameRowInv
  <1>5. ASSUME NEW g \in registering, LinkNode(g) \/ LinkFails(g) PROVE RowInv'
    <2>1. /\ UNCHANGED <<choosing, removing, tasks, finishing>> /\ registering' \subseteq registering
          /\ g.host \in Hosts /\ g.agent \in Nat
          /\ \/ g.found = 0 /\ \E a \in {g.agent, 0} : InsertNode(g.host, a)
             \/ g.found # 0 /\ LinkNode(g)
             \/ UNCHANGED <<nodeRows, nextRow>>
      BY <1>5, LinkCases
    <2>0. Queued' = Queued
      BY <2>1 DEF Queued
    <2>2. ASSUME NEW a \in {g.agent, 0}, InsertNode(g.host, a) PROVE RowInv'
      <3>1. /\ nextRow \in RowIds /\ ~Exists(nextRow) /\ nextRow' = nextRow + 1
            /\ nodeRows' \in [RowIds -> NodeRecords \cup {NoNode}]
            /\ \A r \in RowIds : Exists(r)' <=> Exists(r) \/ r = nextRow
            /\ \A r \in RowIds \ {nextRow} : nodeRows'[r] = nodeRows[r]
        BY <2>1, <2>2, InsertedRow
      <3>2. nextRow' \in Nat \ {0} /\ \A r \in RowIds : Exists(r)' => r < nextRow'
        BY <3>1, RowIdsAreNumbers DEF RowInv
      <3>0. ASSUME NEW r \in RowIds, r < nextRow PROVE r < nextRow' /\ r # nextRow
        <4>1. r \in Nat /\ nextRow \in Nat /\ nextRow' = nextRow + 1
          BY <3>1, RowIdsAreNumbers
        <4> QED
          BY <3>0, <4>1
      <3>3. \A x \in removing : x.row \in RowIds /\ x.row < nextRow'
        BY <3>0 DEF RowInv
      <3>4. ASSUME NEW t \in Queued
            PROVE  t.row \in RowIds /\ t.row < nextRow' /\ (Exists(t.row)' => nodeRows'[t.row].leaving)
        <4>1. t.row \in RowIds /\ t.row < nextRow /\ (Exists(t.row) => nodeRows[t.row].leaving)
          BY <3>4 DEF RowInv
        <4>2. t.row < nextRow' /\ t.row # nextRow
          BY <3>0, <4>1
        <4> QED
          BY <3>1, <4>1, <4>2
      <3> QED
        BY <2>0, <2>1, <3>1, <3>2, <3>3, <3>4 DEF RowInv
    <2>3. CASE g.found # 0 /\ LinkNode(g)
      <3>2. /\ UNCHANGED nextRow /\ g.found \in RowIds
            /\ nodeRows' \in [RowIds -> NodeRecords \cup {NoNode}]
            /\ \A r \in RowIds : Exists(r)' <=> Exists(r)
            /\ \A r \in RowIds \ {g.found} : nodeRows'[r] = nodeRows[r]
            /\ Exists(g.found) => nodeRows'[g.found].leaving = nodeRows[g.found].leaving
        BY <2>3, LinkedRow
      <3>3. ASSUME NEW t \in Queued
            PROVE  t.row \in RowIds /\ t.row < nextRow /\ (Exists(t.row)' => nodeRows'[t.row].leaving)
        <4>1. t.row \in RowIds /\ t.row < nextRow /\ (Exists(t.row) => nodeRows[t.row].leaving)
          BY <3>3 DEF RowInv
        <4>2. CASE t.row = g.found
          BY <3>2, <4>1, <4>2
        <4>3. CASE t.row # g.found
          BY <3>2, <4>1, <4>3
        <4> QED
          BY <4>2, <4>3
      <3> QED
        BY <2>0, <2>1, <3>2, <3>3 DEF RowInv
    <2>4. CASE UNCHANGED <<nodeRows, nextRow>>
      <3>1. SameIdentity
        BY <2>4, UnchangedRows
      <3>2. /\ registering' \subseteq Links
            /\ \A d \in choosing' : d.name \in Names /\ d.ids \in NodeLists
            /\ \A x \in removing' : x.row \in RowIds /\ x.row < nextRow
        BY <2>1 DEF RowInv
      <3> QED
        BY <1>0, <2>1, <2>4, <3>1, <3>2, SameRowInv
    <2> QED
      BY <2>1, <2>2, <2>3, <2>4
  <1>6. ASSUME NEW c \in Names, DeleteCluster(c) PROVE RowInv'
    <2>1. SameIdentity
      BY <1>6, ReleasedRows
    <2>2. UNCHANGED <<nextRow, registering, choosing, removing, finishing>> /\ tasks' \subseteq tasks
      BY <1>6 DEF DeleteCluster
    <2>4. Queued' \subseteq Queued /\ \A f \in finishing' : f.host \in Hosts
      BY <2>2 DEF Queued, RowInv
    <2>3. /\ registering' \subseteq Links
          /\ \A d \in choosing' : d.name \in Names /\ d.ids \in NodeLists
          /\ \A x \in removing' : x.row \in RowIds /\ x.row < nextRow
      BY <2>2 DEF RowInv
    <2> QED
      BY <2>1, <2>2, <2>3, <2>4, SameRowInv
  <1>7. ASSUME NEW c \in Names, NEW ids \in NodeLists, CheckNodes(c, ids) PROVE RowInv'
    <2> DEFINE new == [name |-> c, ids |-> ids, n |-> creates,
                       agents |-> [i \in DOMAIN ids |-> nodeRows[ids[i]].agent]]
    <2>1. /\ UNCHANGED <<nodeRows, nextRow, registering, removing, tasks, finishing>>
          /\ choosing' = choosing \cup {new}
      BY <1>7 DEF CheckNodes
    <2>2. new.name = c /\ new.ids = ids
      OBVIOUS
    <2> HIDE DEF new
    <2>3. /\ registering' \subseteq Links
          /\ \A d \in choosing' : d.name \in Names /\ d.ids \in NodeLists
          /\ \A x \in removing' : x.row \in RowIds /\ x.row < nextRow
      BY <2>1, <2>2 DEF RowInv
    <2>4. SameIdentity
      BY <2>1, UnchangedRows
    <2> QED
      BY <1>0, <2>1, <2>3, <2>4, SameRowInv
  <1>8. ASSUME NEW d \in choosing, CommitCluster(d) PROVE RowInv'
    <2>1. UNCHANGED <<nextRow, registering, removing, finishing>> /\ choosing' \subseteq choosing
      BY <1>8 DEF CommitCluster
    <2>2. SameIdentity
      BY <1>8, UnchangedRows, AssignedRows DEF CommitCluster
    <2>3. Queued' \subseteq Queued /\ \A f \in finishing' : f.host \in Hosts
      <3>1. \A t \in tasks' : t.action = "deactivate" => t \in tasks
        BY <1>8 DEF CommitCluster
      <3> QED
        BY <2>1, <3>1 DEF Queued, RowInv
    <2>4. /\ registering' \subseteq Links
          /\ \A e \in choosing' : e.name \in Names /\ e.ids \in NodeLists
          /\ \A x \in removing' : x.row \in RowIds /\ x.row < nextRow
      BY <2>1 DEF RowInv
    <2> QED
      BY <2>1, <2>2, <2>3, <2>4, SameRowInv
  <1>9. ASSUME NEW r \in RowIds, BeginDeleteNode(r) PROVE RowInv'
    <2> DEFINE new == [row |-> r, agent |-> nodeRows[r].agent, n |-> deletes]
    <2>1. /\ UNCHANGED <<nodeRows, nextRow, registering, choosing, tasks, finishing>>
          /\ removing' = removing \cup {new}
      BY <1>9 DEF BeginDeleteNode
    <2>2. new.row = r /\ r < nextRow
      BY <1>9 DEF BeginDeleteNode, RowInv
    <2> HIDE DEF new
    <2>3. /\ registering' \subseteq Links
          /\ \A d \in choosing' : d.name \in Names /\ d.ids \in NodeLists
          /\ \A x \in removing' : x.row \in RowIds /\ x.row < nextRow
      BY <2>1, <2>2 DEF RowInv
    <2>4. SameIdentity
      BY <2>1, UnchangedRows
    <2> QED
      BY <1>0, <2>1, <2>3, <2>4, SameRowInv
  <1>10. ASSUME NEW x \in removing, QueueDeactivation(x) PROVE RowInv'
    <2> DEFINE new == [row |-> x.row, agent |-> x.agent, action |-> "deactivate", n |-> x.n]
    <2>1. /\ UNCHANGED <<nextRow, registering, choosing, finishing>> /\ removing' \subseteq removing
          /\ tasks' = tasks \cup {new}
      BY <1>10 DEF QueueDeactivation
    <2>2. new.row = x.row
      OBVIOUS
    <2> HIDE DEF new
    <2>3. /\ nodeRows' \in [RowIds -> NodeRecords \cup {NoNode}] /\ x.row \in RowIds
          /\ \A r \in RowIds : Exists(r)' <=> Exists(r)
          /\ \A r \in RowIds \ {x.row} : nodeRows'[r] = nodeRows[r]
          /\ Exists(x.row) => nodeRows'[x.row].leaving = TRUE
      BY <1>10, MarkedRow
    <2>4. ASSUME NEW t \in Queued'
          PROVE  t.row \in RowIds /\ t.row < nextRow /\ (Exists(t.row)' => nodeRows'[t.row].leaving)
      <3>0. t \in Queued \/ t = new
        BY <2>1, <2>4 DEF Queued
      <3>1. t.row \in RowIds /\ t.row < nextRow
        BY <2>2, <3>0 DEF RowInv
      <3>2. CASE t.row = x.row
        BY <2>3, <3>1, <3>2
      <3>3. CASE t.row # x.row
        <4>1. Exists(t.row) => nodeRows[t.row].leaving
          BY <2>2, <3>0, <3>3 DEF RowInv
        <4> QED
          BY <2>3, <3>1, <3>3, <4>1
      <3> QED
        BY <3>2, <3>3
    <2> QED
      BY <2>1, <2>3, <2>4 DEF RowInv
  \* Steps that delete a row and queue nothing.
  <1>11. ASSUME NEW row \in RowIds, nodeRows' = [nodeRows EXCEPT ![row] = NoNode],
                UNCHANGED <<nextRow, registering, choosing>>, removing' \subseteq removing,
                Queued' \subseteq Queued, \A f \in finishing' : f.host \in Hosts
         PROVE  RowInv'
    <2>1. /\ nodeRows' \in [RowIds -> NodeRecords \cup {NoNode}]
          /\ \A r \in RowIds : Exists(r)' => Exists(r) /\ nodeRows'[r] = nodeRows[r]
      BY <1>11, RemovedRow
    <2> QED
      BY <1>11, <2>1 DEF RowInv
  <1>12. ASSUME NEW x \in removing, DeleteUnlinked(x) PROVE RowInv'
    <2>1. /\ x.row \in RowIds /\ nodeRows' = [nodeRows EXCEPT ![x.row] = NoNode]
          /\ UNCHANGED <<nextRow, registering, choosing, tasks, finishing>> /\ removing' \subseteq removing
      BY <1>12 DEF DeleteUnlinked, RowInv
    <2> QED
      BY <1>0, <1>11, <2>1
  <1>13. ASSUME NEW h \in Hosts, NEW t \in tasks, RunTask(h, t) \/ DeactivationFails(h, t) PROVE RowInv'
    <2>1. UNCHANGED <<nodeRows, nextRow, registering, choosing, removing, finishing>> /\ tasks' \subseteq tasks
      BY <1>13 DEF RunTask, DeactivationFails
    <2>2. Queued' \subseteq Queued /\ \A f \in finishing' : f.host \in Hosts
      BY <2>1 DEF Queued, RowInv
    <2> QED
      BY <1>1, <2>1, <2>2
  <1>14. ASSUME NEW h \in Hosts, NEW t \in tasks, Deactivate(h, t) PROVE RowInv'
    <2> DEFINE new == [host |-> h, task |-> t]
    <2>1. /\ UNCHANGED <<nodeRows, nextRow, registering, choosing, removing, tasks>>
          /\ finishing' = finishing \cup {new} /\ t.action = "deactivate"
      BY <1>14 DEF Deactivate
    <2>2. new.host = h /\ new.task = t
      OBVIOUS
    <2> HIDE DEF new
    <2>3. Queued' \subseteq Queued /\ \A f \in finishing' : f.host \in Hosts
      BY <2>1, <2>2 DEF Queued, RowInv
    <2> QED
      BY <1>1, <2>1, <2>3
  <1>15. ASSUME NEW f \in finishing, AnswerDeactivation(f) \/ LoseDeactivation(f) PROVE RowInv'
    <2>1. /\ UNCHANGED <<nextRow, registering, choosing, removing>>
          /\ finishing' \subseteq finishing /\ tasks' \subseteq tasks
          /\ UNCHANGED nodeRows \/ nodeRows' = [nodeRows EXCEPT ![f.task.row] = NoNode]
      BY <1>15 DEF AnswerDeactivation, LoseDeactivation
    <2>2. Queued' \subseteq Queued /\ \A e \in finishing' : e.host \in Hosts
      BY <2>1 DEF Queued, RowInv
    <2>3. f.task \in Queued
      BY DEF Queued
    <2>4. f.task.row \in RowIds
      BY <2>3 DEF RowInv
    <2> QED
      BY <1>1, <1>11, <2>1, <2>2, <2>4
  <1>16. CASE UNCHANGED poolVars
    BY <1>0, <1>1, <1>16 DEF poolVars
  <1> QED
    BY <1>2, <1>3, <1>4, <1>5, <1>6, <1>7, <1>8, <1>9, <1>10, <1>12, <1>13, <1>14, <1>15, <1>16
    DEF PoolNext

-----------------------------------------------------------------------------
(* Agents and hosts: only registrations matter to them.                    *)

\* No row is inserted or linked.
NoNewLink ==
    \A r \in RowIds : Exists(r)' => /\ Exists(r)
                                    /\ nodeRows'[r].host = nodeRows[r].host
                                    /\ nodeRows'[r].agent = nodeRows[r].agent

LEMMA OthersLinkNothing ==
  ASSUME RowInv, AgentInv, [PoolNext]_poolVars
  PROVE  \/ \E h \in Hosts : RegisterAgent(h)
         \/ \E g \in registering : LinkNode(g) \/ LinkFails(g)
         \/ /\ NoNewLink /\ UNCHANGED <<registering, nextAgent, agentKnows, twins>>
            /\ agentProc' \in [Hosts -> {"off", "registering", "up", "leaving", "marked"}]
  <1> DEFINE Same == UNCHANGED <<registering, nextAgent, agentKnows, twins>>
             Proc == agentProc' \in [Hosts -> {"off", "registering", "up", "leaving", "marked"}]
  <1>1. SameIdentity => NoNewLink
    BY DEF SameIdentity, NoNewLink
  <1>2. ASSUME UNCHANGED nodeRows PROVE NoNewLink
    BY <1>1, <1>2, UnchangedRows
  <1>3. ASSUME NEW t, DeleteAgentToken(t) PROVE NoNewLink /\ Same /\ Proc
    BY <1>2, <1>3 DEF DeleteAgentToken, AgentInv
  <1>4. ASSUME NEW h \in Hosts, NEW t, InstallAgent(h, t) PROVE NoNewLink /\ Same /\ Proc
    BY <1>2, <1>4 DEF InstallAgent, AgentInv
  <1>5. ASSUME NEW h \in Hosts, StopAgent(h) PROVE NoNewLink /\ Same /\ Proc
    BY <1>2, <1>5 DEF StopAgent, AgentInv
  <1>6. ASSUME NEW c \in Names, DeleteCluster(c) PROVE NoNewLink /\ Same /\ Proc
    <2>1. NoNewLink
      BY <1>1, <1>6, ReleasedRows
    <2> QED
      BY <1>6, <2>1 DEF DeleteCluster, AgentInv
  <1>7. ASSUME NEW c, NEW ids, CheckNodes(c, ids) PROVE NoNewLink /\ Same /\ Proc
    BY <1>2, <1>7 DEF CheckNodes, AgentInv
  <1>8. ASSUME NEW d \in choosing, CommitCluster(d) PROVE NoNewLink /\ Same /\ Proc
    <2>1. NoNewLink
      BY <1>1, <1>2, <1>8, AssignedRows DEF CommitCluster
    <2> QED
      BY <1>8, <2>1 DEF CommitCluster, AgentInv
  <1>9. ASSUME NEW r, BeginDeleteNode(r) PROVE NoNewLink /\ Same /\ Proc
    BY <1>2, <1>9 DEF BeginDeleteNode, AgentInv
  <1>10. ASSUME NEW x \in removing, QueueDeactivation(x) PROVE NoNewLink /\ Same /\ Proc
    <2>1. NoNewLink
      <3>1. /\ x.row \in RowIds
            /\ \A r \in RowIds : Exists(r)' <=> Exists(r)
            /\ \A r \in RowIds \ {x.row} : nodeRows'[r] = nodeRows[r]
            /\ Exists(x.row) => /\ nodeRows'[x.row].host = nodeRows[x.row].host
                                /\ nodeRows'[x.row].agent = nodeRows[x.row].agent
        BY <1>10, MarkedRow
      <3>2. ASSUME NEW r \in RowIds, Exists(r)'
            PROVE  /\ Exists(r) /\ nodeRows'[r].host = nodeRows[r].host
                   /\ nodeRows'[r].agent = nodeRows[r].agent
        <4>1. CASE r = x.row
          BY <3>1, <3>2, <4>1
        <4>2. CASE r # x.row
          BY <3>1, <3>2, <4>2
        <4> QED
          BY <4>1, <4>2
      <3> QED
        BY <3>2 DEF NoNewLink
    <2> QED
      BY <1>10, <2>1 DEF QueueDeactivation, AgentInv
  <1>11. ASSUME NEW row \in RowIds, nodeRows' = [nodeRows EXCEPT ![row] = NoNode] PROVE NoNewLink
    <2>1. \A r \in RowIds : Exists(r)' => Exists(r) /\ nodeRows'[r] = nodeRows[r]
      BY <1>11, RemovedRow
    <2> QED
      BY <2>1 DEF NoNewLink
  <1>14. ASSUME NEW x \in removing, DeleteUnlinked(x) PROVE NoNewLink /\ Same /\ Proc
    <2>1. x.row \in RowIds /\ nodeRows' = [nodeRows EXCEPT ![x.row] = NoNode]
      BY <1>14 DEF DeleteUnlinked, RowInv
    <2> QED
      BY <1>11, <1>14, <2>1 DEF DeleteUnlinked, AgentInv
  <1>15. ASSUME NEW h \in Hosts, NEW t, RunTask(h, t) \/ DeactivationFails(h, t)
         PROVE  NoNewLink /\ Same /\ Proc
    BY <1>2, <1>15 DEF RunTask, DeactivationFails, AgentInv
  <1>16. ASSUME NEW h \in Hosts, NEW t, Deactivate(h, t) PROVE NoNewLink /\ Same /\ Proc
    BY <1>2, <1>16 DEF Deactivate, AgentInv
  <1>17. ASSUME NEW f \in finishing, AnswerDeactivation(f) \/ LoseDeactivation(f)
         PROVE  NoNewLink /\ Same /\ Proc
    <2>1. f.task \in Queued
      BY DEF Queued
    <2>2. f.task.row \in RowIds /\ f.host \in Hosts
      BY <2>1 DEF RowInv
    <2>3. UNCHANGED nodeRows \/ nodeRows' = [nodeRows EXCEPT ![f.task.row] = NoNode]
      BY <1>17 DEF AnswerDeactivation, LoseDeactivation
    <2>4. NoNewLink
      BY <1>2, <1>11, <2>2, <2>3
    <2>5. Same /\ Proc
      BY <1>17, <2>2 DEF AnswerDeactivation, LoseDeactivation, AgentInv
    <2> QED
      BY <2>4, <2>5
  <1>12. CASE UNCHANGED poolVars
    BY <1>2, <1>12 DEF poolVars, AgentInv
  <1> HIDE DEF Same, Proc
  <1>13. \/ \E h \in Hosts : RegisterAgent(h)
         \/ \E g \in registering : LinkNode(g) \/ LinkFails(g)
         \/ NoNewLink /\ Same /\ Proc
    BY <1>3, <1>4, <1>5, <1>6, <1>7, <1>8, <1>9, <1>10, <1>12, <1>14, <1>15, <1>16, <1>17
    DEF PoolNext, Same, Proc
  <1> QED
    BY <1>13 DEF Same, Proc

LEMMA InitAgentInv == PoolInit => AgentInv
  BY DEF PoolInit, AgentInv, Exists

LEMMA NextAgentInv == RowInv /\ AgentInv /\ [PoolNext]_poolVars => AgentInv'
  <1> SUFFICES ASSUME RowInv, AgentInv, [PoolNext]_poolVars PROVE AgentInv'
    OBVIOUS
  <1>1. CASE /\ NoNewLink /\ UNCHANGED <<registering, nextAgent, agentKnows, twins>>
             /\ agentProc' \in [Hosts -> {"off", "registering", "up", "leaving", "marked"}]
    BY <1>1 DEF AgentInv, NoNewLink
  <1>2. ASSUME NEW h \in Hosts, RegisterAgent(h) PROVE AgentInv'
    <2>1. PICK found : registering' = registering \cup {[host |-> h, agent |-> nextAgent, found |-> found]}
      BY <1>2 DEF RegisterAgent
    <2> DEFINE new == [host |-> h, agent |-> nextAgent, found |-> found]
    <2>2. new.agent = nextAgent /\ registering' = registering \cup {new}
      BY <2>1
    <2> HIDE DEF new
    <2>3. UNCHANGED nodeRows /\ nextAgent' = nextAgent + 1
      BY <1>2 DEF RegisterAgent
    <2>4. nextAgent \in Nat \ {0} /\ nextAgent' \in Nat \ {0} /\ nextAgent < nextAgent'
      BY <2>3 DEF AgentInv
    <2>5. agentProc' \in [Hosts -> {"off", "registering", "up", "leaving", "marked"}] /\ agentKnows' \in [Hosts -> Nat]
      BY <1>2, <2>4 DEF RegisterAgent, AgentInv
    <2>6. ASSUME NEW i \in Hosts PROVE agentKnows'[i] < nextAgent'
      <3>1. agentKnows'[i] = nextAgent \/ agentKnows'[i] = agentKnows[i]
        BY <1>2 DEF RegisterAgent, AgentInv
      <3>2. agentKnows[i] < nextAgent /\ agentKnows[i] \in Nat
        BY DEF AgentInv
      <3> QED
        BY <2>3, <2>4, <3>1, <3>2
    <2>7. ASSUME NEW g \in registering PROVE g.agent < nextAgent /\ g.agent # nextAgent /\ g.agent < nextAgent'
      <3>1. g.agent \in Nat /\ g.agent < nextAgent
        BY DEF RowInv, Links, AgentInv
      <3> QED
        BY <2>3, <2>4, <3>1
    <2>8. ASSUME NEW r \in RowIds, Exists(r) PROVE nodeRows[r].agent # nextAgent /\ nodeRows[r].agent < nextAgent'
      <3>1. nodeRows[r].agent \in Nat /\ nodeRows[r].agent < nextAgent
        BY <2>8, RowFields DEF NodeRecords, AgentInv
      <3> QED
        BY <2>3, <2>4, <3>1
    <2>9. \A r \in RowIds : Exists(r)' <=> Exists(r)
      BY <2>3 DEF Exists
    <2>10. /\ \A g \in registering' : g.agent < nextAgent' /\ g.agent # 0
           /\ \A g1, g2 \in registering' : g1.agent = g2.agent => g1 = g2
      BY <2>2, <2>4, <2>7 DEF AgentInv
    <2>11. \A g \in registering', r \in RowIds : Exists(r) => nodeRows[r].agent # g.agent
      BY <2>2, <2>8 DEF AgentInv
    <2> QED
      BY <2>3, <2>4, <2>5, <2>6, <2>8, <2>9, <2>10, <2>11 DEF AgentInv
  <1>3. ASSUME NEW g \in registering, LinkNode(g) \/ LinkFails(g) PROVE AgentInv'
    <2>1. /\ registering' = registering \ {g} /\ UNCHANGED <<nextAgent, agentKnows>>
          /\ g.host \in Hosts /\ g.agent \in Nat /\ Linked(g)
          /\ \/ g.found = 0 /\ \E a \in {g.agent, 0} : InsertNode(g.host, a)
             \/ g.found # 0 /\ LinkNode(g)
             \/ UNCHANGED <<nodeRows, nextRow>>
      BY <1>3, LinkCases
    <2>2. agentProc' \in [Hosts -> {"off", "registering", "up", "leaving", "marked"}]
      BY <2>1 DEF Linked, AgentInv
    \* At most one row is given another agent, which is that of g or none.
    <2>3. PICK row : \A r \in RowIds : Exists(r)' =>
                        \/ r = row /\ nodeRows'[r].agent \in {g.agent, 0}
                        \/ Exists(r) /\ nodeRows'[r].agent = nodeRows[r].agent
      <3>1. ASSUME NEW a \in {g.agent, 0}, InsertNode(g.host, a)
            PROVE  \A r \in RowIds : Exists(r)' =>
                        \/ r = nextRow /\ nodeRows'[r].agent \in {g.agent, 0}
                        \/ Exists(r) /\ nodeRows'[r].agent = nodeRows[r].agent
        <4>1. /\ \A r \in RowIds : Exists(r)' <=> Exists(r) \/ r = nextRow
              /\ \A r \in RowIds \ {nextRow} : nodeRows'[r] = nodeRows[r]
              /\ nodeRows'[nextRow].agent = a
          BY <2>1, <3>1, InsertedRow
        <4> QED
          BY <4>1
      <3>2. ASSUME g.found # 0, LinkNode(g)
            PROVE  \A r \in RowIds : Exists(r)' =>
                        \/ r = g.found /\ nodeRows'[r].agent \in {g.agent, 0}
                        \/ Exists(r) /\ nodeRows'[r].agent = nodeRows[r].agent
        <4>1. /\ \A r \in RowIds : Exists(r)' <=> Exists(r)
              /\ \A r \in RowIds \ {g.found} : nodeRows'[r] = nodeRows[r]
              /\ Exists(g.found) => nodeRows'[g.found].agent = g.agent
          BY <3>2, LinkedRow
        <4> QED
          BY <4>1
      <3>3. ASSUME UNCHANGED nodeRows
            PROVE  \A r \in RowIds : Exists(r)' => Exists(r) /\ nodeRows'[r].agent = nodeRows[r].agent
        BY <3>3 DEF Exists
      <3> QED
        BY <2>1, <3>1, <3>2, <3>3
    <2>4. /\ g.agent < nextAgent /\ g.agent # 0 /\ 0 < nextAgent
          /\ \A k \in registering' : k.agent # g.agent /\ k.agent # 0
      BY <2>1 DEF AgentInv
    <2>5. \A r \in RowIds : Exists(r)' => nodeRows'[r].agent < nextAgent
      BY <2>3, <2>4 DEF AgentInv
    <2>6. \A k \in registering', r \in RowIds : Exists(r)' => nodeRows'[r].agent # k.agent
      BY <2>1, <2>3, <2>4 DEF AgentInv
    <2>7. ASSUME NEW r1 \in RowIds, NEW r2 \in RowIds, Exists(r1)', Exists(r2)',
                 nodeRows'[r1].agent = nodeRows'[r2].agent, nodeRows'[r1].agent # 0
          PROVE  r1 = r2
      <3>1. CASE nodeRows'[r1].agent = g.agent
        <4>1. \A r \in RowIds : Exists(r) => nodeRows[r].agent # g.agent
          BY DEF AgentInv
        <4> QED
          BY <2>3, <2>7, <3>1, <4>1
      <3>2. CASE nodeRows'[r1].agent # g.agent
        <4>1. /\ Exists(r1) /\ nodeRows'[r1].agent = nodeRows[r1].agent
              /\ Exists(r2) /\ nodeRows'[r2].agent = nodeRows[r2].agent
          BY <2>3, <2>7, <3>2
        <4> QED
          BY <2>7, <4>1 DEF AgentInv
      <3> QED
        BY <3>1, <3>2
    <2> QED
      BY <2>1, <2>2, <2>4, <2>5, <2>6, <2>7 DEF AgentInv
  <1> QED
    BY <1>1, <1>2, <1>3, OthersLinkNothing

LEMMA InitHostInv == PoolInit => AgentHostInv
  BY DEF PoolInit, AgentHostInv, Exists

LEMMA NextHostInv == RowInv /\ AgentInv /\ AgentHostInv /\ [PoolNext]_poolVars => AgentHostInv'
  <1> SUFFICES ASSUME RowInv, AgentInv, AgentHostInv, [PoolNext]_poolVars PROVE AgentHostInv'
    OBVIOUS
  <1>1. CASE NoNewLink /\ UNCHANGED <<registering, twins>>
    BY <1>1 DEF AgentHostInv, NoNewLink
  <1>2. ASSUME NEW h \in Hosts, RegisterAgent(h) PROVE AgentHostInv'
    <2>1. PICK found \in FindHost(h) \cup {0} :
             /\ registering' = registering \cup {[host |-> h, agent |-> nextAgent, found |-> found]}
             /\ twins' = IF found \notin FindHost(h) \/ \E g \in registering : g.host = h
                         THEN twins \cup {h} ELSE twins
      BY <1>2 DEF RegisterAgent
    <2> DEFINE new == [host |-> h, agent |-> nextAgent, found |-> found]
    <2>2. new.host = h /\ new.found = found /\ registering' = registering \cup {new}
      BY <2>1
    <2> HIDE DEF new
    <2>3. UNCHANGED nodeRows /\ twins \subseteq twins' /\ \A r \in RowIds : Exists(r)' <=> Exists(r)
      BY <1>2, <2>1 DEF RegisterAgent, Exists
    <2>4. h \notin twins' => found \in FindHost(h) /\ \A g \in registering : g.host # h
      BY <2>1
    <2>5. h \notin twins' /\ found = 0 => \A r \in RowIds : Exists(r) => nodeRows[r].host # h
      <3>1. 0 \notin RowsOf(h)
        BY RowIdsAreNumbers DEF RowsOf
      <3>2. h \notin twins' /\ found = 0 => RowsOf(h) = {}
        BY <2>4, <3>1 DEF FindHost
      <3> QED
        BY <3>2 DEF RowsOf
    <2>6. \A g1, g2 \in registering' : g1.host = g2.host /\ g1.host \notin twins' => g1 = g2
      BY <2>2, <2>3, <2>4 DEF AgentHostInv
    <2>7. \A g \in registering', r \in RowIds :
             g.host \notin twins' /\ g.found = 0 /\ Exists(r) => nodeRows[r].host # g.host
      BY <2>2, <2>3, <2>5 DEF AgentHostInv
    <2>8. \A r1, r2 \in RowIds :
             /\ Exists(r1) /\ Exists(r2) /\ nodeRows[r1].host = nodeRows[r2].host
             /\ nodeRows[r1].host \notin twins'
             => r1 = r2
      BY <2>3 DEF AgentHostInv
    <2> QED
      BY <2>3, <2>6, <2>7, <2>8 DEF AgentHostInv
  <1>3. ASSUME NEW g \in registering, LinkNode(g) \/ LinkFails(g) PROVE AgentHostInv'
    <2>1. /\ registering' = registering \ {g} /\ UNCHANGED twins
          /\ g.host \in Hosts /\ g.agent \in Nat
          /\ \/ g.found = 0 /\ \E a \in {g.agent, 0} : InsertNode(g.host, a)
             \/ g.found # 0 /\ LinkNode(g)
             \/ UNCHANGED <<nodeRows, nextRow>>
      BY <1>3, LinkCases
    <2>2. \A g1, g2 \in registering' : g1.host = g2.host /\ g1.host \notin twins' => g1 = g2
      BY <2>1 DEF AgentHostInv
    <2>3. ASSUME NEW a \in {g.agent, 0}, g.found = 0, InsertNode(g.host, a) PROVE AgentHostInv'
      <3>1. /\ \A r \in RowIds : Exists(r)' /\ r # nextRow => Exists(r) /\ nodeRows'[r] = nodeRows[r]
            /\ nodeRows'[nextRow].host = g.host
        BY <2>1, <2>3, InsertedRow
      <3>2. ASSUME NEW k \in registering', NEW r \in RowIds, k.host \notin twins, k.found = 0, Exists(r)'
            PROVE  nodeRows'[r].host # k.host
        <4>1. k \in registering /\ k # g
          BY <2>1
        <4>2. k.host # g.host
          BY <3>2, <4>1 DEF AgentHostInv
        <4>3. CASE r = nextRow
          BY <3>1, <4>2, <4>3
        <4>4. CASE r # nextRow
          BY <3>1, <3>2, <4>1, <4>4 DEF AgentHostInv
        <4> QED
          BY <4>3, <4>4
      <3>3. ASSUME NEW r1 \in RowIds, NEW r2 \in RowIds, Exists(r1)', Exists(r2)',
                   nodeRows'[r1].host = nodeRows'[r2].host, nodeRows'[r1].host \notin twins
            PROVE  r1 = r2
        <4>1. CASE r1 # nextRow /\ r2 # nextRow
          BY <3>1, <3>3, <4>1 DEF AgentHostInv
        <4>2. CASE r1 = nextRow /\ r2 # nextRow
          BY <2>3, <3>1, <3>3, <4>2 DEF AgentHostInv
        <4>3. CASE r1 # nextRow /\ r2 = nextRow
          BY <2>3, <3>1, <3>3, <4>3 DEF AgentHostInv
        <4> QED
          BY <4>1, <4>2, <4>3
      <3> QED
        BY <2>1, <2>2, <3>2, <3>3 DEF AgentHostInv
    <2>4. CASE g.found # 0 /\ LinkNode(g)
      <3>1. \A r \in RowIds : Exists(r)' => Exists(r) /\ nodeRows'[r].host = nodeRows[r].host
        BY <2>4, LinkedRow
      <3> QED
        BY <2>1, <2>2, <3>1 DEF AgentHostInv
    <2>5. CASE UNCHANGED nodeRows
      <3>1. \A r \in RowIds : Exists(r)' => Exists(r) /\ nodeRows'[r].host = nodeRows[r].host
        BY <2>5 DEF Exists
      <3> QED
        BY <2>1, <2>2, <3>1 DEF AgentHostInv
    <2> QED
      BY <2>1, <2>3, <2>4, <2>5
  <1> QED
    BY <1>1, <1>2, <1>3, OthersLinkNothing

-----------------------------------------------------------------------------
(* Clusters.                                                               *)

LEMMA InitClusterInv == PoolInit => ClusterInv
  BY DEF PoolInit, ClusterInv, Exists

LEMMA ClusterFields ==
  ASSUME ClusterInv, NEW c \in Names, clusterNodes[c] # <<>>
  PROVE  /\ c # Idle /\ clusterNodes[c] \in NodeLists
         /\ ToSet(clusterNodes[c]) \subseteq RowIds /\ clusterNodes[c][1] \in ToSet(clusterNodes[c])
  <1>1. clusterNodes[c] \in NodeLists /\ c # Idle
    BY PoolAssumption DEF ClusterInv, Idle
  <1> QED
    BY <1>1, ListFields

\* A cluster keeps its nodes in a step that leaves its members and their marks
\* alone and lets no other call get hold of one.
LEMMA KeptStays ==
  ASSUME NEW c \in Names, Kept(c), clusterNodes'[c] = clusterNodes[c],
         ToSet(clusterNodes[c]) \subseteq RowIds,
         \A r \in RowIds : (Exists(r)' /\ nodeRows'[r].cluster = c) <=> (Exists(r) /\ nodeRows[r].cluster = c),
         \A r \in ToSet(clusterNodes[c]) : /\ nodeRows'[r].role = nodeRows[r].role
                                           /\ nodeRows'[r].leaving = nodeRows[r].leaving,
         \A x \in removing' : x \in removing \/ x.row \notin ToSet(clusterNodes[c]),
         \A d \in choosing' : d \in choosing \/ ToSet(d.ids) \cap ToSet(clusterNodes[c]) = {}
  PROVE  Kept(c)'
  <1>1. \A r \in RowIds : (Exists(r) /\ nodeRows[r].cluster = c)' <=> r \in ToSet(clusterNodes[c])
    BY DEF Kept
  <1>2. ASSUME NEW r \in ToSet(clusterNodes[c])
        PROVE  /\ nodeRows'[r].role = "primary" <=> r = clusterNodes[c][1]
               /\ ~nodeRows'[r].leaving
               /\ \A x \in removing' : x.row # r
               /\ \A d \in choosing' : r \notin ToSet(d.ids)
    BY DEF Kept
  <1> QED
    BY <1>1, <1>2 DEF Kept

LEMMA NextClusterInv == RowInv /\ ClusterInv /\ [PoolNext]_poolVars => ClusterInv'
  <1> SUFFICES ASSUME RowInv, ClusterInv, [PoolNext]_poolVars PROVE ClusterInv'
    OBVIOUS
  <1>1. ASSUME NEW c \in Names, clusterNodes[c] # <<>>, c \notin contested
        PROVE  /\ Kept(c) /\ c # Idle /\ ToSet(clusterNodes[c]) \subseteq RowIds
               /\ \A r \in ToSet(clusterNodes[c]) : Exists(r) /\ nodeRows[r].cluster = c
    <2>1. Kept(c) /\ c # Idle /\ ToSet(clusterNodes[c]) \subseteq RowIds
      BY <1>1, ClusterFields DEF ClusterInv
    <2> QED
      BY <2>1 DEF Kept
  \* Steps that change neither rows nor clusters.
  <1>2. ASSUME UNCHANGED <<nodeRows, clusterNodes, contested>>,
               \A c \in Names : clusterNodes[c] # <<>> /\ c \notin contested =>
                 /\ \A x \in removing' : x \in removing \/ x.row \notin ToSet(clusterNodes[c])
                 /\ \A d \in choosing' : d \in choosing \/ ToSet(d.ids) \cap ToSet(clusterNodes[c]) = {}
        PROVE  ClusterInv'
    <2>1. \A r \in RowIds : Exists(r)' <=> Exists(r)
      BY <1>2 DEF Exists
    <2>2. ASSUME NEW c \in Names, clusterNodes[c] # <<>>, c \notin contested PROVE Kept(c)'
      <3>1. /\ \A x \in removing' : x \in removing \/ x.row \notin ToSet(clusterNodes[c])
            /\ \A d \in choosing' : d \in choosing \/ ToSet(d.ids) \cap ToSet(clusterNodes[c]) = {}
        BY <1>2, <2>2
      <3>2. Kept(c) /\ ToSet(clusterNodes[c]) \subseteq RowIds
        BY <1>1, <2>2
      <3> QED
        BY <1>2, <2>1, <3>1, <3>2, KeptStays
    <2> QED
      BY <1>2, <2>1, <2>2 DEF ClusterInv
  <1>3. CASE UNCHANGED <<nodeRows, clusterNodes, contested, choosing, removing>>
    BY <1>2, <1>3
  <1>4. ASSUME NEW h, NEW t, DeleteAgentToken(t) \/ InstallAgent(h, t) \/ RegisterAgent(h) \/ StopAgent(h)
        PROVE  UNCHANGED <<nodeRows, clusterNodes, contested, choosing, removing>>
    BY <1>4 DEF DeleteAgentToken, InstallAgent, RegisterAgent, StopAgent
  <1>5. ASSUME NEW g \in registering, LinkNode(g) \/ LinkFails(g) PROVE ClusterInv'
    <2>1. /\ UNCHANGED <<clusterNodes, contested, choosing, removing>>
          /\ g.host \in Hosts /\ g.agent \in Nat
          /\ \/ g.found = 0 /\ \E a \in {g.agent, 0} : InsertNode(g.host, a)
             \/ g.found # 0 /\ LinkNode(g)
             \/ UNCHANGED <<nodeRows, nextRow>>
      BY <1>5, LinkCases
    <2>2. ASSUME NEW r \in RowIds
          PROVE  \/ Exists(r)' /\ ~Exists(r) /\ nodeRows'[r].cluster = Idle
                 \/ /\ Exists(r)' <=> Exists(r)
                    /\ Exists(r) => /\ nodeRows'[r].cluster = nodeRows[r].cluster
                                    /\ nodeRows'[r].role = nodeRows[r].role
                                    /\ nodeRows'[r].leaving = nodeRows[r].leaving
      <3>1. CASE \E a \in {g.agent, 0} : InsertNode(g.host, a)
        <4>1. /\ ~Exists(nextRow) /\ nodeRows'[nextRow].cluster = Idle
              /\ Exists(r)' <=> Exists(r) \/ r = nextRow
              /\ r # nextRow => nodeRows'[r] = nodeRows[r]
          BY <2>1, <3>1, InsertedRow
        <4> QED
          BY <4>1
      <3>2. CASE g.found # 0 /\ LinkNode(g)
        <4>1. /\ Exists(r)' <=> Exists(r)
              /\ r # g.found => nodeRows'[r] = nodeRows[r]
              /\ Exists(g.found) => /\ nodeRows'[g.found].cluster = nodeRows[g.found].cluster
                                    /\ nodeRows'[g.found].role = nodeRows[g.found].role
                                    /\ nodeRows'[g.found].leaving = nodeRows[g.found].leaving
          BY <3>2, LinkedRow
        <4> QED
          BY <4>1
      <3>3. CASE UNCHANGED nodeRows
        BY <3>3 DEF Exists
      <3> QED
        BY <2>1, <3>1, <3>2, <3>3
    <2>3. ASSUME NEW c \in Names, clusterNodes[c] # <<>>, c \notin contested PROVE Kept(c)'
      <3>1. /\ Kept(c) /\ c # Idle /\ ToSet(clusterNodes[c]) \subseteq RowIds
            /\ \A r \in ToSet(clusterNodes[c]) : Exists(r)
        BY <1>1, <2>3
      <3>2. \A r \in RowIds : (Exists(r)' /\ nodeRows'[r].cluster = c) <=> (Exists(r) /\ nodeRows[r].cluster = c)
        BY <2>2, <3>1
      <3>3. \A r \in ToSet(clusterNodes[c]) : /\ nodeRows'[r].role = nodeRows[r].role
                                              /\ nodeRows'[r].leaving = nodeRows[r].leaving
        BY <2>2, <3>1
      <3> QED
        BY <2>1, <3>1, <3>2, <3>3, KeptStays
    <2>4. \A r \in RowIds : Exists(r)' /\ nodeRows'[r].cluster # Idle => clusterNodes[nodeRows'[r].cluster] # <<>>
      BY <2>2 DEF ClusterInv
    <2> QED
      BY <2>1, <2>3, <2>4 DEF ClusterInv
  <1>6. ASSUME NEW c \in Names, DeleteCluster(c) PROVE ClusterInv'
    <2>1. /\ clusterNodes' = [clusterNodes EXCEPT ![c] = <<>>] /\ contested' = contested \ {c}
          /\ UNCHANGED <<choosing, removing>>
      BY <1>6 DEF DeleteCluster
    <2>2. /\ \A r \in RowIds : Exists(r)' <=> Exists(r)
          /\ \A r \in RowIds \ MembersOf(c) : nodeRows'[r] = nodeRows[r]
          /\ \A r \in MembersOf(c) : nodeRows'[r].cluster = Idle
      BY <1>6, ReleasedRows DEF SameIdentity
    <2>3. \A r \in RowIds : r \in MembersOf(c) <=> Exists(r) /\ nodeRows[r].cluster = c
      BY DEF MembersOf
    <2>4. /\ clusterNodes' \in [Names -> NodeLists \cup {<<>>}] /\ clusterNodes'[c] = <<>>
          /\ \A d \in Names \ {c} : clusterNodes'[d] = clusterNodes[d]
      BY <2>1 DEF ClusterInv
    <2>5. ASSUME NEW d \in Names, clusterNodes'[d] # <<>>, d \notin contested' PROVE Kept(d)'
      <3>1. d # c /\ clusterNodes'[d] = clusterNodes[d] /\ clusterNodes[d] # <<>> /\ d \notin contested
        BY <2>1, <2>4, <2>5
      <3>2. /\ Kept(d) /\ d # Idle /\ ToSet(clusterNodes[d]) \subseteq RowIds
            /\ \A r \in ToSet(clusterNodes[d]) : Exists(r) /\ nodeRows[r].cluster = d
        BY <1>1, <3>1
      <3>3. \A r \in RowIds : (Exists(r)' /\ nodeRows'[r].cluster = d) <=> (Exists(r) /\ nodeRows[r].cluster = d)
        BY <2>2, <2>3, <3>1, <3>2
      <3>4. \A r \in ToSet(clusterNodes[d]) : nodeRows'[r] = nodeRows[r]
        BY <2>2, <2>3, <3>1, <3>2
      <3> QED
        BY <2>1, <3>1, <3>2, <3>3, <3>4, KeptStays
    <2>6. ASSUME NEW r \in RowIds, Exists(r)', nodeRows'[r].cluster # Idle
          PROVE  clusterNodes'[nodeRows'[r].cluster] # <<>>
      <3>1. r \notin MembersOf(c) /\ nodeRows'[r] = nodeRows[r] /\ Exists(r)
        BY <2>2, <2>6
      <3>2. nodeRows[r].cluster \in Names \ {c}
        BY <2>3, <2>6, <3>1, RowFields DEF NodeRecords
      <3> QED
        BY <2>4, <2>6, <3>1, <3>2 DEF ClusterInv
    <2> QED
      BY <2>4, <2>5, <2>6 DEF ClusterInv
  <1>7. ASSUME NEW c \in Names, NEW ids \in NodeLists, CheckNodes(c, ids) PROVE ClusterInv'
    <2> DEFINE new == [name |-> c, ids |-> ids, n |-> creates,
                       agents |-> [i \in DOMAIN ids |-> nodeRows[ids[i]].agent]]
    <2>1. UNCHANGED <<nodeRows, clusterNodes, contested, removing>> /\ choosing' = choosing \cup {new}
      BY <1>7 DEF CheckNodes
    <2>2. new.ids = ids
      OBVIOUS
    <2> HIDE DEF new
    <2>3. \A r \in ToSet(ids) : nodeRows[r].cluster = Idle
      BY <1>7 DEF CheckNodes, GetByIDs, Selectable
    <2>4. ASSUME NEW e \in Names, clusterNodes[e] # <<>>, e \notin contested
          PROVE  ToSet(ids) \cap ToSet(clusterNodes[e]) = {}
      <3>1. e # Idle /\ \A r \in ToSet(clusterNodes[e]) : nodeRows[r].cluster = e
        BY <1>1, <2>4
      <3> QED
        BY <2>3, <3>1
    <2> QED
      BY <1>2, <2>1, <2>2, <2>4
  <1>8. ASSUME NEW r \in RowIds, BeginDeleteNode(r) PROVE ClusterInv'
    <2> DEFINE new == [row |-> r, agent |-> nodeRows[r].agent, n |-> deletes]
    <2>1. UNCHANGED <<nodeRows, clusterNodes, contested, choosing>> /\ removing' = removing \cup {new}
      BY <1>8 DEF BeginDeleteNode
    <2>2. new.row = r /\ nodeRows[r].cluster = Idle
      BY <1>8 DEF BeginDeleteNode
    <2> HIDE DEF new
    <2>3. ASSUME NEW e \in Names, clusterNodes[e] # <<>>, e \notin contested
          PROVE  r \notin ToSet(clusterNodes[e])
      BY <1>1, <2>2, <2>3
    <2> QED
      BY <1>2, <2>1, <2>2, <2>3
  <1>9. ASSUME NEW x \in removing, QueueDeactivation(x) PROVE ClusterInv'
    <2>1. UNCHANGED <<clusterNodes, contested, choosing>> /\ removing' \subseteq removing
      BY <1>9 DEF QueueDeactivation
    <2>2. /\ x.row \in RowIds
          /\ \A r \in RowIds : Exists(r)' <=> Exists(r)
          /\ \A r \in RowIds \ {x.row} : nodeRows'[r] = nodeRows[r]
          /\ Exists(x.row) => nodeRows'[x.row].cluster = nodeRows[x.row].cluster
      BY <1>9, MarkedRow
    <2>3. \A r \in RowIds : Exists(r) => nodeRows'[r].cluster = nodeRows[r].cluster
      BY <2>2
    <2>4. ASSUME NEW c \in Names, clusterNodes[c] # <<>>, c \notin contested PROVE Kept(c)'
      <3>1. Kept(c) /\ ToSet(clusterNodes[c]) \subseteq RowIds
        BY <1>1, <2>4
      <3>2. x.row \notin ToSet(clusterNodes[c])
        BY <3>1 DEF Kept
      <3>3. \A r \in ToSet(clusterNodes[c]) : nodeRows'[r] = nodeRows[r]
        BY <2>2, <3>1, <3>2
      <3>4. \A r \in RowIds : (Exists(r)' /\ nodeRows'[r].cluster = c) <=> (Exists(r) /\ nodeRows[r].cluster = c)
        BY <2>2, <2>3
      <3> QED
        BY <2>1, <3>1, <3>3, <3>4, KeptStays
    <2> QED
      BY <2>1, <2>2, <2>3, <2>4 DEF ClusterInv
  \* Steps that delete a row no cluster keeps.
  <1>10. ASSUME NEW row \in RowIds, nodeRows' = [nodeRows EXCEPT ![row] = NoNode],
                UNCHANGED <<clusterNodes, contested, choosing>>, removing' \subseteq removing,
                (Exists(row) => nodeRows[row].leaving) \/ \E x \in removing : x.row = row
         PROVE  ClusterInv'
    <2>1. /\ ~Exists(row)'
          /\ \A r \in RowIds \ {row} : nodeRows'[r] = nodeRows[r]
          /\ \A r \in RowIds : Exists(r)' => Exists(r) /\ nodeRows'[r] = nodeRows[r]
      BY <1>10, RemovedRow
    <2>2. \A r \in RowIds \ {row} : Exists(r)' <=> Exists(r)
      BY <2>1 DEF Exists
    <2>3. ASSUME NEW c \in Names, clusterNodes[c] # <<>>, c \notin contested PROVE Kept(c)'
      <3>1. /\ Kept(c) /\ ToSet(clusterNodes[c]) \subseteq RowIds
            /\ \A r \in ToSet(clusterNodes[c]) : Exists(r) /\ nodeRows[r].cluster = c
        BY <1>1, <2>3
      <3>2. row \notin ToSet(clusterNodes[c])
        BY <1>10, <3>1 DEF Kept
      <3>3. \A r \in ToSet(clusterNodes[c]) : nodeRows'[r] = nodeRows[r]
        BY <2>1, <3>1, <3>2
      <3>4. \A r \in RowIds : (Exists(r)' /\ nodeRows'[r].cluster = c) <=> (Exists(r) /\ nodeRows[r].cluster = c)
        BY <2>1, <2>2, <3>1, <3>2 DEF Kept
      <3> QED
        BY <1>10, <3>1, <3>3, <3>4, KeptStays
    <2> QED
      BY <1>10, <2>1, <2>3 DEF ClusterInv
  <1>13. ASSUME NEW x \in removing, DeleteUnlinked(x) PROVE ClusterInv'
    <2>1. /\ x.row \in RowIds /\ nodeRows' = [nodeRows EXCEPT ![x.row] = NoNode]
          /\ UNCHANGED <<clusterNodes, contested, choosing>> /\ removing' \subseteq removing
      BY <1>13 DEF DeleteUnlinked, RowInv
    <2> QED
      BY <1>10, <2>1
  <1>14. ASSUME NEW h, NEW t, RunTask(h, t) \/ Deactivate(h, t) \/ DeactivationFails(h, t)
         PROVE  UNCHANGED <<nodeRows, clusterNodes, contested, choosing, removing>>
    BY <1>14 DEF RunTask, Deactivate, DeactivationFails
  <1>15. ASSUME NEW f \in finishing, AnswerDeactivation(f) \/ LoseDeactivation(f) PROVE ClusterInv'
    <2>1. /\ UNCHANGED <<clusterNodes, contested, choosing, removing>>
          /\ UNCHANGED nodeRows \/ nodeRows' = [nodeRows EXCEPT ![f.task.row] = NoNode]
      BY <1>15 DEF AnswerDeactivation, LoseDeactivation
    <2>2. f.task \in Queued
      BY DEF Queued
    <2>3. f.task.row \in RowIds /\ (Exists(f.task.row) => nodeRows[f.task.row].leaving)
      BY <2>2 DEF RowInv
    <2> QED
      BY <1>3, <1>10, <2>1, <2>3
  <1>11. ASSUME NEW d \in choosing, CommitCluster(d) PROVE ClusterInv'
    <2>1. choosing' = choosing \ {d} /\ UNCHANGED removing
      BY <1>11 DEF CommitCluster
    <2>2. CASE clusterNodes[d.name] # <<>>
      <3>1. UNCHANGED <<nodeRows, clusterNodes, contested>>
        BY <1>11, <2>2 DEF CommitCluster
      <3> QED
        BY <1>2, <2>1, <3>1
    <2>3. CASE clusterNodes[d.name] = <<>>
      <3>1. /\ nodeRows' = Assign(d) /\ clusterNodes' = [clusterNodes EXCEPT ![d.name] = d.ids]
            /\ contested' = IF Claimed(d) THEN contested \cup {d.name} ELSE contested
        BY <1>11, <2>3 DEF CommitCluster
      <3>2. /\ d.name \in Names /\ d.ids \in NodeLists /\ d.ids # <<>>
            /\ ToSet(d.ids) \subseteq RowIds /\ d.name # Idle
        BY ListFields, PoolAssumption DEF RowInv, Idle
      <3>3. /\ \A r \in RowIds : Exists(r)' <=> Exists(r)
            /\ \A r \in RowIds : Exists(r) => nodeRows'[r].leaving = nodeRows[r].leaving
            /\ \A r \in RowIds \ ToSet(d.ids) : nodeRows'[r] = nodeRows[r]
            /\ \A r \in ToSet(d.ids) : Exists(r) =>
                 /\ nodeRows'[r].cluster = d.name
                 /\ nodeRows'[r].role = (IF r = d.ids[1] THEN "primary" ELSE "replica")
        BY <3>1, AssignedRows DEF SameIdentity
      <3>4. /\ clusterNodes' \in [Names -> NodeLists \cup {<<>>}] /\ clusterNodes'[d.name] = d.ids
            /\ \A c \in Names \ {d.name} : clusterNodes'[c] = clusterNodes[c]
        BY <3>1, <3>2 DEF ClusterInv
      <3>5. ASSUME NEW r \in RowIds, Exists(r)', nodeRows'[r].cluster # Idle
            PROVE  clusterNodes'[nodeRows'[r].cluster] # <<>>
        <4>1. CASE r \in ToSet(d.ids)
          BY <3>2, <3>3, <3>4, <3>5, <4>1
        <4>2. CASE r \notin ToSet(d.ids)
          <5>1. nodeRows'[r] = nodeRows[r] /\ Exists(r)
            BY <3>3, <3>5, <4>2
          <5>2. nodeRows[r].cluster \in Names /\ clusterNodes[nodeRows[r].cluster] # <<>>
            BY <3>5, <5>1, RowFields DEF NodeRecords, ClusterInv
          <5> QED
            BY <2>3, <3>4, <5>1, <5>2
        <4> QED
          BY <4>1, <4>2
      <3>6. \A r \in RowIds : Exists(r) => nodeRows[r].cluster # d.name
        BY <2>3, <3>2 DEF ClusterInv
      <3>7. ASSUME d.name \notin contested' PROVE Kept(d.name)'
        <4>1. ~Claimed(d)
          BY <3>1, <3>7
        <4>2. /\ \A e \in choosing' : ToSet(e.ids) \cap ToSet(d.ids) = {}
              /\ \A r \in ToSet(d.ids) : Exists(r) /\ ~nodeRows[r].leaving /\ \A x \in removing : x.row # r
          BY <2>1, <4>1 DEF Claimed
        <4>3. ASSUME NEW r \in RowIds PROVE (Exists(r)' /\ nodeRows'[r].cluster = d.name) <=> r \in ToSet(d.ids)
          BY <3>3, <3>6, <4>2
        <4>4. ASSUME NEW r \in ToSet(d.ids)
              PROVE  /\ nodeRows'[r].role = "primary" <=> r = d.ids[1]
                     /\ ~nodeRows'[r].leaving
                     /\ \A x \in removing' : x.row # r
                     /\ \A e \in choosing' : r \notin ToSet(e.ids)
          <5>1. Exists(r) /\ ~nodeRows[r].leaving /\ \A x \in removing : x.row # r
            BY <4>2
          <5>2. nodeRows'[r].role = (IF r = d.ids[1] THEN "primary" ELSE "replica")
            BY <3>3, <5>1
          <5>3. nodeRows'[r].leaving = nodeRows[r].leaving
            BY <3>2, <3>3, <5>1
          <5>4. \A e \in choosing' : r \notin ToSet(e.ids)
            BY <4>2
          <5> QED
            BY <2>1, <5>1, <5>2, <5>3, <5>4
        <4> QED
          BY <3>4, <4>3, <4>4 DEF Kept
      <3>8. ASSUME NEW c \in Names, c # d.name, clusterNodes'[c] # <<>>, c \notin contested' PROVE Kept(c)'
        <4>1. clusterNodes'[c] = clusterNodes[c] /\ clusterNodes[c] # <<>> /\ c \notin contested
          BY <3>1, <3>4, <3>8
        <4>2. /\ Kept(c) /\ ToSet(clusterNodes[c]) \subseteq RowIds
              /\ \A r \in ToSet(clusterNodes[c]) : Exists(r) /\ nodeRows[r].cluster = c
          BY <1>1, <4>1
        <4>3. ToSet(d.ids) \cap ToSet(clusterNodes[c]) = {}
          BY <4>2 DEF Kept
        <4>4. \A r \in ToSet(clusterNodes[c]) : nodeRows'[r] = nodeRows[r]
          BY <3>3, <4>2, <4>3
        <4>5. ASSUME NEW r \in RowIds
              PROVE  (Exists(r)' /\ nodeRows'[r].cluster = c) <=> (Exists(r) /\ nodeRows[r].cluster = c)
          <5>1. CASE r \in ToSet(d.ids)
            <6>1. r \notin ToSet(clusterNodes[c])
              BY <4>3, <5>1
            <6>2. ~(Exists(r) /\ nodeRows[r].cluster = c)
              BY <4>2, <6>1 DEF Kept
            <6> QED
              BY <3>3, <3>8, <5>1, <6>2
          <5>2. CASE r \notin ToSet(d.ids)
            BY <3>3, <5>2
          <5> QED
            BY <5>1, <5>2
        <4> QED
          BY <2>1, <4>1, <4>2, <4>4, <4>5, KeptStays
      <3> QED
        BY <3>2, <3>4, <3>5, <3>7, <3>8 DEF ClusterInv
    <2> QED
      BY <2>2, <2>3
  <1>12. CASE UNCHANGED poolVars
    BY <1>3, <1>12 DEF poolVars
  <1> QED
    BY <1>3, <1>4, <1>5, <1>6, <1>7, <1>8, <1>9, <1>11, <1>12, <1>13, <1>14, <1>15 DEF PoolNext

-----------------------------------------------------------------------------
(* The theorems.                                                           *)

\* The four parts hold together in every state of the pool.
LEMMA PoolInvariant == PoolSpec => [](RowInv /\ AgentInv /\ AgentHostInv /\ ClusterInv)
  <1>1. PoolInit => RowInv /\ AgentInv /\ AgentHostInv /\ ClusterInv
    BY InitRowInv, InitAgentInv, InitHostInv, InitClusterInv
  <1>2. RowInv /\ AgentInv /\ AgentHostInv /\ ClusterInv /\ [PoolNext]_poolVars
          => (RowInv /\ AgentInv /\ AgentHostInv /\ ClusterInv)'
    BY NextRowInv, NextAgentInv, NextHostInv, NextClusterInv
  <1> QED
    BY <1>1, <1>2, PTL DEF PoolSpec

\* RegisterAgent finds the row its host has, so a host has one however often
\* its agent registers; only a GetByHostname whose error is ignored, or a second
\* registration between GetByHostname and the insert of a first, adds another.
THEOREM OneRowPerHostHolds == PoolSpec => []OneRowPerHost
  <1>1. ASSUME AgentHostInv PROVE OneRowPerHost
    <2>1. ASSUME NEW h \in Hosts \ twins PROVE Cardinality(RowsOf(h)) <= 1
      <3>1. \A r1, r2 \in RowsOf(h) : r1 = r2
        BY <1>1 DEF AgentHostInv, RowsOf
      <3>2. CASE RowsOf(h) = {}
        <4>1. Cardinality(RowsOf(h)) = 0
          BY <3>2, FS_EmptySet
        <4> QED
          BY <4>1
      <3>3. CASE RowsOf(h) # {}
        <4>1. PICK r : r \in RowsOf(h)
          BY <3>3
        <4>2. RowsOf(h) = {r}
          BY <3>1, <4>1
        <4>3. Cardinality({r}) = 1
          BY FS_Singleton
        <4> QED
          BY <4>2, <4>3
      <3> QED
        BY <3>2, <3>3
    <2> QED
      BY <2>1 DEF OneRowPerHost
  <1> QED
    BY <1>1, PoolInvariant, PTL

\* A cluster keeps the nodes CreateCluster assigned to it, the first as its only
\* primary, unless another CreateCluster had checked one of them, or a DeleteNode
\* had begun, before its transaction.
THEOREM LostNodesAccountedHolds == PoolSpec => []LostNodesAccounted
  <1>1. ASSUME ClusterInv PROVE LostNodesAccounted
    <2>1. ASSUME NEW c \in Names, clusterNodes[c] # <<>>, c \notin contested
          PROVE  /\ ListNodes(c) = ToSet(clusterNodes[c])
                 /\ {r \in ListNodes(c) : nodeRows[r].role = "primary"} = {clusterNodes[c][1]}
      <3>1. /\ Kept(c) /\ ToSet(clusterNodes[c]) \subseteq RowIds
            /\ clusterNodes[c][1] \in ToSet(clusterNodes[c])
        BY <1>1, <2>1, ClusterFields DEF ClusterInv
      <3>2. ListNodes(c) = ToSet(clusterNodes[c])
        BY <3>1 DEF Kept, ListNodes, MembersOf
      <3> QED
        BY <3>1, <3>2 DEF Kept
    <2> QED
      BY <2>1 DEF LostNodesAccounted
  <1> QED
    BY <1>1, PoolInvariant, PTL

\* No two rows are linked to one agent, rows are numbered as they are inserted,
\* and a node that names a cluster names one that exists.
THEOREM PoolTypeCorrect == PoolSpec => []PoolTypeOK
  <1>1. ASSUME RowInv, AgentInv, ClusterInv PROVE PoolTypeOK
    <2>1. \A r \in RowIds : Exists(r) => /\ r < nextRow
                                         /\ nodeRows[r].cluster \in Names \cup {Idle}
                                         /\ nodeRows[r].role \in {"primary", "replica", "none"}
      BY <1>1, RowFields DEF RowInv, NodeRecords
    <2> QED
      BY <1>1, <2>1 DEF PoolTypeOK, AgentInv, ClusterInv
  <1> QED
    BY <1>1, PoolInvariant, PTL

=============================================================================
