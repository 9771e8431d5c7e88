--------------------------- MODULE FeaturesProofs ---------------------------
(***************************************************************************)
(* What is proved of Features for any nodes, extensions, databases and     *)
(* requests, and any number of repeated executions, failures and cut       *)
(* requests: what the operator's page calls applied is on the host,        *)
(* extensions shown as ready exist, and updates of the connection profile  *)
(* that do not overlap do not undo each other.                             *)
(***************************************************************************)
EXTENDS Features, FiniteSetTheorems, SequenceTheorems, TLAPS

-----------------------------------------------------------------------------
(* The inductive invariant.                                                *)

HBABodies == [admin : Lists, app : Lists, dbs : SUBSET Databases]
Certificates == {<<"off">>, <<"manual">>} \cup ({"managed"} \X Nat)
ExtBodies ==
    {b \in [enable : SUBSET Extensions, disable : SUBSET Extensions, dbs : SUBSET Databases] :
        b.enable \cap b.disable = {}}
Bodies == HBABodies \cup Certificates \cup ExtBodies \cup Params \cup {None}

Commands == [node : FeatNodes, action : {"hba", "tls", "ext", "settings", "admin"},
             body : Bodies, status : {"pending", "completed", "failed"}]
ExtRows == [on : BOOLEAN, status : {"none", "off", "pending", "ready", "failed"}, cmd : Nat]
Files == [tls : Bodies, params : Bodies]

\* The tables.
TableInv ==
    /\ profile \in Profiles /\ asked \in Profiles
    /\ tlsCA \in Nat
    /\ tlsRow \in [FeatNodes -> Rows] /\ hbaRow \in [FeatNodes -> Rows]
    /\ extRow \in [Extensions -> ExtRows]
    /\ settings \in Params \cup {None}
    /\ adminKept \in {"none", "created", "backfilled", "half"}

\* Extension commands go to the primary and never create what they drop.
QueueInv ==
    /\ cmds \in Seq(Commands)
    /\ \A i \in DOMAIN cmds :
         cmds[i].action = "ext" => cmds[i].node = FeatPrimary /\ cmds[i].body \in ExtBodies

\* What the requests in progress have read and been asked.
LockInv ==
    /\ locked.kind \in {"free", "access", "tls", "applyHBA", "applyTLS", "applyExtensions"}
    /\ locked.kind \in {"access", "tls", "applyHBA", "applyTLS"} => locked.read \in Profiles
    /\ locked.kind = "access" => locked.app \in Lists /\ locked.admin \in Lists
    /\ locked.kind = "tls" => locked.mode \in Modes /\ locked.manual \in BOOLEAN
    /\ locked.kind = "applyTLS" => locked.ca \in Nat
    /\ locked.kind \in {"applyHBA", "applyExtensions"} => locked.dbs \in SUBSET Databases

RequestInv ==
    /\ LockInv
    /\ \A u \in update : u.read \in Profiles /\ u.app \in Lists /\ u.mode \in Modes
    /\ \A r \in replace : r \in [params : Params, todo : SUBSET FeatNodes, id : Nat]
    /\ requests \in Nat
    /\ overlap \in BOOLEAN

\* What PostgreSQL has loaded of the HBA rules is the file, where no apply ended
\* between the two.
HostInv ==
    /\ file \in [FeatNodes -> Files] /\ active \in [FeatNodes -> Files]
    /\ DOMAIN hba = FeatNodes /\ DOMAIN rules = FeatNodes
    /\ \A n \in FeatNodes \ unsure : rules[n] = hba[n]
    /\ created \in [Databases -> SUBSET Extensions]
    /\ ready \subseteq Databases
    /\ bare \subseteq FeatNodes /\ unsure \subseteq FeatNodes

\* No earlier command of the same node is still to be executed.
NoneBefore(i) ==
    \A j \in DOMAIN cmds : j < i /\ cmds[j].node = cmds[i].node => cmds[j].status # "pending"

\* A report is about a command that was the first pending one of its node.
ReportInv ==
    /\ \A h \in reports :
         /\ h \in [cmd : Nat, ok : BOOLEAN, at : {"update", "apply"}, late : BOOLEAN]
         /\ h.cmd \in DOMAIN cmds
         /\ NoneBefore(h.cmd)
    /\ busy \in [FeatNodes -> Nat]
    /\ \A n \in FeatNodes : busy[n] # 0 => busy[n] \in DOMAIN cmds /\ cmds[busy[n]].node = n

BaseInv == TableInv /\ QueueInv /\ RequestInv /\ HostInv /\ ReportInv

\* A success of command i is on its way to its row.
OnItsWay(i) == \E h \in reports : h.ok /\ h.cmd = i

\* The rows of feature f name the last command of each node, and none before a
\* success is still to be executed.
LastInv(rows, f) ==
    \A n \in FeatNodes :
        /\ rows[n].status = "none" <=> rows[n].cmd = 0
        /\ rows[n].cmd # 0 => /\ rows[n].cmd \in DOMAIN cmds
                              /\ cmds[rows[n].cmd].node = n /\ cmds[rows[n].cmd].action = f
        /\ \A i \in DOMAIN cmds : cmds[i].node = n /\ cmds[i].action = f => i <= rows[n].cmd
        /\ rows[n].status = "succeeded" => NoneBefore(rows[n].cmd)

\* The policy of a node's last command is in force from its execution on.
HBAInv ==
    /\ LastInv(hbaRow, "hba")
    /\ \A n \in FeatNodes :
         hbaRow[n].status = "succeeded" \/ OnItsWay(hbaRow[n].cmd)
           => hba[n] = RenderHBAPolicy(cmds[hbaRow[n].cmd].body)

\* So is the certificate, in the file and in PostgreSQL, unless settings were
\* written since; ApplyTLS is for all nodes or for none.
TLSInv ==
    /\ LastInv(tlsRow, "tls")
    /\ \A n, m \in FeatNodes : tlsRow[n].cmd = 0 => tlsRow[m].cmd = 0
    /\ \A n \in FeatNodes \ bare :
         tlsRow[n].status = "succeeded" \/ OnItsWay(tlsRow[n].cmd)
           => /\ file[n].tls = cmds[tlsRow[n].cmd].body
              /\ active[n].tls = cmds[tlsRow[n].cmd].body

\* Rows with a command name the last one; what it enables is created from its
\* execution on.
ExtensionInv(x) ==
    /\ extRow[x].status \in {"none", "off"} <=> extRow[x].cmd = 0
    /\ extRow[x].cmd # 0 =>
         /\ extRow[x].cmd \in DOMAIN cmds /\ cmds[extRow[x].cmd].action = "ext"
         /\ \A i \in DOMAIN cmds : cmds[i].action = "ext" => i <= extRow[x].cmd
    /\ extRow[x].status = "ready" => NoneBefore(extRow[x].cmd)
    /\ extRow[x].status = "ready" \/ OnItsWay(extRow[x].cmd)
         => (x \in cmds[extRow[x].cmd].body.enable
               => \A d \in cmds[extRow[x].cmd].body.dbs : x \in created[d])

ExtInv == \A x \in Extensions : ExtensionInv(x)

\* Without an overlap the row is what was asked, and what every writer has read.
ProfileInv ==
    ~overlap =>
        /\ profile = asked
        /\ locked.kind \in {"access", "tls"} => locked.read = profile
        /\ \A u \in update : u.read = profile

FeatInv == BaseInv /\ HBAInv /\ TLSInv /\ ExtInv /\ ProfileInv

-----------------------------------------------------------------------------
(* Numbers and nodes.                                                      *)

LEMMA MinOfSet ==
  ASSUME NEW S, S \subseteq Nat, S # {}
  PROVE  Min(S) \in S /\ \A y \in S : Min(S) <= y
<1> DEFINE R == {ss \in Nat \X Nat : ss[1] < ss[2]}
<1>1. IsWellFoundedOn(R, Nat)
  BY NatLessThanWellFounded DEF OpToRel
<1>2. PICK x \in S : \A y \in S : ~(<<y, x>> \in R)
  <2> HIDE DEF R
  <2> QED
    BY <1>1, WFMin
<1>3. \A y \in S : x <= y
  <2>1. SUFFICES ASSUME NEW y \in S, y < x PROVE FALSE
    OBVIOUS
  <2>2. <<y, x>> \in Nat \X Nat /\ <<y, x>>[1] < <<y, x>>[2]
    BY <2>1
  <2>3. <<y, x>> \in R
    BY <2>2
  <2> QED
    BY <1>2, <2>3
<1> QED
  BY <1>3 DEF Min

\* The nodes in the order their commands are inserted in: each of them once.
LEMMA NodeOrder ==
  /\ Cardinality(FeatNodes) \in Nat
  /\ SetToSeq(FeatNodes) \in [1..Cardinality(FeatNodes) -> FeatNodes]
  /\ \A i, j \in 1..Cardinality(FeatNodes) :
       SetToSeq(FeatNodes)[i] = SetToSeq(FeatNodes)[j] => i = j
  /\ \A n \in FeatNodes : \E i \in 1..Cardinality(FeatNodes) : SetToSeq(FeatNodes)[i] = n
<1> DEFINE D == 1..Cardinality(FeatNodes)
<1>1. Cardinality(FeatNodes) \in Nat /\ ExistsBijection(D, FeatNodes)
  BY FS_CardinalityType, FeatAssumption
<1>2. \E f \in [D -> FeatNodes] : IsInjective(f)
  BY <1>1 DEF ExistsBijection, Bijection, Injection
<1>3. SetToSeq(FeatNodes) \in [D -> FeatNodes] /\ IsInjective(SetToSeq(FeatNodes))
  BY <1>2 DEF SetToSeq
<1>4. SetToSeq(FeatNodes) \in Injection(D, FeatNodes)
  BY <1>3 DEF Injection
<1>5. Cardinality(D) = Cardinality(FeatNodes)
  BY <1>1, FS_Interval
<1>6. SetToSeq(FeatNodes) \in Surjection(D, FeatNodes)
  BY <1>4, <1>5, FS_Injection, FeatAssumption
<1> QED
  BY <1>1, <1>3, <1>6 DEF Surjection, IsInjective

\* One command per node is appended, and IdFor finds it.
LEMMA PerNodeAppends ==
  ASSUME QueueInv, NEW a \in {"hba", "tls"}, NEW b \in Bodies,
         cmds' = cmds \o PerNode(a, b)
  PROVE  /\ QueueInv'
         /\ Len(cmds) <= Len(cmds')
         /\ \A i \in DOMAIN cmds : cmds'[i] = cmds[i]
         /\ \A i \in DOMAIN cmds' \ DOMAIN cmds :
              \E m \in FeatNodes : i = IdFor(m) /\ cmds'[i] = Command(m, a, b)
         /\ \A m \in FeatNodes : /\ IdFor(m) \in DOMAIN cmds' \ DOMAIN cmds
                                 /\ cmds'[IdFor(m)] = Command(m, a, b)
<1> DEFINE N == Cardinality(FeatNodes)
           q == SetToSeq(FeatNodes)
           pos(m) == CHOOSE i \in 1..N : q[i] = m
<1>1. /\ N \in Nat
      /\ q \in [1..N -> FeatNodes]
      /\ \A i, j \in 1..N : q[i] = q[j] => i = j
      /\ \A m \in FeatNodes : \E i \in 1..N : q[i] = m
  BY NodeOrder
<1> HIDE DEF N, q
<1>2. \A m \in FeatNodes : pos(m) \in 1..N /\ q[pos(m)] = m
  BY <1>1
<1>3. \A i \in 1..N : pos(q[i]) = i
  BY <1>1, <1>2
<1>4. \A m \in FeatNodes : IdFor(m) = Len(cmds) + pos(m)
  BY DEF IdFor, N, q
<1> HIDE DEF pos
<1>5. PerNode(a, b) = [i \in 1..N |-> Command(q[i], a, b)]
  BY DEF PerNode, N, q
<1>6. \A m \in FeatNodes : Command(m, a, b) \in Commands
  BY DEF Command, Commands
<1>7. /\ PerNode(a, b) \in Seq(Commands)
      /\ Len(PerNode(a, b)) = N
      /\ \A i \in 1..N : PerNode(a, b)[i] = Command(q[i], a, b)
  BY <1>1, <1>5, <1>6
<1>8. cmds \in Seq(Commands)
  BY DEF QueueInv
<1>9. /\ cmds' \in Seq(Commands)
      /\ Len(cmds') = Len(cmds) + N
      /\ \A i \in 1..Len(cmds) : cmds'[i] = cmds[i]
      /\ \A i \in 1..N : cmds'[Len(cmds) + i] = Command(q[i], a, b)
  <2>1. cmds \o PerNode(a, b) \in Seq(Commands)
    BY <1>7, <1>8, ConcatProperties
  <2>2. /\ Len(cmds \o PerNode(a, b)) = Len(cmds) + N
        /\ \A i \in 1..Len(cmds) : (cmds \o PerNode(a, b))[i] = cmds[i]
    <3>1. Len(cmds \o PerNode(a, b)) = Len(cmds) + N
      BY <1>7, <1>8, ConcatProperties
    <3>2. Len(cmds) \in Nat /\ Len(PerNode(a, b)) \in Nat
      BY <1>7, <1>8, LenProperties
    <3>3. \A i \in 1..Len(cmds) : (cmds \o PerNode(a, b))[i] = cmds[i]
      BY <1>7, <1>8, <3>2, ConcatProperties
    <3> QED
      BY <3>1, <3>3
  <2>3. \A i \in 1..N : (cmds \o PerNode(a, b))[Len(cmds) + i] = PerNode(a, b)[i]
    BY <1>1, <1>7, <1>8
  <2> QED
    BY <1>7, <2>1, <2>2, <2>3
<1>10. DOMAIN cmds = 1..Len(cmds) /\ DOMAIN cmds' = 1..Len(cmds')
  BY <1>8, <1>9
<1>11. \A i \in DOMAIN cmds' \ DOMAIN cmds :
         \E m \in FeatNodes : i = IdFor(m) /\ cmds'[i] = Command(m, a, b)
  <2> TAKE i \in DOMAIN cmds' \ DOMAIN cmds
  <2>1. PICK k \in 1..N : i = Len(cmds) + k
    <3>1. i - Len(cmds) \in 1..N /\ i = Len(cmds) + (i - Len(cmds))
      BY <1>1, <1>8, <1>9, <1>10
    <3> QED
      BY <3>1
  <2>2. q[k] \in FeatNodes
    BY <1>1
  <2>3. i = IdFor(q[k])
    BY <1>3, <1>4, <2>1, <2>2
  <2>4. cmds'[i] = Command(q[k], a, b)
    BY <1>9, <2>1
  <2> QED
    BY <2>2, <2>3, <2>4
<1>12. \A m \in FeatNodes : /\ IdFor(m) \in DOMAIN cmds' \ DOMAIN cmds
                            /\ cmds'[IdFor(m)] = Command(m, a, b)
  <2> TAKE m \in FeatNodes
  <2>1. pos(m) \in 1..N /\ q[pos(m)] = m /\ IdFor(m) = Len(cmds) + pos(m)
    BY <1>2, <1>4
  <2>2. cmds'[IdFor(m)] = Command(m, a, b)
    BY <1>9, <2>1
  <2>3. IdFor(m) \in 1..Len(cmds') /\ IdFor(m) \notin 1..Len(cmds)
    BY <1>1, <1>8, <1>9, <2>1
  <2> QED
    BY <1>10, <2>2, <2>3
<1>13. \A i \in DOMAIN cmds' :
         cmds'[i].action = "ext" => cmds'[i].node = FeatPrimary /\ cmds'[i].body \in ExtBodies
  <2> SUFFICES ASSUME NEW i \in DOMAIN cmds', cmds'[i].action = "ext"
               PROVE  cmds'[i].node = FeatPrimary /\ cmds'[i].body \in ExtBodies
    OBVIOUS
  <2>1. i \in DOMAIN cmds
    <3> SUFFICES ASSUME i \notin DOMAIN cmds PROVE FALSE
      OBVIOUS
    <3>1. PICK m \in FeatNodes : cmds'[i] = Command(m, a, b)
      BY <1>11
    <3> QED
      BY <3>1 DEF Command
  <2> QED
    BY <1>9, <1>10, <2>1 DEF QueueInv
<1>14. QueueInv'
  BY <1>9, <1>13 DEF QueueInv
<1>15. Len(cmds) <= Len(cmds')
  BY <1>1, <1>8, <1>9
<1> QED
  BY <1>9, <1>10, <1>11, <1>12, <1>14, <1>15

\* What the rows that name these commands need.
LEMMA PerNodeLast ==
  ASSUME QueueInv, NEW a \in {"hba", "tls"}, NEW b \in Bodies,
         cmds' = cmds \o PerNode(a, b)
  PROVE  /\ QueueInv'
         /\ Len(cmds) <= Len(cmds')
         /\ \A i \in DOMAIN cmds : cmds'[i] = cmds[i]
         /\ \A i \in DOMAIN cmds' \ DOMAIN cmds : cmds'[i].action = a
         /\ \A m \in FeatNodes :
              /\ IdFor(m) \in Nat \ {0} /\ IdFor(m) \notin DOMAIN cmds
              /\ IdFor(m) \in DOMAIN cmds'
              /\ cmds'[IdFor(m)].node = m /\ cmds'[IdFor(m)].action = a
              /\ \A i \in DOMAIN cmds' : cmds'[i].node = m => i <= IdFor(m)
<1>1. \A m : Command(m, a, b).node = m /\ Command(m, a, b).action = a
  BY DEF Command
<1>2. /\ QueueInv'
      /\ Len(cmds) <= Len(cmds')
      /\ \A i \in DOMAIN cmds : cmds'[i] = cmds[i]
      /\ \A i \in DOMAIN cmds' \ DOMAIN cmds :
           \E m \in FeatNodes : i = IdFor(m) /\ cmds'[i] = Command(m, a, b)
      /\ \A m \in FeatNodes : /\ IdFor(m) \in DOMAIN cmds' \ DOMAIN cmds
                              /\ cmds'[IdFor(m)] = Command(m, a, b)
  BY PerNodeAppends
<1>3. /\ DOMAIN cmds = 1..Len(cmds) /\ Len(cmds) \in Nat
      /\ DOMAIN cmds' = 1..Len(cmds') /\ Len(cmds') \in Nat
  BY <1>2 DEF QueueInv
<1>4. \A i \in DOMAIN cmds' \ DOMAIN cmds : cmds'[i].action = a
  <2> TAKE i \in DOMAIN cmds' \ DOMAIN cmds
  <2>1. PICK m \in FeatNodes : cmds'[i] = Command(m, a, b)
    BY <1>2
  <2> QED
    BY <1>1, <2>1
<1>5. ASSUME NEW m \in FeatNodes
      PROVE  /\ IdFor(m) \in Nat \ {0} /\ IdFor(m) \notin DOMAIN cmds
             /\ IdFor(m) \in DOMAIN cmds'
             /\ cmds'[IdFor(m)].node = m /\ cmds'[IdFor(m)].action = a
             /\ \A i \in DOMAIN cmds' : cmds'[i].node = m => i <= IdFor(m)
  <2>1. IdFor(m) \in DOMAIN cmds' \ DOMAIN cmds /\ cmds'[IdFor(m)] = Command(m, a, b)
    BY <1>2
  <2>2. IdFor(m) \in Nat /\ IdFor(m) > Len(cmds)
    BY <1>3, <2>1
  <2>3. ASSUME NEW i \in DOMAIN cmds', cmds'[i].node = m
        PROVE  i <= IdFor(m)
    <3>1. CASE i \in DOMAIN cmds
      BY <1>3, <2>2, <3>1
    <3>2. CASE i \notin DOMAIN cmds
      <4>1. PICK k \in FeatNodes : i = IdFor(k) /\ cmds'[i] = Command(k, a, b)
        BY <1>2, <3>2
      <4>2. k = m
        BY <1>1, <2>3, <4>1
      <4> QED
        BY <2>2, <4>1, <4>2
    <3> QED
      BY <3>1, <3>2
  <2> QED
    BY <1>1, <1>3, <2>1, <2>2, <2>3
<1> QED
  BY <1>2, <1>4, <1>5

-----------------------------------------------------------------------------
(* The start, and what several steps have in common.                       *)

LEMMA OffIsABody == <<"off">> \in Bodies /\ None \in Bodies
  BY DEF Bodies, Certificates

LEMMA DefaultIsAProfile == DefaultProfile \in Profiles
  BY FeatAssumption DEF DefaultProfile, Profiles, None

LEMMA InitInv == FeatInit => FeatInv
<1> SUFFICES ASSUME FeatInit PROVE FeatInv
  OBVIOUS
<1>0. asked = DefaultProfile /\ profile = DefaultProfile
  BY DEF FeatInit, DefaultProfile, None
<1>1. TableInv
  <2>1. extRow \in [Extensions -> ExtRows]
    <3>1. NoExt \in ExtRows /\ [on |-> FALSE, status |-> "off", cmd |-> 0] \in ExtRows
      BY DEF ExtRows, NoExt
    <3> QED
      BY <3>1 DEF FeatInit
  <2> QED
    BY <1>0, <2>1, DefaultIsAProfile DEF FeatInit, TableInv, Rows, NoRow, None
<1>2. QueueInv
  BY DEF FeatInit, QueueInv
<1>3. RequestInv
  BY DEF FeatInit, RequestInv, LockInv
<1>4. HostInv
  BY OffIsABody DEF FeatInit, HostInv, Files
<1>5. ReportInv
  BY DEF FeatInit, ReportInv
<1>6. HBAInv /\ TLSInv
  BY DEF FeatInit, HBAInv, TLSInv, LastInv, OnItsWay, NoRow
<1>7. ExtInv
  BY DEF FeatInit, ExtInv, ExtensionInv, OnItsWay, NoExt
<1>8. ProfileInv
  BY <1>0 DEF FeatInit, ProfileInv
<1> QED
  BY <1>1, <1>2, <1>3, <1>4, <1>5, <1>6, <1>7, <1>8 DEF FeatInv, BaseInv

appliedVars == <<cmds, reports, busy, tlsRow, hbaRow, extRow, file, active, hba, created, bare>>

\* Steps that touch neither commands nor reports, rows or hosts.
LEMMA AppliedUntouched ==
  ASSUME FeatInv, UNCHANGED appliedVars
  PROVE  QueueInv' /\ ReportInv' /\ HBAInv' /\ TLSInv' /\ ExtInv'
<1> USE DEF appliedVars
<1>1. QueueInv' /\ ReportInv'
  BY DEF FeatInv, BaseInv, QueueInv, ReportInv, NoneBefore
<1>2. HBAInv'
  BY DEF FeatInv, HBAInv, LastInv, NoneBefore, OnItsWay
<1>3. TLSInv'
  BY DEF FeatInv, TLSInv, LastInv, NoneBefore, OnItsWay
<1>4. ExtInv'
  BY DEF FeatInv, ExtInv, ExtensionInv, NoneBefore, OnItsWay
<1> QED
  BY <1>1, <1>2, <1>3, <1>4

\* The queue only grows.
Grows == Len(cmds) <= Len(cmds') /\ \A i \in DOMAIN cmds : cmds'[i] = cmds[i]

LEMMA GrownQueue ==
  ASSUME QueueInv, QueueInv', Grows
  PROVE  /\ \A i \in DOMAIN cmds : i \in DOMAIN cmds' /\ cmds'[i] = cmds[i]
         /\ \A i \in DOMAIN cmds : NoneBefore(i) => NoneBefore(i)'
         /\ \A i \in DOMAIN cmds' : i \notin DOMAIN cmds => i > Len(cmds)
         /\ DOMAIN cmds = 1..Len(cmds) /\ Len(cmds) \in Nat
<1>1. /\ DOMAIN cmds = 1..Len(cmds) /\ Len(cmds) \in Nat
      /\ DOMAIN cmds' = 1..Len(cmds') /\ Len(cmds') \in Nat
  BY DEF QueueInv
<1>2. \A i \in DOMAIN cmds : i \in DOMAIN cmds' /\ cmds'[i] = cmds[i]
  BY <1>1 DEF Grows
<1>3. ASSUME NEW i \in DOMAIN cmds, NoneBefore(i) PROVE NoneBefore(i)'
  <2> SUFFICES ASSUME NEW j \in DOMAIN cmds', j < i, cmds'[j].node = cmds'[i].node
               PROVE  cmds'[j].status # "pending"
    BY DEF NoneBefore
  <2>1. j \in DOMAIN cmds
    BY <1>1
  <2> QED
    BY <1>2, <1>3, <2>1 DEF NoneBefore
<1> QED
  BY <1>1, <1>2, <1>3

LEMMA GrownReports ==
  ASSUME QueueInv, QueueInv', Grows, ReportInv, UNCHANGED <<reports, busy>>
  PROVE  ReportInv'
  BY GrownQueue DEF ReportInv

LEMMA GrownHBA ==
  ASSUME QueueInv, QueueInv', Grows, ReportInv, TableInv, HBAInv,
         UNCHANGED <<hbaRow, hba, reports>>,
         \A i \in DOMAIN cmds' \ DOMAIN cmds : cmds'[i].action # "hba"
  PROVE  HBAInv'
<1>1. LastInv(hbaRow, "hba")'
  BY GrownQueue DEF HBAInv, LastInv, TableInv, Rows
<1>2. \A n \in FeatNodes : hbaRow[n].status = "succeeded" \/ OnItsWay(hbaRow[n].cmd)
                             => hbaRow[n].cmd \in DOMAIN cmds
  BY DEF HBAInv, LastInv, OnItsWay, ReportInv
<1> QED
  BY <1>1, <1>2, GrownQueue DEF HBAInv, OnItsWay

LEMMA GrownTLS ==
  ASSUME QueueInv, QueueInv', Grows, ReportInv, TableInv, TLSInv,
         UNCHANGED <<tlsRow, file, active, bare, reports>>,
         \A i \in DOMAIN cmds' \ DOMAIN cmds : cmds'[i].action # "tls"
  PROVE  TLSInv'
<1>1. LastInv(tlsRow, "tls")'
  BY GrownQueue DEF TLSInv, LastInv, TableInv, Rows
<1>2. \A n \in FeatNodes : tlsRow[n].status = "succeeded" \/ OnItsWay(tlsRow[n].cmd)
                             => tlsRow[n].cmd \in DOMAIN cmds
  BY DEF TLSInv, LastInv, OnItsWay, ReportInv
<1> QED
  BY <1>1, <1>2, GrownQueue DEF TLSInv, OnItsWay

LEMMA GrownExt ==
  ASSUME QueueInv, QueueInv', Grows, ReportInv, TableInv, ExtInv,
         UNCHANGED <<extRow, created, reports>>,
         \A i \in DOMAIN cmds' \ DOMAIN cmds : cmds'[i].action # "ext"
  PROVE  ExtInv'
<1> SUFFICES ASSUME NEW x \in Extensions
             PROVE  ExtensionInv(x)'
  BY DEF ExtInv
<1> QED
  BY GrownQueue DEF ExtInv, ExtensionInv, OnItsWay, TableInv, ExtRows, ReportInv

-----------------------------------------------------------------------------
(* Requests.                                                               *)

LEMMA BeginLockedInv ==
  ASSUME FeatInv, BeginLocked
  PROVE  FeatInv'
<1> USE DEF BeginLocked, stored, host, history, bounds
<1>1. UNCHANGED appliedVars
  BY DEF appliedVars
<1>2. TableInv' /\ HostInv'
  BY DEF FeatInv, BaseInv, TableInv, HostInv
<1>3. /\ LockInv'
      /\ locked'.kind \in {"access", "tls"} => locked'.read = profile
  BY DEF FeatInv, BaseInv, TableInv, HostInv, Lock, LockInv
<1>4. RequestInv'
  BY <1>3 DEF FeatInv, BaseInv, RequestInv, Accept
<1>5. ProfileInv'
  BY <1>3 DEF FeatInv, ProfileInv
<1> QED
  BY <1>1, <1>2, <1>4, <1>5, AppliedUntouched DEF FeatInv, BaseInv

LEMMA UpdateNetworkAccessInv ==
  ASSUME FeatInv, UpdateNetworkAccess
  PROVE  FeatInv'
<1> USE DEF UpdateNetworkAccess, host, bounds
<1>0. /\ profile \in Profiles /\ asked \in Profiles /\ locked.read \in Profiles
      /\ locked.app \in Lists /\ locked.admin \in Lists
  BY DEF FeatInv, BaseInv, TableInv, RequestInv, LockInv
<1>1. UNCHANGED appliedVars
  BY DEF appliedVars
<1>2. TableInv' /\ HostInv'
  <2>1. profile' \in Profiles /\ asked' \in Profiles
    BY <1>0 DEF UpsertAccess, Profiles
  <2> QED
    BY <2>1 DEF FeatInv, BaseInv, TableInv, HostInv
<1>3. RequestInv'
  BY DEF FeatInv, BaseInv, RequestInv, LockInv, Unlock
<1>4. ProfileInv'
  BY <1>0 DEF FeatInv, ProfileInv, UpsertAccess, Unlock
<1> QED
  BY <1>1, <1>2, <1>3, <1>4, AppliedUntouched DEF FeatInv, BaseInv

LEMMA UpdateTLSConfigInv ==
  ASSUME FeatInv, UpdateTLSConfig
  PROVE  FeatInv'
<1> USE DEF UpdateTLSConfig, host, bounds
<1>0. /\ profile \in Profiles /\ asked \in Profiles /\ locked.read \in Profiles
      /\ locked.mode \in Modes /\ locked.manual \in BOOLEAN
  BY DEF FeatInv, BaseInv, TableInv, RequestInv, LockInv
<1>1. UNCHANGED appliedVars
  BY DEF appliedVars
<1>2. TableInv' /\ HostInv'
  <2>1. profile' \in Profiles /\ asked' \in Profiles
    BY <1>0 DEF UpsertTLS, Profiles
  <2> QED
    BY <2>1 DEF FeatInv, BaseInv, TableInv, HostInv
<1>3. RequestInv'
  BY DEF FeatInv, BaseInv, RequestInv, LockInv, Unlock
<1>4. ProfileInv'
  BY <1>0 DEF FeatInv, ProfileInv, UpsertTLS, Unlock
<1> QED
  BY <1>1, <1>2, <1>3, <1>4, AppliedUntouched DEF FeatInv, BaseInv

LEMMA ReadConnectionProfileInv ==
  ASSUME FeatInv, ReadConnectionProfile
  PROVE  FeatInv'
<1> USE DEF ReadConnectionProfile, stored, host, history
<1>1. UNCHANGED appliedVars
  BY DEF appliedVars
<1>2. TableInv' /\ HostInv'
  BY DEF FeatInv, BaseInv, TableInv, HostInv
<1>3. PICK app \in Lists, mode \in Modes :
        update' = update \cup {[read |-> profile, app |-> app, mode |-> mode, id |-> requests]}
  OBVIOUS
<1>4. \A u \in update' :
        u \in update \/ (u.read = profile /\ u.app = app /\ u.mode = mode)
  BY <1>3
<1>5. RequestInv'
  BY <1>4 DEF FeatInv, BaseInv, TableInv, RequestInv, LockInv, Accept
<1>6. ProfileInv'
  BY <1>4 DEF FeatInv, ProfileInv
<1> QED
  BY <1>1, <1>2, <1>5, <1>6, AppliedUntouched DEF FeatInv, BaseInv

LEMMA UpdateConnectionProfileInv ==
  ASSUME FeatInv, NEW u \in update, UpdateConnectionProfile(u)
  PROVE  FeatInv'
<1> USE DEF UpdateConnectionProfile, host, bounds
<1>0. /\ profile \in Profiles /\ asked \in Profiles /\ u.read \in Profiles
      /\ u.app \in Lists /\ u.mode \in Modes
  BY DEF FeatInv, BaseInv, TableInv, RequestInv
<1>1. UNCHANGED appliedVars
  BY DEF appliedVars
<1>2. TableInv' /\ HostInv'
  <2>1. profile' \in Profiles /\ asked' \in Profiles
    BY <1>0 DEF Profiles
  <2> QED
    BY <2>1 DEF FeatInv, BaseInv, TableInv, HostInv
<1>3. RequestInv'
  BY DEF FeatInv, BaseInv, RequestInv, LockInv
<1>4. ProfileInv'
  <2> SUFFICES ASSUME ~overlap' PROVE ProfileInv'
    BY DEF ProfileInv
  <2>1. ~overlap /\ update = {u} /\ locked.kind \notin {"access", "tls"}
    BY DEF FeatInv, BaseInv, RequestInv
  <2>2. profile = asked /\ u.read = profile
    BY <2>1 DEF FeatInv, ProfileInv
  <2> QED
    BY <1>0, <2>1, <2>2 DEF ProfileInv
<1> QED
  BY <1>1, <1>2, <1>3, <1>4, AppliedUntouched DEF FeatInv, BaseInv

LEMMA GenerateTLSCAInv ==
  ASSUME FeatInv, GenerateTLSCA
  PROVE  FeatInv'
<1> USE DEF GenerateTLSCA, host, history
<1>1. UNCHANGED appliedVars
  BY DEF appliedVars
<1>2. TableInv' /\ HostInv'
  BY DEF FeatInv, BaseInv, TableInv, HostInv, UpsertCA, generateClusterCA
<1>3. RequestInv' /\ ProfileInv'
  BY DEF FeatInv, BaseInv, RequestInv, LockInv, ProfileInv, Accept
<1> QED
  BY <1>1, <1>2, <1>3, AppliedUntouched DEF FeatInv, BaseInv

LEMMA CutProvisioningInv ==
  ASSUME FeatInv, CutProvisioning
  PROVE  FeatInv'
<1> USE DEF CutProvisioning, host, history
<1>1. UNCHANGED appliedVars
  BY DEF appliedVars
<1>2. TableInv' /\ HostInv'
  BY DEF FeatInv, BaseInv, TableInv, HostInv
<1>3. RequestInv' /\ ProfileInv'
  BY DEF FeatInv, BaseInv, RequestInv, LockInv, ProfileInv, Unlock
<1> QED
  BY <1>1, <1>2, <1>3, AppliedUntouched DEF FeatInv, BaseInv

LEMMA ReplaceSettingsInv ==
  ASSUME FeatInv, NEW p \in Params, ReplaceSettings(p)
  PROVE  FeatInv'
<1> USE DEF ReplaceSettings, host, history
<1>1. UNCHANGED appliedVars
  BY DEF appliedVars
<1>2. TableInv' /\ HostInv'
  BY DEF FeatInv, BaseInv, TableInv, HostInv, ReplaceAllSettings
<1>3. RequestInv' /\ ProfileInv'
  BY DEF FeatInv, BaseInv, RequestInv, LockInv, ProfileInv, Accept
<1> QED
  BY <1>1, <1>2, <1>3, AppliedUntouched DEF FeatInv, BaseInv

LEMMA DatabaseReadyInv ==
  ASSUME FeatInv, NEW d \in Databases, DatabaseReady(d)
  PROVE  FeatInv'
<1> USE DEF DatabaseReady, stored, host, history, bounds
<1>1. UNCHANGED appliedVars
  BY DEF appliedVars
<1>2. TableInv' /\ HostInv'
  BY DEF FeatInv, BaseInv, TableInv, HostInv
<1>3. RequestInv' /\ ProfileInv'
  BY DEF FeatInv, BaseInv, RequestInv, LockInv, ProfileInv
<1> QED
  BY <1>1, <1>2, <1>3, AppliedUntouched DEF FeatInv, BaseInv

-----------------------------------------------------------------------------
(* Requests that queue commands, and the toggle of an extension.           *)

LEMMA ApplyHBAInv ==
  ASSUME FeatInv, ApplyHBA
  PROVE  FeatInv'
<1> USE DEF ApplyHBA, host, history, bounds
<1> DEFINE b == hbaRuleSets(locked.read, locked.dbs)
<1>1. b \in Bodies
  <2>1. locked.read \in Profiles /\ locked.dbs \in SUBSET Databases
    BY DEF FeatInv, BaseInv, RequestInv, LockInv
  <2>2. b \in HBABodies
    BY <2>1 DEF HBABodies, hbaRuleSets, Profiles
  <2> QED
    BY <2>2 DEF Bodies
<1> HIDE DEF b
<1>2. QueueInv /\ ReportInv /\ TableInv /\ cmds' = cmds \o PerNode("hba", b)
  BY DEF b, FeatInv, BaseInv
<1>3. /\ QueueInv'
      /\ Grows
      /\ \A i \in DOMAIN cmds' \ DOMAIN cmds : cmds'[i].action = "hba"
      /\ \A m \in FeatNodes :
           /\ IdFor(m) \in Nat \ {0} /\ IdFor(m) \notin DOMAIN cmds
           /\ IdFor(m) \in DOMAIN cmds'
           /\ cmds'[IdFor(m)].node = m /\ cmds'[IdFor(m)].action = "hba"
           /\ \A i \in DOMAIN cmds' : cmds'[i].node = m => i <= IdFor(m)
  BY <1>1, <1>2, PerNodeLast DEF Grows
<1>4. ReportInv' /\ TLSInv' /\ ExtInv'
  BY <1>2, <1>3, GrownReports, GrownTLS, GrownExt DEF FeatInv
<1>5. \A m \in FeatNodes : hbaRow'[m].cmd = IdFor(m) /\ hbaRow'[m].status = "pending"
  BY DEF Pending
<1>6. HBAInv'
  <2>1. \A n \in FeatNodes : ~OnItsWay(hbaRow[n].cmd)'
    BY <1>2, <1>3, <1>5 DEF OnItsWay, ReportInv
  <2>2. LastInv(hbaRow, "hba")'
    BY <1>3, <1>5 DEF LastInv
  <2> QED
    BY <1>5, <2>1, <2>2 DEF HBAInv
<1>7. TableInv' /\ HostInv'
  <2>1. hbaRow' \in [FeatNodes -> Rows]
    BY <1>3 DEF Rows, Pending
  <2> QED
    BY <2>1 DEF FeatInv, BaseInv, TableInv, HostInv
<1>8. RequestInv' /\ ProfileInv'
  BY DEF FeatInv, BaseInv, RequestInv, LockInv, ProfileInv, Unlock
<1> QED
  BY <1>3, <1>4, <1>6, <1>7, <1>8 DEF FeatInv, BaseInv

LEMMA ApplyTLSInv ==
  ASSUME FeatInv, ApplyTLS
  PROVE  FeatInv'
<1> USE DEF ApplyTLS, host, history, bounds
<1> DEFINE b == Certificate(locked.read, locked.ca)
<1>1. b \in Bodies
  <2>1. locked.ca \in Nat
    BY DEF FeatInv, BaseInv, RequestInv, LockInv
  <2>2. b \in Certificates
    BY <2>1 DEF Certificates, Certificate
  <2> QED
    BY <2>2 DEF Bodies
<1> HIDE DEF b
<1>2. RequestInv' /\ ProfileInv'
  BY DEF FeatInv, BaseInv, RequestInv, LockInv, ProfileInv, Unlock
<1>3. CASE UNCHANGED <<cmds, tlsRow>>
  <2>1. UNCHANGED appliedVars
    BY <1>3 DEF appliedVars
  <2>2. TableInv' /\ HostInv'
    BY <1>3 DEF FeatInv, BaseInv, TableInv, HostInv
  <2> QED
    BY <1>2, <2>1, <2>2, AppliedUntouched DEF FeatInv, BaseInv
<1>4. CASE /\ cmds' = cmds \o PerNode("tls", b)
           /\ tlsRow' = [n \in FeatNodes |-> Pending(IdFor(n))]
  <2>1. UNCHANGED <<profile, asked, tlsCA, hbaRow, extRow, settings, adminKept, reports, busy,
                    file, active, hba, rules, created, bare, unsure, ready>>
    OBVIOUS
  <2> HIDE DEF ApplyTLS
  <2>2. QueueInv /\ ReportInv /\ TableInv
    BY DEF FeatInv, BaseInv
  <2>3. /\ QueueInv'
        /\ Grows
        /\ \A i \in DOMAIN cmds' \ DOMAIN cmds : cmds'[i].action = "tls"
        /\ \A m \in FeatNodes :
             /\ IdFor(m) \in Nat \ {0} /\ IdFor(m) \notin DOMAIN cmds
             /\ IdFor(m) \in DOMAIN cmds'
             /\ cmds'[IdFor(m)].node = m /\ cmds'[IdFor(m)].action = "tls"
             /\ \A i \in DOMAIN cmds' : cmds'[i].node = m => i <= IdFor(m)
    BY <1>1, <1>4, <2>2, PerNodeLast DEF Grows
  <2>4. ReportInv' /\ HBAInv' /\ ExtInv'
    BY <2>1, <2>2, <2>3, GrownReports, GrownHBA, GrownExt DEF FeatInv
  <2>5. \A m \in FeatNodes : tlsRow'[m].cmd = IdFor(m) /\ tlsRow'[m].status = "pending"
    BY <1>4 DEF Pending
  <2>6. TLSInv'
    <3>1. \A n \in FeatNodes : ~OnItsWay(tlsRow[n].cmd)'
      BY <2>1, <2>2, <2>3, <2>5 DEF OnItsWay, ReportInv
    <3>2. LastInv(tlsRow, "tls")'
      BY <2>3, <2>5 DEF LastInv
    <3> QED
      BY <2>3, <2>5, <3>1, <3>2 DEF TLSInv
  <2>7. TableInv' /\ HostInv'
    <3>1. tlsRow' \in [FeatNodes -> Rows]
      BY <1>4, <2>3 DEF Rows, Pending
    <3> QED
      BY <2>1, <3>1 DEF FeatInv, BaseInv, TableInv, HostInv
  <2> QED
    BY <1>2, <2>3, <2>4, <2>6, <2>7 DEF FeatInv, BaseInv
<1> QED
  BY <1>3, <1>4 DEF b

LEMMA QueueApplySettingsInv ==
  ASSUME FeatInv, NEW r \in replace, NEW n \in FeatNodes, QueueApplySettings(r, n)
  PROVE  FeatInv'
<1> USE DEF QueueApplySettings, stored, host, history, bounds
<1> DEFINE c == Command(n, "settings", r.params)
<1>1. c \in Commands /\ c.action = "settings"
  <2>1. r.params \in Bodies
    BY DEF FeatInv, BaseInv, RequestInv, Bodies
  <2> QED
    BY <2>1 DEF Command, Commands
<1> HIDE DEF c
<1>2. QueueInv /\ ReportInv /\ TableInv /\ cmds' = Append(cmds, c)
  BY DEF c, FeatInv, BaseInv
<1>3. /\ cmds' \in Seq(Commands)
      /\ Len(cmds') = Len(cmds) + 1
      /\ \A i \in 1..Len(cmds) : cmds'[i] = cmds[i]
      /\ cmds'[Len(cmds) + 1] = c
  BY <1>1, <1>2 DEF QueueInv
<1>4. /\ QueueInv'
      /\ Grows
      /\ \A i \in DOMAIN cmds' \ DOMAIN cmds : cmds'[i].action = "settings"
  BY <1>1, <1>2, <1>3 DEF QueueInv, Grows
<1>5. ReportInv' /\ HBAInv' /\ TLSInv' /\ ExtInv'
  BY <1>2, <1>4, GrownReports, GrownHBA, GrownTLS, GrownExt DEF FeatInv
<1>6. TableInv' /\ HostInv'
  BY DEF FeatInv, BaseInv, TableInv, HostInv
<1>7. RequestInv' /\ ProfileInv'
  BY DEF FeatInv, BaseInv, RequestInv, LockInv, ProfileInv
<1> QED
  BY <1>4, <1>5, <1>6, <1>7 DEF FeatInv, BaseInv

LEMMA SetExtensionInv ==
  ASSUME FeatInv, NEW y \in Extensions, NEW on \in BOOLEAN, SetExtension(y, on)
  PROVE  FeatInv'
<1> USE DEF SetExtension, host, history
<1>1. /\ QueueInv' /\ ReportInv' /\ HBAInv' /\ TLSInv' /\ HostInv'
  <2>1. QueueInv' /\ ReportInv'
    BY DEF FeatInv, BaseInv, QueueInv, ReportInv, NoneBefore
  <2>2. HBAInv'
    BY DEF FeatInv, HBAInv, LastInv, NoneBefore, OnItsWay
  <2>3. TLSInv'
    BY DEF FeatInv, TLSInv, LastInv, NoneBefore, OnItsWay
  <2> QED
    BY <2>1, <2>2, <2>3 DEF FeatInv, BaseInv, HostInv
<1>2. RequestInv' /\ ProfileInv'
  BY DEF FeatInv, BaseInv, RequestInv, LockInv, ProfileInv, Accept
<1>3. extRow \in [Extensions -> ExtRows] /\ extRow[y] \in ExtRows
  BY DEF FeatInv, BaseInv, TableInv
<1>4. /\ SetEnabled(extRow[y], on) \in ExtRows
      /\ SetEnabled(extRow[y], on).cmd = IF extRow[y].status = "none" THEN 0 ELSE extRow[y].cmd
      /\ SetEnabled(extRow[y], on).status =
           IF extRow[y].status = "none" THEN "off" ELSE extRow[y].status
  BY <1>3 DEF SetEnabled, ExtRows
<1>e. /\ extRow'[y] = SetEnabled(extRow[y], on)
      /\ \A x \in Extensions \ {y} : extRow'[x] = extRow[x]
  BY <1>3
<1>5. TableInv'
  <2>1. extRow' \in [Extensions -> ExtRows]
    BY <1>3, <1>4
  <2> QED
    BY <2>1 DEF FeatInv, BaseInv, TableInv
<1>6. ASSUME NEW x \in Extensions
      PROVE  /\ extRow'[x].cmd = extRow[x].cmd
             /\ \/ extRow'[x].status = extRow[x].status
                \/ /\ extRow[x].status = "none"
                   /\ extRow'[x].status = "off"
  <2>1. ExtensionInv(x)
    BY DEF FeatInv, ExtInv
  <2>2. extRow[x].status = "none" => extRow[x].cmd = 0
    BY <2>1 DEF ExtensionInv
  <2>3. CASE x = y
    <3> HIDE DEF SetExtension
    <3> QED
      BY <1>4, <1>e, <2>2, <2>3
  <2>4. CASE x # y
    <3> HIDE DEF SetExtension
    <3> QED
      BY <1>e, <2>4
  <2> QED
    BY <2>3, <2>4
<1>7. ExtInv'
  <2> SUFFICES ASSUME NEW x \in Extensions PROVE ExtensionInv(x)'
    BY DEF ExtInv
  <2>1. ExtensionInv(x)
    BY DEF FeatInv, ExtInv
  <2> QED
    BY <1>6, <2>1 DEF ExtensionInv, NoneBefore, OnItsWay
<1> QED
  BY <1>1, <1>2, <1>5, <1>7 DEF FeatInv, BaseInv

LEMMA ApplyExtensionsInv ==
  ASSUME FeatInv, ApplyExtensions
  PROVE  FeatInv'
<1> DEFINE first == ProvisionAdmin(adminKept)
           id == Len(cmds) + Len(first) + 1
           b == [enable |-> Enabled(locked.rows), disable |-> Disabled(locked.rows),
                 dbs |-> locked.dbs]
           c == Command(FeatPrimary, "ext", b)
<1>0. /\ cmds' = cmds \o first \o <<c>>
      /\ extRow' = [x \in Extensions |->
            IF extRow[x].status = "none" THEN extRow[x]
            ELSE [extRow[x] EXCEPT !.status = "pending", !.cmd = id]]
      /\ adminKept' = IF ResolveSecret(adminKept) THEN adminKept ELSE StoreSecret
      /\ UNCHANGED <<profile, tlsCA, tlsRow, hbaRow, settings, update, replace, reports, busy,
                     file, active, hba, rules, created, ready, asked, overlap, bare,
                     unsure, requests>>
  BY DEF ApplyExtensions, host, history, bounds
<1>1. RequestInv' /\ ProfileInv'
  BY DEF ApplyExtensions, history, bounds, FeatInv, BaseInv, RequestInv, LockInv, ProfileInv, Unlock
<1>2. /\ b \in ExtBodies
      /\ b.enable \cap b.disable = {}
  <2>1. locked.dbs \in SUBSET Databases
    BY DEF ApplyExtensions, FeatInv, BaseInv, RequestInv, LockInv
  <2>2. /\ Enabled(locked.rows) \in SUBSET Extensions /\ Disabled(locked.rows) \in SUBSET Extensions
        /\ Enabled(locked.rows) \cap Disabled(locked.rows) = {}
    BY DEF Enabled, Disabled
  <2> QED
    BY <2>1, <2>2 DEF ExtBodies
<1> HIDE DEF b
<1>3. /\ c \in Commands /\ c.action = "ext" /\ c.node = FeatPrimary /\ c.body = b
  <2>1. b \in Bodies
    BY <1>2 DEF Bodies
  <2> QED
    BY <2>1, FeatAssumption DEF Command, Commands
<1> HIDE DEF c
<1>4. /\ first \in Seq(Commands)
      /\ \A i \in 1..Len(first) : first[i].action = "admin"
  <2>1. Command(FeatPrimary, "admin", None) \in Commands
    BY OffIsABody, FeatAssumption DEF Command, Commands
  <2>2. Command(FeatPrimary, "admin", None).action = "admin"
    BY DEF Command
  <2> QED
    BY <2>1, <2>2 DEF ProvisionAdmin, CreateCommandWithSecrets
<1> HIDE DEF first
<1>5. QueueInv /\ ReportInv /\ TableInv /\ cmds \in Seq(Commands)
  BY DEF FeatInv, BaseInv, QueueInv
<1>6. /\ id \in Nat \ {0} /\ id > Len(cmds)
      /\ cmds' \in Seq(Commands)
      /\ Len(cmds') = id
      /\ \A i \in 1..Len(cmds) : cmds'[i] = cmds[i]
      /\ \A i \in (Len(cmds) + 1)..(id - 1) : cmds'[i] = first[i - Len(cmds)]
      /\ cmds'[id] = c
  <2>1. Len(cmds) \in Nat /\ Len(first) \in Nat
    BY <1>4, <1>5
  <2>2. /\ cmds \o first \in Seq(Commands)
        /\ Len(cmds \o first) = Len(cmds) + Len(first)
        /\ \A i \in 1..Len(cmds) : (cmds \o first)[i] = cmds[i]
        /\ \A i \in (Len(cmds) + 1)..(Len(cmds) + Len(first)) :
             (cmds \o first)[i] = first[i - Len(cmds)]
    BY <1>4, <1>5, <2>1, ConcatProperties
  <2>3. <<c>> \in Seq(Commands) /\ Len(<<c>>) = 1 /\ <<c>>[1] = c
    BY <1>3
  <2>4. /\ cmds' \in Seq(Commands)
        /\ Len(cmds') = id
        /\ \A i \in 1..(Len(cmds) + Len(first)) : cmds'[i] = (cmds \o first)[i]
        /\ cmds'[id] = c
    <3>1. (cmds \o first) \o <<c>> \in Seq(Commands)
      BY <2>2, <2>3, ConcatProperties
    <3>2. Len((cmds \o first) \o <<c>>) = id
      BY <2>1, <2>2, <2>3, ConcatProperties
    <3>3. \A i \in 1..(Len(cmds) + Len(first)) : ((cmds \o first) \o <<c>>)[i] = (cmds \o first)[i]
      BY <2>1, <2>2, <2>3, ConcatProperties
    <3>4. ((cmds \o first) \o <<c>>)[id] = c
      BY <2>1, <2>2, <2>3, ConcatProperties
    <3> QED
      BY <1>0, <3>1, <3>2, <3>3, <3>4
  <2>5. id \in Nat \ {0} /\ id > Len(cmds)
    BY <2>1
  <2>6. \A i \in 1..Len(cmds) : cmds'[i] = cmds[i]
    BY <2>1, <2>2, <2>4
  <2>7. \A i \in (Len(cmds) + 1)..(id - 1) : cmds'[i] = first[i - Len(cmds)]
    <3> TAKE i \in (Len(cmds) + 1)..(id - 1)
    <3>1. i \in 1..(Len(cmds) + Len(first)) /\ i \in (Len(cmds) + 1)..(Len(cmds) + Len(first))
      BY <2>1
    <3> HIDE DEF id
    <3> QED
      BY <2>2, <2>4, <3>1
  <2> HIDE DEF id
  <2> QED
    BY <2>4, <2>5, <2>6, <2>7
<1> HIDE DEF id
<1>7. /\ DOMAIN cmds = 1..Len(cmds) /\ Len(cmds) \in Nat /\ DOMAIN cmds' = 1..id
      /\ Len(first) \in Nat /\ id = Len(cmds) + Len(first) + 1
  BY <1>4, <1>5, <1>6 DEF id
<1>8. \A i \in DOMAIN cmds' \ DOMAIN cmds : i = id \/ cmds'[i].action = "admin"
  <2> SUFFICES ASSUME NEW i \in DOMAIN cmds' \ DOMAIN cmds, i # id
               PROVE  cmds'[i].action = "admin"
    OBVIOUS
  <2>1. i \in (Len(cmds) + 1)..(id - 1) /\ i - Len(cmds) \in 1..Len(first)
    BY <1>6, <1>7
  <2> QED
    BY <1>4, <1>6, <2>1
<1>9. QueueInv' /\ Grows
  BY <1>2, <1>3, <1>5, <1>6, <1>7, <1>8 DEF QueueInv, Grows
<1>10. \A i \in DOMAIN cmds' \ DOMAIN cmds : cmds'[i].action \notin {"hba", "tls"}
  BY <1>3, <1>6, <1>8
<1>11. ReportInv' /\ HBAInv' /\ TLSInv'
  BY <1>0, <1>5, <1>9, <1>10, GrownReports, GrownHBA, GrownTLS DEF FeatInv
<1>12. ASSUME NEW x \in Extensions
       PROVE  /\ extRow'[x] \in ExtRows
              /\ \/ extRow[x].status = "none" /\ extRow'[x] = extRow[x]
                 \/ extRow'[x].status = "pending" /\ extRow'[x].cmd = id
  BY <1>0, <1>5, <1>6 DEF TableInv, ExtRows
<1>13. ExtInv'
  <2> SUFFICES ASSUME NEW x \in Extensions PROVE ExtensionInv(x)'
    BY DEF ExtInv
  <2>0. \A h \in reports' : h.cmd \in 1..Len(cmds)
    BY <1>0, <1>5, <1>7 DEF ReportInv
  <2>1. ExtensionInv(x)
    BY DEF FeatInv, ExtInv
  <2>2. CASE extRow[x].status = "none" /\ extRow'[x] = extRow[x]
    <3>1. extRow[x].cmd = 0 /\ extRow'[x].cmd = 0 /\ extRow'[x].status = "none"
      BY <2>1, <2>2 DEF ExtensionInv
    <3>2. \A h \in reports' : h.cmd # 0
      BY <2>0
    <3> QED
      BY <3>1, <3>2 DEF ExtensionInv, OnItsWay
  <2>3. CASE extRow'[x].status = "pending" /\ extRow'[x].cmd = id
    <3>1. \A h \in reports' : h.cmd # id
      BY <1>6, <1>7, <2>0
    <3>2. id \in DOMAIN cmds' /\ cmds'[id].action = "ext" /\ id # 0
      BY <1>3, <1>6, <1>7
    <3>3. \A i \in DOMAIN cmds' : i <= id
      BY <1>6, <1>7
    <3> QED
      BY <2>3, <3>1, <3>2, <3>3 DEF ExtensionInv, OnItsWay
  <2> QED
    BY <1>12, <2>2, <2>3
<1>14. TableInv' /\ HostInv'
  <2>1. extRow' \in [Extensions -> ExtRows]
    BY <1>0, <1>12
  <2>2. adminKept' \in {"none", "created", "backfilled", "half"}
    BY <1>0, <1>5 DEF TableInv, StoreSecret
  <2> QED
    BY <1>0, <2>1, <2>2 DEF FeatInv, BaseInv, TableInv, HostInv
<1> QED
  BY <1>1, <1>9, <1>11, <1>13, <1>14 DEF FeatInv, BaseInv

-----------------------------------------------------------------------------
(* Agents.                                                                 *)

\* Command i is the first pending one of node n.
Fetched(n, i) ==
    /\ i \in DOMAIN cmds
    /\ cmds[i].node = n /\ cmds[i].status = "pending"
    /\ NoneBefore(i)

LEMMA FirstIsFetched ==
  ASSUME QueueInv, NEW n \in FeatNodes, CanFetch(n)
  PROVE  Fetched(n, FirstPending(n))
<1> DEFINE S == {i \in DOMAIN cmds : cmds[i].node = n /\ cmds[i].status = "pending"}
<1>1. DOMAIN cmds \subseteq Nat
  BY DEF QueueInv
<1>2. S \subseteq Nat /\ S # {} /\ FirstPending(n) = Min(S)
  BY <1>1 DEF CanFetch, FirstPending
<1>3. FirstPending(n) \in S /\ \A j \in S : FirstPending(n) <= j
  BY <1>2, MinOfSet
<1> QED
  BY <1>1, <1>3 DEF Fetched, NoneBefore

LEMMA ReportingInv ==
  ASSUME QueueInv, ReportInv, NEW n \in FeatNodes, NEW i, Fetched(n, i), NEW ok \in BOOLEAN,
         Reporting(n, i, ok), UNCHANGED cmds
  PROVE  /\ ReportInv'
         /\ \A h \in reports' : h \in reports \/ (h.cmd = i /\ h.ok = ok)
<1>1. i \in Nat
  BY DEF Fetched, QueueInv
<1>2. \A h \in reports' :
        h \in reports \/ h = [cmd |-> i, ok |-> ok, at |-> "update", late |-> FALSE]
  BY DEF Reporting
<1>3. busy' \in [FeatNodes -> Nat]
  BY <1>1 DEF Reporting, ReportInv
<1>4. \A m \in FeatNodes : busy'[m] # 0 => busy'[m] \in DOMAIN cmds' /\ cmds'[busy'[m]].node = m
  BY DEF Reporting, ReportInv, Fetched
<1>5. \A h \in reports' :
        /\ h \in [cmd : Nat, ok : BOOLEAN, at : {"update", "apply"}, late : BOOLEAN]
        /\ h.cmd \in DOMAIN cmds'
        /\ NoneBefore(h.cmd)'
  <2> TAKE h \in reports'
  <2>1. CASE h \in reports
    BY <2>1 DEF ReportInv, NoneBefore
  <2>2. CASE h = [cmd |-> i, ok |-> ok, at |-> "update", late |-> FALSE]
    BY <1>1, <2>2 DEF Fetched, NoneBefore
  <2> QED
    BY <1>2, <2>1, <2>2
<1> QED
  BY <1>2, <1>3, <1>4, <1>5 DEF ReportInv

\* Once the last command of a feature was executed with success, no other one
\* of that feature is fetched.
LEMMA FetchedIsLast ==
  ASSUME QueueInv, ReportInv, NEW n \in FeatNodes, NEW i, Fetched(n, i),
         NEW k \in DOMAIN cmds, cmds[k].node = n, NoneBefore(k), i <= k
  PROVE  i = k
<1>1. DOMAIN cmds \subseteq Nat
  BY DEF QueueInv
<1> QED
  BY <1>1 DEF Fetched, NoneBefore

LEMMA ExecutedHBA ==
  ASSUME FeatInv, NEW n \in FeatNodes, NEW i, Fetched(n, i), NEW ok \in BOOLEAN,
         UNCHANGED <<cmds, hbaRow>>,
         \A h \in reports' : h \in reports \/ (h.cmd = i /\ h.ok = ok),
         \A m \in FeatNodes \ {n} : hba'[m] = hba[m],
         cmds[i].action = "hba" /\ ok => hba'[n] = RenderHBAPolicy(cmds[i].body),
         hba'[n] = hba[n] \/ (cmds[i].action = "hba" /\ hba'[n] = RenderHBAPolicy(cmds[i].body))
  PROVE  HBAInv'
<1>1. QueueInv /\ ReportInv /\ HBAInv /\ LastInv(hbaRow, "hba")
  BY DEF FeatInv, BaseInv, HBAInv
<1>2. LastInv(hbaRow, "hba")'
  BY <1>1 DEF LastInv, NoneBefore
<1>3. ASSUME NEW m \in FeatNodes,
             hbaRow[m].status = "succeeded" \/ \E h \in reports' : h.ok /\ h.cmd = hbaRow[m].cmd
      PROVE  hba'[m] = RenderHBAPolicy(cmds[hbaRow[m].cmd].body)
  <2> DEFINE k == hbaRow[m].cmd
             before == hbaRow[m].status = "succeeded" \/ OnItsWay(k)
  <2>1. before \/ (k = i /\ ok)
    BY <1>3 DEF OnItsWay
  <2>2. k \in DOMAIN cmds /\ cmds[k].node = m /\ cmds[k].action = "hba" /\ k # 0
    <3>1. k # 0
      BY <1>1, <2>1 DEF LastInv, OnItsWay, ReportInv, QueueInv, Fetched
    <3> QED
      BY <1>1, <3>1 DEF LastInv
  <2>3. before => hba[m] = RenderHBAPolicy(cmds[k].body) /\ NoneBefore(k)
    BY <1>1 DEF HBAInv, LastInv, OnItsWay, ReportInv
  <2>4. CASE m # n
    BY <2>1, <2>2, <2>3, <2>4 DEF Fetched
  <2>5. CASE m = n /\ cmds[i].action # "hba"
    BY <2>1, <2>2, <2>3, <2>5
  <2>6. CASE m = n /\ cmds[i].action = "hba"
    <3>1. i <= k
      BY <1>1, <2>6 DEF LastInv, Fetched
    <3>2. before => i = k
      BY <1>1, <2>2, <2>3, <2>6, <3>1, FetchedIsLast
    <3> QED
      BY <2>1, <2>3, <2>6, <3>2
  <2> QED
    BY <2>4, <2>5, <2>6
<1> QED
  BY <1>2, <1>3 DEF HBAInv, OnItsWay

LEMMA ExecutedTLS ==
  ASSUME FeatInv, NEW n \in FeatNodes, NEW i, Fetched(n, i), NEW ok \in BOOLEAN,
         UNCHANGED <<cmds, tlsRow>>,
         \A h \in reports' : h \in reports \/ (h.cmd = i /\ h.ok = ok),
         \A m \in FeatNodes \ {n} :
            file'[m] = file[m] /\ active'[m] = active[m] /\ (m \in bare' <=> m \in bare),
         n \notin bare' /\ cmds[i].action = "tls" /\ ok =>
            file'[n].tls = cmds[i].body /\ active'[n].tls = cmds[i].body,
         n \notin bare' /\ ~(cmds[i].action = "tls" /\ ok) =>
            /\ n \notin bare
            /\ \/ file'[n].tls = file[n].tls
               \/ cmds[i].action = "tls" /\ file'[n].tls = cmds[i].body
            /\ \/ active'[n].tls \in {active[n].tls, file'[n].tls}
               \/ cmds[i].action = "tls" /\ active'[n].tls = cmds[i].body
  PROVE  TLSInv'
<1>1. QueueInv /\ ReportInv /\ TLSInv /\ LastInv(tlsRow, "tls")
  BY DEF FeatInv, BaseInv, TLSInv
<1>2. LastInv(tlsRow, "tls")'
  BY <1>1 DEF LastInv, NoneBefore
<1>3. ASSUME NEW m \in FeatNodes \ bare',
             tlsRow[m].status = "succeeded" \/ \E h \in reports' : h.ok /\ h.cmd = tlsRow[m].cmd
      PROVE  /\ file'[m].tls = cmds[tlsRow[m].cmd].body
             /\ active'[m].tls = cmds[tlsRow[m].cmd].body
  <2> DEFINE k == tlsRow[m].cmd
             before == tlsRow[m].status = "succeeded" \/ OnItsWay(k)
  <2>1. before \/ (k = i /\ ok)
    BY <1>3 DEF OnItsWay
  <2>2. k \in DOMAIN cmds /\ cmds[k].node = m /\ cmds[k].action = "tls" /\ k # 0
    <3>1. k # 0
      BY <1>1, <2>1 DEF LastInv, OnItsWay, ReportInv, QueueInv, Fetched
    <3> QED
      BY <1>1, <3>1 DEF LastInv
  <2>3. before => NoneBefore(k)
    BY <1>1 DEF LastInv, OnItsWay, ReportInv
  <2>4. before /\ m \notin bare => file[m].tls = cmds[k].body /\ active[m].tls = cmds[k].body
    BY <1>1 DEF TLSInv
  <2>5. CASE m # n
    BY <2>1, <2>2, <2>4, <2>5 DEF Fetched
  <2>6. CASE m = n /\ cmds[i].action # "tls"
    BY <2>1, <2>2, <2>4, <2>6
  <2>7. CASE m = n /\ cmds[i].action = "tls"
    <3>1. i <= k
      BY <1>1, <2>7 DEF LastInv, Fetched
    <3>2. before => i = k
      BY <1>1, <2>2, <2>3, <2>7, <3>1, FetchedIsLast
    <3> QED
      BY <2>1, <2>4, <2>7, <3>2
  <2> QED
    BY <2>5, <2>6, <2>7
<1> QED
  BY <1>1, <1>2, <1>3 DEF TLSInv, OnItsWay

LEMMA ExecutedExt ==
  ASSUME FeatInv, NEW n \in FeatNodes, NEW i, Fetched(n, i), NEW ok \in BOOLEAN,
         UNCHANGED <<cmds, extRow>>,
         \A h \in reports' : h \in reports \/ (h.cmd = i /\ h.ok = ok),
         cmds[i].action # "ext" => created' = created,
         NEW done, ok => done = cmds[i].body.dbs \X Extensions,
         cmds[i].action = "ext" => created' = ExtensionsAfter(cmds[i].body, done)
  PROVE  ExtInv' /\ created' \in [Databases -> SUBSET Extensions]
<1>1. QueueInv /\ ReportInv /\ created \in [Databases -> SUBSET Extensions]
  BY DEF FeatInv, BaseInv, HostInv
<1>2. ASSUME cmds[i].action = "ext"
      PROVE  /\ cmds[i].body \in ExtBodies
             /\ created' \in [Databases -> SUBSET Extensions]
             /\ \A d \in Databases : created'[d] =
                  (created[d] \cup {x \in cmds[i].body.enable : <<d, x>> \in done})
                    \ {x \in cmds[i].body.disable : <<d, x>> \in done}
  <2>1. cmds[i].body \in ExtBodies
    BY <1>1, <1>2 DEF QueueInv, Fetched
  <2> QED
    BY <1>1, <1>2, <2>1 DEF ExtensionsAfter, ExtBodies
<1>3. created' \in [Databases -> SUBSET Extensions]
  BY <1>1, <1>2
<1>4. ASSUME NEW x \in Extensions,
             extRow[x].status = "ready" \/ \E h \in reports' : h.ok /\ h.cmd = extRow[x].cmd,
             x \in cmds[extRow[x].cmd].body.enable,
             NEW d \in cmds[extRow[x].cmd].body.dbs
      PROVE  x \in created'[d]
  <2> DEFINE k == extRow[x].cmd
             before == extRow[x].status = "ready" \/ OnItsWay(k)
  <2>0. ExtensionInv(x)
    BY DEF FeatInv, ExtInv
  <2>1. before \/ (k = i /\ ok)
    BY <1>4 DEF OnItsWay
  <2>2. k \in DOMAIN cmds /\ cmds[k].action = "ext"
    <3>1. k # 0
      BY <1>1, <2>0, <2>1 DEF ExtensionInv, OnItsWay, ReportInv, QueueInv, Fetched
    <3> QED
      BY <2>0, <3>1 DEF ExtensionInv
  <2>3. before => NoneBefore(k) /\ x \in created[d]
    BY <1>1, <1>4, <2>0 DEF ExtensionInv, OnItsWay, ReportInv
  <2>4. CASE cmds[i].action # "ext"
    BY <2>1, <2>2, <2>3, <2>4
  <2>5. CASE cmds[i].action = "ext"
    <3>1. before => i = k
      <4>1. n = FeatPrimary /\ cmds[k].node = n /\ i <= k
        BY <1>1, <2>0, <2>2, <2>5 DEF QueueInv, ExtensionInv, Fetched, OnItsWay, ReportInv
      <4> QED
        BY <1>1, <2>2, <2>3, <4>1, FetchedIsLast
    <3>2. /\ i = k /\ d \in Databases
          /\ x \notin cmds[i].body.disable
      BY <1>2, <1>4, <2>1, <2>5, <3>1 DEF ExtBodies
    <3>3. x \in created[d] \/ <<d, x>> \in done
      BY <1>4, <2>1, <2>3, <3>2
    <3> QED
      BY <1>2, <1>4, <2>5, <3>2, <3>3
  <2> QED
    BY <2>4, <2>5
<1>5. ExtInv'
  <2> SUFFICES ASSUME NEW x \in Extensions PROVE ExtensionInv(x)'
    BY DEF ExtInv
  <2>1. ExtensionInv(x)
    BY DEF FeatInv, ExtInv
  <2> QED
    BY <1>4, <2>1 DEF ExtensionInv, OnItsWay, NoneBefore
<1> QED
  BY <1>3, <1>5

LEMMA FileAfterType ==
  ASSUME QueueInv, HostInv, NEW n \in FeatNodes, NEW i \in DOMAIN cmds
  PROVE  /\ FileAfter(n, cmds[i]) \in Files
         /\ cmds[i].action = "tls" => FileAfter(n, cmds[i]).tls = cmds[i].body
         /\ cmds[i].action \notin {"tls", "settings"} => FileAfter(n, cmds[i]) = file[n]
<1>1. cmds[i].body \in Bodies /\ file[n] \in Files
  <2>1. cmds[i] \in Commands
    BY DEF QueueInv
  <2> QED
    BY <2>1 DEF HostInv, Commands
<1> QED
  BY <1>1, OffIsABody DEF FileAfter, TLSSettings, SettingsOnly, Files

LEMMA ExecuteInv ==
  ASSUME FeatInv, NEW n \in FeatNodes, Execute(n)
  PROVE  FeatInv'
<1>1. PICK i : i = FirstPending(n)
  OBVIOUS
<1>2. QueueInv /\ ReportInv /\ HostInv /\ TableInv
  BY DEF FeatInv, BaseInv
<1>3. Fetched(n, i) /\ i \in DOMAIN cmds
  BY <1>1, <1>2, FirstIsFetched DEF Execute, Fetched
<1>4. /\ file' = [file EXCEPT ![n] = FileAfter(n, cmds[i])]
      /\ hba' = [hba EXCEPT ![n] = HBAAfter(n, cmds[i])]
      /\ IF Reloads(n, cmds[i])
         THEN /\ active' = [active EXCEPT ![n] = FileAfter(n, cmds[i])]
              /\ rules' = [rules EXCEPT ![n] = HBAAfter(n, cmds[i])]
              /\ unsure' = unsure \ {n}
         ELSE UNCHANGED <<active, rules, unsure>>
      /\ created' = IF cmds[i].action = "ext" THEN executeApplyExtensions(cmds[i].body)
                    ELSE created
      /\ bare' = CASE cmds[i].action = "settings" -> bare \cup {n}
                   [] cmds[i].action = "tls" -> bare \ {n}
                   [] OTHER -> bare
      /\ Reporting(n, i, TRUE)
  BY <1>1 DEF Execute, BareAfter
<1>5. UNCHANGED <<profile, tlsCA, tlsRow, hbaRow, extRow, settings, adminKept, cmds, locked,
                  update, replace, ready, asked, overlap, requests>>
  BY DEF Execute, stored, bounds
<1>6. ReportInv' /\ \A h \in reports' : h \in reports \/ (h.cmd = i /\ h.ok = TRUE)
  BY <1>2, <1>3, <1>4, <1>5, ReportingInv
<1>7. /\ FileAfter(n, cmds[i]) \in Files
      /\ cmds[i].action = "tls" => FileAfter(n, cmds[i]).tls = cmds[i].body
      /\ cmds[i].action \notin {"tls", "settings"} => FileAfter(n, cmds[i]) = file[n]
  BY <1>2, <1>3, FileAfterType
<1>8. HBAInv'
  <2>1. \A m \in FeatNodes \ {n} : hba'[m] = hba[m]
    BY <1>2, <1>4 DEF HostInv
  <2>2. cmds[i].action = "hba" => hba'[n] = RenderHBAPolicy(cmds[i].body)
    BY <1>2, <1>4 DEF HostInv, HBAAfter
  <2>3. cmds[i].action # "hba" => hba'[n] = hba[n]
    BY <1>2, <1>4 DEF HostInv, HBAAfter
  <2>4. hba'[n] = hba[n] \/ (cmds[i].action = "hba" /\ hba'[n] = RenderHBAPolicy(cmds[i].body))
    BY <2>2, <2>3
  <2> QED
    BY <1>3, <1>5, <1>6, <2>1, <2>2, <2>4, ExecutedHBA
<1>9. file' \in [FeatNodes -> Files] /\ active' \in [FeatNodes -> Files]
  BY <1>2, <1>4, <1>7 DEF HostInv
<1>10. TLSInv'
  <2>1. \A m \in FeatNodes \ {n} :
          file'[m] = file[m] /\ active'[m] = active[m] /\ (m \in bare' <=> m \in bare)
    BY <1>2, <1>4 DEF HostInv
  <2>2. file'[n] = FileAfter(n, cmds[i]) /\ active'[n] \in {active[n], file'[n]}
    BY <1>2, <1>4 DEF HostInv
  <2>3. cmds[i].action = "tls" => active'[n] = file'[n] /\ file'[n].tls = cmds[i].body
    BY <1>2, <1>4, <1>7, <2>2 DEF HostInv, Reloads
  <2>4. n \notin bare' /\ cmds[i].action # "tls" => n \notin bare /\ cmds[i].action # "settings"
    BY <1>4
  <2>5. n \notin bare' /\ cmds[i].action # "tls" => file'[n].tls = file[n].tls
    BY <1>7, <2>2, <2>4
  <2>6. active'[n].tls \in {active[n].tls, file'[n].tls}
    BY <2>2
  <2>7. n \notin bare' /\ cmds[i].action = "tls" /\ TRUE =>
          file'[n].tls = cmds[i].body /\ active'[n].tls = cmds[i].body
    BY <2>3
  <2>8. n \notin bare' /\ ~(cmds[i].action = "tls" /\ TRUE) =>
          /\ n \notin bare
          /\ \/ file'[n].tls = file[n].tls
             \/ cmds[i].action = "tls" /\ file'[n].tls = cmds[i].body
          /\ active'[n].tls \in {active[n].tls, file'[n].tls}
    BY <2>4, <2>5, <2>6
  <2> QED
    BY <1>3, <1>5, <1>6, <2>1, <2>7, <2>8, ExecutedTLS
<1>11. ExtInv' /\ created' \in [Databases -> SUBSET Extensions]
  <2>1. cmds[i].action = "ext"
          => created' = ExtensionsAfter(cmds[i].body, cmds[i].body.dbs \X Extensions)
    BY <1>4 DEF executeApplyExtensions
  <2>2. PICK done : done = cmds[i].body.dbs \X Extensions
    OBVIOUS
  <2>3. cmds[i].action # "ext" => created' = created
    BY <1>4
  <2> QED
    BY <1>3, <1>5, <1>6, <2>1, <2>2, <2>3, ExecutedExt
<1>12. HostInv'
  <2>1. DOMAIN hba' = FeatNodes /\ DOMAIN rules' = FeatNodes
    BY <1>2, <1>4 DEF HostInv
  <2>2. bare' \subseteq FeatNodes /\ unsure' \subseteq FeatNodes
    BY <1>2, <1>4 DEF HostInv
  <2>3. \A m \in FeatNodes \ unsure' : rules'[m] = hba'[m]
    <3>1. CASE Reloads(n, cmds[i])
      BY <1>2, <1>4, <3>1 DEF HostInv
    <3>2. CASE ~Reloads(n, cmds[i])
      <4>1. HBAAfter(n, cmds[i]) = hba[n]
        BY <3>2 DEF Reloads, HBAAfter
      <4>2. UNCHANGED <<rules, unsure>> /\ \A m \in FeatNodes : hba'[m] = hba[m]
        BY <1>2, <1>4, <3>2, <4>1 DEF HostInv
      <4> QED
        BY <1>2, <4>2 DEF HostInv
    <3> QED
      BY <3>1, <3>2
  <2> QED
    BY <1>2, <1>5, <1>9, <1>11, <2>1, <2>2, <2>3 DEF HostInv
<1>13. TableInv' /\ QueueInv' /\ RequestInv' /\ ProfileInv'
  BY <1>5 DEF FeatInv, BaseInv, TableInv, QueueInv, RequestInv, LockInv, ProfileInv
<1> QED
  BY <1>6, <1>8, <1>10, <1>11, <1>12, <1>13 DEF FeatInv, BaseInv

LEMMA ExecuteFailsInv ==
  ASSUME FeatInv, NEW n \in FeatNodes, ExecuteFails(n)
  PROVE  FeatInv'
<1>1. PICK i : i = FirstPending(n)
  OBVIOUS
<1>2. QueueInv /\ ReportInv /\ HostInv /\ TableInv
  BY DEF FeatInv, BaseInv
<1>3. Fetched(n, i) /\ i \in DOMAIN cmds
  BY <1>1, <1>2, FirstIsFetched DEF ExecuteFails, Fetched
<1>4. /\ \/ file' = file /\ cmds[i].action # "settings"
         \/ /\ cmds[i].action \in {"settings", "tls"}
            /\ file' = [file EXCEPT ![n] = FileAfter(n, cmds[i])]
      /\ bare' = IF cmds[i].action = "settings" THEN bare \cup {n} ELSE bare
      /\ hba' = hba \/ hba' = [hba EXCEPT ![n] = HBAAfter(n, cmds[i])]
      /\ \/ UNCHANGED <<active, rules>>
         \/ /\ \/ active' = [active EXCEPT ![n] = file'[n]]
               \/ active' = [active EXCEPT ![n] = FileAfter(n, cmds[i])]
            /\ rules' = [rules EXCEPT ![n] = HBAAfter(n, cmds[i])]
            /\ Reloads(n, cmds[i])
      /\ unsure' = IF cmds[i].action = "hba" /\ Reloads(n, cmds[i]) THEN unsure \cup {n}
                   ELSE unsure
      /\ Reporting(n, i, FALSE)
  BY <1>1 DEF ExecuteFails
<1>5. PICK done : IF cmds[i].action = "ext" THEN created' = ExtensionsAfter(cmds[i].body, done)
                  ELSE created' = created
  BY <1>1 DEF ExecuteFails
<1>6. UNCHANGED <<profile, tlsCA, tlsRow, hbaRow, extRow, settings, adminKept, cmds, locked,
                  update, replace, ready, asked, overlap, requests>>
  BY DEF ExecuteFails, stored
<1>7. ReportInv' /\ \A h \in reports' : h \in reports \/ (h.cmd = i /\ h.ok = FALSE)
  BY <1>2, <1>3, <1>4, <1>6, ReportingInv
<1>8. /\ FileAfter(n, cmds[i]) \in Files
      /\ cmds[i].action = "tls" => FileAfter(n, cmds[i]).tls = cmds[i].body
      /\ cmds[i].action \notin {"tls", "settings"} => FileAfter(n, cmds[i]) = file[n]
  BY <1>2, <1>3, FileAfterType
<1>9. HBAInv'
  <2>1. \A m \in FeatNodes \ {n} : hba'[m] = hba[m]
    BY <1>2, <1>4 DEF HostInv
  <2>2. hba'[n] = hba[n] \/ (cmds[i].action = "hba" /\ hba'[n] = RenderHBAPolicy(cmds[i].body))
    <3>1. hba'[n] = hba[n] \/ hba'[n] = HBAAfter(n, cmds[i])
      BY <1>2, <1>4 DEF HostInv
    <3> QED
      BY <3>1 DEF HBAAfter
  <2> QED
    BY <1>3, <1>6, <1>7, <2>1, <2>2, ExecutedHBA
<1>10. file' \in [FeatNodes -> Files] /\ active' \in [FeatNodes -> Files]
  <2>1. file' \in [FeatNodes -> Files]
    BY <1>2, <1>4, <1>8 DEF HostInv
  <2> QED
    BY <1>2, <1>4, <1>8, <2>1 DEF HostInv
<1>11. TLSInv'
  <2>1. \A m \in FeatNodes \ {n} :
          file'[m] = file[m] /\ active'[m] = active[m] /\ (m \in bare' <=> m \in bare)
    BY <1>2, <1>4 DEF HostInv
  <2>2. n \notin bare' => n \notin bare /\ cmds[i].action # "settings"
    BY <1>4
  <2>3. n \notin bare' => \/ file'[n].tls = file[n].tls
                          \/ cmds[i].action = "tls" /\ file'[n].tls = cmds[i].body
    BY <1>2, <1>4, <1>8, <2>2 DEF HostInv
  <2>4. n \notin bare' => \/ active'[n].tls \in {active[n].tls, file'[n].tls}
                          \/ cmds[i].action = "tls" /\ active'[n].tls = cmds[i].body
    <3>1. active'[n] \in {active[n], file'[n], FileAfter(n, cmds[i])}
      BY <1>2, <1>4 DEF HostInv
    <3>2. n \notin bare' /\ cmds[i].action # "tls" => FileAfter(n, cmds[i]) = file'[n]
      BY <1>4, <1>8, <2>2
    <3> QED
      BY <1>8, <3>1, <3>2
  <2> QED
    BY <1>3, <1>6, <1>7, <2>1, <2>2, <2>3, <2>4, ExecutedTLS
<1>12. ExtInv' /\ created' \in [Databases -> SUBSET Extensions]
  BY <1>3, <1>5, <1>6, <1>7, ExecutedExt
<1>13. HostInv'
  <2>1. bare' \subseteq FeatNodes /\ unsure' \subseteq FeatNodes
    BY <1>2, <1>4 DEF HostInv
  <2>2. DOMAIN hba' = FeatNodes /\ DOMAIN rules' = FeatNodes
    BY <1>2, <1>4 DEF HostInv
  <2>3. \A m \in FeatNodes \ unsure' : rules'[m] = hba'[m]
    <3>1. CASE cmds[i].action = "hba" /\ Reloads(n, cmds[i])
      BY <1>2, <1>4, <3>1 DEF HostInv
    <3>2. CASE ~(cmds[i].action = "hba" /\ Reloads(n, cmds[i]))
      <4>1. HBAAfter(n, cmds[i]) = hba[n]
        BY <3>2 DEF Reloads, HBAAfter
      <4> QED
        BY <1>2, <1>4, <3>2, <4>1 DEF HostInv
    <3> QED
      BY <3>1, <3>2
  <2> QED
    BY <1>2, <1>6, <1>10, <1>12, <2>1, <2>2, <2>3 DEF HostInv
<1>14. TableInv' /\ QueueInv' /\ RequestInv' /\ ProfileInv'
  BY <1>6 DEF FeatInv, BaseInv, TableInv, QueueInv, RequestInv, LockInv, ProfileInv
<1> QED
  BY <1>7, <1>9, <1>11, <1>12, <1>13, <1>14 DEF FeatInv, BaseInv

LEMMA AgentDiesInv ==
  ASSUME FeatInv, NEW n \in FeatNodes, AgentDies(n)
  PROVE  FeatInv'
<1>1. PICK i : i = FirstPending(n)
  OBVIOUS
<1>2. QueueInv /\ ReportInv /\ HostInv /\ TableInv
  BY DEF FeatInv, BaseInv
<1>3. Fetched(n, i) /\ i \in DOMAIN cmds
  BY <1>1, <1>2, FirstIsFetched DEF AgentDies, Fetched
<1>4. /\ Reloads(n, cmds[i])
      /\ file' = [file EXCEPT ![n] = FileAfter(n, cmds[i])]
      /\ hba' = [hba EXCEPT ![n] = HBAAfter(n, cmds[i])]
      /\ bare' = IF cmds[i].action = "settings" THEN bare \cup {n} ELSE bare
      /\ unsure' = IF cmds[i].action = "hba" THEN unsure \cup {n} ELSE unsure
  BY <1>1 DEF AgentDies
<1>5. UNCHANGED <<profile, tlsCA, tlsRow, hbaRow, extRow, settings, adminKept, cmds, locked,
                  update, replace, reports, busy, active, rules, created, ready, asked,
                  overlap, requests>>
  BY DEF AgentDies, stored
<1>6. /\ FileAfter(n, cmds[i]) \in Files
      /\ cmds[i].action = "tls" => FileAfter(n, cmds[i]).tls = cmds[i].body
      /\ cmds[i].action \notin {"tls", "settings"} => FileAfter(n, cmds[i]) = file[n]
  BY <1>2, <1>3, FileAfterType
<1>7. HBAInv'
  <2>1. \A m \in FeatNodes \ {n} : hba'[m] = hba[m]
    BY <1>2, <1>4 DEF HostInv
  <2>2. hba'[n] = hba[n] \/ (cmds[i].action = "hba" /\ hba'[n] = RenderHBAPolicy(cmds[i].body))
    <3>1. hba'[n] = hba[n] \/ hba'[n] = HBAAfter(n, cmds[i])
      BY <1>2, <1>4 DEF HostInv
    <3> QED
      BY <3>1 DEF HBAAfter
  <2>3. \A h \in reports' : h \in reports \/ (h.cmd = i /\ h.ok = FALSE)
    BY <1>5
  <2> QED
    BY <1>3, <1>5, <2>1, <2>2, <2>3, ExecutedHBA
<1>8. TLSInv'
  <2>1. \A m \in FeatNodes \ {n} :
          file'[m] = file[m] /\ active'[m] = active[m] /\ (m \in bare' <=> m \in bare)
    BY <1>2, <1>4, <1>5 DEF HostInv
  <2>2. n \notin bare' => n \notin bare /\ cmds[i].action # "settings"
    BY <1>4
  <2>3. n \notin bare' => \/ file'[n].tls = file[n].tls
                          \/ cmds[i].action = "tls" /\ file'[n].tls = cmds[i].body
    BY <1>2, <1>4, <1>6, <2>2 DEF HostInv
  <2>4. active'[n].tls = active[n].tls
    BY <1>5
  <2>5. \A h \in reports' : h \in reports \/ (h.cmd = i /\ h.ok = FALSE)
    BY <1>5
  <2> QED
    BY <1>3, <1>5, <2>1, <2>2, <2>3, <2>4, <2>5, ExecutedTLS
<1>9. ReportInv' /\ ExtInv'
  BY <1>5 DEF FeatInv, BaseInv, ReportInv, ExtInv, ExtensionInv, NoneBefore, OnItsWay
<1>10. HostInv'
  <2>1. file' \in [FeatNodes -> Files] /\ DOMAIN hba' = FeatNodes
    BY <1>2, <1>4, <1>6 DEF HostInv
  <2>2. bare' \subseteq FeatNodes /\ unsure' \subseteq FeatNodes
    BY <1>2, <1>4 DEF HostInv
  <2>3. \A m \in FeatNodes \ unsure' : rules[m] = hba'[m]
    <3>1. cmds[i].action # "hba" => HBAAfter(n, cmds[i]) = hba[n]
      BY DEF HBAAfter
    <3> QED
      BY <1>2, <1>4, <3>1 DEF HostInv
  <2> QED
    BY <1>2, <1>5, <2>1, <2>2, <2>3 DEF HostInv
<1>11. TableInv' /\ QueueInv' /\ RequestInv' /\ ProfileInv'
  BY <1>5 DEF FeatInv, BaseInv, TableInv, QueueInv, RequestInv, LockInv, ProfileInv
<1> QED
  BY <1>7, <1>8, <1>9, <1>10, <1>11 DEF FeatInv, BaseInv

-----------------------------------------------------------------------------
(* Reports.                                                                *)

\* Commands keep what they are; pending may become final.
Settles ==
    /\ DOMAIN cmds' = DOMAIN cmds
    /\ \A j \in DOMAIN cmds :
         /\ cmds'[j].node = cmds[j].node
         /\ cmds'[j].action = cmds[j].action
         /\ cmds'[j].body = cmds[j].body
         /\ cmds[j].status # "pending" => cmds'[j].status # "pending"

\* No report is new, but for where it is.
NoNewReports ==
    \A h \in reports' : \E g \in reports : g.cmd = h.cmd /\ g.ok = h.ok

LEMMA SettledOrder ==
  ASSUME Settles
  PROVE  \A i \in DOMAIN cmds : NoneBefore(i) => NoneBefore(i)'
  BY DEF Settles, NoneBefore

LEMMA SettledRows ==
  ASSUME FeatInv, Settles, NoNewReports,
         UNCHANGED <<hbaRow, tlsRow, extRow, file, active, hba, created, bare>>
  PROVE  HBAInv' /\ TLSInv' /\ ExtInv'
<1>1. \A h \in reports : h.cmd \in DOMAIN cmds /\ h.cmd # 0
  BY DEF FeatInv, BaseInv, QueueInv, ReportInv
<1>2. HBAInv'
  <2>1. LastInv(hbaRow, "hba")'
    BY SettledOrder DEF FeatInv, HBAInv, LastInv, Settles
  <2>2. \A n \in FeatNodes :
          hbaRow[n].status = "succeeded" \/ (\E h \in reports' : h.ok /\ h.cmd = hbaRow[n].cmd)
            => /\ hbaRow[n].cmd \in DOMAIN cmds
               /\ hba[n] = RenderHBAPolicy(cmds[hbaRow[n].cmd].body)
    BY <1>1 DEF FeatInv, HBAInv, LastInv, OnItsWay, NoNewReports
  <2> QED
    BY <2>1, <2>2 DEF HBAInv, OnItsWay, Settles
<1>3. TLSInv'
  <2>1. LastInv(tlsRow, "tls")'
    BY SettledOrder DEF FeatInv, TLSInv, LastInv, Settles
  <2>2. \A n \in FeatNodes \ bare :
          tlsRow[n].status = "succeeded" \/ (\E h \in reports' : h.ok /\ h.cmd = tlsRow[n].cmd)
            => /\ tlsRow[n].cmd \in DOMAIN cmds
               /\ file[n].tls = cmds[tlsRow[n].cmd].body
               /\ active[n].tls = cmds[tlsRow[n].cmd].body
    BY <1>1 DEF FeatInv, TLSInv, LastInv, OnItsWay, NoNewReports
  <2>3. \A n, m \in FeatNodes : tlsRow'[n].cmd = 0 => tlsRow'[m].cmd = 0
    BY DEF FeatInv, TLSInv
  <2> QED
    BY <2>1, <2>2, <2>3 DEF TLSInv, OnItsWay, Settles
<1>4. ExtInv'
  <2> SUFFICES ASSUME NEW x \in Extensions PROVE ExtensionInv(x)'
    BY DEF ExtInv
  <2>1. ExtensionInv(x)
    BY DEF FeatInv, ExtInv
  <2>2. extRow[x].status = "ready" \/ (\E h \in reports' : h.ok /\ h.cmd = extRow[x].cmd)
          => /\ extRow[x].cmd \in DOMAIN cmds
             /\ extRow[x].status = "ready" \/ OnItsWay(extRow[x].cmd)
    BY <1>1, <2>1 DEF ExtensionInv, OnItsWay, NoNewReports
  <2> QED
    BY <2>1, <2>2, SettledOrder DEF ExtensionInv, OnItsWay, Settles
<1> QED
  BY <1>2, <1>3, <1>4

LEMMA GiveUpInv ==
  ASSUME FeatInv, NEW n \in FeatNodes, GiveUp(n)
  PROVE  FeatInv'
<1> USE DEF stored, host, history
<1>1. PICK g \in reports : \/ reports' = (reports \ {g}) \cup {[g EXCEPT !.late = TRUE]}
                           \/ reports' = reports \ {g}
  BY DEF GiveUp
<1>2. UNCHANGED <<profile, tlsCA, tlsRow, hbaRow, extRow, settings, adminKept, cmds, locked,
                  update, replace, file, active, hba, rules, created, ready, asked, overlap,
                  bare, unsure,
                  requests>>
  BY DEF GiveUp
<1>3. g \in [cmd : Nat, ok : BOOLEAN, at : {"update", "apply"}, late : BOOLEAN]
  BY DEF FeatInv, BaseInv, ReportInv
<1>4. \A h \in reports' :
        h \in reports \/ /\ h \in [cmd : Nat, ok : BOOLEAN, at : {"update", "apply"}, late : BOOLEAN]
                         /\ h.cmd = g.cmd /\ h.ok = g.ok
  <2>1. /\ [g EXCEPT !.late = TRUE]
             \in [cmd : Nat, ok : BOOLEAN, at : {"update", "apply"}, late : BOOLEAN]
        /\ [g EXCEPT !.late = TRUE].cmd = g.cmd /\ [g EXCEPT !.late = TRUE].ok = g.ok
    BY <1>3
  <2> QED
    BY <1>1, <2>1
<1>5. NoNewReports /\ Settles
  BY <1>2, <1>4 DEF NoNewReports, Settles
<1>6. ReportInv'
  <2>1. \A h \in reports' :
          /\ h \in [cmd : Nat, ok : BOOLEAN, at : {"update", "apply"}, late : BOOLEAN]
          /\ h.cmd \in DOMAIN cmds'
          /\ NoneBefore(h.cmd)'
    BY <1>2, <1>4 DEF FeatInv, BaseInv, ReportInv, NoneBefore
  <2>2. /\ busy' \in [FeatNodes -> Nat]
        /\ \A m \in FeatNodes : busy'[m] # 0 => busy'[m] \in DOMAIN cmds' /\ cmds'[busy'[m]].node = m
    BY <1>2 DEF GiveUp, FeatInv, BaseInv, ReportInv
  <2> QED
    BY <2>1, <2>2 DEF ReportInv
<1>7. TableInv' /\ QueueInv' /\ HostInv' /\ RequestInv' /\ ProfileInv'
  BY <1>2 DEF FeatInv, BaseInv, TableInv, QueueInv, HostInv, RequestInv, LockInv, ProfileInv
<1> QED
  BY <1>2, <1>5, <1>6, <1>7, SettledRows DEF FeatInv, BaseInv

LEMMA UpdateCommandInv ==
  ASSUME FeatInv, NEW g \in reports, UpdateCommand(g)
  PROVE  FeatInv'
<1>1. UNCHANGED <<profile, tlsCA, tlsRow, hbaRow, extRow, settings, adminKept, locked, busy,
                  update, replace, file, active, hba, rules, created, ready, asked, overlap,
                  bare, unsure,
                  requests>>
  BY DEF UpdateCommand, stored, host, history, bounds
<1>2. /\ g \in [cmd : Nat, ok : BOOLEAN, at : {"update", "apply"}, late : BOOLEAN]
      /\ g.cmd \in DOMAIN cmds /\ cmds \in Seq(Commands)
  BY DEF FeatInv, BaseInv, ReportInv, QueueInv
<1>3. PICK st \in {"completed", "failed"} : cmds' = [cmds EXCEPT ![g.cmd].status = st]
  BY DEF UpdateCommand
<1>4. cmds' \in Seq(Commands) /\ DOMAIN cmds' = DOMAIN cmds
  <2>1. cmds[g.cmd] \in Commands
    BY <1>2
  <2>2. [cmds[g.cmd] EXCEPT !.status = st] \in Commands
    BY <2>1 DEF Commands
  <2>3. cmds' = [cmds EXCEPT ![g.cmd] = [cmds[g.cmd] EXCEPT !.status = st]]
    BY <1>3
  <2> QED
    BY <1>2, <2>2, <2>3
<1>5. Settles
  <2> SUFFICES ASSUME NEW j \in DOMAIN cmds
               PROVE  /\ cmds'[j].node = cmds[j].node
                      /\ cmds'[j].action = cmds[j].action
                      /\ cmds'[j].body = cmds[j].body
                      /\ cmds[j].status # "pending" => cmds'[j].status # "pending"
    BY <1>4 DEF Settles
  <2>1. cmds[j] \in Commands
    BY <1>2
  <2> QED
    BY <1>2, <1>3, <2>1 DEF Commands
<1>6. \A h \in reports' :
        h \in reports \/ /\ h \in [cmd : Nat, ok : BOOLEAN, at : {"update", "apply"}, late : BOOLEAN]
                         /\ h.cmd = g.cmd /\ h.ok = g.ok
  BY <1>2 DEF UpdateCommand
<1>7. NoNewReports
  BY <1>6 DEF NoNewReports
<1>8. QueueInv'
  BY <1>4, <1>5 DEF FeatInv, BaseInv, QueueInv, Settles
<1>9. ReportInv'
  <2>1. \A h \in reports' :
          /\ h \in [cmd : Nat, ok : BOOLEAN, at : {"update", "apply"}, late : BOOLEAN]
          /\ h.cmd \in DOMAIN cmds'
          /\ NoneBefore(h.cmd)'
    BY <1>4, <1>5, <1>6, SettledOrder DEF FeatInv, BaseInv, ReportInv
  <2>2. /\ busy' \in [FeatNodes -> Nat]
        /\ \A m \in FeatNodes : busy'[m] # 0 => busy'[m] \in DOMAIN cmds' /\ cmds'[busy'[m]].node = m
    BY <1>1, <1>5 DEF FeatInv, BaseInv, ReportInv, Settles
  <2> QED
    BY <2>1, <2>2 DEF ReportInv
<1>10. TableInv' /\ HostInv' /\ RequestInv' /\ ProfileInv'
  BY <1>1 DEF FeatInv, BaseInv, TableInv, HostInv, RequestInv, LockInv, ProfileInv
<1> QED
  BY <1>1, <1>5, <1>7, <1>8, <1>9, <1>10, SettledRows DEF FeatInv, BaseInv

\* The report is answered and its agent goes on.
LEMMA AnsweredInv ==
  ASSUME FeatInv, NEW g \in reports, Answered(g), UNCHANGED cmds
  PROVE  ReportInv' /\ NoNewReports /\ Settles /\ QueueInv' /\ reports' \subseteq reports
<1>1. reports' \subseteq reports
  BY DEF Answered
<1>2. NoNewReports /\ Settles
  BY <1>1 DEF NoNewReports, Settles
<1>3. \A h \in reports' :
        /\ h \in [cmd : Nat, ok : BOOLEAN, at : {"update", "apply"}, late : BOOLEAN]
        /\ h.cmd \in DOMAIN cmds'
        /\ NoneBefore(h.cmd)'
  BY <1>1 DEF FeatInv, BaseInv, ReportInv, NoneBefore
<1>4. /\ busy' \in [FeatNodes -> Nat]
      /\ \A m \in FeatNodes : busy'[m] # 0 => busy'[m] \in DOMAIN cmds' /\ cmds'[busy'[m]].node = m
  BY DEF Answered, FeatInv, BaseInv, ReportInv
<1>5. QueueInv'
  BY DEF FeatInv, BaseInv, QueueInv
<1> QED
  BY <1>1, <1>2, <1>3, <1>4, <1>5 DEF ReportInv

LEMMA CutReportInv ==
  ASSUME FeatInv, NEW g \in reports, CutReport(g)
  PROVE  FeatInv'
<1>1. UNCHANGED <<profile, tlsCA, tlsRow, hbaRow, extRow, settings, adminKept, cmds, locked,
                  update, replace, file, active, hba, rules, created, ready, asked, overlap,
                  bare, unsure,
                  requests>>
  BY DEF CutReport, stored, host, history
<1>2. ReportInv' /\ NoNewReports /\ Settles /\ QueueInv'
  BY <1>1, AnsweredInv DEF CutReport
<1>3. TableInv' /\ HostInv' /\ RequestInv' /\ ProfileInv'
  BY <1>1 DEF FeatInv, BaseInv, TableInv, HostInv, RequestInv, LockInv, ProfileInv
<1> QED
  BY <1>1, <1>2, <1>3, SettledRows DEF FeatInv, BaseInv

LEMMA RowAfterIs ==
  ASSUME NEW row \in Rows, NEW h, h.ok \in BOOLEAN
  PROVE  /\ RowAfter(row, h) \in Rows
         /\ RowAfter(row, h).cmd = row.cmd
         /\ row.cmd # h.cmd => RowAfter(row, h) = row
         /\ row.cmd = h.cmd
              => RowAfter(row, h).status = IF h.ok THEN "succeeded" ELSE "failed"
  BY DEF RowAfter, Rows

LEMMA ExtAfterIs ==
  ASSUME NEW row \in ExtRows, NEW h, h.ok \in BOOLEAN
  PROVE  /\ ExtAfter(row, h) \in ExtRows
         /\ \/ ExtAfter(row, h) = row
            \/ ExtAfter(row, h).status = "none" /\ ExtAfter(row, h).cmd = 0
            \/ /\ ExtAfter(row, h).cmd = row.cmd /\ row.cmd = h.cmd
               /\ \/ ExtAfter(row, h).status = "failed"
                  \/ ExtAfter(row, h).status = "ready" /\ h.ok
  BY DEF ExtAfter, ExtRows, NoExt

\* A row that names the report's command takes its outcome; a success was on
\* its way to it.
LEMMA ApplyResultHBA ==
  ASSUME FeatInv, NEW g \in reports, ApplyResult(g), reports' \subseteq reports
  PROVE  hbaRow' \in [FeatNodes -> Rows] /\ HBAInv'
<1>1. /\ QueueInv /\ ReportInv /\ TableInv /\ HBAInv /\ LastInv(hbaRow, "hba")
      /\ UNCHANGED <<cmds, hba>>
  BY DEF FeatInv, BaseInv, HBAInv, ApplyResult, host
<1>2. g.ok \in BOOLEAN /\ g.cmd \in DOMAIN cmds /\ g.cmd # 0 /\ NoneBefore(g.cmd)
  BY <1>1 DEF ReportInv, QueueInv
<1>3. ASSUME NEW n \in FeatNodes
      PROVE  /\ hbaRow'[n] \in Rows
             /\ \/ hbaRow'[n] = hbaRow[n]
                \/ /\ hbaRow'[n].cmd = hbaRow[n].cmd /\ hbaRow[n].cmd = g.cmd
                   /\ hbaRow'[n].status = IF g.ok THEN "succeeded" ELSE "failed"
  <2>1. hbaRow \in [FeatNodes -> Rows] /\ hbaRow[n] \in Rows
    BY <1>1 DEF TableInv
  <2>2. hbaRow'[n] = hbaRow[n] \/ hbaRow'[n] = RowAfter(hbaRow[n], g)
    BY <2>1 DEF ApplyResult, HandleHBAResult
  <2> QED
    BY <1>2, <2>1, <2>2, RowAfterIs
<1>4. hbaRow' \in [FeatNodes -> Rows]
  <2>1. hbaRow \in [FeatNodes -> Rows]
    BY <1>1 DEF TableInv
  <2>2. DOMAIN hbaRow' = FeatNodes /\ hbaRow' = [n \in FeatNodes |-> hbaRow'[n]]
    BY <2>1 DEF ApplyResult, HandleHBAResult
  <2> QED
    BY <1>3, <2>2
<1>5. LastInv(hbaRow, "hba")'
  BY <1>1, <1>2, <1>3 DEF LastInv, NoneBefore
<1>6. ASSUME NEW n \in FeatNodes,
             hbaRow'[n].status = "succeeded" \/ \E h \in reports' : h.ok /\ h.cmd = hbaRow'[n].cmd
      PROVE  hba[n] = RenderHBAPolicy(cmds[hbaRow'[n].cmd].body)
  <2>1. hbaRow'[n].cmd = hbaRow[n].cmd
    BY <1>3
  <2>2. hbaRow[n].status = "succeeded" \/ OnItsWay(hbaRow[n].cmd)
    BY <1>3, <1>6 DEF OnItsWay
  <2> QED
    BY <1>1, <2>1, <2>2 DEF HBAInv
<1> QED
  BY <1>1, <1>4, <1>5, <1>6 DEF HBAInv, OnItsWay

LEMMA ApplyResultTLS ==
  ASSUME FeatInv, NEW g \in reports, ApplyResult(g), reports' \subseteq reports
  PROVE  tlsRow' \in [FeatNodes -> Rows] /\ TLSInv'
<1>1. /\ QueueInv /\ ReportInv /\ TableInv /\ TLSInv /\ LastInv(tlsRow, "tls")
      /\ UNCHANGED <<cmds, file, active, bare>>
  BY DEF FeatInv, BaseInv, TLSInv, ApplyResult, host, history
<1>2. g.ok \in BOOLEAN /\ g.cmd \in DOMAIN cmds /\ g.cmd # 0 /\ NoneBefore(g.cmd)
  BY <1>1 DEF ReportInv, QueueInv
<1>3. ASSUME NEW n \in FeatNodes
      PROVE  /\ tlsRow'[n] \in Rows
             /\ \/ tlsRow'[n] = tlsRow[n]
                \/ /\ tlsRow'[n].cmd = tlsRow[n].cmd /\ tlsRow[n].cmd = g.cmd
                   /\ tlsRow'[n].status = IF g.ok THEN "succeeded" ELSE "failed"
  <2>1. tlsRow \in [FeatNodes -> Rows] /\ tlsRow[n] \in Rows
    BY <1>1 DEF TableInv
  <2>2. tlsRow'[n] = tlsRow[n] \/ tlsRow'[n] = RowAfter(tlsRow[n], g)
    BY <2>1 DEF ApplyResult, HandleTLSResult
  <2> QED
    BY <1>2, <2>1, <2>2, RowAfterIs
<1>4. tlsRow' \in [FeatNodes -> Rows]
  <2>1. tlsRow \in [FeatNodes -> Rows]
    BY <1>1 DEF TableInv
  <2>2. DOMAIN tlsRow' = FeatNodes /\ tlsRow' = [n \in FeatNodes |-> tlsRow'[n]]
    BY <2>1 DEF ApplyResult, HandleTLSResult
  <2> QED
    BY <1>3, <2>2
<1>5. LastInv(tlsRow, "tls")'
  BY <1>1, <1>2, <1>3 DEF LastInv, NoneBefore
<1>6. \A n \in FeatNodes : tlsRow'[n].cmd = tlsRow[n].cmd
  BY <1>3
<1>7. ASSUME NEW n \in FeatNodes \ bare',
             tlsRow'[n].status = "succeeded" \/ \E h \in reports' : h.ok /\ h.cmd = tlsRow'[n].cmd
      PROVE  /\ file[n].tls = cmds[tlsRow'[n].cmd].body
             /\ active[n].tls = cmds[tlsRow'[n].cmd].body
  <2>1. tlsRow[n].status = "succeeded" \/ OnItsWay(tlsRow[n].cmd)
    BY <1>3, <1>7 DEF OnItsWay
  <2> QED
    BY <1>1, <1>6, <2>1 DEF TLSInv
<1>8. \A n, m \in FeatNodes : tlsRow'[n].cmd = 0 => tlsRow'[m].cmd = 0
  BY <1>1, <1>6 DEF TLSInv
<1> QED
  BY <1>1, <1>4, <1>5, <1>7, <1>8 DEF TLSInv, OnItsWay

LEMMA ApplyResultExt ==
  ASSUME FeatInv, NEW g \in reports, ApplyResult(g), reports' \subseteq reports
  PROVE  extRow' \in [Extensions -> ExtRows] /\ ExtInv'
<1>1. QueueInv /\ ReportInv /\ TableInv /\ UNCHANGED <<cmds, created>>
  BY DEF FeatInv, BaseInv, ApplyResult, host
<1>2. g.ok \in BOOLEAN /\ g.cmd \in DOMAIN cmds /\ g.cmd # 0 /\ NoneBefore(g.cmd)
  BY <1>1 DEF ReportInv, QueueInv
<1>3. ASSUME NEW x \in Extensions
      PROVE  /\ extRow'[x] \in ExtRows
             /\ \/ extRow'[x] = extRow[x]
                \/ extRow'[x].status = "none" /\ extRow'[x].cmd = 0
                \/ /\ extRow'[x].cmd = extRow[x].cmd /\ extRow[x].cmd = g.cmd
                   /\ \/ extRow'[x].status = "failed"
                      \/ extRow'[x].status = "ready" /\ g.ok
  <2>1. extRow \in [Extensions -> ExtRows] /\ extRow[x] \in ExtRows
    BY <1>1 DEF TableInv
  <2>2. extRow'[x] = extRow[x] \/ extRow'[x] = ExtAfter(extRow[x], g)
    BY <2>1 DEF ApplyResult
  <2> QED
    BY <1>2, <2>1, <2>2, ExtAfterIs
<1>4. extRow' \in [Extensions -> ExtRows]
  <2>1. extRow \in [Extensions -> ExtRows]
    BY <1>1 DEF TableInv
  <2>2. extRow' = [x \in Extensions |-> extRow'[x]]
    BY <2>1 DEF ApplyResult
  <2> QED
    BY <1>3, <2>2
<1>5. ExtInv'
  <2> SUFFICES ASSUME NEW x \in Extensions PROVE ExtensionInv(x)'
    BY DEF ExtInv
  <2>1. ExtensionInv(x)
    BY DEF FeatInv, ExtInv
  <2>2. \A h \in reports' : h.cmd # 0
    BY <1>1 DEF ReportInv, QueueInv
  <2>3. CASE extRow'[x].status = "none" /\ extRow'[x].cmd = 0
    BY <2>2, <2>3 DEF ExtensionInv, OnItsWay
  <2>4. CASE extRow'[x] = extRow[x]
    BY <1>1, <2>1, <2>4 DEF ExtensionInv, OnItsWay, NoneBefore
  <2>5. CASE /\ extRow'[x].cmd = extRow[x].cmd /\ extRow[x].cmd = g.cmd
             /\ \/ extRow'[x].status = "failed"
                \/ extRow'[x].status = "ready" /\ g.ok
    <3>1. extRow'[x].status = "ready" \/ (\E h \in reports' : h.ok /\ h.cmd = extRow[x].cmd)
            => OnItsWay(extRow[x].cmd)
      BY <2>5 DEF OnItsWay
    <3> QED
      BY <1>1, <1>2, <2>1, <2>5, <3>1 DEF ExtensionInv, OnItsWay, NoneBefore
  <2> QED
    BY <1>3, <2>3, <2>4, <2>5
<1> QED
  BY <1>4, <1>5

LEMMA ApplyResultInv ==
  ASSUME FeatInv, NEW g \in reports, ApplyResult(g)
  PROVE  FeatInv'
<1>1. UNCHANGED <<profile, tlsCA, settings, adminKept, cmds, locked, update, replace, file,
                  active, hba, rules, created, ready, asked, overlap, bare, unsure, requests>>
  BY DEF ApplyResult, host, history, bounds
<1>2. ReportInv' /\ QueueInv' /\ reports' \subseteq reports
  BY <1>1, AnsweredInv DEF ApplyResult
<1>3. /\ hbaRow' \in [FeatNodes -> Rows] /\ HBAInv'
      /\ tlsRow' \in [FeatNodes -> Rows] /\ TLSInv'
      /\ extRow' \in [Extensions -> ExtRows] /\ ExtInv'
  BY <1>2, ApplyResultHBA, ApplyResultTLS, ApplyResultExt
<1>4. TableInv' /\ HostInv' /\ RequestInv' /\ ProfileInv'
  BY <1>1, <1>3 DEF FeatInv, BaseInv, TableInv, HostInv, RequestInv, LockInv, ProfileInv
<1> QED
  BY <1>2, <1>3, <1>4 DEF FeatInv, BaseInv

-----------------------------------------------------------------------------
(* The theorems.                                                           *)

LEMMA StepInv == FeatInv /\ [FeatNext]_featVars => FeatInv'
<1> SUFFICES ASSUME FeatInv, [FeatNext]_featVars PROVE FeatInv'
  OBVIOUS
<1>1. CASE \/ BeginLocked \/ UpdateNetworkAccess \/ UpdateTLSConfig
           \/ ReadConnectionProfile \/ GenerateTLSCA
           \/ ApplyHBA \/ ApplyTLS \/ ApplyExtensions \/ CutProvisioning
  BY <1>1, BeginLockedInv, UpdateNetworkAccessInv, UpdateTLSConfigInv, ReadConnectionProfileInv,
     GenerateTLSCAInv, ApplyHBAInv, ApplyTLSInv, ApplyExtensionsInv, CutProvisioningInv
<1>2. CASE \E u \in update : UpdateConnectionProfile(u)
  BY <1>2, UpdateConnectionProfileInv
<1>3. CASE \E x \in Extensions, on \in BOOLEAN : SetExtension(x, on)
  BY <1>3, SetExtensionInv
<1>4. CASE \E p \in Params : ReplaceSettings(p)
  BY <1>4, ReplaceSettingsInv
<1>5. CASE \E r \in replace, n \in FeatNodes : QueueApplySettings(r, n)
  BY <1>5, QueueApplySettingsInv
<1>6. CASE \E n \in FeatNodes : Execute(n) \/ ExecuteFails(n) \/ AgentDies(n) \/ GiveUp(n)
  BY <1>6, ExecuteInv, ExecuteFailsInv, AgentDiesInv, GiveUpInv
<1>7. CASE \E h \in reports : UpdateCommand(h) \/ ApplyResult(h) \/ CutReport(h)
  BY <1>7, UpdateCommandInv, ApplyResultInv, CutReportInv
<1>8. CASE \E d \in Databases : DatabaseReady(d)
  BY <1>8, DatabaseReadyInv
<1>9. CASE UNCHANGED featVars
  <2>1. UNCHANGED appliedVars
    BY <1>9 DEF featVars, appliedVars
  <2>2. TableInv' /\ HostInv' /\ RequestInv' /\ ProfileInv'
    BY <1>9 DEF featVars, FeatInv, BaseInv, TableInv, HostInv, RequestInv, LockInv, ProfileInv
  <2> QED
    BY <2>1, <2>2, AppliedUntouched DEF FeatInv, BaseInv
<1> QED
  BY <1>1, <1>2, <1>3, <1>4, <1>5, <1>6, <1>7, <1>8, <1>9 DEF FeatNext

LEMMA FeatInvariant == FeatSpec => []FeatInv
<1>1. FeatInit => FeatInv
  BY InitInv
<1>2. FeatInv /\ [FeatNext]_featVars => FeatInv'
  BY StepInv
<1> QED
  BY <1>1, <1>2, PTL DEF FeatSpec

\* The statuses the page shows are the rows'; with nothing to warn of, every
\* node has a row, a success and a certificate.
LEMMA InvShows == FeatInv => AppliedIsOnHost
<1> SUFFICES ASSUME FeatInv, NEW n \in FeatNodes
             PROVE  /\ hbaRow[n].status = "succeeded"
                         => /\ hba[n] = RenderHBAPolicy(cmds[hbaRow[n].cmd].body)
                            /\ n \notin unsure => rules[n] = hba[n]
                    /\ n \notin bare /\ tlsRow[n].status = "succeeded"
                         => active[n].tls = cmds[tlsRow[n].cmd].body
                    /\ n \notin bare /\ profile.mode = "required" /\ tlsWarnings(profile) = {}
                         => active[n].tls # <<"off">>
  BY DEF AppliedIsOnHost, GetNetworkAccess, GetTLSConfig, hbaStatuses, tlsStatuses
<1>1. /\ hbaRow[n].status = "succeeded" => hba[n] = RenderHBAPolicy(cmds[hbaRow[n].cmd].body)
      /\ n \notin unsure => rules[n] = hba[n]
  BY DEF FeatInv, BaseInv, HostInv, HBAInv
<1>2. n \notin bare /\ tlsRow[n].status = "succeeded" => active[n].tls = cmds[tlsRow[n].cmd].body
  BY DEF FeatInv, TLSInv
<1>3. ASSUME n \notin bare, profile.mode = "required", tlsWarnings(profile) = {}
      PROVE  active[n].tls # <<"off">>
  <2> DEFINE applied == {m \in FeatNodes : tlsRow[m].cmd # 0}
  <2>1. "not applied" \notin tlsWarnings(profile) /\ "not on all" \notin tlsWarnings(profile)
          /\ "not confirmed" \notin tlsWarnings(profile)
    BY <1>3
  <2>2. applied # {}
    BY <1>3, <2>1 DEF tlsWarnings
  <2>3. n \in applied
    BY <2>2 DEF FeatInv, TLSInv
  <2>4. tlsStatuses(n).status = "succeeded"
    BY <2>1, <2>3 DEF tlsWarnings
  <2>5. tlsStatuses(n).active
    BY <1>3, <2>1, <2>3 DEF tlsWarnings
  <2>6. tlsRow[n].status = "succeeded" /\ cmds[tlsRow[n].cmd].body # <<"off">>
    BY <2>4, <2>5 DEF tlsStatuses
  <2> QED
    BY <1>2, <1>3, <2>6
<1> QED
  BY <1>1, <1>2, <1>3

\* What GetNetworkAccess and GetTLSConfig call succeeded is in the host's files
\* and loaded, whatever reports of earlier commands arrive late, however often
\* agents execute a command, and wherever they die or fail (network_access_repo.go,
\* tls_apply_repo.go); but the HBA rules need not be loaded after an apply that
\* ended between its write and a completed reload (hba.go).
THEOREM AppliedIsOnHostHolds == FeatSpec => []AppliedIsOnHost
  BY FeatInvariant, InvShows, PTL

\* An extension shown as ready, and not toggled since its command was built,
\* exists in every database of the command (cluster_extension_repo.go).
THEOREM ReadyExtensionsHold == FeatSpec => []ReadyExtensionsCreated
<1>1. FeatInv => ReadyExtensionsCreated
  <2> SUFFICES ASSUME FeatInv, NEW x \in Extensions,
                      GetExtensions(x).status = "ready", x \in cmds[extRow[x].cmd].body.enable,
                      NEW d \in cmds[extRow[x].cmd].body.dbs
               PROVE  x \in created[d]
    BY DEF ReadyExtensionsCreated
  <2>1. extRow[x].status = "ready"
    BY DEF GetExtensions, mergedExtensions
  <2> QED
    BY <2>1 DEF FeatInv, ExtInv, ExtensionInv
<1> QED
  BY <1>1, FeatInvariant, PTL

\* As long as no UpdateConnectionProfile overlaps another update, the connection
\* profile is what the last request of each kind asked for.
THEOREM ProfileKeepsUpdatesHolds == FeatSpec => []ProfileKeepsUpdates
<1>1. FeatInv => ProfileKeepsUpdates
  BY DEF FeatInv, ProfileInv, ProfileKeepsUpdates, GetConnectionProfile
<1> QED
  BY <1>1, FeatInvariant, PTL

\* Every table, file and report has its type, and every row names a command of
\* its own feature and node.
THEOREM FeatTypeCorrect == FeatSpec => []FeatTypeOK
<1>1. FeatInv => FeatTypeOK
  <2> SUFFICES ASSUME FeatInv PROVE FeatTypeOK
    OBVIOUS
  <2>1. \A n \in FeatNodes : \A f \in {"tls", "hba"} :
          LET row == IF f = "tls" THEN tlsRow[n] ELSE hbaRow[n]
          IN row.status # "none" => /\ row.cmd \in DOMAIN cmds
                                    /\ cmds[row.cmd].node = n /\ cmds[row.cmd].action = f
    BY DEF FeatInv, HBAInv, TLSInv, LastInv
  <2>2. \A x \in Extensions :
          /\ extRow[x].status \in {"none", "off", "pending", "ready", "failed"}
          /\ extRow[x].cmd # 0 => cmds[extRow[x].cmd].action = "ext"
    BY DEF FeatInv, ExtInv, ExtensionInv, BaseInv, TableInv, ExtRows
  <2> QED
    BY <2>1, <2>2 DEF FeatTypeOK, FeatInv, BaseInv, TableInv, ReportInv, HostInv
<1> QED
  BY <1>1, FeatInvariant, PTL

=============================================================================
