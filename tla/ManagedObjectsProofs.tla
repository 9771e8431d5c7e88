------------------------ MODULE ManagedObjectsProofs ------------------------
(***************************************************************************)
(* What is proved of ManagedObjects for every set of roles, databases and  *)
(* requests, with or without foreign keys, and every bound: the secrets    *)
(* follow their commands, what is shown as ready works, and what has no    *)
(* row is not left on the server.                                          *)
(***************************************************************************)
EXTENDS ManagedObjects, SequenceTheorems, TLAPS

-----------------------------------------------------------------------------
(* The inductive invariant.                                                *)

Phases == {"idle", "run", "report", "handle", "grant", "secrets"}
OpStates == {"running", "succeeded", "failed"}
Kinds == {"drop_role", "create_database", "drop_database"}
EnsuresRole(c) == c.action = "pg_ensure_role"
DropsRole(c) == c.action = "pg_drop_role"
EnsuresDatabase(c) == c.action = "pg_ensure_database"
Grants(c) == c.action = "pg_grant_database_privileges"
DropsDatabase(c) == c.action = "pg_drop_database"

\* A command names an object of its kind and one of the operations made so far; what
\* it drops is older than the command itself.
Sound(c, made) ==
  /\ c \in Commands
  /\ c.op <= made /\ c.id <= c.op
  /\ c.action \in RoleActions => c.name \in Roles
  /\ c.action \in DatabaseActions => c.name \in Databases
  /\ EnsuresDatabase(c) \/ Grants(c) => c.id = c.op
  /\ Grants(c) => c.owner # None
  /\ DropsDatabase(c) \/ DropsRole(c) => c.id < c.op

\* A request remembers the kind of object it will change.
Reqs == [kind : Kinds, name : Roles \cup Databases, id : 0..MaxOps, owner : Roles \cup {None}]
SoundRequest(a) ==
  /\ a.kind = "drop_role" => a.name \in Roles /\ a.id \in 1..Len(ops)
  /\ a.kind = "drop_database" => a.name \in Databases /\ a.id \in 1..Len(ops)
  /\ a.kind = "create_database" =>
       a.name \in Databases

RowInv ==
  /\ ops \in Seq(OpStates) /\ Len(ops) <= MaxOps
  /\ role \in [Roles -> {None} \cup RoleRows]
  /\ \A r \in Roles : role[r] # None => role[r].id <= Len(ops) /\ role[r].password <= Len(ops)
  /\ database \in [Databases -> {None} \cup DatabaseRows]
  /\ \A d \in Databases : database[d] # None => database[d].id <= Len(ops)

ServerInv ==
  /\ pgRole \in [Roles -> {None} \cup 0..MaxOps]
  /\ pgDatabase \in [Databases -> {None, "admin"} \cup Roles]

RequestInv ==
  /\ req \in [Requests -> {None} \cup Reqs]
  /\ \A q \in Requests : req[q] # None => SoundRequest(req[q])

HistoryInv == cut \in BOOLEAN /\ revived \subseteq Roles /\ faults \in 0..MaxFaults

\* The pending commands are in the order of their operations, grants apart,
\* which are queued with the operation of their database.
Ordinary(c) == ~Grants(c)
Before(c, e) == c # e /\ (Ordinary(c) /\ Ordinary(e) => c.op < e.op)
QueueInv ==
  /\ queue \in Seq(Commands)
  /\ \A i \in DOMAIN queue : Sound(queue[i], Len(ops))
  /\ \A i, j \in DOMAIN queue : i < j => Before(queue[i], queue[j])

\* What a successful execution has left on the server.
Effect(c) ==
  /\ c.action \in {"pg_ensure_role", "pg_rotate_role_password"} => pgRole[c.name] = c.op
  /\ DropsRole(c) => pgRole[c.name] = None
  /\ EnsuresDatabase(c) \/ Grants(c) => pgDatabase[c.name] # None
  /\ DropsDatabase(c) => pgDatabase[c.name] = None

\* The agent works on the oldest command, whose result is stored before it is
\* handled; by then it is older than every command that is pending.
JobInv ==
  /\ job \in [at : Phases, cmd : Commands \cup {None}, ok : BOOLEAN]
  /\ job.at # "idle" => Sound(job.cmd, Len(ops))
  /\ job.at = "run" => ~job.ok
  /\ job.at \in {"run", "report"} => queue # <<>> /\ job.cmd = queue[1]
  /\ job.at = "handle" => \A i \in DOMAIN queue : Before(job.cmd, queue[i])
  /\ job.at = "grant" => /\ EnsuresDatabase(job.cmd) /\ job.cmd.owner # None
                         /\ \A i \in DOMAIN queue : Before(job.cmd, queue[i])
  /\ job.at = "secrets" => \A i \in DOMAIN queue : queue[i] # job.cmd
  /\ job.at \in {"report", "handle"} /\ job.ok => Effect(job.cmd)

\* Secrets belong to pending commands and to the one that is executed or handled.
SecretInv ==
  /\ secrets \subseteq Commands
  /\ \A i \in DOMAIN queue : queue[i] \in secrets
  /\ ~cut => \A c \in secrets :
       (\E i \in DOMAIN queue : queue[i] = c) \/ (job.at # "idle" /\ job.cmd = c)

\* The commands whose results are still to be applied to the rows.
Live == {queue[i] : i \in DOMAIN queue}
          \cup (IF job.at \in {"handle", "grant"} THEN {job.cmd} ELSE {})

\* A grant is queued when the database's creation is over.
GrantInv == \A g, e \in Live : Grants(g) /\ EnsuresDatabase(e) => g.op # e.op

\* A role created while a drop is pending is revived; one without a row and
\* without that history is not on the server and nothing will create it.
RoleGone(r) ==
  /\ \A c, e \in Live :
       c.name = r /\ e.name = r /\ DropsRole(c) /\ EnsuresRole(e) /\ c.op < e.op => r \in revived
  /\ role[r] = None /\ r \notin revived =>
       pgRole[r] = None /\ \A e \in Live : e.name = r => ~EnsuresRole(e)

\* The command that sets the password of the row.
SetsPassword(c, r) == c.name = r /\ c.op = role[r].password

\* Commands newer than the row's password drop its row; older ones wait before
\* the command that sets it.  After that command the role has that password, or
\* there is still a drop whose result will end the status "ready".
RoleReady(r) ==
  role[r] # None =>
    /\ \A c \in Live : c.name = r /\ c.op > role[r].password => DropsRole(c) /\ c.id = role[r].id
    /\ \A c \in Live : SetsPassword(c, r) => ~DropsRole(c) /\ c.id = role[r].id
    /\ (\E c \in Live : SetsPassword(c, r))
         \/ /\ \A c \in Live : c.name = r => c.op > role[r].password
            /\ ~cut /\ role[r].status = "ready" =>
                 pgRole[r] = role[r].password \/ \E c \in Live : c.name = r

\* A creation that is not handled has its row, and a database without a row is
\* not on the server.
DatabaseGone(d) ==
  /\ \A e \in Live : e.name = d /\ EnsuresDatabase(e) =>
       database[d] # None /\ database[d].id = e.op
  /\ database[d] = None => pgDatabase[d] = None

\* A drop is of the present row, or older than its creation, which is then
\* pending behind it.
DatabaseReady(d) ==
  database[d] # None =>
    /\ \A c \in Live : c.name = d /\ DropsDatabase(c) =>
         \/ c.id = database[d].id
         \/ /\ c.op < database[d].id
            /\ \E e \in Live : e.name = d /\ EnsuresDatabase(e)
    /\ database[d].status = "ready" =>
         /\ \A e \in Live : e.name = d => ~EnsuresDatabase(e)
         /\ ~cut => pgDatabase[d] # None \/ \E c \in Live : c.name = d /\ DropsDatabase(c)

BaseInv == RowInv /\ ServerInv /\ RequestInv /\ HistoryInv /\ QueueInv /\ JobInv /\ SecretInv
RoleInv(r) == RoleGone(r) /\ RoleReady(r)
DatabaseInv(d) == DatabaseGone(d) /\ DatabaseReady(d)

ManagedInv ==
  /\ BaseInv /\ GrantInv
  /\ \A r \in Roles : RoleInv(r)
  /\ \A d \in Databases : DatabaseInv(d)

-----------------------------------------------------------------------------
(* Commands that are accepted.                                             *)

LEMMA InLive ==
  ASSUME queue \in Seq(Commands), NEW c
  PROVE  c \in Live <=> \/ \E i \in 1..Len(queue) : queue[i] = c
                        \/ job.at \in {"handle", "grant"} /\ c = job.cmd
  BY DEF Live

\* Every live command is sound.
LEMMA LiveSound ==
  ASSUME QueueInv, JobInv, NEW c \in Live
  PROVE  Sound(c, Len(ops)) /\ c \in Commands
  BY InLive DEF QueueInv, JobInv, Sound

\* The command that is handled comes before every other live one.
LEMMA HandledFirst ==
  ASSUME QueueInv, JobInv, job.at \in {"handle", "grant"}, NEW c \in Live, c # job.cmd
  PROVE  Before(job.cmd, c)
  BY InLive DEF QueueInv, JobInv

NewCommand(action, name, id, owner) ==
  [op |-> NewID, action |-> action, name |-> name, id |-> id, owner |-> owner]

Acceptable(action, name, id, owner) ==
  /\ action \in RoleActions \cup DatabaseActions /\ action # "pg_grant_database_privileges"
  /\ action \in RoleActions => name \in Roles
  /\ action \in DatabaseActions => name \in Databases
  /\ id \in 1..NewID /\ owner \in Roles \cup {None}
  /\ action = "pg_ensure_database" => id = NewID
  /\ action \in {"pg_drop_role", "pg_drop_database"} => id # NewID

\* A command that was sound stays sound when operations are added or end.
LEMMA SoundStays ==
  ASSUME NEW c, NEW m \in Nat, NEW n \in Nat, Sound(c, m), m <= n
  PROVE  Sound(c, n)
  BY ManagedAssumption DEF Sound, Commands, OpIDs

LEMMA AcceptedOps ==
  ASSUME RowInv, NEW action, NEW name, NEW id, NEW owner, Accept(action, name, id, owner)
  PROVE  /\ ops' \in Seq(OpStates) /\ Len(ops') = Len(ops) + 1 /\ Len(ops') <= MaxOps
         /\ Len(ops') >= Len(ops) /\ Len(ops') \in Nat
         /\ Len(ops) \in Nat /\ NewID = Len(ops) + 1 /\ NewID \in OpIDs
         /\ queue' = Append(queue, NewCommand(action, name, id, owner))
         /\ secrets' = secrets \cup {NewCommand(action, name, id, owner)}
         /\ job' = job /\ cut' = cut /\ faults' = faults
         /\ pgRole' = pgRole /\ pgDatabase' = pgDatabase
  BY ManagedAssumption DEF RowInv, Accept, NewID, OpIDs, OpStates, server, NewCommand

LEMMA AcceptedSound ==
  ASSUME RowInv, NEW action, NEW name, NEW id, NEW owner, Accept(action, name, id, owner),
         Acceptable(action, name, id, owner)
  PROVE  Sound(NewCommand(action, name, id, owner), Len(ops')) /\ NewCommand(action, name, id, owner) \in Commands
  <1> DEFINE new == NewCommand(action, name, id, owner)
  <1>1. NewID = Len(ops) + 1 /\ NewID \in OpIDs /\ Len(ops') = Len(ops) + 1 /\ Len(ops) \in Nat
    BY AcceptedOps
  <1>2. new \in Commands
    BY <1>1, ManagedAssumption DEF NewCommand, Commands, Acceptable, RoleActions, DatabaseActions, OpIDs
  <1>3. new.op = NewID /\ new.action = action /\ new.name = name /\ new.id = id /\ new.owner = owner
    BY DEF NewCommand
  <1> HIDE DEF new
  <1>4. Sound(new, Len(ops'))
    BY <1>1, <1>2, <1>3 DEF Sound, Acceptable, EnsuresDatabase, Grants, DropsDatabase, DropsRole,
       RoleActions, DatabaseActions
  <1> QED
    BY <1>2, <1>4 DEF new

LEMMA AcceptedWork ==
  ASSUME RowInv, QueueInv, JobInv, SecretInv, NEW action, NEW name, NEW id, NEW owner,
         Accept(action, name, id, owner), Acceptable(action, name, id, owner)
  PROVE  /\ QueueInv' /\ JobInv' /\ SecretInv'
         /\ Live' = Live \cup {NewCommand(action, name, id, owner)}
  <1> DEFINE new == NewCommand(action, name, id, owner)
  <1>1. /\ Len(ops') = Len(ops) + 1 /\ Len(ops) \in Nat /\ Len(ops') \in Nat
        /\ queue' = Append(queue, new) /\ secrets' = secrets \cup {new}
        /\ job' = job /\ cut' = cut /\ pgRole' = pgRole /\ pgDatabase' = pgDatabase
    BY AcceptedOps
  <1>2. Sound(new, Len(ops')) /\ new \in Commands /\ new.op = Len(ops) + 1 /\ Ordinary(new)
    BY AcceptedSound, AcceptedOps DEF NewCommand, Ordinary, Grants, Acceptable
  <1> HIDE DEF new
  <1>3. /\ queue \in Seq(Commands) /\ queue' \in Seq(Commands) /\ Len(queue) \in Nat
        /\ Len(queue') = Len(queue) + 1 /\ queue'[Len(queue) + 1] = new
        /\ \A i \in 1..Len(queue) : queue'[i] = queue[i]
        /\ DOMAIN queue = 1..Len(queue) /\ DOMAIN queue' = 1..(Len(queue) + 1)
    BY <1>1, <1>2 DEF QueueInv
  <1>4. \A c : Sound(c, Len(ops)) => Sound(c, Len(ops')) /\ c.op \in Nat /\ c.op < new.op
    <2> SUFFICES ASSUME NEW c, Sound(c, Len(ops)) PROVE Sound(c, Len(ops')) /\ c.op \in Nat /\ c.op < new.op
      OBVIOUS
    <2>1. c.op \in Nat /\ c.op <= Len(ops)
      BY ManagedAssumption DEF Sound, Commands, OpIDs
    <2> QED
      BY <1>1, <1>2, <2>1, SoundStays
  <1>5. \A c : Sound(c, Len(ops)) => Before(c, new)
    BY <1>4 DEF Before
  <1>6. QueueInv'
    <2>1. ASSUME NEW i \in DOMAIN queue' PROVE Sound(queue'[i], Len(ops'))
      BY <1>2, <1>3, <1>4 DEF QueueInv
    <2>2. ASSUME NEW i \in DOMAIN queue', NEW j \in DOMAIN queue', i < j
          PROVE  Before(queue'[i], queue'[j])
      <3>1. CASE j <= Len(queue)
        BY <1>3, <2>2, <3>1 DEF QueueInv
      <3>2. CASE j = Len(queue) + 1
        BY <1>3, <1>5, <2>2, <3>2 DEF QueueInv
      <3> QED
        BY <1>3, <3>1, <3>2
    <2> QED
      BY <1>3, <2>1, <2>2 DEF QueueInv, Before, Ordinary, Grants
  <1>7. JobInv'
    <2>1. job.at # "idle" => Sound(job.cmd, Len(ops')) /\ Before(job.cmd, new)
      BY <1>4, <1>5 DEF JobInv
    <2>2. job.at \in {"run", "report"} => queue' # <<>> /\ job.cmd = queue'[1]
      BY <1>3 DEF JobInv
    <2>3. job.at \in {"handle", "grant"} => \A i \in DOMAIN queue' : Before(job.cmd, queue'[i])
      BY <1>3, <2>1 DEF JobInv
    <2>4. job.at = "secrets" => \A i \in DOMAIN queue' : queue'[i] # job.cmd
      BY <1>3, <2>1 DEF JobInv, Before
    <2> QED
      BY <1>1, <2>1, <2>2, <2>3, <2>4
      DEF JobInv, Effect, EnsuresDatabase, Grants, DropsDatabase, DropsRole, Before, Ordinary
  <1>8. SecretInv'
    BY <1>1, <1>2, <1>3 DEF SecretInv
  <1>9. Live' = Live \cup {new}
    BY <1>1, <1>3 DEF Live
  <1> QED
    BY <1>6, <1>7, <1>8, <1>9 DEF new

-----------------------------------------------------------------------------
(* Types, queue, job and secrets.                                          *)

LEMMA InitBase == Init => BaseInv
  <1> SUFFICES ASSUME Init PROVE BaseInv
    OBVIOUS
  <1>1. RowInv
    <2>1. ops \in Seq(OpStates) /\ Len(ops) = 0
      BY DEF Init
    <2>2. MaxOps \in Nat
      BY ManagedAssumption
    <2>3. role \in [Roles -> {None} \cup RoleRows] /\ database \in [Databases -> {None} \cup DatabaseRows]
      BY DEF Init
    <2>4. (\A r \in Roles : role[r] = None) /\ (\A d \in Databases : database[d] = None)
      BY DEF Init
    <2> QED
      BY <2>1, <2>2, <2>3, <2>4 DEF RowInv
  <1>5. ServerInv /\ HistoryInv
    <2>1. MaxOps \in Nat /\ MaxFaults \in Nat
      BY ManagedAssumption
    <2>2. ServerInv
      BY <2>1 DEF Init, ServerInv
    <2>3. cut \in BOOLEAN /\ revived \subseteq Roles /\ faults = 0
      BY DEF Init
    <2> QED
      BY <2>1, <2>2, <2>3 DEF HistoryInv
  <1>2. RequestInv
    BY DEF Init, RequestInv
  <1>3. QueueInv /\ SecretInv
    BY DEF Init, QueueInv, SecretInv
  <1>4. JobInv
    BY DEF Init, JobInv, NoJob, Phases
  <1> QED
    BY <1>1, <1>2, <1>3, <1>4, <1>5 DEF BaseInv

\* Requests that wait are not disturbed by operations that are added, and a
\* request that ends is forgotten.
LEMMA RequestsWait ==
  ASSUME RequestInv, Len(ops) \in Nat, Len(ops') \in Nat, Len(ops') >= Len(ops),
         req' = req \/ \E q \in Requests : req' = [req EXCEPT ![q] = None]
  PROVE  RequestInv'
  <1>2. req' \in [Requests -> {None} \cup Reqs]
    BY DEF RequestInv
  <1>3. ASSUME NEW q \in Requests, req'[q] # None PROVE req'[q] = req[q] /\ SoundRequest(req[q])
    BY <1>3 DEF RequestInv
  <1>4. ASSUME NEW q \in Requests, req'[q] # None
        PROVE  /\ req'[q].kind = "drop_role" => req'[q].name \in Roles /\ req'[q].id \in 1..Len(ops')
               /\ req'[q].kind = "drop_database" => req'[q].name \in Databases /\ req'[q].id \in 1..Len(ops')
               /\ req'[q].kind = "create_database" => req'[q].name \in Databases
    BY <1>3, <1>4 DEF SoundRequest
  <1> QED
    BY <1>2, <1>4 DEF RequestInv, SoundRequest

\* Fields of rows.
LEMMA RoleRowFields ==
  ASSUME RowInv, NEW r \in Roles, role[r] # None
  PROVE  /\ role[r] \in RoleRows
         /\ role[r].id \in 1..Len(ops) /\ role[r].password \in 1..Len(ops)
         /\ role[r].status \in Statuses /\ Len(ops) \in Nat /\ Len(ops) <= MaxOps
  BY ManagedAssumption DEF RowInv, RoleRows, OpIDs

LEMMA DatabaseRowFields ==
  ASSUME RowInv, NEW d \in Databases, database[d] # None
  PROVE  /\ database[d] \in DatabaseRows
         /\ database[d].id \in 1..Len(ops) /\ database[d].owner \in 0..MaxOps
         /\ database[d].status \in Statuses /\ Len(ops) \in Nat /\ Len(ops) <= MaxOps
  BY ManagedAssumption DEF RowInv, DatabaseRows, OpIDs

\* A row that replaces another one, with more operations.
LEMMA RoleWritten ==
  ASSUME RowInv, NEW r \in Roles, NEW row \in {None} \cup RoleRows, role' = [role EXCEPT ![r] = row],
         database' = database, row # None => row.id <= Len(ops') /\ row.password <= Len(ops'),
         ops' \in Seq(OpStates), Len(ops') <= MaxOps, Len(ops') >= Len(ops)
  PROVE  RowInv'
  <1>1. Len(ops) \in Nat /\ Len(ops') \in Nat
    BY DEF RowInv
  <1>2. role' \in [Roles -> {None} \cup RoleRows]
    BY DEF RowInv
  <1>3. ASSUME NEW x \in Roles, role'[x] # None
        PROVE  role'[x].id <= Len(ops') /\ role'[x].password <= Len(ops')
    <2>1. CASE x = r
      BY <1>3, <2>1 DEF RowInv
    <2>2. CASE x # r
      BY <1>1, <1>3, <2>2, RoleRowFields DEF RowInv
    <2> QED
      BY <2>1, <2>2
  <1>4. ASSUME NEW d \in Databases, database'[d] # None PROVE database'[d].id <= Len(ops')
    BY <1>1, <1>4, DatabaseRowFields
  <1> QED
    BY <1>2, <1>3, <1>4 DEF RowInv

LEMMA DatabaseWritten ==
  ASSUME RowInv, NEW d \in Databases, NEW row \in {None} \cup DatabaseRows,
         database' = [database EXCEPT ![d] = row],
         role' = role, row # None => row.id <= Len(ops'),
         ops' \in Seq(OpStates), Len(ops') <= MaxOps, Len(ops') >= Len(ops)
  PROVE  RowInv'
  <1>1. Len(ops) \in Nat /\ Len(ops') \in Nat
    BY DEF RowInv
  <1>2. database' \in [Databases -> {None} \cup DatabaseRows]
    BY DEF RowInv
  <1>3. ASSUME NEW x \in Databases, database'[x] # None PROVE database'[x].id <= Len(ops')
    <2>1. CASE x = d
      BY <1>3, <2>1 DEF RowInv
    <2>2. CASE x # d
      BY <1>1, <1>3, <2>2, DatabaseRowFields DEF RowInv
    <2> QED
      BY <2>1, <2>2
  <1>4. ASSUME NEW r \in Roles, role'[r] # None
        PROVE  role'[r].id <= Len(ops') /\ role'[r].password <= Len(ops')
    BY <1>1, <1>4, RoleRowFields
  <1> QED
    BY <1>2, <1>3, <1>4 DEF RowInv

\* What a request to create, use again or rotate a role writes and queues.
NewPassword(r, action) ==
  /\ role'[r] \in RoleRows
  /\ role'[r].password = NewID /\ role'[r].status = "pending"
  /\ role' = [role EXCEPT ![r] = role'[r]]
  /\ role[r] # None => role'[r].id = role[r].id
  /\ action \in {"pg_ensure_role", "pg_rotate_role_password"}
  /\ Accept(action, r, role'[r].id, None) /\ Acceptable(action, r, role'[r].id, None)
  /\ database' = database /\ req' = req /\ revived' \subseteq Roles

LEMMA CreateRoleWrites ==
  ASSUME BaseInv, NEW r \in Roles, CreateRole(r)
  PROVE  NewPassword(r, "pg_ensure_role")
  <1>1. Len(ops) \in Nat /\ NewID = Len(ops) + 1 /\ NewID \in OpIDs
    BY AcceptedOps DEF BaseInv, CreateRole
  <1>2. revived' \subseteq Roles
    BY DEF BaseInv, HistoryInv, CreateRole
  <1>3. CASE role[r] = None /\ role' = [role EXCEPT ![r] = CreateWithCommand]
    <2>1. role'[r] = CreateWithCommand
      BY <1>3 DEF BaseInv, RowInv
    <2>2. CreateWithCommand \in RoleRows /\ CreateWithCommand.id = NewID /\ CreateWithCommand.password = NewID
          /\ CreateWithCommand.status = "pending"
      BY <1>1 DEF CreateWithCommand, RoleRows, Statuses
    <2>3. role' = [role EXCEPT ![r] = role'[r]]
      BY <1>3, <2>1
    <2>4. Accept("pg_ensure_role", r, role'[r].id, None) /\ database' = database /\ req' = req
      BY DEF CreateRole
    <2>5. Acceptable("pg_ensure_role", r, role'[r].id, None)
      BY <1>1, <2>1, <2>2 DEF Acceptable, RoleActions, DatabaseActions
    <2> QED
      BY <1>2, <1>3, <2>1, <2>2, <2>3, <2>4, <2>5 DEF NewPassword
  <1>4. CASE /\ role[r] # None /\ role[r].status = "failed"
             /\ role' = [role EXCEPT ![r] = RetryCreateWithCommand(r)]
    <2>0. role[r] \in RoleRows /\ role[r].id \in 1..Len(ops)
      BY <1>4, RoleRowFields DEF BaseInv
    <2>1. role'[r] = RetryCreateWithCommand(r)
      BY <1>4 DEF BaseInv, RowInv
    <2>2. RetryCreateWithCommand(r) \in RoleRows /\ RetryCreateWithCommand(r).id = role[r].id
          /\ RetryCreateWithCommand(r).password = NewID /\ RetryCreateWithCommand(r).status = "pending"
      BY <1>1, <2>0 DEF RetryCreateWithCommand, RoleRows, Statuses
    <2>3. role' = [role EXCEPT ![r] = role'[r]]
      BY <1>4, <2>1
    <2>4. Accept("pg_ensure_role", r, role'[r].id, None) /\ database' = database /\ req' = req
      BY DEF CreateRole
    <2>5. Acceptable("pg_ensure_role", r, role'[r].id, None)
      BY <1>1, <2>0, <2>1, <2>2 DEF Acceptable, RoleActions, DatabaseActions
    <2> QED
      BY <1>2, <1>4, <2>1, <2>2, <2>3, <2>4, <2>5 DEF NewPassword
  <1> QED
    BY <1>3, <1>4 DEF CreateRole

LEMMA RotateRoleWrites ==
  ASSUME BaseInv, NEW r \in Roles, RotateRolePassword(r)
  PROVE  NewPassword(r, "pg_rotate_role_password") /\ role[r] # None /\ revived' = revived
  <1>1. Len(ops) \in Nat /\ NewID = Len(ops) + 1 /\ NewID \in OpIDs
    BY AcceptedOps DEF BaseInv, RotateRolePassword
  <1>2. role[r] # None /\ role[r] \in RoleRows /\ role[r].id \in 1..Len(ops)
    BY RoleRowFields DEF BaseInv, RotateRolePassword, RotateWithCommand
  <1>3. role'[r] = [role[r] EXCEPT !.status = "pending", !.password = NewID]
    BY <1>2 DEF RotateRolePassword, RotateWithCommand, BaseInv, RowInv
  <1>4. role'[r] \in RoleRows /\ role'[r].id = role[r].id /\ role'[r].password = NewID
        /\ role'[r].status = "pending"
    BY <1>1, <1>2, <1>3 DEF RoleRows, Statuses
  <1>5. role' = [role EXCEPT ![r] = role'[r]]
    BY <1>3 DEF RotateRolePassword, RotateWithCommand, BaseInv, RowInv
  <1>6. revived' = revived /\ revived \subseteq Roles /\ database' = database /\ req' = req
    BY DEF RotateRolePassword, BaseInv, HistoryInv
  <1>7. Accept("pg_rotate_role_password", r, role'[r].id, None)
    BY <1>4 DEF RotateRolePassword
  <1>8. Acceptable("pg_rotate_role_password", r, role'[r].id, None)
    BY <1>1, <1>2, <1>4 DEF Acceptable, RoleActions, DatabaseActions
  <1> QED
    BY <1>2, <1>4, <1>5, <1>6, <1>7, <1>8 DEF NewPassword

LEMMA NewPasswordBase ==
  ASSUME BaseInv, NEW r \in Roles, NEW action, NewPassword(r, action)
  PROVE  BaseInv'
  <1>1. RowInv /\ ServerInv /\ RequestInv /\ HistoryInv /\ QueueInv /\ JobInv /\ SecretInv
    BY DEF BaseInv
  <1>2. Accept(action, r, role'[r].id, None) /\ Acceptable(action, r, role'[r].id, None)
    BY DEF NewPassword
  <1>3. /\ ops' \in Seq(OpStates) /\ Len(ops') = Len(ops) + 1 /\ Len(ops') <= MaxOps
        /\ Len(ops') >= Len(ops) /\ Len(ops') \in Nat
        /\ Len(ops) \in Nat /\ NewID = Len(ops) + 1
        /\ cut' = cut /\ faults' = faults /\ pgRole' = pgRole /\ pgDatabase' = pgDatabase
    BY <1>1, <1>2, AcceptedOps
  <1>4. QueueInv' /\ JobInv' /\ SecretInv'
    BY <1>1, <1>2, AcceptedWork
  <1>5. ServerInv' /\ HistoryInv'
    BY <1>1, <1>3 DEF ServerInv, HistoryInv, NewPassword
  <1>6. RequestInv'
    BY <1>1, <1>3, RequestsWait DEF NewPassword
  <1>7. role'[r].id <= Len(ops') /\ role'[r].password <= Len(ops')
    BY <1>2, <1>3 DEF NewPassword, Acceptable
  <1>8. RowInv'
    <2> DEFINE row == role'[r]
    <2>1. row \in {None} \cup RoleRows /\ role' = [role EXCEPT ![r] = row] /\ database' = database
      BY DEF NewPassword
    <2>2. row.id <= Len(ops') /\ row.password <= Len(ops')
      BY <1>7
    <2> HIDE DEF row
    <2> QED
      BY <1>1, <1>3, <2>1, <2>2, RoleWritten
  <1> QED
    BY <1>4, <1>5, <1>6, <1>8 DEF BaseInv

\* What a request to delete a role writes and queues.
DroppingRole(r) ==
  /\ role[r] # None /\ role'[r] = [role[r] EXCEPT !.status = "deleting"]
  /\ role' = [role EXCEPT ![r] = role'[r]]
  /\ Accept("pg_drop_role", r, role[r].id, None) /\ Acceptable("pg_drop_role", r, role[r].id, None)
  /\ database' = database /\ revived' = revived
  /\ \E q \in Requests : req' = [req EXCEPT ![q] = None]

LEMMA CommitDeleteRoleWrites ==
  ASSUME BaseInv, NEW q \in Requests, CommitDeleteRole(q)
  PROVE  req[q].name \in Roles /\ DroppingRole(req[q].name)
  <1> DEFINE r == req[q].name
  <1>1. req[q] # None /\ req[q].kind = "drop_role" /\ req' = [req EXCEPT ![q] = None]
        /\ role[r] # None /\ role[r].id = req[q].id /\ role' = [role EXCEPT ![r].status = "deleting"]
        /\ Accept("pg_drop_role", r, req[q].id, None) /\ database' = database /\ revived' = revived
    BY DEF CommitDeleteRole, Committing
  <1>2. r \in Roles
    BY <1>1 DEF BaseInv, RequestInv, SoundRequest
  <1> HIDE DEF r
  <1>3. Len(ops) \in Nat /\ NewID = Len(ops) + 1
    BY <1>1, AcceptedOps DEF BaseInv
  <1>4. role[r] \in RoleRows /\ role[r].id \in 1..Len(ops)
    BY <1>1, <1>2, RoleRowFields DEF BaseInv
  <1>5. role'[r] = [role[r] EXCEPT !.status = "deleting"] /\ role' = [role EXCEPT ![r] = role'[r]]
    BY <1>1, <1>2 DEF BaseInv, RowInv
  <1>6. Acceptable("pg_drop_role", r, role[r].id, None)
    BY <1>2, <1>3, <1>4 DEF Acceptable, RoleActions, DatabaseActions
  <1>7. DroppingRole(r)
    BY <1>1, <1>5, <1>6 DEF DroppingRole
  <1> QED
    BY <1>2, <1>7 DEF r

LEMMA DroppingRoleBase ==
  ASSUME BaseInv, NEW r \in Roles, DroppingRole(r)
  PROVE  BaseInv' /\ role'[r] \in RoleRows /\ role'[r].id = role[r].id
                  /\ role'[r].password = role[r].password /\ role'[r].status = "deleting"
  <1>1. RowInv /\ ServerInv /\ RequestInv /\ HistoryInv /\ QueueInv /\ JobInv /\ SecretInv
    BY DEF BaseInv
  <1>2. Accept("pg_drop_role", r, role[r].id, None) /\ Acceptable("pg_drop_role", r, role[r].id, None)
    BY DEF DroppingRole
  <1>3. /\ ops' \in Seq(OpStates) /\ Len(ops') = Len(ops) + 1 /\ Len(ops') <= MaxOps
        /\ Len(ops') >= Len(ops) /\ Len(ops') \in Nat
        /\ Len(ops) \in Nat /\ NewID = Len(ops) + 1
        /\ cut' = cut /\ faults' = faults /\ pgRole' = pgRole /\ pgDatabase' = pgDatabase
    BY <1>1, <1>2, AcceptedOps
  <1>4. QueueInv' /\ JobInv' /\ SecretInv'
    BY <1>1, <1>2, AcceptedWork
  <1>5. ServerInv' /\ HistoryInv'
    BY <1>1, <1>3 DEF ServerInv, HistoryInv, DroppingRole
  <1>6. RequestInv'
    BY <1>1, <1>3, RequestsWait DEF DroppingRole
  <1>7. role[r] \in RoleRows /\ role[r].id \in 1..Len(ops) /\ role[r].password \in 1..Len(ops)
    BY <1>1, RoleRowFields DEF DroppingRole
  <1>8. role'[r] \in RoleRows /\ role'[r].id = role[r].id /\ role'[r].password = role[r].password
        /\ role'[r].status = "deleting"
    BY <1>7 DEF DroppingRole, RoleRows, Statuses
  <1>9. RowInv'
    <2> DEFINE row == role'[r]
    <2>1. row \in {None} \cup RoleRows /\ role' = [role EXCEPT ![r] = row] /\ database' = database
      BY <1>8 DEF DroppingRole
    <2>2. row.id <= Len(ops') /\ row.password <= Len(ops')
      BY <1>3, <1>7, <1>8
    <2> HIDE DEF row
    <2> QED
      BY <1>1, <1>3, <2>1, <2>2, RoleWritten
  <1> QED
    BY <1>4, <1>5, <1>6, <1>8, <1>9 DEF BaseInv

\* What a request to create a database writes and queues.
CreatingDatabase(d, owner) ==
  /\ database[d] = None
  /\ database'[d] \in DatabaseRows /\ database'[d].id = NewID /\ database'[d].status = "pending"
  /\ database' = [database EXCEPT ![d] = database'[d]]
  /\ Accept("pg_ensure_database", d, NewID, owner) /\ Acceptable("pg_ensure_database", d, NewID, owner)
  /\ role' = role /\ revived' = revived
  /\ \E q \in Requests : req' = [req EXCEPT ![q] = None]

LEMMA CommitCreateDatabaseWrites ==
  ASSUME BaseInv, NEW q \in Requests, CommitCreateDatabase(q)
  PROVE  req[q].name \in Databases /\ CreatingDatabase(req[q].name, req[q].owner)
  <1> DEFINE d == req[q].name
  <1>1. req[q] # None /\ req[q].kind = "create_database" /\ req' = [req EXCEPT ![q] = None]
        /\ database[d] = None
        /\ database' = [database EXCEPT ![d] = [id |-> NewID, status |-> "pending", owner |-> req[q].id]]
        /\ Accept("pg_ensure_database", d, NewID, req[q].owner) /\ role' = role /\ revived' = revived
    BY DEF CommitCreateDatabase, Committing
  <1>2. d \in Databases /\ req[q].id \in 0..MaxOps /\ req[q].owner \in Roles \cup {None}
    BY <1>1 DEF BaseInv, RequestInv, SoundRequest, Reqs
  <1> HIDE DEF d
  <1>3. Len(ops) \in Nat /\ NewID = Len(ops) + 1 /\ NewID \in OpIDs
    BY <1>1, AcceptedOps DEF BaseInv
  <1>4. database'[d] = [id |-> NewID, status |-> "pending", owner |-> req[q].id]
    BY <1>1, <1>2 DEF BaseInv, RowInv
  <1>5. database'[d] \in DatabaseRows /\ database'[d].id = NewID /\ database'[d].status = "pending"
    BY <1>2, <1>3, <1>4 DEF DatabaseRows, Statuses
  <1>6. database' = [database EXCEPT ![d] = database'[d]]
    BY <1>1, <1>4
  <1>7. Acceptable("pg_ensure_database", d, NewID, req[q].owner)
    BY <1>2, <1>3 DEF Acceptable, RoleActions, DatabaseActions
  <1>8. CreatingDatabase(d, req[q].owner)
    BY <1>1, <1>5, <1>6, <1>7 DEF CreatingDatabase
  <1> QED
    BY <1>2, <1>8 DEF d

LEMMA CreatingDatabaseBase ==
  ASSUME BaseInv, NEW d \in Databases, NEW owner, CreatingDatabase(d, owner)
  PROVE  BaseInv'
  <1>1. RowInv /\ ServerInv /\ RequestInv /\ HistoryInv /\ QueueInv /\ JobInv /\ SecretInv
    BY DEF BaseInv
  <1>2. Accept("pg_ensure_database", d, NewID, owner) /\ Acceptable("pg_ensure_database", d, NewID, owner)
    BY DEF CreatingDatabase
  <1>3. /\ ops' \in Seq(OpStates) /\ Len(ops') = Len(ops) + 1 /\ Len(ops') <= MaxOps
        /\ Len(ops') >= Len(ops) /\ Len(ops') \in Nat
        /\ Len(ops) \in Nat /\ NewID = Len(ops) + 1
        /\ cut' = cut /\ faults' = faults /\ pgRole' = pgRole /\ pgDatabase' = pgDatabase
    BY <1>1, <1>2, AcceptedOps
  <1>4. QueueInv' /\ JobInv' /\ SecretInv'
    BY <1>1, <1>2, AcceptedWork
  <1>5. ServerInv' /\ HistoryInv'
    BY <1>1, <1>3 DEF ServerInv, HistoryInv, CreatingDatabase
  <1>6. RequestInv'
    BY <1>1, <1>3, RequestsWait DEF CreatingDatabase
  <1>7. RowInv'
    <2> DEFINE row == database'[d]
    <2>1. row \in {None} \cup DatabaseRows /\ database' = [database EXCEPT ![d] = row] /\ role' = role
          /\ row.id = NewID
      BY DEF CreatingDatabase
    <2>2. row.id <= Len(ops')
      BY <1>3, <2>1
    <2> HIDE DEF row
    <2> QED
      BY <1>1, <1>3, <2>1, <2>2, DatabaseWritten
  <1> QED
    BY <1>4, <1>5, <1>6, <1>7 DEF BaseInv

\* What a request to delete a database writes and queues.
DroppingDatabase(d) ==
  /\ database[d] # None /\ database'[d] = [database[d] EXCEPT !.status = "deleting"]
  /\ database' = [database EXCEPT ![d] = database'[d]]
  /\ Accept("pg_drop_database", d, database[d].id, None)
  /\ Acceptable("pg_drop_database", d, database[d].id, None)
  /\ role' = role /\ revived' = revived
  /\ \E q \in Requests : req' = [req EXCEPT ![q] = None]

LEMMA CommitDeleteDatabaseWrites ==
  ASSUME BaseInv, NEW q \in Requests, CommitDeleteDatabase(q)
  PROVE  req[q].name \in Databases /\ DroppingDatabase(req[q].name)
  <1> DEFINE d == req[q].name
  <1>1. req[q] # None /\ req[q].kind = "drop_database" /\ req' = [req EXCEPT ![q] = None]
        /\ database[d] # None /\ database[d].id = req[q].id
        /\ database' = [database EXCEPT ![d].status = "deleting"]
        /\ Accept("pg_drop_database", d, req[q].id, None) /\ role' = role /\ revived' = revived
    BY DEF CommitDeleteDatabase, Committing
  <1>2. d \in Databases
    BY <1>1 DEF BaseInv, RequestInv, SoundRequest
  <1> HIDE DEF d
  <1>3. Len(ops) \in Nat /\ NewID = Len(ops) + 1
    BY <1>1, AcceptedOps DEF BaseInv
  <1>4. database[d] \in DatabaseRows /\ database[d].id \in 1..Len(ops)
    BY <1>1, <1>2, DatabaseRowFields DEF BaseInv
  <1>5. database'[d] = [database[d] EXCEPT !.status = "deleting"] /\ database' = [database EXCEPT ![d] = database'[d]]
    BY <1>1, <1>2 DEF BaseInv, RowInv
  <1>6. Acceptable("pg_drop_database", d, database[d].id, None)
    BY <1>2, <1>3, <1>4 DEF Acceptable, RoleActions, DatabaseActions
  <1>7. DroppingDatabase(d)
    BY <1>1, <1>5, <1>6 DEF DroppingDatabase
  <1> QED
    BY <1>2, <1>7 DEF d

LEMMA DroppingDatabaseBase ==
  ASSUME BaseInv, NEW d \in Databases, DroppingDatabase(d)
  PROVE  BaseInv' /\ database'[d] \in DatabaseRows /\ database'[d].id = database[d].id
                  /\ database'[d].status = "deleting"
  <1>1. RowInv /\ ServerInv /\ RequestInv /\ HistoryInv /\ QueueInv /\ JobInv /\ SecretInv
    BY DEF BaseInv
  <1>2. /\ Accept("pg_drop_database", d, database[d].id, None)
        /\ Acceptable("pg_drop_database", d, database[d].id, None)
    BY DEF DroppingDatabase
  <1>3. /\ ops' \in Seq(OpStates) /\ Len(ops') = Len(ops) + 1 /\ Len(ops') <= MaxOps
        /\ Len(ops') >= Len(ops) /\ Len(ops') \in Nat
        /\ Len(ops) \in Nat /\ NewID = Len(ops) + 1
        /\ cut' = cut /\ faults' = faults /\ pgRole' = pgRole /\ pgDatabase' = pgDatabase
    BY <1>1, <1>2, AcceptedOps
  <1>4. QueueInv' /\ JobInv' /\ SecretInv'
    BY <1>1, <1>2, AcceptedWork
  <1>5. ServerInv' /\ HistoryInv'
    BY <1>1, <1>3 DEF ServerInv, HistoryInv, DroppingDatabase
  <1>6. RequestInv'
    BY <1>1, <1>3, RequestsWait DEF DroppingDatabase
  <1>7. database[d] \in DatabaseRows /\ database[d].id \in 1..Len(ops)
    BY <1>1, DatabaseRowFields DEF DroppingDatabase
  <1>8. database'[d] \in DatabaseRows /\ database'[d].id = database[d].id /\ database'[d].status = "deleting"
    BY <1>7 DEF DroppingDatabase, DatabaseRows, Statuses
  <1>9. RowInv'
    <2> DEFINE row == database'[d]
    <2>1. row \in {None} \cup DatabaseRows /\ database' = [database EXCEPT ![d] = row] /\ role' = role
      BY <1>8 DEF DroppingDatabase
    <2>2. row.id <= Len(ops')
      BY <1>3, <1>7, <1>8
    <2> HIDE DEF row
    <2> QED
      BY <1>1, <1>3, <2>1, <2>2, DatabaseWritten
  <1> QED
    BY <1>4, <1>5, <1>6, <1>8, <1>9 DEF BaseInv

-----------------------------------------------------------------------------
(* Requests that begin or are refused.                                     *)

LEMMA BeginBase ==
  ASSUME BaseInv, NEW q \in Requests, NEW a, a \in {None} \cup Reqs, a # None => SoundRequest(a),
         req' = [req EXCEPT ![q] = a], UNCHANGED <<rows, server, job, cut, revived, faults>>
  PROVE  BaseInv' /\ Live' = Live
  <1>1. UNCHANGED <<role, database, ops, queue, secrets, pgRole, pgDatabase, job, cut, revived, faults>>
    BY DEF rows, server
  <1>2. req' \in [Requests -> {None} \cup Reqs]
    BY DEF BaseInv, RequestInv
  <1>3. ASSUME NEW x \in Requests, req'[x] # None PROVE SoundRequest(req'[x])
    BY <1>3 DEF BaseInv, RequestInv
  <1>4. RequestInv'
    BY <1>1, <1>2, <1>3 DEF RequestInv, SoundRequest
  <1>5. RowInv' /\ ServerInv' /\ HistoryInv'
    BY <1>1 DEF BaseInv, RowInv, ServerInv, HistoryInv
  <1>6. QueueInv' /\ JobInv' /\ SecretInv'
    BY <1>1 DEF BaseInv, QueueInv, JobInv, SecretInv, Effect
  <1>7. Live' = Live
    BY <1>1 DEF Live
  <1> QED
    BY <1>4, <1>5, <1>6, <1>7 DEF BaseInv

LEMMA RequestsBase ==
  ASSUME BaseInv, NEW q \in Requests,
         \/ \E r \in Roles : BeginDeleteRole(q, r)
         \/ \E d \in Databases : BeginDeleteDatabase(q, d)
         \/ \E d \in Databases, r \in Roles \cup {None} : BeginCreateDatabase(q, d, r)
         \/ Refuse(q)
  PROVE  BaseInv' /\ Live' = Live /\ UNCHANGED <<rows, server, job, cut, revived, faults>>
  <1>0. MaxOps \in Nat /\ Len(ops) \in Nat /\ Len(ops) <= MaxOps
    BY ManagedAssumption DEF BaseInv, RowInv
  <1>1. ASSUME NEW r \in Roles, BeginDeleteRole(q, r) PROVE BaseInv' /\ Live' = Live
    <2> DEFINE a == [kind |-> "drop_role", name |-> r, id |-> role[r].id, owner |-> None]
    <2>1. role[r].id \in 1..Len(ops)
      BY <1>1, RoleRowFields DEF BeginDeleteRole, BaseInv
    <2>2. a \in Reqs /\ SoundRequest(a)
      BY <1>0, <2>1 DEF Reqs, Kinds, SoundRequest
    <2>3. req' = [req EXCEPT ![q] = a] /\ UNCHANGED <<rows, server, job, cut, revived, faults>>
      BY <1>1 DEF BeginDeleteRole, Begin
    <2> HIDE DEF a
    <2> QED
      BY <2>2, <2>3, BeginBase
  <1>2. ASSUME NEW d \in Databases, BeginDeleteDatabase(q, d) PROVE BaseInv' /\ Live' = Live
    <2> DEFINE a == [kind |-> "drop_database", name |-> d, id |-> database[d].id, owner |-> None]
    <2>1. database[d].id \in 1..Len(ops)
      BY <1>2, DatabaseRowFields DEF BeginDeleteDatabase, BaseInv
    <2>2. a \in Reqs /\ SoundRequest(a)
      BY <1>0, <2>1 DEF Reqs, Kinds, SoundRequest
    <2>3. req' = [req EXCEPT ![q] = a] /\ UNCHANGED <<rows, server, job, cut, revived, faults>>
      BY <1>2 DEF BeginDeleteDatabase, Begin
    <2> HIDE DEF a
    <2> QED
      BY <2>2, <2>3, BeginBase
  <1>3. ASSUME NEW d \in Databases, NEW owner \in Roles \cup {None}, BeginCreateDatabase(q, d, owner)
        PROVE  BaseInv' /\ Live' = Live
    <2> DEFINE id == IF owner = None THEN 0 ELSE role[owner].id
               a == [kind |-> "create_database", name |-> d, id |-> id, owner |-> owner]
    <2>1. id \in 0..MaxOps
      BY <1>0, <1>3, RoleRowFields DEF BeginCreateDatabase, BaseInv
    <2>2. a \in Reqs /\ SoundRequest(a)
      BY <1>0, <2>1 DEF Reqs, Kinds, SoundRequest
    <2>3. req' = [req EXCEPT ![q] = a] /\ UNCHANGED <<rows, server, job, cut, revived, faults>>
      BY <1>3 DEF BeginCreateDatabase, Begin
    <2> HIDE DEF a
    <2> QED
      BY <2>2, <2>3, BeginBase
  <1>4. ASSUME Refuse(q) PROVE BaseInv' /\ Live' = Live
    BY <1>4, BeginBase DEF Refuse
  <1>5. UNCHANGED <<rows, server, job, cut, revived, faults>>
    BY DEF BeginDeleteRole, BeginDeleteDatabase, BeginCreateDatabase, Refuse, Begin
  <1> QED
    BY <1>1, <1>2, <1>3, <1>4, <1>5

-----------------------------------------------------------------------------
(* The agent.                                                              *)

\* Parts that a step of the agent or of a handler leaves alone.
LEMMA Untouched ==
  ASSUME BaseInv
  PROVE  /\ UNCHANGED <<role, database, ops>> => RowInv'
         /\ UNCHANGED <<pgRole, pgDatabase>> => ServerInv'
         /\ UNCHANGED <<req, ops>> => RequestInv'
         /\ UNCHANGED <<cut, revived, faults>> => HistoryInv'
         /\ UNCHANGED <<revived>> /\ cut' \in BOOLEAN /\ Fault => HistoryInv'
         /\ UNCHANGED <<queue, ops>> => QueueInv'
  <1>1. UNCHANGED <<role, database, ops>> => RowInv'
    BY DEF BaseInv, RowInv
  <1>2. UNCHANGED <<pgRole, pgDatabase>> => ServerInv'
    BY DEF BaseInv, ServerInv
  <1>3. UNCHANGED <<req, ops>> => RequestInv'
    BY DEF BaseInv, RequestInv, SoundRequest
  <1>4. UNCHANGED <<cut, revived, faults>> => HistoryInv'
    BY DEF BaseInv, HistoryInv
  <1>5. ASSUME revived' = revived, cut' \in BOOLEAN, Fault PROVE HistoryInv'
    <2>1. faults' \in 0..MaxFaults
      BY <1>5, ManagedAssumption DEF BaseInv, HistoryInv, Fault
    <2>2. revived' \subseteq Roles
      BY <1>5 DEF BaseInv, HistoryInv
    <2> QED
      BY <1>5, <2>1, <2>2 DEF HistoryInv
  <1>6. UNCHANGED <<queue, ops>> => QueueInv'
    BY DEF BaseInv, QueueInv
  <1> QED
    BY <1>1, <1>2, <1>3, <1>4, <1>5, <1>6

LEMMA FetchBase ==
  ASSUME BaseInv, FetchCommand
  PROVE  BaseInv' /\ Live' = Live
  <1>1. /\ job.at = "idle" /\ queue # <<>>
        /\ job' = [at |-> "run", cmd |-> Head(queue), ok |-> FALSE]
        /\ UNCHANGED <<role, database, ops, queue, secrets, pgRole, pgDatabase, req, cut, revived, faults>>
    BY DEF FetchCommand, NextCommand, rows, server
  <1>2. RowInv' /\ ServerInv' /\ RequestInv' /\ HistoryInv' /\ QueueInv'
    BY <1>1, Untouched
  <1>3. queue \in Seq(Commands) /\ 1 \in DOMAIN queue /\ Head(queue) = queue[1]
    BY <1>1 DEF BaseInv, QueueInv
  <1>4. Sound(queue[1], Len(ops)) /\ queue[1] \in Commands
    BY <1>3 DEF BaseInv, QueueInv
  <1>5. job'.at = "run" /\ job'.cmd = queue[1] /\ job'.ok = FALSE
    BY <1>1, <1>3
  <1>6. JobInv'
    BY <1>1, <1>3, <1>4, <1>5 DEF JobInv, Phases
  <1>7. SecretInv'
    BY <1>1 DEF BaseInv, SecretInv
  <1>8. Live' = Live
    BY <1>1, <1>5 DEF Live
  <1> QED
    BY <1>2, <1>6, <1>7, <1>8 DEF BaseInv

\* The job moves on to report its outcome.
LEMMA ReportBase ==
  ASSUME BaseInv, job.at = "run", NEW ok \in BOOLEAN, job' = [job EXCEPT !.at = "report", !.ok = ok],
         ServerInv', HistoryInv', UNCHANGED <<rows, req, cut>>, ok => Effect(job.cmd)'
  PROVE  BaseInv' /\ Live' = Live
  <1>1. UNCHANGED <<role, database, ops, queue, secrets, req, cut>>
    BY DEF rows
  <1>2. RowInv' /\ RequestInv' /\ QueueInv'
    BY <1>1, Untouched
  <1>3. job \in [at : Phases, cmd : Commands \cup {None}, ok : BOOLEAN]
    BY DEF BaseInv, JobInv
  <1>4. job'.at = "report" /\ job'.cmd = job.cmd /\ job'.ok = ok
    BY <1>3
  <1>5. job' \in [at : Phases, cmd : Commands \cup {None}, ok : BOOLEAN]
    BY <1>3 DEF Phases
  <1>6. Sound(job.cmd, Len(ops)) /\ queue # <<>> /\ job.cmd = queue[1]
    BY DEF BaseInv, JobInv
  <1>8. JobInv'
    BY <1>1, <1>4, <1>5, <1>6 DEF JobInv
  <1>9. SecretInv'
    BY <1>1, <1>4 DEF BaseInv, SecretInv
  <1>10. Live' = Live
    BY <1>1, <1>4 DEF Live
  <1> QED
    BY <1>2, <1>8, <1>9, <1>10 DEF BaseInv

LEMMA ExecuteBase ==
  ASSUME BaseInv, Execute
  PROVE  BaseInv' /\ Live' = Live
  <1> DEFINE c == job.cmd
  <1>1. /\ job.at = "run" /\ Possible(c) /\ pgRole' = RolesAfter(c) /\ pgDatabase' = DatabasesAfter(c)
        /\ job' = [job EXCEPT !.at = "report", !.ok = TRUE]
        /\ UNCHANGED <<rows, req, cut, revived, faults>>
    BY DEF Execute
  <1>2. Sound(c, Len(ops)) /\ c \in Commands
    BY <1>1 DEF BaseInv, JobInv, Sound
  <1>3. c.op \in 0..MaxOps /\ c.action \in RoleActions \cup DatabaseActions /\ c.owner \in Roles \cup {None}
    BY <1>2, ManagedAssumption DEF Commands, OpIDs
  <1>4. /\ c.action \in RoleActions => c.name \in Roles
        /\ c.action \in DatabaseActions => c.name \in Databases
    BY <1>2 DEF Sound
  <1>5. job'.cmd = c
    BY <1>1 DEF BaseInv, JobInv
  <1> HIDE DEF c
  <1>6. ServerInv'
    <2>1. pgRole' \in [Roles -> {None} \cup 0..MaxOps]
      BY <1>1, <1>3 DEF BaseInv, ServerInv, RolesAfter
    <2>2. pgDatabase' \in [Databases -> {None, "admin"} \cup Roles]
      BY <1>1, <1>3 DEF BaseInv, ServerInv, DatabasesAfter
    <2> QED
      BY <2>1, <2>2 DEF ServerInv
  <1>7. c.action \in {"pg_ensure_role", "pg_rotate_role_password"} => pgRole'[c.name] = c.op
    BY <1>1, <1>4 DEF RolesAfter, BaseInv, ServerInv, RoleActions
  <1>8. DropsRole(c) => pgRole'[c.name] = None
    BY <1>1, <1>4 DEF RolesAfter, BaseInv, ServerInv, RoleActions, DropsRole
  <1>9. EnsuresDatabase(c) => pgDatabase'[c.name] # None
    <2> SUFFICES ASSUME EnsuresDatabase(c) PROVE pgDatabase'[c.name] # None
      OBVIOUS
    <2>1. c.name \in Databases /\ c.action = "pg_ensure_database"
      BY <1>4 DEF EnsuresDatabase, DatabaseActions
    <2>2. pgDatabase' = [pgDatabase EXCEPT ![c.name] = IF c.owner # None THEN c.owner
                             ELSE IF @ = None THEN "admin" ELSE @]
      BY <1>1, <2>1 DEF DatabasesAfter
    <2>3. None # "admin"
      BY ManagedAssumption
    <2> QED
      BY <2>1, <2>2, <2>3 DEF BaseInv, ServerInv
  <1>10. Grants(c) => pgDatabase'[c.name] # None
    BY <1>1 DEF Grants, DatabasesAfter, Possible, DatabasePossible, RoleActions
  <1>11. DropsDatabase(c) => pgDatabase'[c.name] = None
    BY <1>1, <1>4 DEF DropsDatabase, DatabasesAfter, BaseInv, ServerInv, DatabaseActions
  <1>12. Effect(job.cmd)'
    BY <1>5, <1>7, <1>8, <1>9, <1>10, <1>11 DEF Effect, EnsuresDatabase, Grants, DropsDatabase, DropsRole
  <1>13. HistoryInv'
    BY <1>1, Untouched
  <1> QED
    BY <1>1, <1>6, <1>12, <1>13, ReportBase

LEMMA RefusedBase ==
  ASSUME BaseInv, Refused
  PROVE  BaseInv' /\ Live' = Live
  <1>1. /\ job.at = "run" /\ job' = [job EXCEPT !.at = "report"]
        /\ UNCHANGED <<rows, server, req, cut, revived, faults>>
    BY DEF Refused
  <1>2. job' = [job EXCEPT !.at = "report", !.ok = FALSE]
    BY <1>1 DEF BaseInv, JobInv
  <1>3. ServerInv' /\ HistoryInv'
    BY <1>1, Untouched DEF server
  <1> QED
    BY <1>1, <1>2, <1>3, ReportBase

LEMMA ExecuteFailsBase ==
  ASSUME BaseInv, ExecuteFails
  PROVE  BaseInv' /\ Live' = Live
  <1>1. /\ job.at = "run" /\ job' = [job EXCEPT !.at = "report"] /\ Fault
        /\ UNCHANGED <<rows, pgDatabase, req, cut, revived>>
        /\ \/ pgRole' = pgRole
           \/ pgRole' = [pgRole EXCEPT ![job.cmd.name] = IF @ = None THEN 0 ELSE @]
    BY DEF ExecuteFails
  <1>2. job' = [job EXCEPT !.at = "report", !.ok = FALSE]
    BY <1>1 DEF BaseInv, JobInv
  <1>3. ServerInv'
    BY <1>1, ManagedAssumption DEF BaseInv, ServerInv
  <1>4. HistoryInv'
    BY <1>1, Untouched DEF BaseInv, HistoryInv
  <1> QED
    BY <1>1, <1>2, <1>3, <1>4, ReportBase

LEMMA LoseResultBase ==
  ASSUME BaseInv, LoseResult
  PROVE  BaseInv' /\ Live' = Live
  <1>1. /\ job.at = "report" /\ job' = NoJob /\ Fault
        /\ UNCHANGED <<role, database, ops, queue, secrets, pgRole, pgDatabase, req, cut, revived>>
    BY DEF LoseResult, rows, server
  <1>2. RowInv' /\ ServerInv' /\ RequestInv' /\ QueueInv'
    BY <1>1, Untouched
  <1>3. HistoryInv'
    BY <1>1, Untouched DEF BaseInv, HistoryInv
  <1>4. job'.at = "idle"
    BY <1>1 DEF NoJob
  <1>5. JobInv'
    BY <1>1, <1>4 DEF JobInv, NoJob, Phases
  <1>6. job.cmd = queue[1] /\ 1 \in DOMAIN queue
    BY <1>1 DEF BaseInv, JobInv, QueueInv
  <1>7. SecretInv'
    BY <1>1, <1>4, <1>6 DEF BaseInv, SecretInv
  <1>8. Live' = Live
    BY <1>1, <1>4 DEF Live
  <1> QED
    BY <1>2, <1>3, <1>5, <1>7, <1>8 DEF BaseInv

-----------------------------------------------------------------------------
(* The handler of results.                                                 *)

\* The result that is stored takes the oldest command from the queue.
LEMMA StoredQueue ==
  ASSUME BaseInv, UpdateResult
  PROVE  /\ queue' \in Seq(Commands) /\ Len(queue) \in Nat /\ Len(queue) >= 1
         /\ Len(queue') = Len(queue) - 1
         /\ \A k \in 1..(Len(queue) - 1) : queue'[k] = queue[k + 1]
         /\ job.cmd = queue[1]
  <1>1. /\ queue \in Seq(Commands) /\ queue # <<>> /\ job.cmd = queue[1] /\ Len(queue) \in Nat
        /\ Len(queue) >= 1 /\ DOMAIN queue = 1..Len(queue)
    <2>1. queue \in Seq(Commands) /\ queue # <<>> /\ job.cmd = queue[1]
      BY DEF BaseInv, QueueInv, JobInv, UpdateResult
    <2> QED
      BY <2>1
  <1>2. PICK i \in DOMAIN queue : /\ queue[i] = job.cmd
                                  /\ queue' = SubSeq(queue, 1, i - 1) \o SubSeq(queue, i + 1, Len(queue))
    BY DEF UpdateResult
  <1>3. i = 1
    <2> SUFFICES ASSUME i # 1 PROVE FALSE
      OBVIOUS
    <2>1. 1 < i /\ 1 \in DOMAIN queue
      BY <1>1
    <2>2. Before(queue[1], queue[i])
      BY <2>1 DEF BaseInv, QueueInv
    <2> QED
      BY <1>1, <1>2, <2>2 DEF Before
  <1>4. queue' = SubSeq(queue, 1, 0) \o SubSeq(queue, 2, Len(queue))
    BY <1>2, <1>3
  <1>5. SubSeq(queue, 1, 0) = <<>>
    BY <1>1
  <1>6. /\ SubSeq(queue, 2, Len(queue)) \in Seq(Commands)
        /\ Len(SubSeq(queue, 2, Len(queue))) = Len(queue) - 1
        /\ \A k \in 1..(Len(queue) - 1) : SubSeq(queue, 2, Len(queue))[k] = queue[k + 1]
    BY <1>1
  <1> QED
    BY <1>1, <1>4, <1>5, <1>6

LEMMA UpdateResultBase ==
  ASSUME BaseInv, UpdateResult
  PROVE  BaseInv' /\ Live' = Live
  <1>1. /\ job.at = "report" /\ job' = [job EXCEPT !.at = "handle"]
        /\ UNCHANGED <<role, database, ops, secrets, pgRole, pgDatabase, req, cut, revived, faults>>
    BY DEF UpdateResult, server
  <1>2. /\ queue' \in Seq(Commands) /\ Len(queue) \in Nat /\ Len(queue) >= 1
        /\ Len(queue') = Len(queue) - 1 /\ job.cmd = queue[1]
        /\ \A k \in 1..(Len(queue) - 1) : queue'[k] = queue[k + 1]
        /\ DOMAIN queue = 1..Len(queue) /\ DOMAIN queue' = 1..(Len(queue) - 1)
    BY StoredQueue DEF BaseInv, QueueInv
  <1>3. job'.at = "handle" /\ job'.cmd = job.cmd /\ job'.ok = job.ok
        /\ job' \in [at : Phases, cmd : Commands \cup {None}, ok : BOOLEAN]
    BY <1>1 DEF BaseInv, JobInv, Phases
  <1>4. RowInv' /\ ServerInv' /\ RequestInv' /\ HistoryInv'
    BY <1>1, Untouched
  <1>5. QueueInv'
    <2>1. ASSUME NEW i \in DOMAIN queue' PROVE i + 1 \in DOMAIN queue /\ queue'[i] = queue[i + 1]
      BY <1>2
    <2>2. ASSUME NEW i \in DOMAIN queue' PROVE Sound(queue'[i], Len(ops'))
      BY <1>1, <2>1 DEF BaseInv, QueueInv
    <2>3. ASSUME NEW i \in DOMAIN queue', NEW j \in DOMAIN queue', i < j PROVE Before(queue'[i], queue'[j])
      <3>1. i + 1 < j + 1
        BY <1>2, <2>3
      <3> QED
        BY <2>1, <3>1 DEF BaseInv, QueueInv
    <2> QED
      BY <1>2, <2>2, <2>3 DEF QueueInv
  <1>6. \A i \in DOMAIN queue' : Before(job.cmd, queue'[i])
    <2> SUFFICES ASSUME NEW i \in DOMAIN queue' PROVE Before(job.cmd, queue'[i])
      OBVIOUS
    <2>1. i + 1 \in DOMAIN queue /\ 1 \in DOMAIN queue /\ 1 < i + 1 /\ queue'[i] = queue[i + 1]
      BY <1>2
    <2> QED
      BY <1>2, <2>1 DEF BaseInv, QueueInv
  <1>7. JobInv'
    BY <1>1, <1>3, <1>6 DEF BaseInv, JobInv, Effect
  <1>8. \A c : (\E i \in DOMAIN queue : queue[i] = c) <=> (c = job.cmd \/ \E i \in DOMAIN queue' : queue'[i] = c)
    <2> SUFFICES ASSUME NEW c
                 PROVE  (\E i \in DOMAIN queue : queue[i] = c) <=> (c = job.cmd \/ \E i \in DOMAIN queue' : queue'[i] = c)
      OBVIOUS
    <2>1. ASSUME NEW i \in DOMAIN queue, queue[i] = c, c # job.cmd PROVE \E k \in DOMAIN queue' : queue'[k] = c
      <3>1. i # 1 /\ i - 1 \in DOMAIN queue'
        BY <1>2, <2>1
      <3> QED
        BY <1>2, <2>1, <3>1
    <2>2. ASSUME NEW i \in DOMAIN queue', queue'[i] = c PROVE \E k \in DOMAIN queue : queue[k] = c
      <3>1. i + 1 \in DOMAIN queue
        BY <1>2
      <3> QED
        BY <1>2, <2>2, <3>1
    <2>3. 1 \in DOMAIN queue
      BY <1>2
    <2> QED
      BY <1>2, <2>1, <2>2, <2>3
  <1>9. SecretInv'
    <2>1. \A i \in DOMAIN queue' : queue'[i] \in secrets
      BY <1>8 DEF BaseInv, SecretInv
    <2> QED
      BY <1>1, <1>3, <1>8, <2>1 DEF BaseInv, SecretInv
  <1>10. Live' = Live
    <2>1. \A c : c \in Live <=> \E i \in DOMAIN queue : queue[i] = c
      BY <1>1 DEF Live
    <2>2. \A c : c \in Live' <=> (c = job.cmd \/ \E i \in DOMAIN queue' : queue'[i] = c)
      BY <1>3 DEF Live
    <2>3. \A c : c \in Live <=> c \in Live'
      BY <1>8, <2>1, <2>2
    <2> QED
      BY <2>3
  <1> QED
    BY <1>4, <1>5, <1>7, <1>9, <1>10 DEF BaseInv

\* The status of an operation changes and none is added.
LEMMA EndedOps ==
  ASSUME BaseInv, NEW o, NEW s \in OpStates, ops' = [ops EXCEPT ![o] = s]
  PROVE  ops' \in Seq(OpStates) /\ Len(ops') = Len(ops) /\ Len(ops) \in Nat /\ Len(ops') <= MaxOps
  <1>1. ops \in Seq(OpStates) /\ Len(ops) \in Nat /\ Len(ops) <= MaxOps
    BY DEF BaseInv, RowInv
  <1>0. ops \in [1..Len(ops) -> OpStates]
    BY <1>1
  <1>2. ops' \in [1..Len(ops) -> OpStates] /\ DOMAIN ops' = 1..Len(ops)
    BY <1>0
  <1>3. ops' \in Seq(OpStates) /\ Len(ops') = Len(ops)
    BY <1>1, <1>2
  <1> QED
    BY <1>1, <1>3

\* What is left of a command when its handler has applied or abandoned it: the
\* job goes on to delete the secrets.
LEMMA AppliedWork ==
  ASSUME BaseInv, job.at \in {"handle", "grant"}, job' = [job EXCEPT !.at = "secrets"],
         queue' = queue, Len(ops') = Len(ops),
         cut' = TRUE \/ cut' = cut, secrets' = secrets \/ secrets' = secrets \ {job.cmd}
  PROVE  QueueInv' /\ JobInv' /\ SecretInv' /\ Live' = Live \ {job.cmd}
  <1>1. job'.at = "secrets" /\ job'.cmd = job.cmd
        /\ job' \in [at : Phases, cmd : Commands \cup {None}, ok : BOOLEAN]
    BY DEF BaseInv, JobInv, Phases
  <1>2. \A i \in DOMAIN queue : queue[i] # job.cmd
    BY DEF BaseInv, JobInv, Before
  <1>3. QueueInv'
    BY DEF BaseInv, QueueInv
  <1>4. JobInv'
    BY <1>1, <1>2 DEF BaseInv, JobInv
  <1>5. SecretInv'
    BY <1>1, <1>2 DEF BaseInv, SecretInv
  <1>6. Live' = Live \ {job.cmd}
    BY <1>1, <1>2 DEF Live
  <1> QED
    BY <1>3, <1>4, <1>5, <1>6

\* The row of a role after a result.
RoleAfter(r) ==
  IF ~(role[r] # None /\ role[r].id = job.cmd.id) THEN role[r]
  ELSE IF job.ok /\ DropsRole(job.cmd) THEN None
  ELSE [role[r] EXCEPT !.status = IF job.ok THEN "ready" ELSE "failed"]

LEMMA RoleAfterType ==
  ASSUME BaseInv, NEW r \in Roles
  PROVE  /\ RoleAfter(r) \in {None} \cup RoleRows
         /\ RoleAfter(r) # None => /\ role[r] # None /\ RoleAfter(r).id = role[r].id
                                   /\ RoleAfter(r).password = role[r].password
  <1>1. CASE role[r] = None
    BY <1>1 DEF RoleAfter
  <1>2. CASE role[r] # None
    <2>1. role[r] \in RoleRows
      BY <1>2 DEF BaseInv, RowInv
    <2> QED
      BY <1>2, <2>1 DEF RoleAfter, RoleRows, Statuses
  <1> QED
    BY <1>1, <1>2

\* A drop that succeeded clears, where foreign keys are enforced, the owner of
\* databases; their other columns stay.
SameDatabases ==
  /\ database' \in [Databases -> {None} \cup DatabaseRows]
  /\ \A d \in Databases : /\ database'[d] = None <=> database[d] = None
                          /\ database[d] # None => /\ database'[d].id = database[d].id
                                                   /\ database'[d].status = database[d].status

LEMMA HandleRoleBase ==
  ASSUME BaseInv, HandleRoleResult
  PROVE  /\ BaseInv' /\ Live' = Live \ {job.cmd} /\ SameDatabases
         /\ job.cmd.name \in Roles /\ role' = [role EXCEPT ![job.cmd.name] = RoleAfter(job.cmd.name)]
  <1> DEFINE r == job.cmd.name
  <1>1. /\ job.at = "handle" /\ job.cmd.action \in RoleActions /\ EndOperation
        /\ secrets' = secrets \ {job.cmd} /\ job' = [job EXCEPT !.at = "secrets"]
        /\ UNCHANGED <<queue, pgRole, pgDatabase, req, cut, revived, faults>>
    BY DEF HandleRoleResult, server
  <1>2. r \in Roles
    BY <1>1 DEF BaseInv, JobInv, Sound
  <1>3. role' = [role EXCEPT ![r] = RoleAfter(r)]
    BY DEF HandleRoleResult, RoleAfter, DropsRole
  <1>4. SameDatabases
    <2>1. PICK enforced \in ForeignKeys :
            database' = [d \in Databases |->
                            IF /\ enforced /\ job.ok /\ job.cmd.action = "pg_drop_role" /\ database[d] # None
                               /\ database[d].owner = job.cmd.id
                              THEN [database[d] EXCEPT !.owner = 0] ELSE database[d]]
      BY DEF HandleRoleResult
    <2>2. ASSUME NEW d \in Databases
          PROVE  /\ database'[d] \in {None} \cup DatabaseRows
                 /\ database'[d] = None <=> database[d] = None
                 /\ database[d] # None => /\ database'[d].id = database[d].id
                                          /\ database'[d].status = database[d].status
      <3>1. CASE database'[d] = database[d]
        BY <3>1 DEF BaseInv, RowInv
      <3>2. CASE database[d] # None /\ database'[d] = [database[d] EXCEPT !.owner = 0]
        <4>1. database[d] \in DatabaseRows /\ None \notin DatabaseRows /\ 0 \in 0..MaxOps
          BY <3>2, ManagedAssumption DEF BaseInv, RowInv
        <4>2. database'[d] \in DatabaseRows /\ database'[d].id = database[d].id
              /\ database'[d].status = database[d].status
          BY <3>2, <4>1 DEF DatabaseRows
        <4> QED
          BY <3>2, <4>1, <4>2
      <3> QED
        BY <2>1, <3>1, <3>2
    <2>3. database' \in [Databases -> {None} \cup DatabaseRows]
      <3>1. database' = [d \in Databases |-> database'[d]]
        BY <2>1
      <3> QED
        BY <2>2, <3>1
    <2> QED
      BY <2>2, <2>3 DEF SameDatabases
  <1>5. ops' \in Seq(OpStates) /\ Len(ops') = Len(ops) /\ Len(ops) \in Nat /\ Len(ops') <= MaxOps
    <2>1. (IF job.ok THEN "succeeded" ELSE "failed") \in OpStates
      BY DEF OpStates
    <2> QED
      BY <1>1, <2>1, EndedOps DEF EndOperation
  <1>6. QueueInv' /\ JobInv' /\ SecretInv' /\ Live' = Live \ {job.cmd}
    BY <1>1, <1>5, AppliedWork
  <1>7. ServerInv' /\ HistoryInv'
    BY <1>1, Untouched
  <1>8. RequestInv'
    BY <1>1, <1>5, RequestsWait DEF BaseInv
  <1> HIDE DEF r
  <1>9. RowInv'
    <2>1. role' \in [Roles -> {None} \cup RoleRows]
      BY <1>2, <1>3, RoleAfterType DEF BaseInv, RowInv
    <2>2. ASSUME NEW x \in Roles, role'[x] # None
          PROVE  role'[x].id <= Len(ops') /\ role'[x].password <= Len(ops')
      <3>1. role[x] # None /\ role'[x].id = role[x].id /\ role'[x].password = role[x].password
        BY <1>2, <1>3, <2>2, RoleAfterType DEF BaseInv, RowInv
      <3> QED
        BY <1>5, <3>1 DEF BaseInv, RowInv
    <2>3. ASSUME NEW d \in Databases, database'[d] # None PROVE database'[d].id <= Len(ops')
      BY <1>4, <1>5, <2>3 DEF SameDatabases, BaseInv, RowInv
    <2> QED
      BY <1>4, <1>5, <2>1, <2>2, <2>3 DEF RowInv, SameDatabases
  <1> QED
    BY <1>2, <1>3, <1>4, <1>6, <1>7, <1>8, <1>9 DEF BaseInv, r

\* The row of a database after a result that makes its status s.
DatabaseAfter(d, s) ==
  IF ~(database[d] # None /\ database[d].id = job.cmd.id) THEN database[d]
  ELSE IF s = "deleted" THEN None ELSE [database[d] EXCEPT !.status = s]

Outcomes == {"failed", "deleted", "ready"}

LEMMA DatabaseAfterType ==
  ASSUME BaseInv, NEW d \in Databases, NEW s \in Outcomes
  PROVE  /\ DatabaseAfter(d, s) \in {None} \cup DatabaseRows
         /\ DatabaseAfter(d, s) # None => database[d] # None /\ DatabaseAfter(d, s).id = database[d].id
  <1>1. CASE database[d] = None
    BY <1>1 DEF DatabaseAfter
  <1>2. CASE database[d] # None
    <2>1. database[d] \in DatabaseRows
      BY <1>2 DEF BaseInv, RowInv
    <2> QED
      BY <1>2, <2>1 DEF DatabaseAfter, DatabaseRows, Statuses, Outcomes
  <1> QED
    BY <1>1, <1>2

\* The result of a database's command is applied to its row.
DatabaseApplied(s) ==
  /\ job.at \in {"handle", "grant"} /\ job.cmd.action \in DatabaseActions
  /\ database' = [database EXCEPT ![job.cmd.name] = DatabaseAfter(job.cmd.name, s)]
  /\ job' = [job EXCEPT !.at = "secrets"]
  /\ \E o \in OpStates : ops' = [ops EXCEPT ![job.cmd.op] = o]
  /\ UNCHANGED <<role, queue, secrets, pgRole, pgDatabase, req, cut, revived>>

LEMMA DatabaseAppliedBase ==
  ASSUME BaseInv, NEW s \in Outcomes, DatabaseApplied(s), HistoryInv'
  PROVE  BaseInv' /\ Live' = Live \ {job.cmd} /\ job.cmd.name \in Databases
  <1> DEFINE d == job.cmd.name
  <1>1. /\ job.at \in {"handle", "grant"} /\ job.cmd.action \in DatabaseActions
        /\ database' = [database EXCEPT ![d] = DatabaseAfter(d, s)]
        /\ job' = [job EXCEPT !.at = "secrets"]
        /\ UNCHANGED <<role, queue, secrets, pgRole, pgDatabase, req, cut, revived>>
    BY DEF DatabaseApplied
  <1>2. d \in Databases
    BY <1>1 DEF BaseInv, JobInv, Sound
  <1>3. ops' \in Seq(OpStates) /\ Len(ops') = Len(ops) /\ Len(ops) \in Nat /\ Len(ops') <= MaxOps
    BY EndedOps DEF DatabaseApplied
  <1>4. QueueInv' /\ JobInv' /\ SecretInv' /\ Live' = Live \ {job.cmd}
    BY <1>1, <1>3, AppliedWork
  <1>5. ServerInv'
    BY <1>1, Untouched
  <1>6. RequestInv'
    BY <1>1, <1>3, RequestsWait DEF BaseInv
  <1> HIDE DEF d
  <1>7. RowInv'
    <2>1. database' \in [Databases -> {None} \cup DatabaseRows]
      BY <1>1, <1>2, DatabaseAfterType DEF BaseInv, RowInv
    <2>2. ASSUME NEW x \in Databases, database'[x] # None PROVE database'[x].id <= Len(ops')
      <3>1. database[x] # None /\ database'[x].id = database[x].id
        BY <1>1, <1>2, <2>2, DatabaseAfterType DEF BaseInv, RowInv
      <3> QED
        BY <1>3, <3>1 DEF BaseInv, RowInv
    <2>3. ASSUME NEW r \in Roles, role'[r] # None
          PROVE  role'[r].id <= Len(ops') /\ role'[r].password <= Len(ops')
      BY <1>1, <1>3, <2>3 DEF BaseInv, RowInv
    <2>4. role' \in [Roles -> {None} \cup RoleRows]
      BY <1>1 DEF BaseInv, RowInv
    <2> QED
      BY <1>3, <2>1, <2>2, <2>3, <2>4 DEF RowInv
  <1> QED
    BY <1>2, <1>4, <1>5, <1>6, <1>7 DEF BaseInv, d

LEMMA MarkDatabaseIs ==
  ASSUME NEW s, MarkDatabase(s)
  PROVE  database' = [database EXCEPT ![job.cmd.name] = DatabaseAfter(job.cmd.name, s)]
  BY DEF MarkDatabase, DatabaseAfter

\* The outcome of a database's command.
Outcome == IF ~job.ok THEN "failed" ELSE IF DropsDatabase(job.cmd) THEN "deleted" ELSE "ready"

\* The creation of a database with an owner waits for its grants.
WaitsForGrant ==
  /\ job.at = "handle" /\ job.ok /\ EnsuresDatabase(job.cmd) /\ job.cmd.owner # None
  /\ job' = [job EXCEPT !.at = "grant"]
  /\ UNCHANGED <<rows, server, req, cut, revived, faults>>

LEMMA HandleDatabaseCases ==
  ASSUME BaseInv, HandleDatabaseResult
  PROVE  \/ WaitsForGrant
         \/ DatabaseApplied(Outcome) /\ Outcome \in Outcomes /\ job.at = "handle" /\ HistoryInv'
  <1>1. CASE job.ok /\ job.cmd.action = "pg_ensure_database" /\ job.cmd.owner # None
    BY <1>1 DEF HandleDatabaseResult, WaitsForGrant, EnsuresDatabase, rows
  <1>2. CASE ~(job.ok /\ job.cmd.action = "pg_ensure_database" /\ job.cmd.owner # None)
    <2> DEFINE s == CASE ~job.ok -> "failed"
                      [] job.ok /\ job.cmd.action = "pg_drop_database" -> "deleted"
                      [] OTHER -> "ready"
    <2>1. /\ job.at = "handle" /\ job.cmd.action \in DatabaseActions
          /\ MarkDatabase(s) /\ EndOperation /\ job' = [job EXCEPT !.at = "secrets"]
          /\ UNCHANGED <<role, queue, secrets, pgRole, pgDatabase, req, cut, revived, faults>>
      BY <1>2 DEF HandleDatabaseResult, server
    <2>2. s = Outcome /\ Outcome \in Outcomes
      BY DEF Outcome, DropsDatabase, Outcomes, BaseInv, JobInv
    <2> HIDE DEF s
    <2>3. database' = [database EXCEPT ![job.cmd.name] = DatabaseAfter(job.cmd.name, Outcome)]
      BY <2>1, <2>2, MarkDatabaseIs
    <2>4. \E o \in OpStates : ops' = [ops EXCEPT ![job.cmd.op] = o]
      <3>1. (IF job.ok THEN "succeeded" ELSE "failed") \in OpStates
        BY DEF OpStates
      <3> QED
        BY <2>1, <3>1 DEF EndOperation
    <2>5. HistoryInv'
      BY <2>1, Untouched
    <2> QED
      BY <2>1, <2>2, <2>3, <2>4, <2>5 DEF DatabaseApplied
  <1> QED
    BY <1>1, <1>2

LEMMA WaitsForGrantBase ==
  ASSUME BaseInv, WaitsForGrant
  PROVE  BaseInv' /\ Live' = Live
  <1>1. /\ job.at = "handle" /\ EnsuresDatabase(job.cmd) /\ job.cmd.owner # None
        /\ job' = [job EXCEPT !.at = "grant"]
        /\ UNCHANGED <<role, database, ops, queue, secrets, pgRole, pgDatabase, req, cut, revived, faults>>
    BY DEF WaitsForGrant, rows, server
  <1>2. RowInv' /\ ServerInv' /\ RequestInv' /\ HistoryInv' /\ QueueInv'
    BY <1>1, Untouched
  <1>3. job'.at = "grant" /\ job'.cmd = job.cmd
        /\ job' \in [at : Phases, cmd : Commands \cup {None}, ok : BOOLEAN]
    BY <1>1 DEF BaseInv, JobInv, Phases
  <1>4. JobInv'
    BY <1>1, <1>3 DEF BaseInv, JobInv
  <1>5. SecretInv'
    BY <1>1, <1>3 DEF BaseInv, SecretInv
  <1>6. Live' = Live
    BY <1>1, <1>3 DEF Live
  <1> QED
    BY <1>2, <1>4, <1>5, <1>6 DEF BaseInv

LEMMA MarkCreateFailedIs ==
  ASSUME BaseInv, MarkCreateFailed
  PROVE  DatabaseApplied("failed") /\ "failed" \in Outcomes /\ HistoryInv'
  <1>1. /\ job.at = "grant" /\ MarkDatabase("failed") /\ Fault
        /\ ops' = [ops EXCEPT ![job.cmd.op] = "failed"] /\ job' = [job EXCEPT !.at = "secrets"]
        /\ UNCHANGED <<role, queue, secrets, pgRole, pgDatabase, req, cut, revived>>
    BY DEF MarkCreateFailed, server
  <1>2. job.cmd.action \in DatabaseActions
    BY <1>1 DEF BaseInv, JobInv, EnsuresDatabase, DatabaseActions
  <1>3. database' = [database EXCEPT ![job.cmd.name] = DatabaseAfter(job.cmd.name, "failed")]
    BY <1>1, MarkDatabaseIs
  <1>4. HistoryInv'
    BY <1>1, Untouched DEF BaseInv, HistoryInv
  <1> QED
    BY <1>1, <1>2, <1>3, <1>4 DEF DatabaseApplied, Outcomes, OpStates

\* The grant's command.
GrantCommand == [job.cmd EXCEPT !.action = "pg_grant_database_privileges"]

LEMMA GrantSound ==
  ASSUME BaseInv, job.at = "grant"
  PROVE  /\ Sound(GrantCommand, Len(ops)) /\ GrantCommand \in Commands /\ Grants(GrantCommand)
         /\ GrantCommand.op = job.cmd.op /\ GrantCommand.name = job.cmd.name
         /\ GrantCommand # job.cmd
  <1>1. Sound(job.cmd, Len(ops)) /\ EnsuresDatabase(job.cmd) /\ job.cmd.owner # None /\ job.cmd \in Commands
    BY DEF BaseInv, JobInv, Sound
  <1>2. /\ GrantCommand.op = job.cmd.op /\ GrantCommand.name = job.cmd.name /\ GrantCommand.id = job.cmd.id
        /\ GrantCommand.owner = job.cmd.owner /\ GrantCommand.action = "pg_grant_database_privileges"
        /\ GrantCommand \in Commands
    BY <1>1 DEF GrantCommand, Commands, DatabaseActions
  <1> QED
    BY <1>1, <1>2 DEF Sound, EnsuresDatabase, Grants, DropsDatabase, DropsRole, DatabaseActions, RoleActions

LEMMA QueueGrantBase ==
  ASSUME BaseInv, GrantInv, QueueGrantCommand
  PROVE  BaseInv' /\ Live' = (Live \ {job.cmd}) \cup {GrantCommand}
  <1>1. /\ job.at = "grant" /\ queue' = Append(queue, GrantCommand)
        /\ secrets' = secrets \cup {GrantCommand} /\ job' = [job EXCEPT !.at = "secrets"]
        /\ UNCHANGED <<role, database, ops, pgRole, pgDatabase, req, cut, revived, faults>>
    BY DEF QueueGrantCommand, GrantCommand, server
  <1>2. /\ Sound(GrantCommand, Len(ops)) /\ GrantCommand \in Commands /\ Grants(GrantCommand)
        /\ GrantCommand.op = job.cmd.op /\ GrantCommand # job.cmd
    BY <1>1, GrantSound
  <1>3. RowInv' /\ ServerInv' /\ RequestInv' /\ HistoryInv'
    BY <1>1, Untouched
  <1>4. job'.at = "secrets" /\ job'.cmd = job.cmd
        /\ job' \in [at : Phases, cmd : Commands \cup {None}, ok : BOOLEAN]
    BY <1>1 DEF BaseInv, JobInv, Phases
  <1>5. \A i \in DOMAIN queue : queue[i] # GrantCommand /\ queue[i] # job.cmd
    <2>1. job.cmd \in Live /\ EnsuresDatabase(job.cmd) /\ \A i \in DOMAIN queue : queue[i] \in Live
      BY <1>1 DEF Live, BaseInv, JobInv
    <2> QED
      BY <1>1, <1>2, <2>1 DEF GrantInv, BaseInv, JobInv, Before
  <1>6. /\ queue \in Seq(Commands) /\ queue' \in Seq(Commands) /\ Len(queue) \in Nat
        /\ Len(queue') = Len(queue) + 1 /\ queue'[Len(queue) + 1] = GrantCommand
        /\ \A i \in 1..Len(queue) : queue'[i] = queue[i]
        /\ DOMAIN queue = 1..Len(queue) /\ DOMAIN queue' = 1..(Len(queue) + 1)
    BY <1>1, <1>2 DEF BaseInv, QueueInv
  <1>7. QueueInv'
    <2>1. ASSUME NEW i \in DOMAIN queue' PROVE Sound(queue'[i], Len(ops'))
      BY <1>1, <1>2, <1>6 DEF BaseInv, QueueInv
    <2>2. ASSUME NEW i \in DOMAIN queue', NEW j \in DOMAIN queue', i < j
          PROVE  Before(queue'[i], queue'[j])
      <3>1. CASE j <= Len(queue)
        BY <1>6, <2>2, <3>1 DEF BaseInv, QueueInv
      <3>2. CASE j = Len(queue) + 1
        <4>1. i \in DOMAIN queue /\ queue'[i] = queue[i] /\ queue'[j] = GrantCommand
          BY <1>6, <2>2, <3>2
        <4> QED
          BY <1>2, <1>5, <4>1 DEF Before, Ordinary
      <3> QED
        BY <1>6, <3>1, <3>2
    <2> QED
      BY <1>6, <2>1, <2>2 DEF QueueInv
  <1>8. JobInv'
    <2>1. \A i \in DOMAIN queue' : queue'[i] # job.cmd
      BY <1>2, <1>5, <1>6
    <2> QED
      BY <1>1, <1>4, <2>1 DEF BaseInv, JobInv
  <1>9. SecretInv'
    BY <1>1, <1>2, <1>4, <1>6 DEF BaseInv, SecretInv
  <1>10. Live' = (Live \ {job.cmd}) \cup {GrantCommand}
    <2>1. Live' = {queue[i] : i \in DOMAIN queue} \cup {GrantCommand}
      BY <1>4, <1>6 DEF Live
    <2>2. Live \ {job.cmd} = {queue[i] : i \in DOMAIN queue}
      BY <1>1, <1>5 DEF Live
    <2> QED
      BY <2>1, <2>2
  <1> QED
    BY <1>3, <1>7, <1>8, <1>9, <1>10 DEF BaseInv

LEMMA DeleteSecretsBase ==
  ASSUME BaseInv, DeleteSecrets
  PROVE  BaseInv' /\ Live' = Live
  <1>1. /\ job.at = "secrets" /\ secrets' = secrets \ {job.cmd} /\ job' = NoJob
        /\ UNCHANGED <<role, database, ops, queue, pgRole, pgDatabase, req, cut, revived, faults>>
    BY DEF DeleteSecrets, server
  <1>2. RowInv' /\ ServerInv' /\ RequestInv' /\ HistoryInv' /\ QueueInv'
    BY <1>1, Untouched
  <1>3. job'.at = "idle"
    BY <1>1 DEF NoJob
  <1>4. JobInv'
    BY <1>1, <1>3 DEF JobInv, NoJob, Phases
  <1>5. SecretInv'
    BY <1>1 DEF BaseInv, SecretInv, JobInv
  <1>6. Live' = Live
    BY <1>1, <1>3 DEF Live
  <1> QED
    BY <1>2, <1>4, <1>5, <1>6 DEF BaseInv

LEMMA CutHandlerBase ==
  ASSUME BaseInv, CutHandler
  PROVE  BaseInv' /\ Live' = (IF job.at = "secrets" THEN Live ELSE Live \ {job.cmd})
  <1>1. /\ job.at \in {"handle", "grant", "secrets"} /\ cut' = TRUE /\ Fault
        /\ (job.at # "secrets" /\ job' = [job EXCEPT !.at = "secrets"]) \/ job' = NoJob
        /\ UNCHANGED <<role, database, ops, queue, secrets, pgRole, pgDatabase, req, revived>>
    BY DEF CutHandler, rows, server
  <1>2. RowInv' /\ ServerInv' /\ RequestInv' /\ HistoryInv' /\ QueueInv'
    BY <1>1, Untouched
  <1>3. CASE job.at # "secrets" /\ job' = [job EXCEPT !.at = "secrets"]
    <2>1. job.at \in {"handle", "grant"} /\ queue' = queue /\ Len(ops') = Len(ops) /\ secrets' = secrets
      BY <1>1, <1>3
    <2>2. JobInv' /\ SecretInv' /\ Live' = Live \ {job.cmd}
      BY <1>1, <1>3, <2>1, AppliedWork
    <2> QED
      BY <1>2, <1>3, <2>2 DEF BaseInv
  <1>4. CASE job' = NoJob
    <2>1. job'.at = "idle"
      BY <1>4 DEF NoJob
    <2>2. JobInv'
      BY <1>4, <2>1 DEF JobInv, NoJob, Phases
    <2>3. SecretInv'
      BY <1>1 DEF BaseInv, SecretInv
    <2>4. \A i \in DOMAIN queue : queue[i] # job.cmd
      BY <1>1 DEF BaseInv, JobInv, Before
    <2>5. Live' = (IF job.at = "secrets" THEN Live ELSE Live \ {job.cmd})
      BY <1>1, <2>1, <2>4 DEF Live
    <2> QED
      BY <1>2, <2>2, <2>3, <2>5 DEF BaseInv
  <1> QED
    BY <1>1, <1>3, <1>4

-----------------------------------------------------------------------------
(* Grants follow creations.                                                *)

LEMMA GrantsKept ==
  ASSUME GrantInv, Live' \subseteq Live
  PROVE  GrantInv'
  BY DEF GrantInv, Grants, EnsuresDatabase

LEMMA GrantsAccepted ==
  ASSUME BaseInv, GrantInv, NEW action, NEW name, NEW id, NEW owner,
         Accept(action, name, id, owner), Acceptable(action, name, id, owner)
  PROVE  GrantInv'
  <1> DEFINE new == NewCommand(action, name, id, owner)
  <1>1. Live' = Live \cup {new}
    BY AcceptedWork DEF BaseInv
  <1>2. new.op = Len(ops) + 1 /\ ~Grants(new) /\ Len(ops) \in Nat
    BY AcceptedOps DEF NewCommand, Grants, Acceptable, BaseInv
  <1>3. \A c \in Live : c.op \in Nat /\ c.op <= Len(ops)
    BY LiveSound, ManagedAssumption DEF BaseInv, Sound, Commands, OpIDs
  <1> HIDE DEF new
  <1> SUFFICES ASSUME NEW g \in Live', NEW e \in Live', Grants(g), EnsuresDatabase(e) PROVE g.op # e.op
    BY DEF GrantInv, Grants, EnsuresDatabase
  <1>4. g \in Live
    BY <1>1, <1>2
  <1>5. CASE e = new
    BY <1>2, <1>3, <1>4, <1>5
  <1>6. CASE e # new
    BY <1>1, <1>4, <1>6 DEF GrantInv
  <1> QED
    BY <1>5, <1>6

LEMMA GrantsQueued ==
  ASSUME BaseInv, GrantInv, QueueGrantCommand
  PROVE  GrantInv'
  <1>1. Live' = (Live \ {job.cmd}) \cup {GrantCommand} /\ job.at = "grant"
    BY QueueGrantBase DEF QueueGrantCommand
  <1>2. Grants(GrantCommand) /\ GrantCommand.op = job.cmd.op
    BY <1>1, GrantSound
  <1>3. EnsuresDatabase(job.cmd) /\ Sound(job.cmd, Len(ops))
    BY <1>1 DEF BaseInv, JobInv
  <1> SUFFICES ASSUME NEW g \in Live', NEW e \in Live', Grants(g), EnsuresDatabase(e) PROVE g.op # e.op
    BY DEF GrantInv, Grants, EnsuresDatabase
  <1>4. e \in Live /\ e # job.cmd
    BY <1>1, <1>2 DEF Grants, EnsuresDatabase
  <1>5. job.cmd.op # e.op
    <2>1. Before(job.cmd, e)
      BY <1>1, <1>4, HandledFirst DEF BaseInv
    <2>2. Ordinary(job.cmd) /\ Ordinary(e)
      BY <1>3 DEF Ordinary, Grants, EnsuresDatabase
    <2>3. job.cmd.op \in Nat /\ e.op \in Nat
      BY <1>3, <1>4, LiveSound, ManagedAssumption DEF BaseInv, Sound, Commands, OpIDs
    <2> QED
      BY <2>1, <2>2, <2>3 DEF Before
  <1> QED
    BY <1>1, <1>2, <1>4, <1>5 DEF GrantInv

-----------------------------------------------------------------------------
(* Roles.                                                                  *)

\* Numbers of live commands can be compared.
LEMMA LiveNumbers ==
  ASSUME BaseInv, NEW c \in Live
  PROVE  /\ c.op \in Nat /\ c.id \in Nat /\ c.op <= Len(ops) /\ Len(ops) \in Nat
         /\ c.name \in Roles => c.action \in RoleActions
         /\ c.name \in Databases => c.action \in DatabaseActions
  <1>1. Sound(c, Len(ops)) /\ c \in Commands
    BY LiveSound DEF BaseInv
  <1>2. c.op \in OpIDs /\ c.id \in OpIDs /\ c.action \in RoleActions \cup DatabaseActions
    BY <1>1 DEF Commands
  <1>3. Len(ops) \in Nat
    BY DEF BaseInv, RowInv
  <1> QED
    BY <1>1, <1>2, <1>3, ManagedAssumption DEF Sound, OpIDs

\* Steps that leave a role, its server object and its commands alone.
LEMMA RoleQuiet ==
  ASSUME NEW r \in Roles, RoleInv(r), role'[r] = role[r], pgRole'[r] = pgRole[r],
         r \in revived' <=> r \in revived, cut => cut',
         \A c : c.name = r => (c \in Live <=> c \in Live')
  PROVE  RoleInv(r)'
  <1>1. RoleGone(r)'
    BY DEF RoleInv, RoleGone, DropsRole, EnsuresRole
  <1>2. RoleReady(r)'
    <2> SUFFICES ASSUME role[r] # None
                 PROVE  /\ \A c \in Live' : c.name = r /\ c.op > role[r].password => DropsRole(c) /\ c.id = role[r].id
                        /\ \A c \in Live' : SetsPassword(c, r) => ~DropsRole(c) /\ c.id = role[r].id
                        /\ (\E c \in Live' : SetsPassword(c, r))
                             \/ /\ \A c \in Live' : c.name = r => c.op > role[r].password
                                /\ ~cut' /\ role[r].status = "ready" =>
                                     pgRole[r] = role[r].password \/ \E c \in Live' : c.name = r
      BY DEF RoleReady, SetsPassword, DropsRole
    <2> QED
      BY DEF RoleInv, RoleReady, SetsPassword
  <1> QED
    BY <1>1, <1>2 DEF RoleInv

LEMMA NewPasswordRole ==
  ASSUME BaseInv, NEW r \in Roles, RoleInv(r), NEW action, NewPassword(r, action),
         revived \subseteq revived',
         action = "pg_ensure_role" /\ (\E c \in Live : c.name = r /\ DropsRole(c)) => r \in revived'
  PROVE  RoleInv(r)'
  <1> DEFINE new == NewCommand(action, r, role'[r].id, None)
  <1>1. Live' = Live \cup {new}
    BY AcceptedWork DEF NewPassword, BaseInv
  <1>2. /\ new.op = Len(ops) + 1 /\ new.action = action /\ new.name = r /\ new.id = role'[r].id
        /\ Len(ops) \in Nat /\ role'[r].password = Len(ops) + 1
    BY AcceptedOps DEF NewCommand, NewPassword, BaseInv
  <1>3. action # "pg_drop_role" /\ role'[r] \in RoleRows /\ role'[r].status = "pending"
    BY DEF NewPassword
  <1>4. \A c \in Live : c.op \in Nat /\ c.op <= Len(ops)
    BY LiveNumbers
  <1> HIDE DEF new
  <1>5. role'[r] # None
    BY <1>3, ManagedAssumption
  <1>6. RoleGone(r)'
    <2> SUFFICES ASSUME NEW c \in Live', NEW e \in Live', c.name = r, e.name = r, DropsRole(c), EnsuresRole(e),
                        c.op < e.op
                 PROVE  r \in revived'
      BY <1>5 DEF RoleGone, DropsRole, EnsuresRole
    <2>1. c \in Live
      BY <1>1, <1>2, <1>3 DEF DropsRole
    <2>2. CASE e = new
      BY <1>2, <2>1, <2>2 DEF EnsuresRole
    <2>3. CASE e \in Live
      BY <2>1, <2>3 DEF RoleInv, RoleGone
    <2> QED
      BY <1>1, <2>2, <2>3
  <1>7. RoleReady(r)'
    <2>1. \A c \in Live' : c.op <= role'[r].password
      BY <1>1, <1>2, <1>4
    <2>2. \A c \in Live' : c.name = r /\ c.op > role'[r].password => DropsRole(c) /\ c.id = role'[r].id
      BY <1>1, <1>2, <1>4
    <2>3. ASSUME NEW c \in Live', c.op = role'[r].password PROVE ~DropsRole(c) /\ c.id = role'[r].id
      <3>1. c = new
        BY <1>1, <1>2, <1>4, <2>3
      <3> QED
        BY <1>2, <1>3, <3>1 DEF DropsRole
    <2>4. new \in Live' /\ new.name = r /\ new.op = role'[r].password
      BY <1>1, <1>2
    <2> QED
      BY <2>2, <2>3, <2>4 DEF RoleReady, SetsPassword, DropsRole
  <1> QED
    BY <1>6, <1>7 DEF RoleInv

LEMMA DroppingRoleRole ==
  ASSUME BaseInv, NEW r \in Roles, RoleInv(r), DroppingRole(r)
  PROVE  RoleInv(r)'
  <1> DEFINE new == NewCommand("pg_drop_role", r, role[r].id, None)
  <1>1. Live' = Live \cup {new}
    BY AcceptedWork DEF DroppingRole, BaseInv
  <1>2. /\ new.op = Len(ops) + 1 /\ new.action = "pg_drop_role" /\ new.name = r /\ new.id = role[r].id
        /\ Len(ops) \in Nat /\ cut' = cut
    BY AcceptedOps DEF NewCommand, DroppingRole, BaseInv
  <1>3. /\ role'[r] \in RoleRows /\ role'[r].id = role[r].id /\ role'[r].password = role[r].password
        /\ role'[r].status = "deleting" /\ role[r] # None /\ revived' = revived
    BY DroppingRoleBase DEF DroppingRole
  <1>4. (\A c \in Live : c.op \in Nat /\ c.op <= Len(ops)) /\ role[r].password \in 1..Len(ops)
    BY <1>3, LiveNumbers, RoleRowFields DEF BaseInv
  <1> HIDE DEF new
  <1>5. role'[r] # None
    BY <1>3, ManagedAssumption
  <1>6. RoleGone(r)'
    <2> SUFFICES ASSUME NEW c \in Live', NEW e \in Live', c.name = r, e.name = r, DropsRole(c), EnsuresRole(e),
                        c.op < e.op
                 PROVE  r \in revived'
      BY <1>5 DEF RoleGone, DropsRole, EnsuresRole
    <2>1. e \in Live
      BY <1>1, <1>2 DEF EnsuresRole
    <2>2. c # new
      BY <1>2, <1>4, <2>1
    <2> QED
      BY <1>1, <1>3, <2>1, <2>2 DEF RoleInv, RoleGone
  <1>7. RoleReady(r)'
    <2>1. \A c \in Live' : c.name = r /\ c.op > role[r].password => DropsRole(c) /\ c.id = role[r].id
      BY <1>1, <1>2, <1>3 DEF RoleInv, RoleReady, DropsRole
    <2>2. new.op > role[r].password
      BY <1>2, <1>4
    <2>3. \A c \in Live' : SetsPassword(c, r) => c \in Live
      BY <1>1, <1>2, <1>4, <2>2 DEF SetsPassword
    <2>4. \A c \in Live' : SetsPassword(c, r) => ~DropsRole(c) /\ c.id = role[r].id
      BY <1>3, <2>3 DEF RoleInv, RoleReady
    <2>5. (\E c \in Live' : SetsPassword(c, r)) \/ \A c \in Live' : c.name = r => c.op > role[r].password
      BY <1>1, <1>3, <2>2 DEF RoleInv, RoleReady
    <2> QED
      BY <1>3, <2>1, <2>4, <2>5 DEF RoleReady, SetsPassword, DropsRole
  <1> QED
    BY <1>6, <1>7 DEF RoleInv

\* A live command of the role is executed, or fails half way.
LEMMA RoleRuns ==
  ASSUME NEW r \in Roles, RoleInv(r), Live' = Live, role' = role, revived' = revived, cut' = cut,
         job.cmd \in Live, job.cmd.name = r,
         pgRole[r] = None /\ ~EnsuresRole(job.cmd) => pgRole'[r] = None
  PROVE  RoleInv(r)'
  <1>1. RoleGone(r)'
    BY DEF RoleInv, RoleGone, DropsRole, EnsuresRole
  <1>2. RoleReady(r)'
    BY DEF RoleInv, RoleReady, DropsRole, SetsPassword
  <1> QED
    BY <1>1, <1>2 DEF RoleInv

\* The handled command comes before every other live command of its role.
LEMMA RoleOrder ==
  ASSUME BaseInv, job.at \in {"handle", "grant"}, NEW r \in Roles, job.cmd.name = r, NEW c \in Live,
         c.name = r, c # job.cmd
  PROVE  job.cmd.op < c.op
  <1>1. job.cmd \in Live
    BY DEF Live
  <1>2. Ordinary(c) /\ Ordinary(job.cmd)
    BY <1>1, LiveNumbers DEF Ordinary, Grants, RoleActions
  <1> QED
    BY <1>2, HandledFirst DEF Before, BaseInv

LEMMA RoleCut ==
  ASSUME BaseInv, NEW r \in Roles, RoleInv(r), job.at \in {"handle", "grant"}, job.cmd.name = r,
         Live' = Live \ {job.cmd}, role' = role, pgRole' = pgRole, revived' = revived, cut'
  PROVE  RoleInv(r)'
  <1>1. RoleGone(r)'
    BY DEF RoleInv, RoleGone, DropsRole, EnsuresRole
  <1>2. RoleReady(r)'
    <2> SUFFICES ASSUME role[r] # None,
                        ~ \E c \in Live' : SetsPassword(c, r)
                 PROVE  \A c \in Live' : c.name = r => c.op > role[r].password
      BY DEF RoleInv, RoleReady, DropsRole, SetsPassword
    <2>1. role[r].password \in Nat /\ \A c \in Live : c.op \in Nat
      BY RoleRowFields, LiveNumbers DEF BaseInv
    <2>2. CASE SetsPassword(job.cmd, r)
      BY <2>1, <2>2, RoleOrder DEF SetsPassword
    <2>3. CASE ~SetsPassword(job.cmd, r)
      BY <2>3 DEF RoleInv, RoleReady
    <2> QED
      BY <2>2, <2>3
  <1> QED
    BY <1>1, <1>2 DEF RoleInv

LEMMA HandleRoleRole ==
  ASSUME BaseInv, HandleRoleResult, NEW r \in Roles, RoleInv(r), job.cmd.name = r
  PROVE  RoleInv(r)'
  <1> DEFINE c == job.cmd
  <1>1. /\ Live' = Live \ {c} /\ role' = [role EXCEPT ![r] = RoleAfter(r)]
        /\ c \in Live /\ job.at = "handle" /\ c.action \in RoleActions
    BY HandleRoleBase DEF HandleRoleResult, Live
  <1>2. role'[r] = RoleAfter(r)
    BY <1>1 DEF BaseInv, RowInv
  <1>3. pgRole' = pgRole /\ revived' = revived /\ cut' = cut
    BY DEF HandleRoleResult, server
  <1>4. job.ok => Effect(c)
    BY <1>1 DEF BaseInv, JobInv
  <1>5. \A x \in Live' : x.name = r => c.op < x.op
    BY <1>1, RoleOrder
  <1>6. RoleAfter(r) # None => /\ role[r] # None /\ RoleAfter(r).id = role[r].id
                               /\ RoleAfter(r).password = role[r].password
    BY RoleAfterType
  <1>7. RoleGone(r)'
    <2>1. \A x, e \in Live' :
            x.name = r /\ e.name = r /\ DropsRole(x) /\ EnsuresRole(e) /\ x.op < e.op => r \in revived
      BY <1>1 DEF RoleInv, RoleGone
    <2>2. ASSUME role'[r] = None, r \notin revived
          PROVE  pgRole[r] = None /\ \A e \in Live' : e.name = r => ~EnsuresRole(e)
      <3>1. CASE role[r] = None
        BY <1>1, <2>2, <3>1 DEF RoleInv, RoleGone
      <3>2. CASE role[r] # None
        <4>1. job.ok /\ DropsRole(c)
          <5>1. role[r] \in RoleRows /\ None \notin RoleRows
            BY <3>2, RoleRowFields, ManagedAssumption DEF BaseInv
          <5>2. [role[r] EXCEPT !.status = IF job.ok THEN "ready" ELSE "failed"] \in RoleRows
            BY <5>1 DEF RoleRows, Statuses
          <5> QED
            BY <1>2, <2>2, <3>2, <5>1, <5>2 DEF RoleAfter
        <4>2. pgRole[r] = None
          BY <1>4, <4>1 DEF Effect
        <4>3. \A e \in Live' : e.name = r => ~EnsuresRole(e)
          BY <1>1, <1>5, <2>2, <4>1 DEF RoleInv, RoleGone
        <4> QED
          BY <4>2, <4>3
      <3> QED
        BY <3>1, <3>2
    <2> QED
      BY <1>3, <2>1, <2>2 DEF RoleGone, DropsRole, EnsuresRole
  <1>8. RoleReady(r)'
    <2> SUFFICES ASSUME role'[r] # None PROVE RoleReady(r)'
      BY DEF RoleReady
    <2>1. role[r] # None /\ role'[r].id = role[r].id /\ role'[r].password = role[r].password
      BY <1>2, <1>6
    <2> DEFINE p == role[r].password
    <2>2. \A x \in Live' : x.name = r /\ x.op > p => DropsRole(x) /\ x.id = role[r].id
      BY <1>1, <2>1 DEF RoleInv, RoleReady
    <2>3. \A x \in Live' : x.name = r /\ x.op = p => ~DropsRole(x) /\ x.id = role[r].id
      BY <1>1, <2>1 DEF RoleInv, RoleReady, SetsPassword
    <2>4. ASSUME ~ \E x \in Live' : x.name = r /\ x.op = p
          PROVE  /\ \A x \in Live' : x.name = r => x.op > p
                 /\ ~cut' /\ role'[r].status = "ready" => pgRole[r] = p
      <3>0. p \in Nat /\ \A x \in Live : x.op \in Nat
        BY <2>1, RoleRowFields, LiveNumbers DEF BaseInv
      <3>1. CASE c.op = p
        <4>1. ~DropsRole(c) /\ c.id = role[r].id
          BY <1>1, <2>1, <3>1 DEF RoleInv, RoleReady, SetsPassword
        <4>2. \A x \in Live' : x.name = r => x.op > p
          BY <1>1, <1>5, <3>0, <3>1
        <4>3. ASSUME role'[r].status = "ready" PROVE pgRole[r] = p
          <5>1. role'[r] = [role[r] EXCEPT !.status = IF job.ok THEN "ready" ELSE "failed"] /\ role[r] \in RoleRows
            BY <1>2, <2>1, <4>1, RoleRowFields DEF RoleAfter, BaseInv
          <5>2. job.ok
            BY <4>3, <5>1 DEF RoleRows
          <5>3. c.action \in {"pg_ensure_role", "pg_rotate_role_password"}
            BY <1>1, <4>1 DEF DropsRole, RoleActions
          <5> QED
            BY <1>4, <3>1, <5>2, <5>3 DEF Effect
        <4> QED
          BY <4>2, <4>3
      <3>2. CASE c.op # p
        <4>1. \A x \in Live : x.name = r => x.op > p
          BY <1>1, <2>1, <2>4, <3>2 DEF RoleInv, RoleReady, SetsPassword
        <4>2. DropsRole(c) /\ c.id = role[r].id
          BY <1>1, <2>1, <4>1 DEF RoleInv, RoleReady
        <4>3. role'[r] = [role[r] EXCEPT !.status = "failed"] /\ role[r] \in RoleRows
          BY <1>2, <2>1, <4>2, RoleRowFields DEF RoleAfter, BaseInv
        <4>4. role'[r].status = "failed"
          BY <4>3 DEF RoleRows
        <4> QED
          BY <1>1, <4>1, <4>4
      <3> QED
        BY <3>1, <3>2
    <2> QED
      BY <1>3, <2>1, <2>2, <2>3, <2>4 DEF RoleReady, SetsPassword, DropsRole
  <1> QED
    BY <1>7, <1>8 DEF RoleInv

-----------------------------------------------------------------------------
(* Databases.                                                              *)

\* Steps that leave a database, its server object and its creations and drops
\* alone.
LEMMA DatabaseQuiet ==
  ASSUME NEW d \in Databases, DatabaseInv(d),
         database'[d] = None <=> database[d] = None,
         database[d] # None => database'[d].id = database[d].id /\ database'[d].status = database[d].status,
         pgDatabase'[d] = pgDatabase[d], cut => cut',
         \A c : c.name = d /\ ~Grants(c) => (c \in Live <=> c \in Live')
  PROVE  DatabaseInv(d)'
  <1>1. \A c : c.name = d /\ (DropsDatabase(c) \/ EnsuresDatabase(c)) => (c \in Live <=> c \in Live')
    BY DEF Grants, DropsDatabase, EnsuresDatabase
  <1>2. DatabaseGone(d)'
    BY <1>1 DEF DatabaseInv, DatabaseGone, EnsuresDatabase
  <1>3. DatabaseReady(d)'
    <2> SUFFICES ASSUME database[d] # None
                 PROVE  /\ \A c \in Live' : c.name = d /\ DropsDatabase(c) =>
                             \/ c.id = database[d].id
                             \/ c.op < database[d].id /\ \E e \in Live' : e.name = d /\ EnsuresDatabase(e)
                        /\ database[d].status = "ready" =>
                             /\ \A e \in Live' : e.name = d => ~EnsuresDatabase(e)
                             /\ ~cut' => pgDatabase[d] # None \/ \E c \in Live' : c.name = d /\ DropsDatabase(c)
      BY DEF DatabaseReady, DropsDatabase, EnsuresDatabase
    <2> QED
      BY <1>1 DEF DatabaseInv, DatabaseReady
  <1> QED
    BY <1>2, <1>3 DEF DatabaseInv

LEMMA CreatingDatabaseDatabase ==
  ASSUME BaseInv, NEW d \in Databases, DatabaseInv(d), NEW owner, CreatingDatabase(d, owner)
  PROVE  DatabaseInv(d)'
  <1> DEFINE new == NewCommand("pg_ensure_database", d, NewID, owner)
  <1>1. Live' = Live \cup {new}
    BY AcceptedWork DEF CreatingDatabase, BaseInv
  <1>2. /\ new.op = Len(ops) + 1 /\ new.action = "pg_ensure_database" /\ new.name = d
        /\ Len(ops) \in Nat /\ database'[d].id = Len(ops) + 1 /\ database'[d].status = "pending"
        /\ database[d] = None
    BY AcceptedOps DEF NewCommand, CreatingDatabase, BaseInv
  <1>3. database'[d] # None
    BY ManagedAssumption DEF CreatingDatabase
  <1>4. \A c \in Live : c.op \in Nat /\ c.op <= Len(ops)
    BY LiveNumbers
  <1> HIDE DEF new
  <1>5. DatabaseGone(d)'
    BY <1>1, <1>2, <1>3 DEF DatabaseInv, DatabaseGone, EnsuresDatabase
  <1>6. DatabaseReady(d)'
    <2>1. ASSUME NEW c \in Live', c.name = d, DropsDatabase(c) PROVE c.op < database'[d].id
      BY <1>1, <1>2, <1>4, <2>1 DEF DropsDatabase
    <2>2. new \in Live' /\ new.name = d /\ EnsuresDatabase(new)
      BY <1>1, <1>2 DEF EnsuresDatabase
    <2> QED
      BY <1>2, <2>1, <2>2 DEF DatabaseReady, DropsDatabase, EnsuresDatabase
  <1> QED
    BY <1>5, <1>6 DEF DatabaseInv

LEMMA DroppingDatabaseDatabase ==
  ASSUME BaseInv, NEW d \in Databases, DatabaseInv(d), DroppingDatabase(d)
  PROVE  DatabaseInv(d)'
  <1> DEFINE new == NewCommand("pg_drop_database", d, database[d].id, None)
  <1>1. Live' = Live \cup {new}
    BY AcceptedWork DEF DroppingDatabase, BaseInv
  <1>2. new.action = "pg_drop_database" /\ new.name = d /\ new.id = database[d].id /\ cut' = cut
    BY AcceptedOps DEF NewCommand, DroppingDatabase, BaseInv
  <1>3. /\ database'[d] \in DatabaseRows /\ database'[d].id = database[d].id
        /\ database'[d].status = "deleting" /\ database[d] # None
    BY DroppingDatabaseBase DEF DroppingDatabase
  <1> HIDE DEF new
  <1>4. database'[d] # None
    BY <1>3, ManagedAssumption
  <1>5. DatabaseGone(d)'
    BY <1>1, <1>2, <1>3, <1>4 DEF DatabaseInv, DatabaseGone, EnsuresDatabase
  <1>6. DatabaseReady(d)'
    <2>1. \A c \in Live' : c.name = d /\ DropsDatabase(c) =>
            \/ c.id = database[d].id
            \/ c.op < database[d].id /\ \E e \in Live' : e.name = d /\ EnsuresDatabase(e)
      BY <1>1, <1>2, <1>3 DEF DatabaseInv, DatabaseReady
    <2> QED
      BY <1>3, <2>1 DEF DatabaseReady, DropsDatabase, EnsuresDatabase
  <1> QED
    BY <1>5, <1>6 DEF DatabaseInv

\* A live command of the database is executed.
LEMMA DatabaseRuns ==
  ASSUME NEW d \in Databases, DatabaseInv(d), Live' = Live, database' = database, cut' = cut,
         job.cmd \in Live, job.cmd.name = d,
         EnsuresDatabase(job.cmd) \/ pgDatabase'[d] = pgDatabase[d]
           \/ (DropsDatabase(job.cmd) /\ pgDatabase'[d] = None)
  PROVE  DatabaseInv(d)'
  <1>1. DatabaseGone(d)'
    BY DEF DatabaseInv, DatabaseGone, EnsuresDatabase
  <1>2. DatabaseReady(d)'
    <2> SUFFICES ASSUME database[d] # None, database[d].status = "ready", ~cut,
                        \A c \in Live : c.name = d => ~DropsDatabase(c)
                 PROVE  pgDatabase'[d] # None
      BY DEF DatabaseInv, DatabaseReady, DropsDatabase, EnsuresDatabase
    <2>1. ~EnsuresDatabase(job.cmd) /\ ~DropsDatabase(job.cmd)
      BY DEF DatabaseInv, DatabaseReady
    <2> QED
      BY <2>1 DEF DatabaseInv, DatabaseReady
  <1> QED
    BY <1>1, <1>2 DEF DatabaseInv

\* The handled command comes before every other live one that is no grant.
LEMMA DatabaseOrder ==
  ASSUME BaseInv, job.at \in {"handle", "grant"}, ~Grants(job.cmd), NEW c \in Live, c # job.cmd, ~Grants(c)
  PROVE  job.cmd.op < c.op
  BY HandledFirst DEF Before, Ordinary, BaseInv

\* The handled command is never the creation that an older drop has to wait for.
LEMMA DropsOfRow ==
  ASSUME BaseInv, job.at \in {"handle", "grant"}, NEW d \in Databases, DatabaseInv(d), job.cmd.name = d,
         database[d] # None, NEW x \in Live, x # job.cmd, x.name = d, DropsDatabase(x)
  PROVE  \/ x.id = database[d].id
         \/ x.op < database[d].id /\ \E e \in Live \ {job.cmd} : e.name = d /\ EnsuresDatabase(e)
  <1> SUFFICES ASSUME x.id # database[d].id
               PROVE  x.op < database[d].id /\ \E e \in Live \ {job.cmd} : e.name = d /\ EnsuresDatabase(e)
    OBVIOUS
  <1>1. PICK e \in Live : e.name = d /\ EnsuresDatabase(e) /\ x.op < database[d].id
    BY DEF DatabaseInv, DatabaseReady
  <1>2. e.op = database[d].id
    BY <1>1 DEF DatabaseInv, DatabaseGone
  <1>3. e # job.cmd
    <2> SUFFICES ASSUME e = job.cmd PROVE FALSE
      OBVIOUS
    <2>1. job.cmd.op < x.op
      BY <1>1, DatabaseOrder DEF Grants, EnsuresDatabase, DropsDatabase
    <2> QED
      BY <1>1, <1>2, <2>1, LiveNumbers
  <1> QED
    BY <1>1, <1>3

\* The handled command leaves without a change of the row: its handler is cut
\* short, or its grants take its place.
LEMMA DatabaseLeaves ==
  ASSUME BaseInv, NEW d \in Databases, DatabaseInv(d), job.at \in {"handle", "grant"}, job.cmd.name = d,
         \A c : ~Grants(c) => (c \in Live' <=> c \in Live /\ c # job.cmd),
         database' = database, pgDatabase' = pgDatabase, cut' \/ EnsuresDatabase(job.cmd)
  PROVE  DatabaseInv(d)'
  <1>0. job.cmd \in Live
    BY DEF Live
  <1>1. \A c : DropsDatabase(c) \/ EnsuresDatabase(c) => (c \in Live' <=> c \in Live /\ c # job.cmd)
    BY DEF Grants, DropsDatabase, EnsuresDatabase
  <1>2. DatabaseGone(d)'
    BY <1>1 DEF DatabaseInv, DatabaseGone, EnsuresDatabase
  <1>3. DatabaseReady(d)'
    <2> SUFFICES ASSUME database[d] # None PROVE DatabaseReady(d)'
      BY DEF DatabaseReady
    <2>1. ASSUME NEW x \in Live', x.name = d, DropsDatabase(x)
          PROVE  \/ x.id = database[d].id
                 \/ x.op < database[d].id /\ \E e \in Live' : e.name = d /\ EnsuresDatabase(e)
      BY <1>1, <2>1, DropsOfRow
    <2>2. ASSUME database[d].status = "ready"
          PROVE  cut' /\ \A e \in Live' : e.name = d => ~EnsuresDatabase(e)
      <3>1. \A e \in Live : e.name = d => ~EnsuresDatabase(e)
        BY <2>2 DEF DatabaseInv, DatabaseReady
      <3> QED
        BY <1>0, <1>1, <3>1
    <2> QED
      BY <2>1, <2>2 DEF DatabaseReady, DropsDatabase, EnsuresDatabase
  <1> QED
    BY <1>2, <1>3 DEF DatabaseInv

LEMMA DatabaseAppliedDatabase ==
  ASSUME BaseInv, GrantInv, NEW s \in Outcomes, DatabaseApplied(s), HistoryInv',
         s = "failed" \/ (s = Outcome /\ job.at = "handle"),
         NEW d \in Databases, DatabaseInv(d), job.cmd.name = d
  PROVE  DatabaseInv(d)'
  <1> DEFINE c == job.cmd
  <1>1. /\ Live' = Live \ {c} /\ database' = [database EXCEPT ![d] = DatabaseAfter(d, s)]
        /\ c \in Live /\ job.at \in {"handle", "grant"} /\ c.action \in DatabaseActions
        /\ pgDatabase' = pgDatabase /\ cut' = cut
    BY DatabaseAppliedBase DEF DatabaseApplied, Live
  <1>2. database'[d] = DatabaseAfter(d, s)
    BY <1>1 DEF BaseInv, RowInv
  <1>3. s # "failed" => job.ok /\ Effect(c) /\ (s = "deleted" <=> DropsDatabase(c))
    BY DEF Outcome, BaseInv, JobInv
  <1>4. Sound(c, Len(ops)) /\ c.op \in Nat /\ c.id \in Nat
    BY <1>1, LiveSound, LiveNumbers DEF BaseInv
  <1>5. \A x \in Live : x.op \in Nat /\ x.id \in Nat
    BY LiveNumbers
  <1>6. ASSUME database[d] # None, ~(s = "deleted" /\ database[d].id = c.id)
        PROVE  database'[d] # None /\ database'[d].id = database[d].id
               /\ database'[d].status = (IF database[d].id = c.id THEN s ELSE database[d].status)
    <2>1. database[d] \in DatabaseRows /\ None \notin DatabaseRows
      BY <1>6, DatabaseRowFields, ManagedAssumption DEF BaseInv
    <2>2. CASE database[d].id # c.id
      BY <1>2, <1>6, <2>2 DEF DatabaseAfter
    <2>3. CASE database[d].id = c.id
      <3>1. database'[d] = [database[d] EXCEPT !.status = s] /\ s \in Statuses
        BY <1>2, <1>6, <2>3 DEF DatabaseAfter, Outcomes, Statuses
      <3>2. database'[d] \in DatabaseRows /\ database'[d].id = database[d].id /\ database'[d].status = s
        BY <2>1, <3>1 DEF DatabaseRows
      <3> QED
        BY <2>1, <2>3, <3>2
    <2> QED
      BY <2>2, <2>3
  <1>7. database[d] = None => database'[d] = None
    BY <1>2 DEF DatabaseAfter
  <1>8. DatabaseGone(d)'
    <2>1. ASSUME NEW e \in Live', e.name = d, EnsuresDatabase(e)
          PROVE  database'[d] # None /\ database'[d].id = e.op
      <3>1. database[d] # None /\ database[d].id = e.op
        BY <1>1, <2>1 DEF DatabaseInv, DatabaseGone
      <3>2. ASSUME s = "deleted", database[d].id = c.id PROVE FALSE
        <4>1. DropsDatabase(c)
          BY <1>3, <3>2
        <4>2. c.op < e.op
          BY <1>1, <2>1, <4>1, DatabaseOrder DEF Grants, EnsuresDatabase, DropsDatabase
        <4>3. c.id < c.op
          BY <1>4, <4>1 DEF Sound
        <4> QED
          BY <1>1, <1>4, <1>5, <3>1, <3>2, <4>2, <4>3
      <3> QED
        BY <1>6, <3>1, <3>2
    <2>2. ASSUME database'[d] = None PROVE pgDatabase[d] = None
      <3>1. CASE database[d] = None
        BY <3>1 DEF DatabaseInv, DatabaseGone
      <3>2. CASE database[d] # None
        BY <1>3, <1>6, <2>2, <3>2 DEF Effect
      <3> QED
        BY <3>1, <3>2
    <2> QED
      BY <1>1, <2>1, <2>2 DEF DatabaseGone, EnsuresDatabase
  <1>9. DatabaseReady(d)'
    <2> SUFFICES ASSUME database'[d] # None PROVE DatabaseReady(d)'
      BY DEF DatabaseReady
    <2>1. database[d] # None /\ ~(s = "deleted" /\ database[d].id = c.id)
      BY <1>2, <1>7 DEF DatabaseAfter
    <2>2. database'[d].id = database[d].id
          /\ database'[d].status = (IF database[d].id = c.id THEN s ELSE database[d].status)
      BY <1>6, <2>1
    <2>3. ASSUME NEW x \in Live', x.name = d, DropsDatabase(x)
          PROVE  \/ x.id = database[d].id
                 \/ x.op < database[d].id /\ \E e \in Live' : e.name = d /\ EnsuresDatabase(e)
      BY <1>1, <2>1, <2>3, DropsOfRow
    <2>4. ASSUME database'[d].status = "ready"
          PROVE  /\ \A e \in Live' : e.name = d => ~EnsuresDatabase(e)
                 /\ ~cut => pgDatabase[d] # None \/ \E x \in Live' : x.name = d /\ DropsDatabase(x)
      <3>1. CASE database[d].id # c.id
        <4>1. database[d].status = "ready"
          BY <2>2, <2>4, <3>1
        <4>2. \A e \in Live : e.name = d => ~EnsuresDatabase(e)
          BY <2>1, <4>1 DEF DatabaseInv, DatabaseReady
        <4>3. ~DropsDatabase(c)
          BY <1>1, <2>1, <3>1, <4>2 DEF DatabaseInv, DatabaseReady
        <4> QED
          BY <1>1, <2>1, <4>1, <4>2, <4>3 DEF DatabaseInv, DatabaseReady
      <3>2. CASE database[d].id = c.id
        <4>1. s = "ready"
          BY <2>2, <2>4, <3>2
        <4>2. job.ok /\ Effect(c) /\ ~DropsDatabase(c)
          BY <1>3, <4>1
        <4>3. EnsuresDatabase(c) \/ Grants(c)
          BY <1>1, <4>2 DEF EnsuresDatabase, Grants, DropsDatabase, DatabaseActions
        <4>4. c.id = c.op
          BY <1>4, <4>3 DEF Sound
        <4>5. pgDatabase[d] # None
          BY <4>2, <4>3 DEF Effect
        <4>6. ASSUME NEW e \in Live', e.name = d, EnsuresDatabase(e) PROVE FALSE
          <5>1. e.op = c.op /\ e \in Live /\ e # c
            BY <1>1, <3>2, <4>4, <4>6 DEF DatabaseInv, DatabaseGone
          <5>2. CASE EnsuresDatabase(c)
            <6>1. c.op < e.op
              BY <1>1, <4>6, <5>1, <5>2, DatabaseOrder DEF Grants, EnsuresDatabase
            <6> QED
              BY <1>4, <5>1, <6>1
          <5>3. CASE Grants(c)
            BY <1>1, <4>6, <5>1, <5>3 DEF GrantInv
          <5> QED
            BY <4>3, <5>2, <5>3
        <4> QED
          BY <4>5, <4>6
      <3> QED
        BY <3>1, <3>2
    <2> QED
      BY <1>1, <2>2, <2>3, <2>4 DEF DatabaseReady, DropsDatabase, EnsuresDatabase
  <1> QED
    BY <1>8, <1>9 DEF DatabaseInv

-----------------------------------------------------------------------------
(* Every step keeps the invariant.                                         *)

\* A step of a role's command keeps what is known of databases and other roles.
LEMMA ElsewhereRole ==
  ASSUME ManagedInv, NEW r \in Roles, cut => cut',
         \A x \in Roles \ {r} : /\ role'[x] = role[x] /\ pgRole'[x] = pgRole[x]
                                /\ x \in revived' <=> x \in revived,
         pgDatabase' = pgDatabase, database' = database \/ SameDatabases,
         \A c : c.name # r => (c \in Live <=> c \in Live')
  PROVE  (\A x \in Roles \ {r} : RoleInv(x)') /\ (\A d \in Databases : DatabaseInv(d)')
  <1>1. ASSUME NEW x \in Roles \ {r} PROVE RoleInv(x)'
    BY RoleQuiet DEF ManagedInv
  <1>2. ASSUME NEW d \in Databases PROVE DatabaseInv(d)'
    <2>1. d # r
      BY ManagedAssumption
    <2>2. /\ database'[d] = None <=> database[d] = None
          /\ database[d] # None => database'[d].id = database[d].id /\ database'[d].status = database[d].status
      BY DEF SameDatabases
    <2> QED
      BY <2>1, <2>2, DatabaseQuiet DEF ManagedInv
  <1> QED
    BY <1>1, <1>2

\* A step of a database's command keeps what is known of roles and other databases.
LEMMA ElsewhereDatabase ==
  ASSUME ManagedInv, NEW d \in Databases, cut => cut', role' = role, pgRole' = pgRole, revived' = revived,
         \A x \in Databases \ {d} : database'[x] = database[x] /\ pgDatabase'[x] = pgDatabase[x],
         \A c : c.name # d => (c \in Live <=> c \in Live')
  PROVE  (\A r \in Roles : RoleInv(r)') /\ (\A x \in Databases \ {d} : DatabaseInv(x)')
  <1>1. ASSUME NEW r \in Roles PROVE RoleInv(r)'
    <2>1. r # d
      BY ManagedAssumption
    <2> QED
      BY <2>1, RoleQuiet DEF ManagedInv
  <1>2. ASSUME NEW x \in Databases \ {d} PROVE DatabaseInv(x)'
    BY DatabaseQuiet DEF ManagedInv
  <1> QED
    BY <1>1, <1>2

\* A step that changes no row, server object or live command.
LEMMA Elsewhere ==
  ASSUME ManagedInv, BaseInv', Live' = Live, cut' = cut, UNCHANGED <<role, database, pgRole, pgDatabase, revived>>
  PROVE  ManagedInv'
  <1>1. GrantInv'
    BY GrantsKept DEF ManagedInv
  <1>2. ASSUME NEW r \in Roles PROVE RoleInv(r)'
    BY RoleQuiet DEF ManagedInv
  <1>3. ASSUME NEW d \in Databases PROVE DatabaseInv(d)'
    BY DatabaseQuiet DEF ManagedInv
  <1> QED
    BY <1>1, <1>2, <1>3 DEF ManagedInv

LEMMA NewPasswordStep ==
  ASSUME ManagedInv, NEW r \in Roles, NEW action, NewPassword(r, action),
         revived' = revived \/ revived' = revived \cup {r},
         action = "pg_ensure_role" /\ (\E c \in Live : c.name = r /\ DropsRole(c)) => r \in revived'
  PROVE  ManagedInv'
  <1> DEFINE new == NewCommand(action, r, role'[r].id, None)
  <1>1. BaseInv'
    BY NewPasswordBase DEF ManagedInv
  <1>2. GrantInv'
    BY GrantsAccepted DEF ManagedInv, NewPassword
  <1>3. RoleInv(r)'
    BY NewPasswordRole DEF ManagedInv
  <1>4. Live' = Live \cup {new} /\ new.name = r
    BY AcceptedWork DEF NewPassword, ManagedInv, BaseInv, NewCommand
  <1>5. cut' = cut /\ pgRole' = pgRole /\ pgDatabase' = pgDatabase
    BY AcceptedOps DEF NewPassword, ManagedInv, BaseInv
  <1>6. database' = database /\ \A x \in Roles \ {r} : role'[x] = role[x]
    BY DEF NewPassword, ManagedInv, BaseInv, RowInv
  <1> HIDE DEF new
  <1>7. (\A x \in Roles \ {r} : RoleInv(x)') /\ (\A d \in Databases : DatabaseInv(d)')
    BY <1>4, <1>5, <1>6, ElsewhereRole
  <1> QED
    BY <1>1, <1>2, <1>3, <1>7 DEF ManagedInv

LEMMA CreateRoleStep ==
  ASSUME ManagedInv, NEW r \in Roles, CreateRole(r)
  PROVE  ManagedInv'
  <1>1. NewPassword(r, "pg_ensure_role")
    BY CreateRoleWrites DEF ManagedInv
  <1>2. revived' = revived \cup (IF DropPending(r) THEN {r} ELSE {})
    BY DEF CreateRole
  <1>3. ASSUME NEW c \in Live, c.name = r, DropsRole(c) PROVE DropPending(r)
    BY <1>3 DEF Live, DropPending, DropsRole
  <1> QED
    BY <1>1, <1>2, <1>3, NewPasswordStep

LEMMA RotateRoleStep ==
  ASSUME ManagedInv, NEW r \in Roles, RotateRolePassword(r)
  PROVE  ManagedInv'
  BY RotateRoleWrites, NewPasswordStep DEF ManagedInv

LEMMA CommitDeleteRoleStep ==
  ASSUME ManagedInv, NEW q \in Requests, CommitDeleteRole(q)
  PROVE  ManagedInv'
  <1>0. PICK r \in Roles : DroppingRole(r)
    BY CommitDeleteRoleWrites DEF ManagedInv
  <1> DEFINE new == NewCommand("pg_drop_role", r, role[r].id, None)
  <1>1. BaseInv'
    BY <1>0, DroppingRoleBase DEF ManagedInv
  <1>2. GrantInv'
    BY <1>0, GrantsAccepted DEF ManagedInv, DroppingRole
  <1>3. RoleInv(r)'
    BY <1>0, DroppingRoleRole DEF ManagedInv
  <1>4. Live' = Live \cup {new} /\ new.name = r
    BY <1>0, AcceptedWork DEF DroppingRole, ManagedInv, BaseInv, NewCommand
  <1>5. cut' = cut /\ pgRole' = pgRole /\ pgDatabase' = pgDatabase
    BY <1>0, AcceptedOps DEF DroppingRole, ManagedInv, BaseInv
  <1>6. database' = database /\ revived' = revived /\ \A x \in Roles \ {r} : role'[x] = role[x]
    BY <1>0 DEF DroppingRole, ManagedInv, BaseInv, RowInv
  <1> HIDE DEF new
  <1>7. (\A x \in Roles \ {r} : RoleInv(x)') /\ (\A d \in Databases : DatabaseInv(d)')
    BY <1>0, <1>4, <1>5, <1>6, ElsewhereRole
  <1> QED
    BY <1>1, <1>2, <1>3, <1>7 DEF ManagedInv

LEMMA CommitCreateDatabaseStep ==
  ASSUME ManagedInv, NEW q \in Requests, CommitCreateDatabase(q)
  PROVE  ManagedInv'
  <1>0. PICK d \in Databases, owner \in {req[q].owner} : CreatingDatabase(d, owner)
    BY CommitCreateDatabaseWrites DEF ManagedInv
  <1> DEFINE new == NewCommand("pg_ensure_database", d, NewID, owner)
  <1>1. BaseInv'
    BY <1>0, CreatingDatabaseBase DEF ManagedInv
  <1>2. GrantInv'
    BY <1>0, GrantsAccepted DEF ManagedInv, CreatingDatabase
  <1>3. DatabaseInv(d)'
    BY <1>0, CreatingDatabaseDatabase DEF ManagedInv
  <1>4. Live' = Live \cup {new} /\ new.name = d
    BY <1>0, AcceptedWork DEF CreatingDatabase, ManagedInv, BaseInv, NewCommand
  <1>5. cut' = cut /\ pgRole' = pgRole /\ pgDatabase' = pgDatabase
    BY <1>0, AcceptedOps DEF CreatingDatabase, ManagedInv, BaseInv
  <1>6. role' = role /\ revived' = revived /\ \A x \in Databases \ {d} : database'[x] = database[x]
    BY <1>0 DEF CreatingDatabase, ManagedInv, BaseInv, RowInv
  <1> HIDE DEF new
  <1>7. (\A r \in Roles : RoleInv(r)') /\ (\A x \in Databases \ {d} : DatabaseInv(x)')
    BY <1>0, <1>4, <1>5, <1>6, ElsewhereDatabase
  <1> QED
    BY <1>1, <1>2, <1>3, <1>7 DEF ManagedInv

LEMMA CommitDeleteDatabaseStep ==
  ASSUME ManagedInv, NEW q \in Requests, CommitDeleteDatabase(q)
  PROVE  ManagedInv'
  <1>0. PICK d \in Databases : DroppingDatabase(d)
    BY CommitDeleteDatabaseWrites DEF ManagedInv
  <1> DEFINE new == NewCommand("pg_drop_database", d, database[d].id, None)
  <1>1. BaseInv'
    BY <1>0, DroppingDatabaseBase DEF ManagedInv
  <1>2. GrantInv'
    BY <1>0, GrantsAccepted DEF ManagedInv, DroppingDatabase
  <1>3. DatabaseInv(d)'
    BY <1>0, DroppingDatabaseDatabase DEF ManagedInv
  <1>4. Live' = Live \cup {new} /\ new.name = d
    BY <1>0, AcceptedWork DEF DroppingDatabase, ManagedInv, BaseInv, NewCommand
  <1>5. cut' = cut /\ pgRole' = pgRole /\ pgDatabase' = pgDatabase
    BY <1>0, AcceptedOps DEF DroppingDatabase, ManagedInv, BaseInv
  <1>6. role' = role /\ revived' = revived /\ \A x \in Databases \ {d} : database'[x] = database[x]
    BY <1>0 DEF DroppingDatabase, ManagedInv, BaseInv, RowInv
  <1> HIDE DEF new
  <1>7. (\A r \in Roles : RoleInv(r)') /\ (\A x \in Databases \ {d} : DatabaseInv(x)')
    BY <1>0, <1>4, <1>5, <1>6, ElsewhereDatabase
  <1> QED
    BY <1>1, <1>2, <1>3, <1>7 DEF ManagedInv

\* The command of a job that is executed is live, and handled when it is stored.
LEMMA JobLive ==
  ASSUME BaseInv, job.at \in {"run", "report", "handle", "grant"}
  PROVE  /\ job.cmd \in Live
         /\ \/ job.cmd.action \in RoleActions /\ job.cmd.name \in Roles
            \/ job.cmd.action \in DatabaseActions /\ job.cmd.name \in Databases
  <1>1. job.cmd \in Live
    <2>1. CASE job.at \in {"run", "report"}
      <3>1. queue \in Seq(Commands) /\ queue # <<>> /\ job.cmd = queue[1]
        BY <2>1 DEF BaseInv, JobInv, QueueInv
      <3>2. 1 \in DOMAIN queue
        BY <3>1
      <3> QED
        BY <3>1, <3>2 DEF Live
    <2>2. CASE job.at \in {"handle", "grant"}
      BY <2>2 DEF Live
    <2> QED
      BY <2>1, <2>2
  <1>2. Sound(job.cmd, Len(ops)) /\ job.cmd \in Commands
    BY <1>1, LiveSound DEF BaseInv
  <1> QED
    BY <1>1, <1>2 DEF Sound, Commands

LEMMA RunRoleStep ==
  ASSUME ManagedInv, BaseInv', job.at = "run", job.cmd.action \in RoleActions, Live' = Live,
         UNCHANGED <<role, database, pgDatabase, cut, revived>>,
         \A x \in Roles : x # job.cmd.name => pgRole'[x] = pgRole[x],
         pgRole[job.cmd.name] = None /\ ~EnsuresRole(job.cmd) => pgRole'[job.cmd.name] = None
  PROVE  ManagedInv'
  <1>1. PICK r \in Roles : r = job.cmd.name
    BY JobLive, ManagedAssumption DEF ManagedInv, RoleActions, DatabaseActions
  <1>2. job.cmd \in Live
    BY JobLive DEF ManagedInv
  <1>3. RoleInv(r)'
    BY <1>1, <1>2, RoleRuns DEF ManagedInv
  <1>4. (\A x \in Roles \ {r} : RoleInv(x)') /\ (\A d \in Databases : DatabaseInv(d)')
    BY <1>1, ElsewhereRole
  <1>5. GrantInv'
    BY GrantsKept DEF ManagedInv
  <1> QED
    BY <1>3, <1>4, <1>5 DEF ManagedInv

LEMMA ExecuteStep ==
  ASSUME ManagedInv, Execute
  PROVE  ManagedInv'
  <1>1. /\ job.at = "run" /\ Possible(job.cmd)
        /\ pgRole' = RolesAfter(job.cmd) /\ pgDatabase' = DatabasesAfter(job.cmd)
        /\ UNCHANGED <<role, database, cut, revived>>
    BY DEF Execute, rows
  <1>2. BaseInv' /\ Live' = Live
    BY ExecuteBase DEF ManagedInv
  <1>3. CASE job.cmd.action \in RoleActions
    <2>1. job.cmd.name \in Roles
      BY <1>1, <1>3, JobLive DEF ManagedInv, RoleActions, DatabaseActions
    <2>2. pgDatabase' = pgDatabase
      BY <1>1, <1>3 DEF DatabasesAfter, RoleActions
    <2>3. \A x \in Roles : x # job.cmd.name => pgRole'[x] = pgRole[x]
      BY <1>1 DEF RolesAfter, ManagedInv, BaseInv, ServerInv
    <2>4. ASSUME pgRole[job.cmd.name] = None, ~EnsuresRole(job.cmd) PROVE pgRole'[job.cmd.name] = None
      <3>1. job.cmd.action # "pg_rotate_role_password"
        BY <1>1, <2>4 DEF Possible, RolePossible, RoleActions
      <3>2. job.cmd.action = "pg_drop_role"
        BY <1>3, <2>4, <3>1 DEF RoleActions, EnsuresRole
      <3> QED
        BY <1>1, <2>1, <3>2 DEF RolesAfter, ManagedInv, BaseInv, ServerInv
    <2> QED
      BY <1>1, <1>2, <1>3, <2>2, <2>3, <2>4, RunRoleStep
  <1>4. CASE job.cmd.action \in DatabaseActions
    <2>0. job.cmd \in Live
      BY <1>1, JobLive DEF ManagedInv
    <2>1. PICK d \in Databases : d = job.cmd.name
      BY <1>1, <1>4, JobLive DEF ManagedInv, RoleActions, DatabaseActions
    <2>2. pgRole' = pgRole
      BY <1>1, <1>4 DEF RolesAfter, DatabaseActions
    <2>3. \A x \in Databases \ {d} : pgDatabase'[x] = pgDatabase[x]
      BY <1>1, <2>1 DEF DatabasesAfter, ManagedInv, BaseInv, ServerInv
    <2>4. EnsuresDatabase(job.cmd) \/ pgDatabase'[d] = pgDatabase[d]
            \/ (DropsDatabase(job.cmd) /\ pgDatabase'[d] = None)
      BY <1>1, <2>1 DEF DatabasesAfter, ManagedInv, BaseInv, ServerInv, EnsuresDatabase, DropsDatabase
    <2>5. DatabaseInv(d)'
      BY <1>1, <1>2, <2>0, <2>1, <2>4, DatabaseRuns DEF ManagedInv
    <2>6. (\A r \in Roles : RoleInv(r)') /\ (\A x \in Databases \ {d} : DatabaseInv(x)')
      BY <1>1, <1>2, <2>2, <2>3, ElsewhereDatabase
    <2>7. GrantInv'
      BY <1>2, GrantsKept DEF ManagedInv
    <2> QED
      BY <1>2, <2>5, <2>6, <2>7 DEF ManagedInv
  <1> QED
    BY <1>1, <1>3, <1>4, JobLive DEF ManagedInv

LEMMA ExecuteFailsStep ==
  ASSUME ManagedInv, ExecuteFails
  PROVE  ManagedInv'
  <1>1. job.at = "run" /\ UNCHANGED <<role, database, pgDatabase, cut, revived>>
    BY DEF ExecuteFails, rows
  <1>2. BaseInv' /\ Live' = Live
    BY ExecuteFailsBase DEF ManagedInv
  <1>3. CASE pgRole' = pgRole
    BY <1>1, <1>2, <1>3, Elsewhere
  <1>4. CASE /\ job.cmd.action = "pg_ensure_role"
             /\ pgRole' = [pgRole EXCEPT ![job.cmd.name] = IF @ = None THEN 0 ELSE @]
    <2>1. \A x \in Roles : x # job.cmd.name => pgRole'[x] = pgRole[x]
      BY <1>4 DEF ManagedInv, BaseInv, ServerInv
    <2>2. EnsuresRole(job.cmd) /\ job.cmd.action \in RoleActions
      BY <1>4 DEF EnsuresRole, RoleActions
    <2> QED
      BY <1>1, <1>2, <2>1, <2>2, RunRoleStep
  <1> QED
    BY <1>3, <1>4 DEF ExecuteFails

LEMMA HandleRoleStep ==
  ASSUME ManagedInv, HandleRoleResult
  PROVE  ManagedInv'
  <1>1. /\ BaseInv' /\ Live' = Live \ {job.cmd} /\ SameDatabases /\ job.cmd.name \in Roles
        /\ role' = [role EXCEPT ![job.cmd.name] = RoleAfter(job.cmd.name)]
    BY HandleRoleBase DEF ManagedInv
  <1>2. PICK r \in Roles : r = job.cmd.name
    BY <1>1
  <1>3. UNCHANGED <<pgRole, pgDatabase, cut, revived>>
    BY DEF HandleRoleResult, server
  <1>4. RoleInv(r)'
    BY <1>2, HandleRoleRole DEF ManagedInv
  <1>5. \A x \in Roles \ {r} : role'[x] = role[x]
    BY <1>1, <1>2 DEF ManagedInv, BaseInv, RowInv
  <1>6. (\A x \in Roles \ {r} : RoleInv(x)') /\ (\A d \in Databases : DatabaseInv(d)')
    BY <1>1, <1>2, <1>3, <1>5, ElsewhereRole
  <1>7. GrantInv'
    BY <1>1, GrantsKept DEF ManagedInv
  <1> QED
    BY <1>1, <1>4, <1>6, <1>7 DEF ManagedInv

LEMMA DatabaseAppliedStep ==
  ASSUME ManagedInv, NEW s \in Outcomes, DatabaseApplied(s), HistoryInv',
         s = "failed" \/ (s = Outcome /\ job.at = "handle")
  PROVE  ManagedInv'
  <1>1. BaseInv' /\ Live' = Live \ {job.cmd} /\ job.cmd.name \in Databases
    BY DatabaseAppliedBase DEF ManagedInv
  <1>2. PICK d \in Databases : d = job.cmd.name
    BY <1>1
  <1>3. UNCHANGED <<role, pgRole, pgDatabase, cut, revived>>
    BY DEF DatabaseApplied
  <1>4. DatabaseInv(d)'
    BY <1>2, DatabaseAppliedDatabase DEF ManagedInv
  <1>5. \A x \in Databases \ {d} : database'[x] = database[x]
    BY <1>2 DEF DatabaseApplied, ManagedInv, BaseInv, RowInv
  <1>6. (\A r \in Roles : RoleInv(r)') /\ (\A x \in Databases \ {d} : DatabaseInv(x)')
    BY <1>1, <1>2, <1>3, <1>5, ElsewhereDatabase
  <1>7. GrantInv'
    BY <1>1, GrantsKept DEF ManagedInv
  <1> QED
    BY <1>1, <1>4, <1>6, <1>7 DEF ManagedInv

LEMMA HandleDatabaseStep ==
  ASSUME ManagedInv, HandleDatabaseResult
  PROVE  ManagedInv'
  <1>1. CASE WaitsForGrant
    <2>1. BaseInv' /\ Live' = Live
      BY <1>1, WaitsForGrantBase DEF ManagedInv
    <2>2. UNCHANGED <<role, database, pgRole, pgDatabase, cut, revived>>
      BY <1>1 DEF WaitsForGrant, rows, server
    <2> QED
      BY <2>1, <2>2, Elsewhere
  <1>2. CASE DatabaseApplied(Outcome) /\ Outcome \in Outcomes /\ job.at = "handle" /\ HistoryInv'
    BY <1>2, DatabaseAppliedStep
  <1> QED
    BY <1>1, <1>2, HandleDatabaseCases DEF ManagedInv

LEMMA QueueGrantStep ==
  ASSUME ManagedInv, QueueGrantCommand
  PROVE  ManagedInv'
  <1>1. /\ job.at = "grant" /\ UNCHANGED <<role, database, pgRole, pgDatabase, cut, revived>>
    BY DEF QueueGrantCommand, server
  <1>2. BaseInv' /\ Live' = (Live \ {job.cmd}) \cup {GrantCommand}
    BY QueueGrantBase DEF ManagedInv
  <1>3. Grants(GrantCommand) /\ GrantCommand.name = job.cmd.name /\ EnsuresDatabase(job.cmd)
    BY <1>1, GrantSound DEF ManagedInv, BaseInv, JobInv
  <1>4. PICK d \in Databases : d = job.cmd.name
    BY <1>1, <1>3, JobLive DEF ManagedInv, RoleActions, DatabaseActions, EnsuresDatabase
  <1>5. \A c : ~Grants(c) => (c \in Live' <=> c \in Live /\ c # job.cmd)
    BY <1>2, <1>3
  <1>6. DatabaseInv(d)'
    BY <1>1, <1>3, <1>4, <1>5, DatabaseLeaves DEF ManagedInv
  <1>7. \A c : c.name # d => (c \in Live <=> c \in Live')
    BY <1>2, <1>3, <1>4
  <1>8. (\A r \in Roles : RoleInv(r)') /\ (\A x \in Databases \ {d} : DatabaseInv(x)')
    BY <1>1, <1>7, ElsewhereDatabase
  <1>9. GrantInv'
    BY GrantsQueued DEF ManagedInv
  <1> QED
    BY <1>2, <1>6, <1>8, <1>9 DEF ManagedInv

LEMMA CutHandlerStep ==
  ASSUME ManagedInv, CutHandler
  PROVE  ManagedInv'
  <1>1. /\ job.at \in {"handle", "grant", "secrets"} /\ cut' = TRUE
        /\ UNCHANGED <<role, database, pgRole, pgDatabase, revived>>
    BY DEF CutHandler, rows, server
  <1>2. BaseInv' /\ Live' = (IF job.at = "secrets" THEN Live ELSE Live \ {job.cmd})
    BY CutHandlerBase DEF ManagedInv
  <1>3. GrantInv'
    BY <1>2, GrantsKept DEF ManagedInv
  <1>4. CASE job.at = "secrets"
    <2>1. ASSUME NEW r \in Roles PROVE RoleInv(r)'
      BY <1>1, <1>2, <1>4, RoleQuiet DEF ManagedInv
    <2>2. ASSUME NEW d \in Databases PROVE DatabaseInv(d)'
      BY <1>1, <1>2, <1>4, DatabaseQuiet DEF ManagedInv
    <2> QED
      BY <1>2, <1>3, <2>1, <2>2 DEF ManagedInv
  <1>5. CASE job.at \in {"handle", "grant"} /\ job.cmd.name \in Roles
    <2>1. PICK r \in Roles : r = job.cmd.name
      BY <1>5
    <2>2. Live' = Live \ {job.cmd}
      BY <1>2, <1>5
    <2>3. RoleInv(r)'
      BY <1>1, <1>5, <2>1, <2>2, RoleCut DEF ManagedInv
    <2>4. (\A x \in Roles \ {r} : RoleInv(x)') /\ (\A d \in Databases : DatabaseInv(d)')
      BY <1>1, <2>1, <2>2, ElsewhereRole
    <2> QED
      BY <1>2, <1>3, <2>3, <2>4 DEF ManagedInv
  <1>6. CASE job.at \in {"handle", "grant"} /\ job.cmd.name \in Databases
    <2>1. PICK d \in Databases : d = job.cmd.name
      BY <1>6
    <2>2. Live' = Live \ {job.cmd}
      BY <1>2, <1>6
    <2>3. DatabaseInv(d)'
      BY <1>1, <1>6, <2>1, <2>2, DatabaseLeaves DEF ManagedInv
    <2>4. (\A r \in Roles : RoleInv(r)') /\ (\A x \in Databases \ {d} : DatabaseInv(x)')
      BY <1>1, <2>1, <2>2, ElsewhereDatabase
    <2> QED
      BY <1>2, <1>3, <2>3, <2>4 DEF ManagedInv
  <1> QED
    BY <1>1, <1>4, <1>5, <1>6, JobLive DEF ManagedInv

-----------------------------------------------------------------------------
(* Results.                                                                *)

LEMMA InitManaged == Init => ManagedInv
  <1> SUFFICES ASSUME Init PROVE ManagedInv
    OBVIOUS
  <1>1. BaseInv
    BY InitBase
  <1>2. Live = {} /\ job.at = "idle"
    BY DEF Init, Live, NoJob
  <1>3. GrantInv
    BY <1>2 DEF GrantInv
  <1>4. ASSUME NEW r \in Roles PROVE RoleInv(r)
    BY <1>2 DEF RoleInv, RoleGone, RoleReady, Init
  <1>5. ASSUME NEW d \in Databases PROVE DatabaseInv(d)
    BY <1>2 DEF DatabaseInv, DatabaseGone, DatabaseReady, Init
  <1> QED
    BY <1>1, <1>3, <1>4, <1>5 DEF ManagedInv

LEMMA ManagedStep ==
  ASSUME ManagedInv, [Next]_vars
  PROVE  ManagedInv'
  <1>1. ASSUME NEW r \in Roles, CreateRole(r) PROVE ManagedInv'
    BY <1>1, CreateRoleStep
  <1>2. ASSUME NEW r \in Roles, RotateRolePassword(r) PROVE ManagedInv'
    BY <1>2, RotateRoleStep
  <1>3. ASSUME NEW q \in Requests,
               \/ \E r \in Roles : BeginDeleteRole(q, r)
               \/ \E d \in Databases : BeginDeleteDatabase(q, d)
               \/ \E d \in Databases, r \in Roles \cup {None} : BeginCreateDatabase(q, d, r)
               \/ Refuse(q)
        PROVE  ManagedInv'
    <2>1. BaseInv' /\ Live' = Live /\ UNCHANGED <<rows, server, job, cut, revived, faults>>
      BY <1>3, RequestsBase DEF ManagedInv
    <2> QED
      BY <2>1, Elsewhere DEF rows, server
  <1>4. ASSUME NEW q \in Requests, Commit(q) PROVE ManagedInv'
    BY <1>4, CommitDeleteRoleStep, CommitCreateDatabaseStep, CommitDeleteDatabaseStep DEF Commit
  <1>5. CASE FetchCommand
    <2>1. BaseInv' /\ Live' = Live
      BY <1>5, FetchBase DEF ManagedInv
    <2> QED
      BY <1>5, <2>1, Elsewhere DEF FetchCommand, rows, server
  <1>6. CASE Execute
    BY <1>6, ExecuteStep
  <1>7. CASE Refused
    <2>1. BaseInv' /\ Live' = Live
      BY <1>7, RefusedBase DEF ManagedInv
    <2> QED
      BY <1>7, <2>1, Elsewhere DEF Refused, rows, server
  <1>8. CASE UpdateResult
    <2>1. BaseInv' /\ Live' = Live
      BY <1>8, UpdateResultBase DEF ManagedInv
    <2> QED
      BY <1>8, <2>1, Elsewhere DEF UpdateResult, server
  <1>9. CASE HandleRoleResult
    BY <1>9, HandleRoleStep
  <1>10. CASE HandleDatabaseResult
    BY <1>10, HandleDatabaseStep
  <1>11. CASE QueueGrantCommand
    BY <1>11, QueueGrantStep
  <1>12. CASE DeleteSecrets
    <2>1. BaseInv' /\ Live' = Live
      BY <1>12, DeleteSecretsBase DEF ManagedInv
    <2> QED
      BY <1>12, <2>1, Elsewhere DEF DeleteSecrets, server
  <1>13. CASE ExecuteFails
    BY <1>13, ExecuteFailsStep
  <1>14. CASE LoseResult
    <2>1. BaseInv' /\ Live' = Live
      BY <1>14, LoseResultBase DEF ManagedInv
    <2> QED
      BY <1>14, <2>1, Elsewhere DEF LoseResult, rows, server
  <1>15. CASE MarkCreateFailed
    BY <1>15, MarkCreateFailedIs, DatabaseAppliedStep DEF ManagedInv
  <1>16. CASE CutHandler
    BY <1>16, CutHandlerStep
  <1>17. CASE UNCHANGED vars
    <2>1. UNCHANGED <<role, database, ops, queue, secrets, pgRole, pgDatabase, job, req, cut, revived, faults>>
      BY <1>17 DEF vars, rows, server
    <2>2. Live' = Live
      BY <2>1 DEF Live
    <2>3. RowInv' /\ ServerInv' /\ RequestInv' /\ HistoryInv' /\ QueueInv'
      BY <2>1, Untouched DEF ManagedInv
    <2>4. JobInv' /\ SecretInv'
      BY <2>1 DEF ManagedInv, BaseInv, JobInv, SecretInv, Effect
    <2> QED
      BY <2>1, <2>2, <2>3, <2>4, Elsewhere DEF BaseInv
  <1> QED
    BY <1>1, <1>2, <1>3, <1>4, <1>5, <1>6, <1>7, <1>8, <1>9, <1>10, <1>11, <1>12, <1>13, <1>14,
       <1>15, <1>16, <1>17 DEF Next, Agent, Handler

LEMMA ManagedInvariant == Spec => []ManagedInv
  BY InitManaged, ManagedStep, PTL DEF Spec

\* The managed objects' rows, the server's objects and the requests under way keep
\* their types, for any number of roles, databases and requests.
THEOREM ManagedTypeCorrect == Spec => []TypeOK
  <1>1. ManagedInv => TypeOK
    <2> SUFFICES ASSUME BaseInv PROVE TypeOK
      BY DEF ManagedInv
    <2>1. ops \in Seq({"running", "succeeded", "failed"}) /\ Len(ops) <= MaxOps
      BY DEF BaseInv, RowInv, OpStates
    <2>2. \A q \in Requests : req[q] = None \/ req[q].kind \in {"drop_role", "create_database", "drop_database"}
      BY DEF BaseInv, RequestInv, Reqs, Kinds
    <2>3. job \in [at : {"idle", "run", "report", "handle", "grant", "secrets"},
                   cmd : Commands \cup {None}, ok : BOOLEAN]
      BY DEF BaseInv, JobInv, Phases
    <2>4. /\ role \in [Roles -> {None} \cup RoleRows] /\ database \in [Databases -> {None} \cup DatabaseRows]
          /\ queue \in Seq(Commands) /\ secrets \subseteq Commands
      BY DEF BaseInv, RowInv, QueueInv, SecretInv
    <2>5. /\ pgRole \in [Roles -> {None} \cup 0..MaxOps]
          /\ pgDatabase \in [Databases -> {None, "admin"} \cup Roles]
          /\ cut \in BOOLEAN /\ revived \subseteq Roles /\ faults \in 0..MaxFaults
      BY DEF BaseInv, ServerInv, HistoryInv
    <2> QED
      BY <2>1, <2>2, <2>3, <2>4, <2>5 DEF TypeOK
  <1> QED
    BY <1>1, ManagedInvariant, PTL

\* A command that is handed out again still has its secrets, and they are gone
\* once its result is handled, whatever is queued, lost or repeated meanwhile.
THEOREM SecretsFollowHolds == Spec => []SecretsFollowCommands
  <1>1. ManagedInv => SecretsFollowCommands
    BY DEF ManagedInv, BaseInv, SecretInv, SecretsFollowCommands
  <1> QED
    BY <1>1, ManagedInvariant, PTL

\* A role shown as ready accepts the password that its operator was last given,
\* and a ready database exists, for any sequence of requests, failures, lost
\* results and repeated executions.
THEOREM ReadyIsUsableHolds == Spec => []ReadyIsUsable
  <1>1. ManagedInv => ReadyIsUsable
    <2> SUFFICES ASSUME ManagedInv, ~cut PROVE ReadyIsUsable
      BY DEF ReadyIsUsable
    <2>1. ASSUME NEW name, Settled(name), NEW c \in Live PROVE c.name # name
      BY <2>1 DEF Settled, Live
    <2>2. ASSUME NEW r \in Roles, role[r] # None, Settled(r), role[r].status = "ready"
          PROVE  pgRole[r] = role[r].password
      BY <2>1, <2>2 DEF ManagedInv, RoleInv, RoleReady, SetsPassword
    <2>3. ASSUME NEW d \in Databases, database[d] # None, Settled(d), database[d].status = "ready"
          PROVE  pgDatabase[d] # None
      BY <2>1, <2>3 DEF ManagedInv, DatabaseInv, DatabaseReady
    <2> QED
      BY <2>2, <2>3 DEF ReadyIsUsable, ListRoles, ListDatabases
  <1> QED
    BY <1>1, ManagedInvariant, PTL

\* What has no row is not left on the server, unless a role's creation was
\* retried while its drop was pending, and however handlers were cut short.
THEOREM GoneIsDroppedHolds == Spec => []GoneIsDropped
  <1>1. ManagedInv => GoneIsDropped
    BY DEF ManagedInv, RoleInv, RoleGone, DatabaseInv, DatabaseGone, GoneIsDropped, ListRoles, ListDatabases
  <1> QED
    BY <1>1, ManagedInvariant, PTL

=============================================================================
