--------------------------- MODULE ManagedObjects ---------------------------
(***************************************************************************)
(* Roles and databases managed on the primary of a cluster with replicas:  *)
(* the requests of internal/server/postgres_management_service.go, the     *)
(* transactions of internal/db/managed_role_repo.go and                    *)
(* managed_database_repo.go, the agent's executors and the handler of      *)
(* their results.                                                          *)
(*                                                                         *)
(* A request checks what it has read, takes the cluster's lock and runs    *)
(* one transaction that changes a row and inserts an operation, a command  *)
(* and the command's secrets.  The lock covers the transaction and not     *)
(* always the check; results are handled without it.  The primary stays    *)
(* the same: the failover of a primary with commands pending belongs to    *)
(* Failover.                                                               *)
(***************************************************************************)
EXTENDS Integers, Sequences, FiniteSets

CONSTANTS
  Roles,        \* role names
  Databases,    \* database names
  Requests,     \* API requests that can be under way at the same time
  ForeignKeys,  \* whether the store enforces foreign keys: TRUE for PostgreSQL;
                \* SQLite does not, unless a migration has just switched it on
  None,
  MaxOps,       \* bound: operations accepted
  MaxFaults     \* bound: failing commands, lost results, handlers cut short

OpIDs == 1..MaxOps
Statuses == {"pending", "ready", "failed", "deleting"}
RoleRows == [id : OpIDs, status : Statuses, password : OpIDs]
DatabaseRows == [id : OpIDs, status : Statuses, owner : 0..MaxOps]

ASSUME ManagedAssumption ==
  /\ Roles \cap Databases = {}
  /\ None \notin Roles \cup Databases \cup {"admin"} \cup RoleRows \cup DatabaseRows
  /\ ForeignKeys \subseteq BOOLEAN
  /\ {MaxOps, MaxFaults} \subseteq Nat

VARIABLES
  role,      \* managed_roles by name: id, status and the operation that made
             \* the stored password; or None
  database,  \* managed_databases by name: id, status, owner_role_id; or None
  ops,       \* service_operations: the status of the accepted operations
  queue,     \* the pending commands of the primary, oldest first
  secrets,   \* commands with rows in agent_command_secrets
  pgRole,    \* roles on the server: the operation whose password is set, 0 when
             \* none is; or None
  pgDatabase,\* databases on the server: the owner, "admin" by default; or None
  job,       \* the command the agent executes or reports
  req,       \* per request, what it has checked and will commit, or None
  cut,       \* history: a result handler did not finish
  revived,   \* history: roles created again while their drop was pending
  faults     \* bound used

rows == <<role, database, ops, queue, secrets>>
server == <<pgRole, pgDatabase>>
vars == <<rows, server, job, req, cut, revived, faults>>

RoleActions == {"pg_ensure_role", "pg_rotate_role_password", "pg_drop_role"}
DatabaseActions == {"pg_ensure_database", "pg_grant_database_privileges", "pg_drop_database"}

\* A command: the operation and the row it belongs to, the names it carries.
Commands == [op : OpIDs, action : RoleActions \cup DatabaseActions,
             name : Roles \cup Databases, id : OpIDs, owner : Roles \cup {None}]

NoJob == [at |-> "idle", cmd |-> None, ok |-> FALSE]
Fault == faults < MaxFaults /\ faults' = faults + 1

Init ==
  /\ role = [r \in Roles |-> None]
  /\ database = [d \in Databases |-> None]
  /\ ops = <<>>
  /\ queue = <<>>
  /\ secrets = {}
  /\ pgRole = [r \in Roles |-> None]
  /\ pgDatabase = [d \in Databases |-> None]
  /\ job = NoJob
  /\ req = [q \in Requests |-> None]
  /\ cut = FALSE
  /\ revived = {}
  /\ faults = 0

-----------------------------------------------------------------------------
(* Requests.                                                               *)

\* The next operation's id; it also names the row or the password it creates.
NewID == Len(ops) + 1

\* insertServiceOperation, insertAgentCommand and insertCommandSecret.
Accept(action, name, id, owner) ==
  LET cmd == [op |-> NewID, action |-> action, name |-> name, id |-> id, owner |-> owner]
  IN /\ NewID \in OpIDs
     /\ ops' = Append(ops, "running")
     /\ queue' = Append(queue, cmd)
     /\ secrets' = secrets \cup {cmd}
     /\ UNCHANGED <<server, job, cut, faults>>

\* A drop of the role is queued, executed or about to delete the row.
DropPending(r) ==
  \E c \in {queue[i] : i \in DOMAIN queue} \cup (IF job.at = "idle" THEN {} ELSE {job.cmd}) :
    c.action = "pg_drop_role" /\ c.name = r

\* The row a creation inserts ...
CreateWithCommand == [id |-> NewID, status |-> "pending", password |-> NewID]

\* Mutant: the retry keeps the stored password.
RetryKeepsPassword(r) == [role[r] EXCEPT !.status = "pending"]

\* ... and the row of a failed role used again, with a new password.
RetryCreateWithCommand(r) == [role[r] EXCEPT !.status = "pending", !.password = NewID]

\* CreateRole holds the lock over its check.
CreateRole(r) ==
  /\ \/ /\ role[r] = None
        /\ role' = [role EXCEPT ![r] = CreateWithCommand]
     \/ /\ role[r] # None /\ role[r].status = "failed"
        /\ role' = [role EXCEPT ![r] = RetryCreateWithCommand(r)]
  /\ Accept("pg_ensure_role", r, role'[r].id, None)
  /\ revived' = revived \cup (IF DropPending(r) THEN {r} ELSE {})
  /\ UNCHANGED <<database, req>>

\* The transaction of a rotation refuses a role that is being deleted.
RotateWithCommand(r) ==
  /\ role[r] # None /\ role[r].status # "deleting"
  /\ role' = [role EXCEPT ![r].status = "pending", ![r].password = NewID]

RotateRolePassword(r) ==
  /\ RotateWithCommand(r)
  /\ Accept("pg_rotate_role_password", r, role[r].id, None)
  /\ UNCHANGED <<database, req, revived>>

HasByOwnerRole(id) ==
  \E d \in Databases : /\ database[d] # None
                       /\ database[d].owner = id /\ database[d].status # "deleting"

\* The checks made before the lock is taken.
Begin(q, kind, name, id, owner) ==
  /\ req[q] = None
  /\ req' = [req EXCEPT ![q] = [kind |-> kind, name |-> name, id |-> id, owner |-> owner]]
  /\ UNCHANGED <<rows, server, job, cut, revived, faults>>

BeginDeleteRole(q, r) ==
  /\ role[r] # None /\ role[r].status # "deleting"
  /\ ~HasByOwnerRole(role[r].id)
  /\ Begin(q, "drop_role", r, role[r].id, None)

BeginCreateDatabase(q, d, owner) ==
  /\ owner # None => role[owner] # None /\ role[owner].status = "ready"
  /\ Begin(q, "create_database", d, IF owner = None THEN 0 ELSE role[owner].id, owner)

BeginDeleteDatabase(q, d) ==
  /\ database[d] # None /\ database[d].status # "deleting"
  /\ Begin(q, "drop_database", d, database[d].id, None)

Committing(q, kind) ==
  /\ req[q] # None /\ req[q].kind = kind
  /\ req' = [req EXCEPT ![q] = None]

\* DeleteWithCommand looks for the row and not at its status: two requests
\* that passed the check queue two commands.
CommitDeleteRole(q) ==
  /\ Committing(q, "drop_role")
  /\ LET r == req[q].name IN
       /\ role[r] # None /\ role[r].id = req[q].id
       /\ role' = [role EXCEPT ![r].status = "deleting"]
       /\ Accept("pg_drop_role", r, req[q].id, None)
  /\ UNCHANGED <<database, revived>>

CommitCreateDatabase(q) ==
  /\ Committing(q, "create_database")
  /\ LET d == req[q].name IN
       /\ database[d] = None
       /\ \E enforced \in ForeignKeys :
            enforced /\ req[q].owner # None =>
              role[req[q].owner] # None /\ role[req[q].owner].id = req[q].id
       /\ database' = [database EXCEPT ![d] =
                         [id |-> NewID, status |-> "pending", owner |-> req[q].id]]
       /\ Accept("pg_ensure_database", d, NewID, req[q].owner)
  /\ UNCHANGED <<role, revived>>

CommitDeleteDatabase(q) ==
  /\ Committing(q, "drop_database")
  /\ LET d == req[q].name IN
       /\ database[d] # None /\ database[d].id = req[q].id
       /\ database' = [database EXCEPT ![d].status = "deleting"]
       /\ Accept("pg_drop_database", d, req[q].id, None)
  /\ UNCHANGED <<role, revived>>

\* The transaction fails (the row is gone, the name is taken), or the request ends.
Refuse(q) ==
  /\ req[q] # None
  /\ req' = [req EXCEPT ![q] = None]
  /\ UNCHANGED <<rows, server, job, cut, revived, faults>>

-----------------------------------------------------------------------------
(* The agent.                                                              *)

\* ListPendingLimit with limit 1: ORDER BY created_at.
NextCommand == Head(queue)

\* Mutant: the secrets are deleted when they are handed out.
FetchCommandOnce ==
  /\ job.at = "idle" /\ queue # <<>>
  /\ job' = [at |-> "run", cmd |-> NextCommand, ok |-> FALSE]
  /\ secrets' = secrets \ {NextCommand}
  /\ UNCHANGED <<role, database, ops, queue, server, req, cut, revived, faults>>

\* The command comes with its secrets; both stay where they are.
FetchCommand ==
  /\ job.at = "idle" /\ queue # <<>>
  /\ job' = [at |-> "run", cmd |-> NextCommand, ok |-> FALSE]
  /\ UNCHANGED <<rows, server, req, cut, revived, faults>>

\* What the executors need: the password's secret and a role to rotate, a role
\* that owns nothing to drop, ...
RolePossible(c) ==
  CASE c.action = "pg_ensure_role" -> c \in secrets
    [] c.action = "pg_rotate_role_password" -> c \in secrets /\ pgRole[c.name] # None
    [] c.action = "pg_drop_role" -> \A d \in Databases : pgDatabase[d] # c.name

\* ... the owner of a database, the database of a grant.
DatabasePossible(c) ==
  CASE c.action = "pg_ensure_database" -> c.owner # None => pgRole[c.owner] # None
    [] c.action = "pg_grant_database_privileges" ->
         pgDatabase[c.name] # None /\ pgRole[c.owner] # None
    [] c.action = "pg_drop_database" -> TRUE

Possible(c) == IF c.action \in RoleActions THEN RolePossible(c) ELSE DatabasePossible(c)

RolesAfter(c) ==
  CASE c.action \in {"pg_ensure_role", "pg_rotate_role_password"} ->
         [pgRole EXCEPT ![c.name] = c.op]
    [] c.action = "pg_drop_role" -> [pgRole EXCEPT ![c.name] = None]
    [] OTHER -> pgRole

\* EnsureDatabase converges the owner of a database that exists.
DatabasesAfter(c) ==
  CASE c.action = "pg_ensure_database" ->
         [pgDatabase EXCEPT ![c.name] = IF c.owner # None THEN c.owner
                                        ELSE IF @ = None THEN "admin" ELSE @]
    [] c.action = "pg_drop_database" -> [pgDatabase EXCEPT ![c.name] = None]
    [] OTHER -> pgDatabase

Execute ==
  /\ job.at = "run" /\ Possible(job.cmd)
  /\ pgRole' = RolesAfter(job.cmd)
  /\ pgDatabase' = DatabasesAfter(job.cmd)
  /\ job' = [job EXCEPT !.at = "report", !.ok = TRUE]
  /\ UNCHANGED <<rows, req, cut, revived, faults>>

Refused ==
  /\ job.at = "run" /\ ~Possible(job.cmd)
  /\ job' = [job EXCEPT !.at = "report"]
  /\ UNCHANGED <<rows, server, req, cut, revived, faults>>

\* A connection that fails, a timeout, secrets that expired or a server in
\* recovery.  EnsureRole may have created the role before it sets the password.
ExecuteFails ==
  /\ job.at = "run"
  /\ \/ UNCHANGED pgRole
     \/ /\ job.cmd.action = "pg_ensure_role"
        /\ pgRole' = [pgRole EXCEPT ![job.cmd.name] = IF @ = None THEN 0 ELSE @]
  /\ job' = [job EXCEPT !.at = "report"]
  /\ Fault
  /\ UNCHANGED <<rows, pgDatabase, req, cut, revived>>

\* The report does not arrive, or the agent ends: the command stays pending.
LoseResult ==
  /\ job.at = "report"
  /\ job' = NoJob
  /\ Fault
  /\ UNCHANGED <<rows, server, req, cut, revived>>

-----------------------------------------------------------------------------
(* ReportCommandResult.                                                    *)

\* The command is pending no more.
UpdateResult ==
  /\ job.at = "report"
  /\ \E i \in DOMAIN queue :
       /\ queue[i] = job.cmd
       /\ queue' = SubSeq(queue, 1, i - 1) \o SubSeq(queue, i + 1, Len(queue))
  /\ job' = [job EXCEPT !.at = "handle"]
  /\ UNCHANGED <<role, database, ops, secrets, server, req, cut, revived, faults>>

EndOperation == ops' = [ops EXCEPT ![job.cmd.op] = IF job.ok THEN "succeeded" ELSE "failed"]

\* Mutant: the result of a drop deletes the row whatever it is.
HandleRoleResultDeletes ==
  /\ job.at = "handle" /\ job.cmd.action \in RoleActions
  /\ LET r == job.cmd.name
         current == role[r] # None /\ role[r].id = job.cmd.id
     IN role' = [role EXCEPT ![r] =
                   IF ~current THEN @
                   ELSE IF job.cmd.action = "pg_drop_role" THEN None
                   ELSE [@ EXCEPT !.status = IF job.ok THEN "ready" ELSE "failed"]]
  /\ EndOperation
  /\ secrets' = secrets \ {job.cmd}
  /\ job' = [job EXCEPT !.at = "secrets"]
  /\ UNCHANGED <<database, queue, server, req, cut, revived, faults>>

\* ManagedRoleRepository.HandleCommandResult: the row with the command's id,
\* whatever its status.  An enforced foreign key clears the owner of databases.
HandleRoleResult ==
  /\ job.at = "handle" /\ job.cmd.action \in RoleActions
  /\ LET r == job.cmd.name
         current == role[r] # None /\ role[r].id = job.cmd.id
         dropped == job.ok /\ job.cmd.action = "pg_drop_role"
     IN /\ role' = [role EXCEPT ![r] =
                      IF ~current THEN @
                      ELSE IF dropped THEN None
                      ELSE [@ EXCEPT !.status = IF job.ok THEN "ready" ELSE "failed"]]
        /\ \E enforced \in ForeignKeys :
             database' = [d \in Databases |->
                            IF /\ enforced /\ dropped /\ database[d] # None
                               /\ database[d].owner = job.cmd.id
                              THEN [database[d] EXCEPT !.owner = 0] ELSE database[d]]
  /\ EndOperation
  /\ secrets' = secrets \ {job.cmd}
  /\ job' = [job EXCEPT !.at = "secrets"]
  /\ UNCHANGED <<queue, server, req, cut, revived, faults>>

\* Mutant: a dropped database keeps its row.
MarkDatabaseSoftly(s) ==
  LET d == job.cmd.name
      current == database[d] # None /\ database[d].id = job.cmd.id
  IN database' = [database EXCEPT ![d] = IF current THEN [@ EXCEPT !.status = s] ELSE @]

\* markDatabaseStatus for the row with the command's id.
MarkDatabase(s) ==
  LET d == job.cmd.name
      current == database[d] # None /\ database[d].id = job.cmd.id
  IN database' = [database EXCEPT ![d] = IF ~current THEN @
                                         ELSE IF s = "deleted" THEN None
                                         ELSE [@ EXCEPT !.status = s]]

\* Mutant: the grants of the owner, and with them the operation's end, are forgotten.
HandleDatabaseResultReady ==
  /\ job.at = "handle" /\ job.cmd.action \in DatabaseActions
  /\ MarkDatabase(CASE ~job.ok -> "failed"
                    [] job.ok /\ job.cmd.action = "pg_drop_database" -> "deleted"
                    [] OTHER -> "ready")
  /\ job' = [job EXCEPT !.at = "secrets"]
  /\ UNCHANGED <<role, ops, queue, secrets, server, req, cut, revived, faults>>

\* ManagedDatabaseRepository.HandleCommandResult: a database with an owner is
\* not finished before its grants are.
HandleDatabaseResult ==
  /\ job.at = "handle" /\ job.cmd.action \in DatabaseActions
  /\ IF job.ok /\ job.cmd.action = "pg_ensure_database" /\ job.cmd.owner # None
       THEN /\ job' = [job EXCEPT !.at = "grant"]
            /\ UNCHANGED <<database, ops>>
       ELSE /\ MarkDatabase(CASE ~job.ok -> "failed"
                              [] job.ok /\ job.cmd.action = "pg_drop_database" -> "deleted"
                              [] OTHER -> "ready")
            /\ EndOperation
            /\ job' = [job EXCEPT !.at = "secrets"]
  /\ UNCHANGED <<role, queue, secrets, server, req, cut, revived, faults>>

\* handleDatabaseManagementCommandResult queues the grant behind whatever is
\* pending by now ...
QueueGrantCommand ==
  /\ job.at = "grant"
  /\ LET cmd == [job.cmd EXCEPT !.action = "pg_grant_database_privileges"] IN
       /\ queue' = Append(queue, cmd)
       /\ secrets' = secrets \cup {cmd}
  /\ job' = [job EXCEPT !.at = "secrets"]
  /\ UNCHANGED <<role, database, ops, server, req, cut, revived, faults>>

\* ... or gives up: the primary is not ready any more or the insert failed.
MarkCreateFailed ==
  /\ job.at = "grant"
  /\ MarkDatabase("failed")
  /\ ops' = [ops EXCEPT ![job.cmd.op] = "failed"]
  /\ job' = [job EXCEPT !.at = "secrets"]
  /\ Fault
  /\ UNCHANGED <<role, queue, secrets, server, req, cut, revived>>

\* The deferred DeleteForCommand.
DeleteSecrets ==
  /\ job.at = "secrets"
  /\ secrets' = secrets \ {job.cmd}
  /\ job' = NoJob
  /\ UNCHANGED <<role, database, ops, queue, server, req, cut, revived, faults>>

\* A transaction of the handler fails, and the deferred deletion still runs, or
\* the handler ends with its client or the server.
CutHandler ==
  /\ job.at \in {"handle", "grant", "secrets"}
  /\ cut' = TRUE
  /\ \/ job.at # "secrets" /\ job' = [job EXCEPT !.at = "secrets"]
     \/ job' = NoJob
  /\ Fault
  /\ UNCHANGED <<rows, server, req, revived>>

-----------------------------------------------------------------------------
Handler ==
  \/ UpdateResult \/ HandleRoleResult \/ HandleDatabaseResult \/ QueueGrantCommand
  \/ DeleteSecrets

Agent == FetchCommand \/ Execute \/ Refused \/ Handler

Commit(q) == CommitDeleteRole(q) \/ CommitCreateDatabase(q) \/ CommitDeleteDatabase(q)

Next ==
  \/ \E r \in Roles : CreateRole(r) \/ RotateRolePassword(r)
  \/ \E q \in Requests :
       \/ \E r \in Roles : BeginDeleteRole(q, r)
       \/ \E d \in Databases : BeginDeleteDatabase(q, d)
       \/ \E d \in Databases, r \in Roles \cup {None} : BeginCreateDatabase(q, d, r)
       \/ Commit(q) \/ Refuse(q)
  \/ Agent
  \/ ExecuteFails \/ LoseResult \/ MarkCreateFailed \/ CutHandler

Spec == Init /\ [][Next]_vars

\* The agent's command loop and the handler of its report go on.
FairSpec == Spec /\ WF_vars(Agent)

-----------------------------------------------------------------------------
\* The rows, the server's objects and the requests under way keep their types;
\* a row's id and password name an accepted operation.
TypeOK ==
  /\ role \in [Roles -> {None} \cup RoleRows]
  /\ database \in [Databases -> {None} \cup DatabaseRows]
  /\ ops \in Seq({"running", "succeeded", "failed"}) /\ Len(ops) <= MaxOps
  /\ queue \in Seq(Commands)
  /\ secrets \subseteq Commands
  /\ pgRole \in [Roles -> {None} \cup 0..MaxOps]
  /\ pgDatabase \in [Databases -> {None, "admin"} \cup Roles]
  /\ job \in [at : {"idle", "run", "report", "handle", "grant", "secrets"},
              cmd : Commands \cup {None}, ok : BOOLEAN]
  /\ \A q \in Requests : req[q] = None \/ req[q].kind \in {"drop_role", "create_database", "drop_database"}
  /\ cut \in BOOLEAN /\ revived \subseteq Roles /\ faults \in 0..MaxFaults

\* What the operator is shown.
ListRoles == {r \in Roles : role[r] # None}
ListDatabases == {d \in Databases : database[d] # None}

\* No command for the object is pending, executed or handled.
Settled(name) ==
  /\ \A i \in DOMAIN queue : queue[i].name # name
  /\ job.at # "idle" => job.cmd.name # name

\* ReadyIsUsable: once the commands of a role are worked off, a role that says
\* ready accepts the one-time password its last creation, retry or rotation
\* returned, and a ready database exists, however operations, failures, lost
\* results and repeated executions followed each other.
ReadyIsUsable ==
  ~cut =>
    /\ \A r \in ListRoles : Settled(r) /\ role[r].status = "ready" => pgRole[r] = role[r].password
    /\ \A d \in ListDatabases : Settled(d) /\ database[d].status = "ready" => pgDatabase[d] # None

\* GoneIsDropped: a role or database without a row is not left on the server,
\* also when the name was used again or deleted twice in the meantime, commands
\* for it are still pending, or a handler was cut short.  The one exception is a
\* role whose creation was retried while its drop was pending.
GoneIsDropped ==
  /\ \A r \in Roles : r \notin ListRoles => pgRole[r] = None \/ r \in revived
  /\ \A d \in Databases : d \notin ListDatabases => pgDatabase[d] = None

\* SecretsFollowCommands: a pending command can be handed out again with its
\* secrets, and no secret outlives the handling of its command's result.
SecretsFollowCommands ==
  /\ \A i \in DOMAIN queue : queue[i] \in secrets
  /\ ~cut => \A c \in secrets : (\E i \in DOMAIN queue : queue[i] = c) \/ job.cmd = c

\* OperationsEnd: the operation the operator watches ends, with the grants of a
\* database as its last step, unless a handler was cut short.
OperationsEnd ==
  \A o \in OpIDs :
    (o \in DOMAIN ops /\ ops[o] = "running") ~> (cut \/ (o \in DOMAIN ops /\ ops[o] # "running"))

\* DeletionIsFinal: "role is being deleted": no creation and no rotation of a role
\* is accepted while a pg_drop_role for it is pending.
DeletionIsFinal ==
  [][\A r \in Roles : CreateRole(r) \/ RotateRolePassword(r) =>
       \A i \in DOMAIN queue :
         queue[i].action = "pg_drop_role" => role[r] = None \/ queue[i].id # role[r].id]_vars
=============================================================================
