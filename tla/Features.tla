------------------------------ MODULE Features ------------------------------
(***************************************************************************)
(* Connection profile, network access (HBA), TLS, extensions and settings  *)
(* of one cluster: the requests of PostgresManagementService that hold the *)
(* cluster's lock, the two requests that do not (UpdateConnectionProfile   *)
(* and UpdateClusterSettings), the agents that execute the queued          *)
(* commands, and the handlers that store their results.                    *)
(*                                                                         *)
(* A report may reach the server after its agent has given up on it and    *)
(* executed the command again.  What the files of a host contain and what  *)
(* PostgreSQL has loaded are kept apart: a reload joins them, and an       *)
(* agent may die, or fail, between the two.                                *)
(***************************************************************************)
EXTENDS Naturals, Sequences, FiniteSets, FiniteSetsExt, SequencesExt

CONSTANTS FeatNodes,      \* nodes with an agent, PostgreSQL and a data directory
          FeatPrimary,    \* the one management commands go to
          Extensions,     \* the engine's catalogue
          Databases,      \* managed databases that may become ready
          Lists,          \* values of an allowlist
          Modes,          \* TLS modes of the requests
          Params,         \* values of the cluster's settings
          Mixes,          \* bound: sets of request kinds an operator uses together
          MaxRequests,    \* bound: requests accepted
          MaxGiveUps,     \* bound: reports an agent does not wait for
          MaxFaults,      \* bound: failing executions
          MaxCuts         \* bound: requests and reports cut short

ASSUME FeatAssumption ==
    /\ FeatPrimary \in FeatNodes /\ IsFiniteSet(FeatNodes)
    /\ Modes \subseteq {"disabled", "prefer", "required"}
    /\ MaxRequests \in Nat /\ MaxGiveUps \in Nat
    /\ MaxFaults \in Nat /\ MaxCuts \in Nat
    /\ "none" \in Lists /\ "disabled" \in Modes

VARIABLES profile,    \* cluster_connection_profiles
          tlsCA,      \* service_tls_authorities: 0 or the generation of the CA
          tlsRow,     \* node_feature_apply_status, feature 'tls', per node
          hbaRow,     \* node_feature_apply_status, feature 'hba', per node
          extRow,     \* cluster_extensions
          settings,   \* cluster_settings
          adminKept,  \* skylex_admin_password in the cluster secret store: none, stored by
                      \* CreateCluster, with a command later, or without its command
          cmds,       \* agent_commands in the order of created_at
          locked,     \* the request that holds the cluster's lock
          update,     \* UpdateConnectionProfile requests that have read the row
          replace,    \* UpdateClusterSettings requests that still have to queue
          reports,    \* ReportCommandResult calls
          busy,       \* per node: the command whose report the agent waits for
          file,       \* per node: the Skylex include file of postgresql.conf
          active,     \* per node: what PostgreSQL has loaded of it
          hba,        \* per node: the managed pg_hba include
          rules,      \* per node: the pg_hba rules PostgreSQL has loaded
          created,    \* extensions present in each database of the primary
          ready,      \* managed databases with status ready
          asked,      \* history: what the last completed requests asked of the profile
          overlap,    \* history: a profile update overlapped another one
          bare,       \* history: nodes whose include file pg_apply_settings wrote last
          unsure,     \* history: nodes where an apply of HBA rules ended between its write
                      \* and a completed reload, and nothing was reloaded since
          mix,        \* the kinds of requests of this behaviour
          requests, giveUps, faults, cuts

featVars == <<profile, tlsCA, tlsRow, hbaRow, extRow, settings, adminKept, cmds, locked,
              update, replace, reports, busy, file, active, hba, rules, created,
              ready, asked, overlap, bare, unsure, mix, requests, giveUps, faults, cuts>>

stored == <<profile, tlsCA, tlsRow, hbaRow, extRow, settings, adminKept>>
host == <<file, active, hba, rules, created>>
history == <<asked, overlap, bare, unsure>>
bounds == <<mix, requests, giveUps, faults, cuts>>

None == "none"
NoRow == [cmd |-> 0, status |-> "none"]
NoExt == [on |-> FALSE, status |-> "none", cmd |-> 0]

Profiles == [app : Lists, admin : Lists, mode : Modes, manual : BOOLEAN]

\* The defaults GetByClusterID returns for a cluster without a row.
DefaultProfile == [app |-> None, admin |-> None, mode |-> "disabled", manual |-> FALSE]

FeatInit ==
    /\ profile = DefaultProfile
    /\ tlsCA = 0
    /\ tlsRow = [n \in FeatNodes |-> NoRow]
    /\ hbaRow = [n \in FeatNodes |-> NoRow]
    /\ extRow \in [Extensions -> {NoExt, [on |-> FALSE, status |-> "off", cmd |-> 0]}]
    /\ settings = None
    /\ adminKept \in {"none", "created"}     \* none: older than the skylex_admin role
    /\ cmds = <<>>
    /\ locked = [kind |-> "free"]
    /\ update = {}
    /\ replace = {}
    /\ reports = {}
    /\ busy = [n \in FeatNodes |-> 0]
    /\ file = [n \in FeatNodes |-> [tls |-> <<"off">>, params |-> None]]
    /\ active = file
    /\ hba = [n \in FeatNodes |-> [admin |-> "all", app |-> "all"]]
    /\ rules = hba
    /\ created = [d \in Databases |-> {}]
    /\ ready \in SUBSET Databases
    /\ asked = [admin |-> None, app |-> None, mode |-> "disabled", manual |-> FALSE]
    /\ overlap = FALSE
    /\ bare = {}
    /\ unsure = {}
    /\ mix \in Mixes
    /\ requests = 0 /\ giveUps = 0 /\ faults = 0 /\ cuts = 0

-----------------------------------------------------------------------------
(* Requests.                                                               *)

Command(n, action, body) == [node |-> n, action |-> action, body |-> body, status |-> "pending"]

\* One command per node in one transaction, all with the same created_at.
PerNode(action, body) ==
    [i \in 1..Cardinality(FeatNodes) |->
        Command(SetToSeq(FeatNodes)[i], action, body)]

IdFor(n) == Len(cmds) + (CHOOSE i \in 1..Cardinality(FeatNodes) : SetToSeq(FeatNodes)[i] = n)

Accept(kind) ==
    /\ kind \in mix
    /\ requests < MaxRequests
    /\ requests' = requests + 1
    /\ UNCHANGED mix

Lock(request) ==
    /\ locked.kind = "free"
    /\ locked' = request

Unlock == locked' = [kind |-> "free"]

\* UpdateNetworkAccess, UpdateTLSConfig, ApplyHBA, ApplyTLS and ApplyExtensions
\* take the lock and read the rows they depend on.
BeginLocked ==
    /\ \/ \E app, admin \in Lists :
            Lock([kind |-> "access", read |-> profile, app |-> app, admin |-> admin])
       \/ \E mode \in Modes, manual \in BOOLEAN :
            Lock([kind |-> "tls", read |-> profile, mode |-> mode, manual |-> manual])
       \/ Lock([kind |-> "applyHBA", read |-> profile, dbs |-> ready])
       \/ Lock([kind |-> "applyTLS", read |-> profile, ca |-> tlsCA])
       \/ /\ \E x \in Extensions : extRow[x].status # "none"
          /\ Lock([kind |-> "applyExtensions", rows |-> extRow, dbs |-> ready])
    /\ Accept(locked'.kind)
    /\ UNCHANGED <<stored, cmds, update, replace, reports, busy, host, ready,
                   history, giveUps, faults, cuts>>

\* The upsert replaces the whole row: what the request does not set comes from
\* the row that was read.
UpsertAccessForgets(read, app, admin) == [DefaultProfile EXCEPT !.app = app, !.admin = admin]
UpsertAccess(read, app, admin) == [read EXCEPT !.app = app, !.admin = admin]
UpsertTLS(read, mode, manual) == [read EXCEPT !.mode = mode, !.manual = manual]

UpdateNetworkAccess ==
    /\ locked.kind = "access"
    /\ profile' = UpsertAccess(locked.read, locked.app, locked.admin)
    /\ asked' = [asked EXCEPT !.app = locked.app, !.admin = locked.admin]
    /\ overlap' = (overlap \/ update # {})
    /\ Unlock
    /\ UNCHANGED <<tlsCA, tlsRow, hbaRow, extRow, settings, adminKept, cmds, update, replace,
                   reports, busy, host, ready, bare, unsure, bounds>>

\* manual: the request names the operator's certificate.  Half a pair of files is
\* refused, or stored with mode disabled and later failed by the agents.
UpdateTLSConfig ==
    /\ locked.kind = "tls"
    /\ profile' = UpsertTLS(locked.read, locked.mode, locked.manual)
    /\ asked' = [asked EXCEPT !.mode = locked.mode, !.manual = locked.manual]
    /\ overlap' = (overlap \/ update # {})
    /\ Unlock
    /\ UNCHANGED <<tlsCA, tlsRow, hbaRow, extRow, settings, adminKept, cmds, update, replace,
                   reports, busy, host, ready, bare, unsure, bounds>>

\* UpdateConnectionProfile takes no lock: it reads the row and, later, upserts
\* its own application list and TLS mode with the rest of what it read.
ReadConnectionProfile ==
    /\ Accept("profile")
    /\ \E app \in Lists, mode \in Modes :
         update' = update \cup {[read |-> profile, app |-> app, mode |-> mode, id |-> requests]}
    /\ UNCHANGED <<stored, cmds, locked, replace, reports, busy, host, ready,
                   history, giveUps, faults, cuts>>

UpdateConnectionProfile(u) ==
    /\ profile' = [u.read EXCEPT !.app = u.app, !.mode = u.mode]
    /\ asked' = [asked EXCEPT !.app = u.app, !.mode = u.mode]
    /\ overlap' = (overlap \/ update # {u} \/ locked.kind \in {"access", "tls"})
    /\ update' = update \ {u}
    /\ UNCHANGED <<tlsCA, tlsRow, hbaRow, extRow, settings, adminKept, cmds, locked, replace,
                   reports, busy, host, ready, bare, unsure, bounds>>

\* A new key pair replaces the old one; certificates it signed are not renewed.
generateClusterCA == tlsCA + 1

\* One row per cluster, which is overwritten.
UpsertCA(ca) == tlsCA' = ca

GenerateTLSCA ==
    /\ Accept("ca")
    /\ locked.kind = "free"
    /\ UpsertCA(generateClusterCA)
    /\ UNCHANGED <<profile, tlsRow, hbaRow, extRow, settings, adminKept, cmds, locked, update,
                   replace, reports, busy, host, ready, history, giveUps, faults, cuts>>

\* The rules of a node's payload: the profile's lists and the names that are
\* ready when the request reads them.
hbaRuleSets(p, dbs) == [admin |-> p.admin, app |-> p.app, dbs |-> dbs]

\* The agent writes application lines only for ready roles and databases.
RenderHBAPolicy(policy) ==
    [admin |-> policy.admin, app |-> IF policy.dbs = {} THEN None ELSE policy.app]

Pending(id) == [cmd |-> id, status |-> "pending"]

ApplyHBA ==
    /\ locked.kind = "applyHBA"
    /\ cmds' = cmds \o PerNode("hba", hbaRuleSets(locked.read, locked.dbs))
    /\ hbaRow' = [n \in FeatNodes |-> Pending(IdFor(n))]
    /\ Unlock
    /\ UNCHANGED <<profile, tlsCA, tlsRow, extRow, settings, adminKept, update, replace,
                   reports, busy, host, ready, history, bounds>>

\* Off, the paths of the operator, or a certificate signed by a CA's generation.
Certificate(p, ca) == CASE p.mode = "disabled" -> <<"off">>
                        [] p.mode # "disabled" /\ p.manual -> <<"manual">>
                        [] OTHER -> <<"managed", ca>>

ApplyTLS ==
    /\ locked.kind = "applyTLS"
    /\ IF locked.read.mode # "disabled" /\ ~locked.read.manual /\ locked.ca = 0
       THEN UNCHANGED <<cmds, tlsRow>>     \* generate a TLS CA first
       ELSE /\ cmds' = cmds \o PerNode("tls", Certificate(locked.read, locked.ca))
            /\ tlsRow' = [n \in FeatNodes |-> Pending(IdFor(n))]
    /\ Unlock
    /\ UNCHANGED <<profile, tlsCA, hbaRow, extRow, settings, adminKept, update, replace,
                   reports, busy, host, ready, history, bounds>>

\* A toggle keeps status and command of the row.
SetEnabled(row, on) == IF row.status = "none" THEN [on |-> on, status |-> "off", cmd |-> 0]
                       ELSE [row EXCEPT !.on = on]

SetExtension(x, on) ==
    /\ Accept("toggle")
    /\ locked.kind = "free"
    /\ extRow' = [extRow EXCEPT ![x] = SetEnabled(@, on)]
    /\ UNCHANGED <<profile, tlsCA, tlsRow, hbaRow, settings, adminKept, cmds, locked, update,
                   replace, reports, busy, host, ready, history, giveUps, faults, cuts>>

\* cluster_secrets: the password of skylex_admin.
ResolveSecret(kept) == kept # "none"
StoreSecret == "backfilled"

\* The command and its secrets are inserted in one transaction.
CreateCommandWithSecrets(n, action) == <<Command(n, action, None)>>

\* ensureSkylexAdminProvisioned: the first management command of an older
\* cluster stores a password and queues the role that uses it.
ProvisionAdmin(kept) ==
    IF ResolveSecret(kept) THEN <<>> ELSE CreateCommandWithSecrets(FeatPrimary, "admin")

Enabled(rows) == {x \in Extensions : rows[x].status # "none" /\ rows[x].on}
Disabled(rows) == {x \in Extensions : rows[x].status # "none" /\ ~rows[x].on}

ApplyExtensions ==
    /\ locked.kind = "applyExtensions"
    /\ LET first == ProvisionAdmin(adminKept)
           id == Len(cmds) + Len(first) + 1
       IN /\ cmds' = cmds \o first \o
                <<Command(FeatPrimary, "ext",
                    [enable |-> Enabled(locked.rows), disable |-> Disabled(locked.rows),
                     dbs |-> locked.dbs])>>
          /\ extRow' = [x \in Extensions |->
                IF extRow[x].status = "none" THEN extRow[x]
                ELSE [extRow[x] EXCEPT !.status = "pending", !.cmd = id]]
    /\ adminKept' = IF ResolveSecret(adminKept) THEN adminKept ELSE StoreSecret
    /\ Unlock
    /\ UNCHANGED <<profile, tlsCA, tlsRow, hbaRow, settings, update, replace, reports, busy,
                   host, ready, history, bounds>>

\* The request ends between the stored password and the role's command.
CutProvisioning ==
    /\ locked.kind = "applyExtensions"
    /\ adminKept = "none"
    /\ cuts < MaxCuts
    /\ cuts' = cuts + 1
    /\ adminKept' = "half"
    /\ Unlock
    /\ UNCHANGED <<profile, tlsCA, tlsRow, hbaRow, extRow, settings, cmds, update, replace,
                   reports, busy, host, ready, history, mix, requests, giveUps, faults>>

\* One transaction: every key that is not in p is deleted.
ReplaceAllSettings(p) == settings' = p

\* UpdateClusterSettings replaces the stored settings and then queues one
\* command per node, without lock or transaction.
ReplaceSettings(p) ==
    /\ Accept("settings")
    /\ ReplaceAllSettings(p)
    /\ replace' = replace \cup {[params |-> p, todo |-> FeatNodes, id |-> requests]}
    /\ UNCHANGED <<profile, tlsCA, tlsRow, hbaRow, extRow, adminKept, cmds, locked,
                   update, reports, busy, host, ready, history, giveUps, faults, cuts>>

QueueApplySettings(r, n) ==
    /\ n \in r.todo
    /\ cmds' = Append(cmds, Command(n, "settings", r.params))
    /\ replace' = (replace \ {r}) \cup
                  (IF r.todo = {n} THEN {} ELSE {[r EXCEPT !.todo = @ \ {n}]})
    /\ UNCHANGED <<stored, locked, update, reports, busy, host, ready, history, bounds>>

-----------------------------------------------------------------------------
(* Agents.                                                                 *)

FirstPending(n) ==
    Min({i \in DOMAIN cmds : cmds[i].node = n /\ cmds[i].status = "pending"})

CanFetch(n) ==
    /\ busy[n] = 0
    /\ \E i \in DOMAIN cmds : cmds[i].node = n /\ cmds[i].status = "pending"

Reporting(n, i, ok) ==
    /\ reports' = reports \cup {[cmd |-> i, ok |-> ok, at |-> "update", late |-> FALSE]}
    /\ busy' = [busy EXCEPT ![n] = i]

\* TLSConfig.Settings keeps the other settings of the include file;
\* ApplySettings writes only its own.
TLSSettings(n, tls) == [file[n] EXCEPT !.tls = tls]
SettingsOnly(params) == [tls |-> <<"off">>, params |-> params]

FileAfter(n, c) == CASE c.action = "tls" -> TLSSettings(n, c.body)
                     [] c.action = "settings" -> SettingsOnly(c.body)
                     [] OTHER -> file[n]

HBAAfter(n, c) == IF c.action = "hba" THEN RenderHBAPolicy(c.body) ELSE hba[n]

\* ApplyHBA returns early when its file is already up to date, and compares with
\* nothing else.  Every reload loads the include file and the HBA rules.
Reloads(n, c) == \/ c.action \in {"tls", "settings"}
                 \/ c.action = "hba" /\ hba[n] # RenderHBAPolicy(c.body)

BareAfter(n, c) == CASE c.action = "settings" -> bare \cup {n}
                     [] c.action = "tls" -> bare \ {n}
                     [] OTHER -> bare

\* CREATE EXTENSION for the enabled and DROP EXTENSION for the disabled, in the
\* databases and for the extensions that are reached.
ExtensionsAfter(b, done) ==
    [d \in Databases |-> (created[d] \cup {x \in b.enable : <<d, x>> \in done})
                           \ {x \in b.disable : <<d, x>> \in done}]

\* Every database of the payload, one after the other.
executeApplyExtensions(b) == ExtensionsAfter(b, b.dbs \X Extensions)

Execute(n) ==
    /\ CanFetch(n)
    /\ LET i == FirstPending(n)
           c == cmds[i]
       IN /\ file' = [file EXCEPT ![n] = FileAfter(n, c)]
          /\ hba' = [hba EXCEPT ![n] = HBAAfter(n, c)]
          /\ IF Reloads(n, c)
             THEN /\ active' = [active EXCEPT ![n] = FileAfter(n, c)]
                  /\ rules' = [rules EXCEPT ![n] = HBAAfter(n, c)]
                  /\ unsure' = unsure \ {n}
             ELSE UNCHANGED <<active, rules, unsure>>
          /\ created' = IF c.action = "ext" THEN executeApplyExtensions(c.body)
                        ELSE created
          /\ bare' = BareAfter(n, c)
          /\ Reporting(n, i, TRUE)
    /\ UNCHANGED <<stored, cmds, locked, update, replace, ready, asked, overlap, bounds>>

\* A failing apply restores the include file it found, but a new managed
\* certificate has replaced the old one; a failing pg_apply_settings leaves its
\* file behind, and so does a failing pg_apply_hba that cannot restore what it
\* found.  The reload that failed may have been the restored file's, may have
\* loaded what is then taken back, or nothing.  A failing pg_apply_extensions
\* has made some of its changes.
ExecuteFails(n) ==
    /\ CanFetch(n)
    /\ faults < MaxFaults
    /\ faults' = faults + 1
    /\ LET i == FirstPending(n)
           c == cmds[i]
       IN /\ file' = IF \/ c.action = "settings"
                        \/ c.action = "tls" /\ {c.body[1], file[n].tls[1]} = {"managed"}
                     THEN [file EXCEPT ![n] = FileAfter(n, c)] ELSE file
          /\ bare' = IF c.action = "settings" THEN bare \cup {n} ELSE bare
          /\ hba' \in {hba, [hba EXCEPT ![n] = HBAAfter(n, c)]}
          /\ \/ UNCHANGED <<active, rules>>
             \/ /\ Reloads(n, c)
                /\ \E loaded \in {FileAfter(n, c), file'[n]} :
                     active' = [active EXCEPT ![n] = loaded]
                /\ rules' = [rules EXCEPT ![n] = HBAAfter(n, c)]
          /\ unsure' = IF c.action = "hba" /\ Reloads(n, c) THEN unsure \cup {n} ELSE unsure
          /\ IF c.action = "ext"
             THEN \E done \in SUBSET (c.body.dbs \X Extensions) :
                    created' = ExtensionsAfter(c.body, done)
             ELSE UNCHANGED created
          /\ Reporting(n, i, FALSE)
    /\ UNCHANGED <<stored, cmds, locked, update, replace, ready,
                   asked, overlap, mix, requests, giveUps, cuts>>

\* The agent dies after it has written a file and before the reload.  The
\* command is still pending, and the agent that is started again executes it.
AgentDies(n) ==
    /\ CanFetch(n)
    /\ faults < MaxFaults
    /\ faults' = faults + 1
    /\ LET c == cmds[FirstPending(n)]
       IN /\ Reloads(n, c)
          /\ file' = [file EXCEPT ![n] = FileAfter(n, c)]
          /\ hba' = [hba EXCEPT ![n] = HBAAfter(n, c)]
          /\ bare' = IF c.action = "settings" THEN bare \cup {n} ELSE bare
          /\ unsure' = IF c.action = "hba" THEN unsure \cup {n} ELSE unsure
    /\ UNCHANGED <<stored, cmds, locked, update, replace, reports, busy, active, rules,
                   created, ready, asked, overlap, mix, requests, giveUps, cuts>>

\* The connection breaks: the agent goes on, the server may still work on the
\* report or never have seen it.
GiveUp(n) ==
    /\ giveUps < MaxGiveUps
    /\ giveUps' = giveUps + 1
    /\ \E h \in reports :
         /\ h.cmd = busy[n] /\ ~h.late
         /\ \/ reports' = (reports \ {h}) \cup {[h EXCEPT !.late = TRUE]}
            \/ reports' = reports \ {h} /\ h.at = "update"
    /\ busy' = [busy EXCEPT ![n] = 0]
    /\ UNCHANGED <<stored, cmds, locked, update, replace, host, ready, history,
                   mix, requests, faults, cuts>>

-----------------------------------------------------------------------------
(* ReportCommandResult.                                                    *)

UpdateCommand(h) ==
    /\ h.at = "update"
    /\ cmds' = [cmds EXCEPT ![h.cmd].status = IF h.ok THEN "completed" ELSE "failed"]
    /\ reports' = (reports \ {h}) \cup {[h EXCEPT !.at = "apply"]}
    /\ UNCHANGED <<stored, locked, update, replace, busy, host, ready, history, bounds>>

Answered(h) ==
    /\ reports' = reports \ {h}
    /\ busy' = IF h.late THEN busy ELSE [busy EXCEPT ![cmds[h.cmd].node] = 0]

\* The row is written only when it still names the command.
RowAfterAnyCommand(row, h) == [row EXCEPT !.status = IF h.ok THEN "succeeded" ELSE "failed"]
RowAfterSuccessOnly(row, h) ==
    IF row.cmd = h.cmd /\ h.ok THEN [row EXCEPT !.status = "succeeded"] ELSE row
RowAfter(row, h) ==
    IF row.cmd = h.cmd THEN [row EXCEPT !.status = IF h.ok THEN "succeeded" ELSE "failed"]
    ELSE row

\* Disabled rows of the command are removed, enabled ones become ready.
ExtAfterAnyCommand(row, h) ==
    IF row.status = "none" THEN row
    ELSE IF ~h.ok THEN [row EXCEPT !.status = "failed"]
    ELSE IF row.on THEN [row EXCEPT !.status = "ready"] ELSE NoExt
ExtAfter(row, h) ==
    IF row.status = "none" \/ row.cmd # h.cmd THEN row
    ELSE IF ~h.ok THEN [row EXCEPT !.status = "failed"]
    ELSE IF row.on THEN [row EXCEPT !.status = "ready"] ELSE NoExt

\* Each handler passes over commands of the others.
HandleHBAResult(h) == IF cmds[h.cmd].action # "hba" THEN hbaRow
                      ELSE [hbaRow EXCEPT ![cmds[h.cmd].node] = RowAfter(@, h)]
HandleTLSResult(h) == IF cmds[h.cmd].action # "tls" THEN tlsRow
                      ELSE [tlsRow EXCEPT ![cmds[h.cmd].node] = RowAfter(@, h)]

ApplyResult(h) ==
    /\ h.at = "apply"
    /\ hbaRow' = HandleHBAResult(h)
    /\ tlsRow' = HandleTLSResult(h)
    /\ extRow' = IF cmds[h.cmd].action = "ext"
                 THEN [x \in Extensions |-> ExtAfter(extRow[x], h)] ELSE extRow
    /\ Answered(h)
    /\ UNCHANGED <<profile, tlsCA, settings, adminKept, cmds, locked, update, replace, host,
                   ready, history, bounds>>

\* A handler that is cut between its two writes has completed the command only.
CutReport(h) ==
    /\ h.at = "apply"
    /\ cuts < MaxCuts
    /\ cuts' = cuts + 1
    /\ Answered(h)
    /\ UNCHANGED <<stored, cmds, locked, update, replace, host, ready, history,
                   mix, requests, giveUps, faults>>

\* A managed database becomes ready (module ManagedObjects).
DatabaseReady(d) ==
    /\ d \notin ready
    /\ ready' = ready \cup {d}
    /\ UNCHANGED <<stored, cmds, locked, update, replace, reports, busy, host,
                   history, bounds>>

FeatNext ==
    \/ BeginLocked \/ UpdateNetworkAccess \/ UpdateTLSConfig
    \/ ReadConnectionProfile \/ GenerateTLSCA
    \/ ApplyHBA \/ ApplyTLS \/ ApplyExtensions \/ CutProvisioning
    \/ \E u \in update : UpdateConnectionProfile(u)
    \/ \E x \in Extensions, on \in BOOLEAN : SetExtension(x, on)
    \/ \E p \in Params : ReplaceSettings(p)
    \/ \E r \in replace, n \in FeatNodes : QueueApplySettings(r, n)
    \/ \E n \in FeatNodes : Execute(n) \/ ExecuteFails(n) \/ AgentDies(n) \/ GiveUp(n)
    \/ \E h \in reports : UpdateCommand(h) \/ ApplyResult(h) \/ CutReport(h)
    \/ \E d \in Databases : DatabaseReady(d)

FeatSpec == FeatInit /\ [][FeatNext]_featVars

-----------------------------------------------------------------------------
(* What the requests of an operator's page return.                         *)

hbaStatuses(n) == hbaRow[n].status

\* tls_active is set with a result: it succeeded and its mode was not disabled.
tlsStatuses(n) == [status |-> tlsRow[n].status,
                   active |-> tlsRow[n].status = "succeeded" /\ cmds[tlsRow[n].cmd].body # <<"off">>]

\* The warnings for a profile and the rows that exist.
tlsWarnings(p) ==
    LET applied == {n \in FeatNodes : tlsRow[n].cmd # 0}
    IN {w \in {"managed", "not applied", "not on all", "not confirmed"} :
          \/ w = "managed" /\ p.mode # "disabled" /\ ~p.manual
          \/ w = "not applied" /\ p.mode = "required" /\ applied = {}
          \/ w = "not on all" /\ \E n \in applied : tlsStatuses(n).status # "succeeded"
          \/ w = "not confirmed" /\ p.mode = "required" /\ \E n \in applied : ~tlsStatuses(n).active}

GetTLSConfig == [mode |-> profile.mode, statuses |-> [n \in FeatNodes |-> tlsStatuses(n)],
                 warnings |-> tlsWarnings(profile)]
GetNetworkAccess == [app |-> profile.app, admin |-> profile.admin,
                     statuses |-> [n \in FeatNodes |-> hbaStatuses(n)]]
GetConnectionProfile == [profile |-> profile, warnings |-> tlsWarnings(profile)]

\* An extension without a row is off.
mergedExtensions(row) == IF row.status = "none" THEN [on |-> FALSE, status |-> "off"]
                         ELSE [on |-> row.on, status |-> row.status]
GetExtensions(x) == mergedExtensions(extRow[x])

-----------------------------------------------------------------------------
(* Properties.                                                             *)

Rows == [cmd : Nat, status : {"none", "pending", "succeeded", "failed"}]

\* The rows, the queue and the hosts hold what their columns and files can
\* hold, and every row names a command of its own feature and node.
FeatTypeOK ==
    /\ profile \in Profiles /\ asked \in Profiles
    /\ tlsRow \in [FeatNodes -> Rows] /\ hbaRow \in [FeatNodes -> Rows]
    /\ \A n \in FeatNodes : \A f \in {"tls", "hba"} :
         LET row == IF f = "tls" THEN tlsRow[n] ELSE hbaRow[n]
         IN row.status # "none" => /\ row.cmd \in DOMAIN cmds
                                   /\ cmds[row.cmd].node = n /\ cmds[row.cmd].action = f
    /\ \A x \in Extensions :
         /\ extRow[x].status \in {"none", "off", "pending", "ready", "failed"}
         /\ extRow[x].cmd # 0 => cmds[extRow[x].cmd].action = "ext"
    /\ settings \in Params \cup {None}
    /\ adminKept \in {"none", "created", "backfilled", "half"}
    /\ \A h \in reports : h.cmd \in DOMAIN cmds
    /\ \A n \in FeatNodes : busy[n] # 0 => cmds[busy[n]].node = n
    /\ ready \subseteq Databases
    /\ bare \subseteq FeatNodes /\ unsure \subseteq FeatNodes

\* What GetNetworkAccess and GetTLSConfig call succeeded is on the host,
\* although reports of earlier commands arrive late, and commands fail, are
\* executed again, or are interrupted by the death of their agent: the
\* allowlists of the HBA row's command are in its file and loaded, the
\* certificate (or none) of the TLS row's command is loaded, and some certificate
\* when the connection profile requires TLS and nothing warns.  Two exceptions:
\* pg_apply_settings drops the TLS settings, so what it has written since is
\* exempt; and an apply of HBA rules that ended between its write and a completed
\* reload leaves rules loaded that are not the file's, which the next apply does
\* not notice when it finds the file up to date, until something reloads.
AppliedIsOnHost ==
    \A n \in FeatNodes :
        /\ GetNetworkAccess.statuses[n] = "succeeded"
             => /\ hba[n] = RenderHBAPolicy(cmds[hbaRow[n].cmd].body)
                /\ n \notin unsure => rules[n] = hba[n]
        /\ n \notin bare /\ GetTLSConfig.statuses[n].status = "succeeded"
             => active[n].tls = cmds[tlsRow[n].cmd].body
        /\ n \notin bare /\ GetTLSConfig.mode = "required" /\ GetTLSConfig.warnings = {}
             => active[n].tls # <<"off">>

\* An extension shown as ready, and not toggled since its command was built,
\* exists in every database the command was for.
ReadyExtensionsCreated ==
    \A x \in Extensions :
        LET body == cmds[extRow[x].cmd].body
        IN GetExtensions(x).status = "ready" /\ x \in body.enable
             => \A d \in body.dbs : x \in created[d]

\* Although each of the three profile requests writes the whole row, none
\* undoes what another one has stored, as long as UpdateConnectionProfile, which
\* takes no lock, does not overlap one of them.
ProfileKeepsUpdates == ~overlap => GetConnectionProfile.profile = asked

\* Every queued apply of HBA rules, TLS or extensions ends in a final status,
\* unless its result's handler is cut short.
AppliesSettle ==
    /\ \A n \in FeatNodes :
         /\ hbaRow[n].status = "pending" ~> (hbaRow[n].status # "pending" \/ cuts > 0)
         /\ tlsRow[n].status = "pending" ~> (tlsRow[n].status # "pending" \/ cuts > 0)
    /\ \A x \in Extensions :
         extRow[x].status = "pending" ~> (extRow[x].status # "pending" \/ cuts > 0)

=============================================================================
