------------------------------ MODULE Serving ------------------------------
(***************************************************************************)
(* The server process: its start, the calls it serves over gRPC and        *)
(* Connect, the accounts, tokens and audit entries behind them, and its    *)
(* shutdown.                                                               *)
(*                                                                         *)
(* A call passes the interceptors of its transport: authentication, the    *)
(* role, the handler and, on gRPC, the audit entry.  One tick of the clock *)
(* is longer than a call.  Both kinds of token are signed with the same    *)
(* secret and neither check asks for the kind: a client may present either *)
(* with a call, and either to RefreshToken.  Accounts are the ids of their *)
(* rows: an id is never used again.                                        *)
(***************************************************************************)
EXTENDS Naturals, FiniteSets, Routes

CONSTANTS People,        \* ids of the accounts ever created (a bound)
          Admin,         \* the account an installed server has
          Viewer,        \* accounts with the viewer role
          Exercised,     \* methods the clients call
          CallIds,       \* calls at a time
          TokenExpiry, RefreshExpiry,
          MaxCalls,      \* bound: calls
          MaxClock,      \* bound: ticks
          MaxStops,      \* bound: shutdowns
          MaxServFaults  \* bound: failing handlers and audit inserts, lost etcd sessions

ASSUME ServAssumption ==
    /\ Admin \in People /\ Viewer \subseteq People
    /\ TokenExpiry \in Nat /\ RefreshExpiry \in Nat
    /\ MaxCalls \in Nat /\ MaxClock \in Nat /\ MaxStops \in Nat /\ MaxServFaults \in Nat

VARIABLES users,       \* rows of users
          used,        \* ids the rows have had
          apiKeys,     \* owners of the rows of api_keys
          tokens,      \* JWTs issued
          storage,     \* rows of storage_configs: their encrypted credentials
          secret,      \* the generation of the JWT secret
          fixed,       \* auth.jwt_secret is configured
          now,
          phase,       \* of Start
          signalled,   \* the context of Start is done
          session,     \* the etcd session of the elector: none, open or closed
          accepting,   \* transports that take calls
          running,     \* members of the errgroup
          dbOpen,
          call,        \* per call: its progress
          audit,       \* entries of audit_logs
          deletedAt,   \* history: when an account was deleted last
          calls, stops, servFaults

servVars == <<users, used, apiKeys, tokens, storage, secret, fixed, now, phase, signalled, session,
              accepting, running, dbOpen, call, audit, deletedAt, calls, stops, servFaults>>
process == <<phase, signalled, session, accepting, running, dbOpen>>
accounts == <<users, used, apiKeys, tokens, storage, deletedAt>>

NoCall == [at |-> "idle"]
Active(c) == call[c].at \notin {"idle", "done", "cut"}
Token(u, kind, ttl) == [user |-> u, kind |-> kind, exp |-> now + ttl, secret |-> secret]

ServInit ==
    /\ users \in {{}, {Admin}} /\ used = users /\ apiKeys = {} /\ tokens = {}
    /\ storage = {}
    /\ secret = 0 /\ fixed \in BOOLEAN /\ now = 0
    /\ phase = "down" /\ signalled = FALSE /\ session = "none" /\ accepting = {}
    /\ running = {} /\ dbOpen = FALSE
    /\ call = [c \in CallIds |-> NoCall]
    /\ audit = {} /\ deletedAt = [u \in People |-> 0]
    /\ calls = 0 /\ stops = 0 /\ servFaults = 0

Fault == servFaults < MaxServFaults /\ servFaults' = servFaults + 1

-----------------------------------------------------------------------------
(* Start.                                                                  *)

\* setDefaults makes a new secret for every process without a configured one.
NewSecret == IF fixed THEN secret ELSE secret + 1

\* A server without accounts creates an administrator.
ensureDefaultAdmin ==
    \/ users # {} /\ UNCHANGED <<users, used>>
    \/ /\ users = {}
       /\ \E u \in People \ (used \cup Viewer) : users' = {u} /\ used' = used \cup {u}

StartServer ==
    /\ phase = "down" /\ stops <= MaxStops
    /\ phase' = "campaigning"
    /\ secret' = NewSecret
    /\ dbOpen' = TRUE
    /\ ensureDefaultAdmin
    /\ signalled' = FALSE
    /\ call' = [c \in CallIds |-> NoCall]
    /\ UNCHANGED <<apiKeys, tokens, storage, fixed, now, session, accepting, running, audit,
                   deletedAt, calls, stops, servFaults>>

\* Start waits for the election before it serves; without etcd, or when the
\* campaign fails, it goes on without an elector.
Elected(elector) ==
    /\ phase = "campaigning"
    /\ phase' = "serving"
    /\ session' = IF elector THEN "open" ELSE "none"
    /\ running' = {"failover", "grpc", "connect", "metrics"} \cup (IF elector THEN {"leader"} ELSE {})
    /\ accepting' = {"grpc", "connect"}
    /\ UNCHANGED <<accounts, secret, fixed, now, signalled, dbOpen, call, audit, calls,
                   stops, servFaults>>

\* SIGTERM, or a listener of the group that fails.  The campaign has a context
\* of its own.
Signal ==
    /\ phase \in {"campaigning", "serving"} /\ ~signalled
    /\ stops < MaxStops
    /\ signalled' = TRUE /\ stops' = stops + 1
    /\ UNCHANGED <<accounts, secret, fixed, now, phase, session, accepting, running, dbOpen,
                   call, audit, calls, servFaults>>

-----------------------------------------------------------------------------
(* Calls.                                                                  *)

Arrive(c, transport, m, u, target) ==
    /\ call[c].at \in {"idle", "done"}
    /\ calls < MaxCalls
    /\ transport \in accepting
    /\ m \in Serves(transport)
    /\ m \notin {"CreateUser", "DeleteUser", "DeleteAPIKey"} => target = u
    /\ calls' = calls + 1
    /\ \E cred \in {"none"} \cup {t.kind : t \in {t \in tokens : t.user = u}}
                  \cup {"key" : k \in apiKeys \cap {u}} :
         call' = [call EXCEPT ![c] = [at |-> "arrived", transport |-> transport, method |-> m,
                                      who |-> u, cred |-> cred, target |-> target,
                                      id |-> calls, error |-> FALSE,
                                      passed |-> FALSE, named |-> FALSE]]
    /\ UNCHANGED <<accounts, secret, fixed, now, process, audit, stops, servFaults>>

\* Signature and expiry; nothing is read from the database.
Valid(u, kind) == \E t \in tokens : /\ t.user = u /\ t.kind = kind
                                    /\ t.exp > now /\ t.secret = secret

\* A token of any kind authenticates a call, and any with a subject, which
\* both have, is exchanged for a new pair.
ValidateToken(k) == k.cred \in {"access", "refresh"} /\ Valid(k.who, k.cred)
ValidateRefreshToken(u) == Valid(u, "access") \/ Valid(u, "refresh")

\* The key and its user are read; a key's own expiry is compared with its
\* creation and never takes effect.
GetByKeyHash(u) == u \in apiKeys
authenticateAPIKey(u) == dbOpen /\ GetByKeyHash(u) /\ u \in users

authenticate(k) == \/ ValidateToken(k)
                   \/ k.cred = "key" /\ authenticateAPIKey(k.who)

\* Connect only knows bearer tokens.
extractHTTPAuth(k) == ValidateToken(k)

Authentic(k) == IF k.transport = "grpc" THEN authenticate(k) ELSE extractHTTPAuth(k)

\* The claims of a refresh token have a subject, and neither user_id nor role:
\* the context of its call names nobody, and no role is compared.
HasUserID(k) == k.cred \in {"access", "key"}

Permitted(k) == HasUserID(k) /\ k.who \in Viewer => ViewerMay(k.transport, k.method)

Authenticate(c) ==
    /\ call[c].at = "arrived"
    /\ LET k == call[c]
       IN call' = [call EXCEPT ![c] =
             IF k.method \in Public(k.transport) THEN [@ EXCEPT !.at = "admitted"]
             ELSE IF Authentic(k) /\ Permitted(k)
             THEN [@ EXCEPT !.at = "admitted", !.passed = TRUE, !.named = HasUserID(k)]
             ELSE [@ EXCEPT !.at = "done", !.error = TRUE]]
    /\ UNCHANGED <<accounts, secret, fixed, now, process, audit, calls, stops, servFaults>>

Finish(c, ok) ==
    call' = [call EXCEPT ![c].error = ~ok,
                         ![c].at = IF call[c].transport = "grpc" /\ call[c].method \in methodToAuditAction
                                   THEN "handled" ELSE "done"]

\* A new pair of tokens; expired ones are forgotten.
IssueTokens(u) ==
    tokens' = {t \in tokens : t.exp > now} \cup
              {Token(u, "access", TokenExpiry), Token(u, "refresh", RefreshExpiry)}

\* Login verifies the password of the row.
Login(c) ==
    /\ call[c].method = "Login"
    /\ IF call[c].who \in users
       THEN IssueTokens(call[c].who) /\ Finish(c, TRUE)
       ELSE UNCHANGED tokens /\ Finish(c, FALSE)
    /\ UNCHANGED <<users, used, apiKeys, storage, deletedAt>>

\* RefreshToken verifies the token and then reads the row.  The token of the
\* request may also be an old one.
MayRefreshFromClaims(u) == ValidateRefreshToken(u)
MayRefresh(u) == ValidateRefreshToken(u) /\ u \in users

RefreshToken(c) ==
    /\ call[c].method = "RefreshToken"
    /\ \/ MayRefresh(call[c].who) /\ IssueTokens(call[c].who) /\ Finish(c, TRUE)
       \/ UNCHANGED tokens /\ Finish(c, FALSE)
    /\ UNCHANGED <<users, used, apiKeys, storage, deletedAt>>

\* The insert fails when the address is taken.
CreateUser(c) ==
    /\ call[c].method = "CreateUser"
    /\ \/ /\ call[c].target \notin used
          /\ users' = users \cup {call[c].target} /\ used' = used \cup {call[c].target}
          /\ Finish(c, TRUE)
       \/ users # {} /\ UNCHANGED <<users, used>> /\ Finish(c, FALSE)
    /\ UNCHANGED <<apiKeys, tokens, storage, deletedAt>>

\* Tokens of the account are not revoked, and keys stay without their row on
\* SQLite.
DeleteUser(c) ==
    /\ call[c].method = "DeleteUser"
    /\ users' = users \ {call[c].target}
    /\ deletedAt' = IF call[c].target \in users
                    THEN [deletedAt EXCEPT ![call[c].target] = now] ELSE deletedAt
    /\ Finish(c, TRUE)
    /\ UNCHANGED <<used, apiKeys, tokens, storage>>

\* A caller without a user_id is refused.
CreateAPIKey(c) ==
    /\ call[c].method = "CreateAPIKey"
    /\ apiKeys' = IF call[c].named THEN apiKeys \cup {call[c].who} ELSE apiKeys
    /\ Finish(c, call[c].named)
    /\ UNCHANGED <<users, used, tokens, storage, deletedAt>>

\* By the id of the key, whoever owns it.
DeleteAPIKey(c) ==
    /\ call[c].method = "DeleteAPIKey"
    /\ apiKeys' = apiKeys \ {call[c].target}
    /\ Finish(c, TRUE)
    /\ UNCHANGED <<users, used, tokens, storage, deletedAt>>

\* The credentials are encrypted with a key derived from the JWT secret.
\* A ciphertext opens only with the key it was sealed with.
EncryptAES256GCM(key) == [sealedWith |-> key]
DecryptAES256GCM(ciphertext, key) == ciphertext.sealedWith = key

EncryptedRow == {EncryptAES256GCM(secret)}
GetDecryptedCredentials(row) == DecryptAES256GCM(row, secret)

\* All calls name the same config.
CreateStorageConfig(c) ==
    /\ call[c].method = "CreateStorageConfig"
    /\ storage' = IF storage = {} THEN EncryptedRow ELSE storage
    /\ Finish(c, storage = {})
    /\ UNCHANGED <<users, used, apiKeys, tokens, deletedAt>>

DeleteStorageConfig(c) ==
    /\ call[c].method = "DeleteStorageConfig"
    /\ storage' = {}
    /\ Finish(c, storage # {})
    /\ UNCHANGED <<users, used, apiKeys, tokens, deletedAt>>

\* Methods that change none of this state.
OtherMethod(c) ==
    /\ call[c].method \notin {"Login", "RefreshToken", "CreateUser", "DeleteUser", "CreateAPIKey",
                              "DeleteAPIKey", "CreateStorageConfig", "DeleteStorageConfig"}
    /\ Finish(c, TRUE)
    /\ UNCHANGED accounts

Handle(c) ==
    /\ call[c].at = "admitted"
    /\ \/ /\ dbOpen
          /\ \/ Login(c) \/ RefreshToken(c) \/ CreateUser(c) \/ DeleteUser(c)
             \/ CreateAPIKey(c) \/ DeleteAPIKey(c)
             \/ CreateStorageConfig(c) \/ DeleteStorageConfig(c) \/ OtherMethod(c)
          /\ UNCHANGED servFaults
       \/ /\ IF dbOpen THEN Fault ELSE UNCHANGED servFaults
          /\ Finish(c, FALSE)
          /\ UNCHANGED accounts
    /\ UNCHANGED <<secret, fixed, now, process, audit, calls, stops>>

\* The entry is written after the handler, whatever it returned; a failing
\* insert is only logged.
EntryOnSuccess(k) == IF k.error THEN {} ELSE
    {[id |-> k.id, user |-> IF k.named THEN {k.who} ELSE {}]}
Entry(k) == {[id |-> k.id, user |-> IF k.named THEN {k.who} ELSE {}]}

Audit(c) ==
    /\ call[c].at = "handled"
    /\ \/ dbOpen /\ audit' = audit \cup Entry(call[c]) /\ UNCHANGED servFaults
       \/ /\ IF dbOpen THEN Fault ELSE UNCHANGED servFaults
          /\ UNCHANGED audit
    /\ call' = [call EXCEPT ![c].at = "done"]
    /\ UNCHANGED <<accounts, secret, fixed, now, process, calls, stops>>

Tick ==
    /\ now < MaxClock
    /\ \A c \in CallIds : ~Active(c)
    /\ now' = now + 1
    /\ UNCHANGED <<accounts, secret, fixed, process, call, audit, calls, stops, servFaults>>

-----------------------------------------------------------------------------
(* Shutdown.                                                               *)

\* GracefulStop and http.Server.Shutdown are called by goroutines of their own.
StopAccepting(transport) ==
    /\ signalled /\ phase # "campaigning"
    /\ transport \in accepting
    /\ accepting' = accepting \ {transport}
    /\ UNCHANGED <<accounts, secret, fixed, now, phase, signalled, session, running, dbOpen,
                   call, audit, calls, stops, servFaults>>

\* Resign ends the session only when etcd answers; Close ends it anyway.
ResignOnly(ok) == session' = IF session = "open" /\ ok THEN "closed" ELSE session
ResignAndClose(ok) == session' = IF session = "open" THEN "closed" ELSE session

Stopping(ok) ==
    /\ phase = "serving" /\ signalled
    /\ phase' = "draining"
    /\ ResignAndClose(ok)
    /\ IF ok THEN UNCHANGED servFaults ELSE Fault
    /\ UNCHANGED <<accounts, secret, fixed, now, signalled, accepting, running, dbOpen, call,
                   audit, calls, stops>>

\* GracefulStop of the main goroutine: no further call, and every call ends.
DrainedAtOnce == TRUE
Drained == \A c \in CallIds : Active(c) => call[c].transport # "grpc"

GracefulStop ==
    /\ phase = "draining"
    /\ Drained
    /\ phase' = "closing"
    /\ accepting' = accepting \ {"grpc"}
    /\ UNCHANGED <<accounts, secret, fixed, now, signalled, session, running, dbOpen, call,
                   audit, calls, stops, servFaults>>

CloseDB ==
    /\ phase = "closing"
    /\ phase' = "waiting"
    /\ dbOpen' = FALSE
    /\ UNCHANGED <<accounts, secret, fixed, now, signalled, session, accepting, running, call,
                   audit, calls, stops, servFaults>>

\* What ends a member of the group: ListenAndServe returns when Shutdown is
\* called, Serve when GracefulStop is, Run when it is cancelled, the waiting
\* goroutine when the session is done.
Ended(member) ==
    CASE member = "connect" -> "connect" \notin accepting
      [] member = "grpc" -> "grpc" \notin accepting
      [] member = "leader" -> session = "closed"
      [] member = "metrics" -> signalled
      [] member = "failover" -> phase # "serving"

MemberReturns(member) ==
    /\ member \in running
    /\ Ended(member)
    /\ running' = running \ {member}
    /\ UNCHANGED <<accounts, secret, fixed, now, phase, signalled, session, accepting, dbOpen,
                   call, audit, calls, stops, servFaults>>

\* The lease of the session is lost while the server goes on.
LoseSession ==
    /\ phase = "serving" /\ session = "open"
    /\ Fault
    /\ session' = "closed"
    /\ UNCHANGED <<accounts, secret, fixed, now, phase, signalled, accepting, running, dbOpen,
                   call, audit, calls, stops>>

\* Connect calls that have not ended are cut when the process exits.
Exit ==
    /\ phase = "waiting"
    /\ running = {}
    /\ phase' = "down"
    /\ accepting' = {} /\ session' = "none"
    /\ call' = [c \in CallIds |-> IF Active(c) THEN [call[c] EXCEPT !.at = "cut"] ELSE call[c]]
    /\ UNCHANGED <<accounts, secret, fixed, now, signalled, running, dbOpen, audit, calls,
                   stops, servFaults>>

ServNext ==
    \/ StartServer \/ Signal \/ Tick \/ LoseSession
    \/ \E elector \in BOOLEAN : Elected(elector)
    \/ \E c \in CallIds, transport \in {"grpc", "connect"}, m \in Exercised, u, target \in People :
         Arrive(c, transport, m, u, target)
    \/ \E c \in CallIds : Authenticate(c) \/ Handle(c) \/ Audit(c)
    \/ \E transport \in {"grpc", "connect"} : StopAccepting(transport)
    \/ \E ok \in BOOLEAN : Stopping(ok)
    \/ GracefulStop \/ CloseDB \/ Exit
    \/ \E member \in running : MemberReturns(member)

ServSpec == ServInit /\ [][ServNext]_servVars

\* The steps the Go runtime and the kernel do not withhold.
ServStep ==
    \/ \E c \in CallIds : Authenticate(c) \/ Handle(c) \/ Audit(c)
    \/ \E transport \in {"grpc", "connect"} : StopAccepting(transport)
    \/ \E ok \in BOOLEAN : Stopping(ok)
    \/ GracefulStop \/ CloseDB \/ Exit
    \/ \E member \in running : MemberReturns(member)

-----------------------------------------------------------------------------
(* Properties.                                                             *)

\* The longer of the two configured lifetimes; nothing orders them.
Lifetime == IF TokenExpiry <= RefreshExpiry THEN RefreshExpiry ELSE TokenExpiry

\* What ListAuditLogs shows on all its pages together.
ListAuditLogs == audit

\* Accounts, tokens, calls and the process are in states the code can be in, and
\* as long as the secret is configured every later process can decrypt the
\* credentials an earlier one has stored.
ServTypeOK ==
    /\ users \subseteq used /\ used \subseteq People /\ apiKeys \subseteq used
    /\ fixed => \A row \in storage : GetDecryptedCredentials(row)
    /\ \A t \in tokens : t.user \in People /\ t.exp <= now + Lifetime /\ t.secret <= secret
    /\ phase \in {"down", "campaigning", "serving", "draining", "closing", "waiting"}
    /\ session \in {"none", "open", "closed"}
    /\ accepting # {} => dbOpen \/ accepting = {"connect"}
    /\ phase = "serving" => dbOpen
    /\ \A c \in CallIds : Active(c) => phase # "down"

\* The access of a deleted account ends: Login and RefreshToken read the
\* account before they issue tokens, so no token of it is valid longer than the
\* longer of the two lifetimes after the deletion, though every kind of token is
\* taken for every purpose until then.
AccessEnds ==
    \A t \in tokens : t.user \notin users => t.exp <= deletedAt[t.user] + Lifetime

\* Every audited gRPC call that passed the interceptor and has been answered left
\* an entry, also when its handler failed, unless the insert itself failed.  The
\* entry names the caller, except for the public methods and for a call made
\* with a refresh token, whose claims have no user_id.
AuditComplete ==
    \A c \in CallIds :
        /\ call[c].at = "done" /\ call[c].transport = "grpc"
        /\ call[c].method \in methodToAuditAction
        /\ call[c].passed \/ call[c].method \in Public("grpc")
        /\ servFaults = 0
        => \E e \in ListAuditLogs :
             /\ e.id = call[c].id
             /\ call[c].passed /\ call[c].cred # "refresh" => e.user = {call[c].who}

\* The database stays open until the last gRPC call is answered.
GRPCCallsComplete ==
    \A c \in CallIds : Active(c) /\ call[c].transport = "grpc" => dbOpen

\* A server that serves and is told to stop does stop, whatever etcd answers to
\* the resignation and whatever calls are in progress.
ShutdownEnds == (signalled /\ phase # "campaigning") ~> (phase = "down")

=============================================================================
