----------------------------- MODULE MCPlatform -----------------------------
(* The components beside failover, provisioning and lifecycle, for TLC.    *)
(* They share no state: a behaviour is one of one part, and the other      *)
(* components stay where they start.                                       *)
EXTENDS Features, NodePool, LogPipeline, Serving, Backups

CONSTANT Parts      \* the parts of a run
VARIABLE part

all == <<part, featVars, poolVars, logVars, servVars, backupVars>>

\* Requests that meet each other on the same rows and files.
FeatMixes == {{"access", "tls", "profile"},
              {"access", "applyHBA"},
              {"tls", "ca", "applyTLS"},
              {"tls", "applyTLS", "settings", "applyHBA"},
              {"toggle", "applyExtensions"}}

\* Initial choices that a part does not look at are made once.
Init ==
    /\ part \in Parts
    /\ FeatInit /\ PoolInit /\ LogInit /\ ServInit /\ BackupInit
    /\ part # "features" => mix = {"access", "applyHBA"}
    /\ "toggle" \notin mix =>
         ready = Databases /\ adminKept = "created" /\ \A x \in Extensions : extRow[x] = NoExt
    /\ part \notin {"accounts", "storage"} => fixed
    /\ part \notin {"accounts", "process"} => users = {Admin}
    /\ part \notin {"jobs", "schedules"} => cascades

\* Accounts and calls are looked at without shutdowns, shutdowns with two calls,
\* stored credentials across a restart;
\* registrations of one host without clusters, clusters of agents that stay up;
\* jobs with one schedule request, schedules without jobs.
Storing == {"CreateStorageConfig", "DeleteStorageConfig"}

Focus ==
    /\ part = "accounts" => /\ stops' = 0 /\ session' = "none" /\ calls' <= 3
                            /\ \A c \in CallIds : call'[c].at # "idle" => call'[c].method \notin Storing
    /\ part = "storage" => /\ now' = 0 /\ session' = "none" /\ servFaults' = 0
                           /\ \A c \in CallIds : call'[c].at # "idle" =>
                                /\ call'[c].method \in Storing \cup {"Login"}
                                /\ call'[c].who = Admin /\ call'[c].transport = "connect"
    /\ part = "process" => /\ now' = 0 /\ calls' <= 2
                           /\ \A c \in CallIds : call'[c].at # "idle" =>
                                call'[c].method \in {"Login", "CreateCluster"}
    /\ part = "registrations" => creates' = 0 /\ \A h \in Hosts \ {"h1"} : agentProc'[h] = "off"
    /\ part = "clusters" => \A h \in Hosts : agentProc'[h] = "off" => agentKnows'[h] = 0
    /\ part = "jobs" => scheduleCalls' <= 1
    /\ part = "schedules" => nextJob' = 1

FeatStep(A) == /\ part = "features" /\ A
               /\ UNCHANGED <<part, poolVars, logVars, servVars, backupVars>>
PoolStep(A) == /\ part \in {"registrations", "clusters"} /\ A /\ Focus
               /\ UNCHANGED <<part, featVars, logVars, servVars, backupVars>>
LogStep(A) == /\ part = "logs" /\ A
              /\ UNCHANGED <<part, featVars, poolVars, servVars, backupVars>>
ServingStep(A) == /\ part \in {"accounts", "storage", "process"} /\ A /\ Focus
                  /\ UNCHANGED <<part, featVars, poolVars, logVars, backupVars>>
BackupStep(A) == /\ part \in {"jobs", "schedules"} /\ A /\ Focus
                 /\ UNCHANGED <<part, featVars, poolVars, logVars, servVars>>

Next == \/ FeatStep(FeatNext) \/ PoolStep(PoolNext) \/ LogStep(LogNext)
        \/ ServingStep(ServNext) \/ BackupStep(BackupNext)

Spec == Init /\ [][Next]_all

\* The type invariants of the components.
PlatformTypeOK == FeatTypeOK /\ PoolTypeOK /\ LogTypeOK /\ ServTypeOK /\ BackupTypeOK

FairSpec ==
    /\ Spec
    /\ \A n \in FeatNodes : WF_featVars(FeatStep(Execute(n) \/ ExecuteFails(n)))
    /\ WF_featVars(FeatStep(\E h \in reports : UpdateCommand(h) \/ ApplyResult(h)))
    /\ \A h \in Hosts : WF_poolVars(PoolStep(AgentStep(h)))
    /\ WF_logVars(LogStep(TimerFires)) /\ WF_logVars(LogStep(Flush))
    /\ WF_logVars(LogStep(\E b \in sent : StoreBatch(b) \/ RefuseBatch(b)))
    /\ WF_servVars(ServingStep(ServStep))
    /\ WF_backupVars(BackupStep(JobStep))
=============================================================================
