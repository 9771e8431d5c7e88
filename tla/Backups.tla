------------------------------ MODULE Backups ------------------------------
(***************************************************************************)
(* Backups, restores and backup schedules of a server process: the rows of *)
(* backups, restore_jobs and backup_schedules, the goroutines that run     *)
(* pgbackrest for a row, and the cron entries of the worker.               *)
(*                                                                         *)
(* A request writes its row and then calls the worker or starts its        *)
(* goroutine; other requests, cron and a restart may come in between.      *)
(* Backups and restore jobs share their life, so one table `jobs` holds    *)
(* both, told apart by their kind.                                         *)
(***************************************************************************)
EXTENDS Naturals, FiniteSets

CONSTANTS BackupClusters,
          ScheduleIds,       \* identifiers of the schedules that may be created
          MaxJobs,           \* bound: rows of backups and restore_jobs
          MaxScheduleCalls,  \* bound: schedule requests
          MaxBackupFaults    \* bound: failing statements, timeouts, restarts

ASSUME BackupAssumption ==
    MaxJobs \in Nat /\ MaxScheduleCalls \in Nat /\ MaxBackupFaults \in Nat

VARIABLES clusterRows,   \* rows of clusters
          cascades,      \* the driver enforces ON DELETE CASCADE (PostgreSQL does, SQLite does not)
          jobs,          \* rows of backups and restore_jobs by number
          work,          \* goroutines at work on a job
          schedules,     \* rows of backup_schedules
          calling,       \* schedule requests between their row and the worker
          workerJobs,    \* Worker.jobs: the entry of a schedule
          cron,          \* entries of the cron runner
          done,          \* history: jobs whose pgbackrest command succeeded
          stranded,      \* history: jobs whose first read or last update failed, timed out
                         \* or met a restart
          disturbed,     \* history: schedules whose requests overlapped, that were updated
                         \* without a row, whose DELETE failed, or that a restart met
          nextJob, nextEntry, scheduleCalls, backupFaults

backupVars == <<clusterRows, cascades, jobs, work, schedules, calling, workerJobs, cron, done,
                stranded, disturbed, nextJob, nextEntry, scheduleCalls, backupFaults>>
jobVars == <<jobs, work, done, stranded, nextJob>>
scheduleVars == <<schedules, calling, workerJobs, cron, disturbed, nextEntry, scheduleCalls>>

NoCluster == "none"     \* the empty cluster_id
JobIds == 1..MaxJobs
Absent == [status |-> "absent"]
NoSchedule == [enabled |-> FALSE, row |-> FALSE]

BackupInit ==
    /\ clusterRows = BackupClusters /\ cascades \in BOOLEAN
    /\ jobs = [j \in JobIds |-> Absent] /\ work = {}
    /\ schedules = [s \in ScheduleIds |-> NoSchedule] /\ calling = {}
    /\ workerJobs = [s \in ScheduleIds |-> 0] /\ cron = {}
    /\ done = {} /\ stranded = {} /\ disturbed = {}
    /\ nextJob = 1 /\ nextEntry = 1 /\ scheduleCalls = 0 /\ backupFaults = 0

BackupFault == backupFaults < MaxBackupFaults /\ backupFaults' = backupFaults + 1

-----------------------------------------------------------------------------
(* Jobs.                                                                   *)

\* Rows as they are inserted: a restore job is told only its cluster's data
\* directory and a target time, its backup_id is kept and never read.
BackupRow(c) == [status |-> "running", kind |-> "backup", cluster |-> c]
RestoreRow(c) == [status |-> "running", kind |-> "restore", cluster |-> c]

\* The row is inserted as running and its goroutine starts; a goroutine of the
\* API has thirty minutes, one of cron has no limit.
StartJob(row, limit) ==
    /\ nextJob <= MaxJobs
    /\ row.cluster \in clusterRows
    /\ jobs' = [jobs EXCEPT ![nextJob] = row]
    /\ work' = work \cup {[job |-> nextJob, at |-> "read", limit |-> limit]}
    /\ nextJob' = nextJob + 1
    /\ UNCHANGED <<done, stranded>>

CreateBackup(c) ==
    /\ StartJob(BackupRow(c), TRUE)
    /\ UNCHANGED <<clusterRows, cascades, scheduleVars, backupFaults>>

CreateRestoreJob(c) ==
    /\ StartJob(RestoreRow(c), TRUE)
    /\ UNCHANGED <<clusterRows, cascades, scheduleVars, backupFaults>>

\* DeleteBackup removes the row only; its goroutine goes on.
DeleteBackup(j) ==
    /\ jobs[j].status # "absent" /\ jobs[j].kind = "backup"
    /\ jobs' = [jobs EXCEPT ![j] = Absent]
    /\ UNCHANGED <<clusterRows, cascades, work, done, stranded, nextJob, scheduleVars, backupFaults>>

ToAlso(w, at) == work' = work \cup {[w EXCEPT !.at = at]}
To(w, at) == work' = (work \ {w}) \cup {[w EXCEPT !.at = at]}
Leave(w) == work' = work \ {w}

\* ExecuteBackup and ExecuteRestore read the row first and end when it is gone;
\* they end too, without a word in the row, when the read fails.
ReadJob(w, ok) ==
    /\ w.at = "read"
    /\ IF ok
       THEN /\ IF jobs[w.job].status = "absent" THEN Leave(w)
               ELSE To(w, IF jobs[w.job].kind = "backup" THEN "stanza" ELSE "command")
            /\ UNCHANGED <<stranded, backupFaults>>
       ELSE BackupFault /\ Leave(w) /\ stranded' = stranded \cup {w.job}
    /\ UNCHANGED <<clusterRows, cascades, jobs, done, nextJob, scheduleVars>>

\* The stanza is checked and otherwise created.
Stanza(w, ok) ==
    /\ w.at = "stanza"
    /\ To(w, IF ok THEN "command" ELSE "failed")
    /\ UNCHANGED <<clusterRows, cascades, jobs, done, stranded, nextJob, scheduleVars, backupFaults>>

\* pgbackrest backup or restore.
RunPgBackRest(w, ok) ==
    /\ w.at = "command"
    /\ To(w, IF ok THEN "completed" ELSE "failed")
    /\ done' = IF ok THEN done \cup {w.job} ELSE done
    /\ UNCHANGED <<clusterRows, cascades, jobs, stranded, nextJob, scheduleVars, backupFaults>>

\* FailBackup, FailRestoreJob, CompleteBackup and CompleteRestoreJob: an update
\* of the row, when there still is one.
WrittenOptimistic(w) == [jobs[w.job] EXCEPT !.status = "completed"]
Written(w) == [jobs[w.job] EXCEPT !.status = w.at]
WritesRecordNoFail(w) == w.at = "completed"
WritesRecord(w) == w.at \in {"completed", "failed"}

RecordJob(w, ok) ==
    /\ w.at \in {"completed", "failed"}
    /\ Leave(w)
    /\ IF ok THEN /\ jobs' = IF jobs[w.job].status = "absent" \/ ~WritesRecord(w) THEN jobs
                             ELSE [jobs EXCEPT ![w.job] = Written(w)]
                  /\ UNCHANGED <<stranded, backupFaults>>
             ELSE /\ BackupFault
                  /\ stranded' = stranded \cup {w.job}
                  /\ UNCHANGED jobs
    /\ UNCHANGED <<clusterRows, cascades, done, nextJob, scheduleVars>>

\* After thirty minutes the command is killed, and the update that would record
\* the failure has the same expired context.
TimeOut(w) ==
    /\ w.limit
    /\ BackupFault
    /\ Leave(w)
    /\ stranded' = stranded \cup {w.job}
    /\ UNCHANGED <<clusterRows, cascades, jobs, done, nextJob, scheduleVars>>

-----------------------------------------------------------------------------
(* Schedules.                                                              *)

ScheduleCall(s, found) ==
    /\ scheduleCalls < MaxScheduleCalls
    /\ scheduleCalls' = scheduleCalls + 1
    /\ disturbed' = IF (\E q \in calling : q.id = s) \/ ~found THEN disturbed \cup {s} ELSE disturbed

\* INSERT: a schedule is enabled from the start.  UPDATE: frequency, type,
\* retention and enabled of the row, when there is one.
ScheduleRow(c, valid) == [row |-> TRUE, enabled |-> TRUE, cluster |-> c, valid |-> valid]
UpdatedRow(s, enabled, valid) ==
    IF schedules[s].row THEN [schedules[s] EXCEPT !.enabled = enabled, !.valid = valid] ELSE NoSchedule

\* ListSchedules: the schedules of a cluster.
ListSchedules(c) == {s \in ScheduleIds : schedules[s].row /\ schedules[s].cluster = c}

\* The row is written, the worker is called next; valid says whether cron takes
\* the expression.  An identifier of which nothing is left stands for a new one.
CreateSchedule(s, c, valid) ==
    /\ ScheduleCall(s, TRUE)
    /\ c \in clusterRows
    /\ ~schedules[s].row /\ workerJobs[s] = 0 /\ s \notin disturbed
    /\ \A q \in calling : q.id # s
    /\ schedules' = [schedules EXCEPT ![s] = ScheduleRow(c, valid)]
    /\ calling' = calling \cup {[id |-> s, n |-> scheduleCalls, op |-> "schedule", enabled |-> TRUE,
                                 cluster |-> c, valid |-> valid]}
    /\ UNCHANGED <<clusterRows, cascades, jobVars, workerJobs, cron, nextEntry, backupFaults>>

\* The schedule handed to the worker is made from the request and names no
\* cluster; an UPDATE of a row that is gone is no error.
UpdateSchedule(s, enabled, valid) ==
    /\ ScheduleCall(s, schedules[s].row)
    /\ schedules' = [schedules EXCEPT ![s] = UpdatedRow(s, enabled, valid)]
    /\ calling' = calling \cup {[id |-> s, n |-> scheduleCalls, op |-> "schedule", enabled |-> enabled,
                                 cluster |-> NoCluster, valid |-> valid]}
    /\ UNCHANGED <<clusterRows, cascades, jobVars, workerJobs, cron, nextEntry, backupFaults>>

\* Under the worker's mutex: the entry of the schedule is removed, and a new one
\* is added when it is enabled and cron takes the expression.
SchedulableDisabled(q) == q.valid
Schedulable(q) == q.enabled /\ q.valid
WithoutEntryKeeps(s) == cron
WithoutEntry(s) == {e \in cron : e.entry # workerJobs[s]}

ScheduleBackup(q) ==
    /\ q.op = "schedule"
    /\ calling' = calling \ {q}
    /\ IF Schedulable(q)
       THEN /\ cron' = WithoutEntry(q.id) \cup {[entry |-> nextEntry, id |-> q.id, cluster |-> q.cluster]}
            /\ workerJobs' = [workerJobs EXCEPT ![q.id] = nextEntry]
            /\ nextEntry' = nextEntry + 1
       ELSE /\ cron' = WithoutEntry(q.id)
            /\ workerJobs' = [workerJobs EXCEPT ![q.id] = 0]
            /\ UNCHANGED nextEntry
    /\ UNCHANGED <<clusterRows, cascades, jobVars, schedules, disturbed, scheduleCalls, backupFaults>>

\* DeleteSchedule calls the worker first and deletes the row next.
UnscheduleBackup(s) ==
    /\ ScheduleCall(s, TRUE)
    /\ cron' = WithoutEntry(s)
    /\ workerJobs' = [workerJobs EXCEPT ![s] = 0]
    /\ calling' = calling \cup {[id |-> s, n |-> scheduleCalls, op |-> "delete"]}
    /\ UNCHANGED <<clusterRows, cascades, jobVars, schedules, nextEntry, backupFaults>>

\* A DELETE that fails leaves the row, whose entry is gone.
DeleteScheduleRow(q, ok) ==
    /\ q.op = "delete"
    /\ calling' = calling \ {q}
    /\ IF ok THEN /\ schedules' = [schedules EXCEPT ![q.id] = NoSchedule]
                  /\ UNCHANGED <<disturbed, backupFaults>>
             ELSE /\ BackupFault
                  /\ disturbed' = disturbed \cup {q.id}
                  /\ UNCHANGED schedules
    /\ UNCHANGED <<clusterRows, cascades, jobVars, workerJobs, cron, nextEntry, scheduleCalls>>

\* createScheduledBackup: without a cluster of that id there is no backup.
CronFires(e) ==
    /\ StartJob(BackupRow(e.cluster), FALSE)
    /\ UNCHANGED <<clusterRows, cascades, scheduleVars, backupFaults>>

-----------------------------------------------------------------------------
(* The end of a cluster, and a restart of the server.                      *)

DropCluster(c) ==
    /\ c \in clusterRows
    /\ clusterRows' = clusterRows \ {c}
    /\ IF cascades
       THEN /\ jobs' = [j \in JobIds |-> IF jobs[j].status # "absent" /\ jobs[j].cluster = c
                                         THEN Absent ELSE jobs[j]]
            /\ schedules' = [s \in ScheduleIds |-> IF s \in ListSchedules(c)
                                                   THEN NoSchedule ELSE schedules[s]]
       ELSE UNCHANGED <<jobs, schedules>>
    /\ UNCHANGED <<cascades, work, done, stranded, nextJob, calling, workerJobs, cron, disturbed,
                   nextEntry, scheduleCalls, backupFaults>>

\* Worker.Start starts an empty cron runner: no schedule is read, and running
\* rows are not resumed.
RestartWorker ==
    /\ BackupFault
    /\ work' = {} /\ stranded' = stranded \cup {w.job : w \in work}
    /\ calling' = {} /\ cron' = {} /\ workerJobs' = [s \in ScheduleIds |-> 0]
    /\ disturbed' = disturbed \cup {s \in ScheduleIds : schedules[s].row}
                                \cup {q.id : q \in calling}
    /\ UNCHANGED <<clusterRows, cascades, jobs, done, nextJob, schedules, nextEntry, scheduleCalls>>

JobStep == \E w \in work, ok \in BOOLEAN :
               ReadJob(w, ok) \/ Stanza(w, ok) \/ RunPgBackRest(w, ok) \/ RecordJob(w, ok)

\* The rows of a cluster, on all pages together.
JobsOf(c, kind) == {j \in JobIds : jobs[j].status # "absent" /\ jobs[j].kind = kind /\ jobs[j].cluster = c}
ListBackups(c) == JobsOf(c, "backup")
ListRestoreJobs(c) == JobsOf(c, "restore")

BackupNext ==
    \/ \E c \in BackupClusters : CreateBackup(c) \/ CreateRestoreJob(c) \/ DropCluster(c)
    \/ \E j \in JobIds : DeleteBackup(j)
    \/ JobStep
    \/ \E w \in work : TimeOut(w)
    \/ \E s \in ScheduleIds, valid \in BOOLEAN :
         \/ \E c \in BackupClusters : CreateSchedule(s, c, valid)
         \/ \E enabled \in BOOLEAN : UpdateSchedule(s, enabled, valid)
    \/ \E s \in ScheduleIds : UnscheduleBackup(s)
    \/ \E q \in calling : ScheduleBackup(q) \/ \E ok \in BOOLEAN : DeleteScheduleRow(q, ok)
    \/ \E e \in cron : CronFires(e)
    \/ RestartWorker

BackupSpec == BackupInit /\ [][BackupNext]_backupVars

-----------------------------------------------------------------------------
(* Properties.                                                             *)

\* Rows, goroutines and entries are in states the code can be in, with one
\* goroutine at most for a row.
BackupTypeOK ==
    /\ \A j \in JobIds : /\ jobs[j].status \in {"absent", "running", "completed", "failed"}
                         /\ jobs[j].status # "absent" => j < nextJob
    /\ \A w \in work : w.job < nextJob /\ w.at \in {"read", "stanza", "command", "completed", "failed"}
    /\ \A w1, w2 \in work : w1.job = w2.job => w1 = w2
    /\ \A e \in cron : e.entry < nextEntry /\ e.cluster \in BackupClusters \cup {NoCluster}

\* However the requests for schedules interleave, the cron runner has exactly the
\* entries the worker can still remove: no schedule has two, and no entry is left
\* that a later request for its schedule could not find.
NoOrphanEntries ==
    /\ \A e \in cron : workerJobs[e.id] = e.entry
    /\ \A s \in ScheduleIds : workerJobs[s] # 0 => \E e \in cron : e.id = s

\* ListBackups and ListRestoreJobs show a backup or restore as completed only when
\* pgbackrest succeeded for it, and as failed only when it did not.
RecordedIsTrue ==
    \A c \in BackupClusters : \A j \in ListBackups(c) \cup ListRestoreJobs(c) :
        /\ jobs[j].status = "completed" => j \in done
        /\ jobs[j].status = "failed" => j \notin done

\* A schedule has a cron entry exactly while it is listed for a cluster, is
\* enabled and has an expression cron takes, unless its requests overlapped, it
\* was updated without a row, its DELETE failed (DeleteSchedule has removed the
\* entry by then, and the row stays listed as enabled), a cluster was deleted or
\* the server restarted.
\* The entry need not take backups: one made by UpdateSchedule names no cluster.
EntriesFollowRows ==
    \A s \in ScheduleIds :
        s \notin disturbed /\ (\A q \in calling : q.id # s) /\ clusterRows = BackupClusters
        => (workerJobs[s] # 0 <=> /\ \E c \in clusterRows : s \in ListSchedules(c)
                                  /\ schedules[s].enabled /\ schedules[s].valid)

\* Every job ends: its row becomes completed or failed or is deleted, unless the
\* engine's first read of the row or its last update failed, the time ran out or
\* the server stopped: then the row is shown as running for good.
JobsSettle ==
    \A j \in JobIds : (jobs[j].status = "running") ~> (jobs[j].status # "running" \/ j \in stranded)

=============================================================================
