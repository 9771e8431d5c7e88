---------------------------- MODULE LogPipeline ----------------------------
(***************************************************************************)
(* The log lines of one command: the commandLogger of the agent, which     *)
(* buffers them and sends each batch from a goroutine of its own; the      *)
(* handler ReportCommandLog, which stores a batch and publishes it to the  *)
(* in-memory LogBroker; and the event streams of browsers, which subscribe *)
(* to the broker, replay the newest stored lines and then follow.          *)
(*                                                                         *)
(* Batches are not numbered or repeated: they may overtake each other and  *)
(* be lost.  Lines are numbered in the order of Log; stamp is their        *)
(* millisecond, which several lines may share.                             *)
(***************************************************************************)
EXTENDS Naturals, Sequences, FiniteSets, FiniteSetsExt, SequencesExt

CONSTANTS Viewers,        \* event streams
          Scopes,         \* what a stream selects: a command (a node is alike) or a cluster
          BatchSize,      \* lines that force a flush (50)
          Buffer,         \* logSubscriberBuffer (256)
          Window,         \* lines a stream replays (200)
          MaxLines,       \* bound: lines logged
          MaxLogFaults    \* bound: lost batches, failing queries, restarts

ASSUME LogAssumption ==
    /\ Scopes \subseteq {"command", "cluster"}
    /\ BatchSize \in Nat \ {0} /\ Buffer \in Nat \ {0} /\ Window \in Nat \ {0}
    /\ MaxLines \in Nat /\ MaxLogFaults \in Nat

VARIABLES stamp,       \* the timestamps of the lines logged
          entries,     \* lines in the logger's buffer
          timer,       \* l.timer is not nil
          armed,       \* ... and has not fired
          flushing,    \* Flush goroutines a timer has started
          closed,      \* the logger is closed
          sent,        \* batches whose ReportCommandLog runs
          kept,        \* rows of agent_command_logs
          member,      \* the node belongs to the cluster
          known,       \* the node's row still names the agent
          viewer,      \* per stream: its progress, channel and output
          announced,   \* history: lines whose batch reached Publish, per scope
          missed,      \* history: per stream, lines it is known to miss
          lost,        \* history: lines of lost or refused batches
          logFaults

logVars == <<stamp, entries, timer, armed, flushing, closed, sent, kept, member,
             known, viewer, announced, missed, lost, logFaults>>
logger == <<stamp, entries, timer, armed, flushing, closed>>
stream == <<viewer, announced, missed>>

Lines == 1..MaxLines
NoStream == [at |-> "off", scope |-> "none", ch |-> <<>>, shown |-> {}]

LogInit ==
    /\ stamp = <<>>
    /\ entries = {} /\ timer = FALSE /\ armed = FALSE /\ flushing = 0 /\ closed = FALSE
    /\ sent = {} /\ kept = {} /\ member = TRUE /\ known = TRUE
    /\ viewer = [v \in Viewers |-> NoStream]
    /\ announced = [s \in Scopes |-> {}]
    /\ missed = [v \in Viewers |-> {}]
    /\ lost = {}
    /\ logFaults = 0

LogFault == logFaults < MaxLogFaults /\ logFaults' = logFaults + 1

-----------------------------------------------------------------------------
(* The agent.                                                              *)

\* flushLocked: without lines it leaves the timer as it is.
FlushLockedKeepsTimer(lines) ==
    /\ entries' = {} /\ UNCHANGED timer /\ armed' = FALSE
    /\ sent' = IF lines = {} THEN sent
               ELSE sent \cup {[lines |-> lines, at |-> "sent", member |-> FALSE]}
FlushLocked(lines) ==
    IF lines = {} THEN UNCHANGED <<entries, timer, armed, sent>>
    ELSE /\ entries' = {} /\ timer' = FALSE /\ armed' = FALSE
         /\ sent' = sent \cup {[lines |-> lines, at |-> "sent", member |-> FALSE]}

Log ==
    /\ ~closed
    /\ Len(stamp) < MaxLines
    /\ \E later \in BOOLEAN :
         stamp' = Append(stamp, IF stamp = <<>> THEN 0
                                ELSE Last(stamp) + (IF later THEN 1 ELSE 0))
    /\ LET lines == entries \cup {Len(stamp')}
       IN IF Cardinality(lines) >= BatchSize
          THEN FlushLocked(lines)
          ELSE /\ entries' = lines
               /\ timer' = TRUE
               /\ armed' = (armed \/ ~timer)
               /\ UNCHANGED sent
    /\ UNCHANGED <<flushing, closed, kept, member, known, stream, lost, logFaults>>

TimerFires ==
    /\ armed
    /\ armed' = FALSE
    /\ flushing' = flushing + 1
    /\ UNCHANGED <<stamp, entries, timer, closed, sent, kept, member, known, stream, lost, logFaults>>

Flush ==
    /\ flushing > 0
    /\ flushing' = flushing - 1
    /\ FlushLocked(entries)
    /\ UNCHANGED <<stamp, closed, kept, member, known, stream, lost, logFaults>>

Close ==
    /\ ~closed
    /\ closed' = TRUE
    /\ FlushLocked(entries)
    /\ UNCHANGED <<stamp, flushing, kept, member, known, stream, lost, logFaults>>

-----------------------------------------------------------------------------
(* ReportCommandLog.                                                       *)

\* The agent must still be known; the rows of a batch are one transaction.
\* The cluster that Publish uses is the one read here.
StoreBatchLater(b) ==
    /\ b.at = "sent" /\ known
    /\ sent' = (sent \ {b}) \cup {[b EXCEPT !.at = "stored", !.member = member]}
    /\ UNCHANGED <<stamp, entries, timer, armed, flushing, closed, kept, member, known,
                   stream, lost, logFaults>>
StoreBatch(b) ==
    /\ b.at = "sent"
    /\ known
    /\ kept' = kept \cup b.lines
    /\ sent' = (sent \ {b}) \cup {[b EXCEPT !.at = "stored", !.member = member]}
    /\ UNCHANGED <<stamp, entries, timer, armed, flushing, closed, member, known,
                   stream, lost, logFaults>>

RefuseBatch(b) ==
    /\ b.at = "sent"
    /\ ~known
    /\ sent' = sent \ {b}
    /\ lost' = lost \cup b.lines
    /\ UNCHANGED <<stamp, entries, timer, armed, flushing, closed, kept, member, known,
                   stream, logFaults>>

\* The call fails before anything is stored; nobody tries it again.
LoseBatch(b) ==
    /\ b.at = "sent"
    /\ LogFault
    /\ sent' = sent \ {b}
    /\ lost' = lost \cup b.lines
    /\ UNCHANGED <<stamp, entries, timer, armed, flushing, closed, kept, member, known, stream>>

\* matches, and the cluster filter of Publish.
MatchesLive(scope, ofMember) == scope = "cluster" => ofMember

\* A send to a full channel is dropped, for that stream only.
Full(st, b) == Len(st.ch) + Cardinality(b.lines) > Buffer
Offer(st, seq) == [st EXCEPT !.ch = SubSeq(@ \o seq, 1, Min({Buffer, Len(@) + Len(seq)}))]

Subscribed(v) == viewer[v].at # "off"
SubscribedLate(v) == viewer[v].at = "live"
ReceivesLate(v, b) == SubscribedLate(v) /\ MatchesLive(viewer[v].scope, b.member)
Receives(v, b) == Subscribed(v) /\ MatchesLive(viewer[v].scope, b.member)

\* GetEnrichedByIDs returns the rows of a batch in any order.
PublishLiveLogs(b) ==
    /\ b.at = "stored"
    /\ sent' = sent \ {b}
    /\ \E seq \in SetToSeqs(b.lines) :
         /\ viewer' = [v \in Viewers |-> IF Receives(v, b) THEN Offer(viewer[v], seq) ELSE viewer[v]]
         /\ missed' = [v \in Viewers |-> IF Receives(v, b) /\ Full(viewer[v], b)
                                         THEN missed[v] \cup (b.lines \ ToSet(viewer'[v].ch))
                                         ELSE missed[v]]
    /\ announced' = [s \in Scopes |-> IF MatchesLive(s, b.member) THEN announced[s] \cup b.lines
                                      ELSE announced[s]]
    /\ UNCHANGED <<logger, kept, member, known, lost, logFaults>>

\* The rows cannot be read again: the batch is not published.
SkipPublish(b) ==
    /\ b.at = "stored"
    /\ LogFault
    /\ sent' = sent \ {b}
    /\ UNCHANGED <<logger, kept, member, known, stream, lost>>

-----------------------------------------------------------------------------
(* handleStreamCommandLogs.                                                *)

Subscribe(v, scope) ==
    /\ viewer[v].at = "off"
    /\ viewer' = [viewer EXCEPT ![v] = [NoStream EXCEPT !.at = "subscribed", !.scope = scope]]
    /\ UNCHANGED <<logger, sent, kept, member, known, announced, missed, lost, logFaults>>

\* ListByCommandID, ListByNodeID and ListByClusterID: the cluster of a line is
\* that of its node now.
Visible(scope) == IF scope = "cluster" /\ ~member THEN {} ELSE kept

\* ListNodeCommandLogs, by which the page is filled again: all its pages.
ListNodeCommandLogs(scope) == Visible(scope)

\* ORDER BY created_at DESC, id DESC: lines of one millisecond in any order.
Newest(lines) ==
    {w \in SUBSET lines :
       /\ Cardinality(w) = Min({Window, Cardinality(lines)})
       /\ \A i \in w, j \in lines \ w : stamp[i] >= stamp[j]}

\* The channel fills while the backlog is written.
LoadBacklog(v) ==
    /\ viewer[v].at = "subscribed"
    /\ \E w \in Newest(Visible(viewer[v].scope)) :
         /\ viewer' = [viewer EXCEPT ![v].at = "replaying", ![v].shown = w]
         /\ missed' = [missed EXCEPT ![v] = @ \cup (kept \ w)]
    /\ UNCHANGED <<logger, sent, kept, member, known, announced, lost, logFaults>>

BacklogFails(v) ==
    /\ viewer[v].at = "subscribed"
    /\ LogFault
    /\ viewer' = [viewer EXCEPT ![v].at = "replaying"]
    /\ missed' = [missed EXCEPT ![v] = @ \cup kept]
    /\ UNCHANGED <<logger, sent, kept, member, known, announced, lost>>

BacklogWritten(v) ==
    /\ viewer[v].at = "replaying"
    /\ viewer' = [viewer EXCEPT ![v].at = "live"]
    /\ UNCHANGED <<logger, sent, kept, member, known, announced, missed, lost, logFaults>>

WriteLogEvent(v) ==
    /\ viewer[v].at = "live"
    /\ viewer[v].ch # <<>>
    /\ viewer' = [viewer EXCEPT ![v].shown = @ \cup {Head(viewer[v].ch)}, ![v].ch = Tail(@)]
    /\ UNCHANGED <<logger, sent, kept, member, known, announced, missed, lost, logFaults>>

\* The browser leaves or a write fails.
Unsubscribe(v) ==
    /\ Subscribed(v)
    /\ viewer' = [viewer EXCEPT ![v] = NoStream]
    /\ missed' = [missed EXCEPT ![v] = {}]
    /\ UNCHANGED <<logger, sent, kept, member, known, announced, lost, logFaults>>

-----------------------------------------------------------------------------
(* The surroundings.                                                       *)

\* Delivery of lines to streams is in memory; the rows are not.
RestartServer ==
    /\ LogFault
    /\ viewer' = [v \in Viewers |-> NoStream]
    /\ lost' = lost \cup UNION {b.lines : b \in {c \in sent : c.at = "sent"}}
    /\ sent' = {}
    /\ missed' = [v \in Viewers |-> {}]
    /\ UNCHANGED <<logger, kept, member, known, announced>>

LeaveCluster ==
    /\ member /\ member' = FALSE
    /\ UNCHANGED <<logger, sent, kept, known, stream, lost, logFaults>>

DeleteNode ==
    /\ known /\ known' = FALSE
    /\ member' = FALSE
    /\ UNCHANGED <<logger, sent, kept, stream, lost, logFaults>>

LogNext ==
    \/ Log \/ TimerFires \/ Flush \/ Close
    \/ \E b \in sent : \/ StoreBatch(b) \/ RefuseBatch(b) \/ LoseBatch(b)
                       \/ PublishLiveLogs(b) \/ SkipPublish(b)
    \/ \E v \in Viewers : \/ \E s \in Scopes : Subscribe(v, s)
                          \/ LoadBacklog(v) \/ BacklogFails(v) \/ BacklogWritten(v)
                          \/ WriteLogEvent(v) \/ Unsubscribe(v)
    \/ RestartServer \/ LeaveCluster \/ DeleteNode

LogSpec == LogInit /\ [][LogNext]_logVars

-----------------------------------------------------------------------------
(* Properties.                                                             *)

\* The buffer, the batches and the channels are within their limits, and
\* lines in an open logger's buffer have a timer that will flush them.
LogTypeOK ==
    /\ Len(stamp) <= MaxLines
    /\ entries \subseteq DOMAIN stamp /\ Cardinality(entries) < BatchSize
    /\ \A b \in sent : b.lines \subseteq DOMAIN stamp /\ Cardinality(b.lines) \in 1..BatchSize
    /\ kept \subseteq DOMAIN stamp
    /\ \A v \in Viewers : /\ viewer[v].at \in {"off", "subscribed", "replaying", "live"}
                          /\ Len(viewer[v].ch) <= Buffer
    /\ (armed \/ entries # {}) => timer
    /\ closed => entries = {}

\* "Subscribe BEFORE loading the backlog so no event emitted during backlog
\* load is missed": a stream that has replayed has shown or queued every line
\* published to its scope, except lines older than its window, lines dropped
\* at a full channel and lines hidden when their node left the cluster.
NoGap ==
    \A v \in Viewers :
        viewer[v].at \in {"replaying", "live"} =>
            announced[viewer[v].scope] \subseteq
                viewer[v].shown \cup ToSet(viewer[v].ch) \cup missed[v]

\* A browser never shows a line of the command that a reload of its page would
\* not find in the database.
LiveIsDurable ==
    \A v \in Viewers : viewer[v].shown \cup ToSet(viewer[v].ch) \subseteq ListNodeCommandLogs("command")

\* Every line logged reaches the database, unless its batch is lost on the way
\* or refused: a line never stays in the buffer for want of a flush.
LinesArrive ==
    \A i \in Lines : (i \in DOMAIN stamp) ~> (i \in kept \cup lost)

=============================================================================
