--------------------------- MODULE ServicesProofs ---------------------------
(***************************************************************************)
(* What is proved of the services around the clusters.                     *)
(*                                                                         *)
(* LogPipeline, for any number of lines, streams and faults, and any size  *)
(* of batches, channels and windows: streams have no gaps and show only    *)
(* lines that are stored, and the logger never keeps lines without a timer *)
(* to flush them.                                                          *)
(*                                                                         *)
(* Serving, for any number of accounts, calls, ticks, restarts and faults: *)
(* the database outlives the gRPC calls, answered calls are in the audit   *)
(* log, and the access of deleted accounts ends.                           *)
(*                                                                         *)
(* Backups, for any number of clusters, schedules, jobs, requests and      *)
(* faults: a job's row and what pgbackrest did, and the rows of schedules  *)
(* and the entries of cron.                                                *)
(***************************************************************************)
EXTENDS LogPipeline, Serving, Backups, FiniteSetTheorems, SequenceTheorems, TLAPS

-----------------------------------------------------------------------------
(* The log pipeline: sequences of lines.                                   *)

\* GetEnrichedByIDs returns every row of a batch.
LEMMA OrderingCovers ==
  ASSUME NEW S, IsFiniteSet(S), NEW seq \in SetToSeqs(S)
  PROVE  seq \in Seq(S) /\ Len(seq) = Cardinality(S) /\ ToSet(seq) = S
  <1> DEFINE D == 1..Cardinality(S)
  <1>1. Cardinality(S) \in Nat
    BY FS_CardinalityType
  <1>2. seq \in [D -> S] /\ \A i, j \in D : i # j => seq[i] # seq[j]
    BY DEF SetToSeqs
  <1>3. seq \in Injection(D, S)
    BY <1>2 DEF Injection, IsInjective
  <1>4. Cardinality(D) = Cardinality(S)
    BY <1>1, FS_Interval
  <1>5. seq \in Surjection(D, S)
    BY <1>3, <1>4, FS_Injection
  <1> QED
    BY <1>1, <1>2, <1>5 DEF Surjection, ToSet

LEMMA InToSet ==
  ASSUME NEW s \in Seq(Nat)
  PROVE  \A x : x \in ToSet(s) <=> \E i \in 1..Len(s) : s[i] = x
  BY LenProperties DEF ToSet

LEMMA MinOfTwo ==
  ASSUME NEW a \in Nat, NEW b \in Nat
  PROVE  Min({a, b}) = IF a <= b THEN a ELSE b
  <1>1. \E x \in {a, b} : \A y \in {a, b} : x =< y
    OBVIOUS
  <1>2. Min({a, b}) \in {a, b} /\ \A y \in {a, b} : Min({a, b}) =< y
    BY <1>1 DEF Min
  <1> QED
    BY <1>2

\* The lines of a sequence that begins as ch does and goes on as seq does.
LEMMA PrefixOfBoth ==
  ASSUME NEW ch \in Seq(Nat), NEW seq \in Seq(Nat), NEW new \in Seq(Nat),
         Len(ch) <= Len(new), Len(new) <= Len(ch) + Len(seq),
         \A i \in 1..Len(new) : new[i] = IF i <= Len(ch) THEN ch[i] ELSE seq[i - Len(ch)]
  PROVE  /\ ToSet(ch) \subseteq ToSet(new)
         /\ ToSet(new) \subseteq ToSet(ch) \cup ToSet(seq)
         /\ Len(new) = Len(ch) + Len(seq) => ToSet(seq) \subseteq ToSet(new)
  <1> DEFINE In(s) == \A x : x \in ToSet(s) <=> \E i \in 1..Len(s) : s[i] = x
  <1>1. In(ch) /\ In(seq) /\ In(new)
    BY InToSet
  <1>2. Len(ch) \in Nat /\ Len(seq) \in Nat /\ Len(new) \in Nat
    OBVIOUS
  <1>3. ASSUME NEW i \in 1..Len(ch) PROVE i \in 1..Len(new) /\ new[i] = ch[i]
    BY <1>2
  <1>4. ASSUME NEW i \in 1..Len(new)
        PROVE  \/ i \in 1..Len(ch) /\ new[i] = ch[i]
               \/ i - Len(ch) \in 1..Len(seq) /\ new[i] = seq[i - Len(ch)]
    <2>1. CASE i <= Len(ch)
      BY <2>1, <1>2
    <2>2. CASE i > Len(ch)
      <3>1. i - Len(ch) \in 1..Len(seq) /\ ~(i <= Len(ch))
        BY <2>2, <1>2
      <3> QED
        BY <3>1
    <2> QED
      BY <2>1, <2>2, <1>2
  <1>5. ASSUME Len(new) = Len(ch) + Len(seq), NEW i \in 1..Len(seq)
        PROVE  Len(ch) + i \in 1..Len(new) /\ new[Len(ch) + i] = seq[i]
    <2>1. Len(ch) + i \in 1..Len(new) /\ ~(Len(ch) + i <= Len(ch)) /\ (Len(ch) + i) - Len(ch) = i
      BY <1>2, <1>5
    <2> QED
      BY <2>1
  <1> QED
    BY <1>1, <1>3, <1>4, <1>5

\* What a full channel keeps: the lines that were there, and as many of the new
\* ones as fit.
LEMMA OfferedChannel ==
  ASSUME NEW ch \in Seq(Nat), NEW seq \in Seq(Nat), Len(ch) <= Buffer
  PROVE  LET new == SubSeq(ch \o seq, 1, Min({Buffer, Len(ch) + Len(seq)}))
         IN  /\ new \in Seq(Nat) /\ Len(new) <= Buffer
             /\ ToSet(ch) \subseteq ToSet(new)
             /\ ToSet(new) \subseteq ToSet(ch) \cup ToSet(seq)
             /\ Len(ch) + Len(seq) <= Buffer => ToSet(seq) \subseteq ToSet(new)
  <1> DEFINE k == Min({Buffer, Len(ch) + Len(seq)})
             all == ch \o seq
             new == SubSeq(all, 1, k)
  <1>1. Buffer \in Nat /\ Len(ch) \in Nat /\ Len(seq) \in Nat
    BY LogAssumption
  <1>2. k = IF Buffer <= Len(ch) + Len(seq) THEN Buffer ELSE Len(ch) + Len(seq)
    BY <1>1, MinOfTwo
  <1>3. /\ all \in Seq(Nat) /\ Len(all) = Len(ch) + Len(seq)
        /\ \A i \in 1..(Len(ch) + Len(seq)) : all[i] = IF i <= Len(ch) THEN ch[i] ELSE seq[i - Len(ch)]
    BY ConcatProperties
  <1> HIDE DEF all, k
  <1>4. k \in Nat /\ Len(ch) <= k /\ k <= Len(ch) + Len(seq) /\ k <= Buffer
    BY <1>1, <1>2
  <1>5. \A i \in 1..k : all[i] \in Nat
    BY <1>1, <1>3, <1>4, ElementOfSeq
  <1>6. /\ new \in Seq(Nat)
        /\ Len(new) = IF 1 <= k THEN k - 1 + 1 ELSE 0
        /\ \A i \in 1..(k - 1 + 1) : new[i] = all[1 + i - 1]
    BY <1>4, <1>5, SubSeqProperties
  <1> HIDE DEF new
  <1>7. Len(new) = k /\ \A i \in 1..k : new[i] = all[i]
    BY <1>4, <1>6
  <1>8. \A i \in 1..Len(new) : new[i] = IF i <= Len(ch) THEN ch[i] ELSE seq[i - Len(ch)]
    BY <1>1, <1>3, <1>4, <1>7
  <1>9. /\ ToSet(ch) \subseteq ToSet(new)
        /\ ToSet(new) \subseteq ToSet(ch) \cup ToSet(seq)
        /\ Len(new) = Len(ch) + Len(seq) => ToSet(seq) \subseteq ToSet(new)
    BY <1>4, <1>6, <1>7, <1>8, PrefixOfBoth
  <1>10. /\ new \in Seq(Nat) /\ Len(new) <= Buffer
         /\ ToSet(ch) \subseteq ToSet(new)
         /\ ToSet(new) \subseteq ToSet(ch) \cup ToSet(seq)
         /\ Len(ch) + Len(seq) <= Buffer => ToSet(seq) \subseteq ToSet(new)
    BY <1>1, <1>2, <1>4, <1>6, <1>7, <1>9
  <1> QED
    BY <1>10 DEF new, all, k

LEMMA HeadAndTail ==
  ASSUME NEW ch \in Seq(Nat), ch # <<>>
  PROVE  /\ Tail(ch) \in Seq(Nat) /\ Len(Tail(ch)) < Len(ch) /\ Head(ch) \in Nat
         /\ ToSet(ch) = {Head(ch)} \cup ToSet(Tail(ch))
  <1>1. Len(ch) \in Nat /\ Len(ch) > 0 /\ Head(ch) = ch[1] /\ Head(ch) \in Nat
    OBVIOUS
  <1>2. /\ Tail(ch) \in Seq(Nat) /\ Len(Tail(ch)) = Len(ch) - 1
        /\ \A i \in 1..Len(Tail(ch)) : Tail(ch)[i] = ch[i + 1]
    BY HeadTailProperties
  <1> DEFINE In(s) == \A x : x \in ToSet(s) <=> \E i \in 1..Len(s) : s[i] = x
  <1>in. In(ch) /\ In(Tail(ch))
    BY <1>2, InToSet
  <1>3. ToSet(ch) \subseteq {Head(ch)} \cup ToSet(Tail(ch))
    <2>1. ASSUME NEW i \in 1..Len(ch)
          PROVE ch[i] = Head(ch) \/ (i - 1 \in 1..Len(Tail(ch)) /\ Tail(ch)[i - 1] = ch[i])
      BY <1>1, <1>2
    <2> QED
      BY <2>1, <1>in
  <1>4. {Head(ch)} \cup ToSet(Tail(ch)) \subseteq ToSet(ch)
    <2>1. 1 \in 1..Len(ch) /\ \A i \in 1..Len(Tail(ch)) : i + 1 \in 1..Len(ch)
      BY <1>1, <1>2
    <2> QED
      BY <1>1, <1>2, <2>1, <1>in
  <1> QED
    BY <1>1, <1>2, <1>3, <1>4

-----------------------------------------------------------------------------
(* The log pipeline: the logger, the batches and the rows.                 *)

Batches == [lines : SUBSET Nat, at : {"sent", "stored"}, member : BOOLEAN]

\* The lines in the buffer are fewer than a batch; the lines under way and
\* stored were logged.
BatchInv ==
    /\ stamp \in Seq(Nat) /\ Len(stamp) <= MaxLines
    /\ member \in BOOLEAN /\ flushing \in Nat
    /\ entries \subseteq 1..Len(stamp) /\ Cardinality(entries) < BatchSize
    /\ sent \subseteq Batches
    /\ \A b \in sent : b.lines \subseteq 1..Len(stamp) /\ Cardinality(b.lines) \in 1..BatchSize
    /\ kept \subseteq 1..Len(stamp)

\* Lines in the buffer have a timer, and a closed logger has none.
TimerInv ==
    /\ (armed \/ entries # {}) => timer
    /\ closed => entries = {}

LEMMA FiniteLines ==
  ASSUME BatchInv, NEW S, S \subseteq 1..Len(stamp)
  PROVE  IsFiniteSet(S) /\ Cardinality(S) \in Nat /\ (Cardinality(S) = 0 <=> S = {})
  <1>1. Len(stamp) \in Nat
    BY DEF BatchInv
  <1>2. IsFiniteSet(1..Len(stamp))
    BY <1>1, FS_Interval
  <1>3. IsFiniteSet(S)
    BY <1>2, FS_Subset
  <1> QED
    BY <1>3, FS_CardinalityType, FS_EmptySet

LEMMA InitBatchInv == LogInit => BatchInv
  BY LogAssumption, FS_EmptySet DEF LogInit, BatchInv

\* A flush of lines that are logged and fit in a batch.
LEMMA FlushKeepsBatchInv ==
  ASSUME BatchInv, NEW lines, FlushLocked(lines), lines \subseteq 1..Len(stamp)',
         IsFiniteSet(lines), Cardinality(lines) <= BatchSize, lines = {} => entries = {},
         stamp' \in Seq(Nat), Len(stamp)' <= MaxLines, Len(stamp) <= Len(stamp)',
         flushing' \in Nat, UNCHANGED <<kept, member>>
  PROVE  BatchInv'
  <1>1. Len(stamp) \in Nat /\ Len(stamp)' \in Nat /\ BatchSize \in Nat \ {0}
    BY LogAssumption DEF BatchInv
  <1>2. CASE lines = {}
    <2>1. UNCHANGED <<entries, sent>>
      BY <1>2 DEF FlushLocked
    <2>2. 1..Len(stamp) \subseteq 1..Len(stamp)'
      BY <1>1
    <2> QED
      BY <2>1, <2>2 DEF BatchInv
  <1>3. CASE lines # {}
    <2> DEFINE new == [lines |-> lines, at |-> "sent", member |-> FALSE]
    <2>1. Cardinality(lines) \in 1..BatchSize
      BY <1>1, <1>3, FS_CardinalityType, FS_EmptySet
    <2>2. new \in Batches /\ new.lines = lines
      BY <1>1 DEF Batches
    <2>3. sent' = sent \cup {new} /\ entries' = {}
      BY <1>3 DEF FlushLocked
    <2> HIDE DEF new
    <2>4. \A b \in sent' : b.lines \subseteq 1..Len(stamp)' /\ Cardinality(b.lines) \in 1..BatchSize
      BY <1>1, <2>1, <2>2, <2>3 DEF BatchInv
    <2>5. Cardinality({}) = 0
      BY FS_EmptySet
    <2> QED
      BY <1>1, <2>2, <2>3, <2>4, <2>5 DEF BatchInv
  <1> QED
    BY <1>2, <1>3

LEMMA NextBatchInv == BatchInv /\ [LogNext]_logVars => BatchInv'
  <1> SUFFICES ASSUME BatchInv, [LogNext]_logVars PROVE BatchInv'
    OBVIOUS
  <1>0. BatchSize \in Nat \ {0} /\ Len(stamp) \in Nat
    BY LogAssumption DEF BatchInv
  <1>1. CASE Log
    <2> DEFINE lines == entries \cup {Len(stamp')}
    <2>1. /\ stamp' \in Seq(Nat) /\ Len(stamp') = Len(stamp) + 1 /\ Len(stamp') <= MaxLines
      <3>1. PICK later \in BOOLEAN :
              stamp' = Append(stamp, IF stamp = <<>> THEN 0 ELSE Last(stamp) + (IF later THEN 1 ELSE 0))
        BY <1>1 DEF Log
      <3> DEFINE elt == IF stamp = <<>> THEN 0 ELSE Last(stamp) + (IF later THEN 1 ELSE 0)
      <3>2. stamp # <<>> => Last(stamp) \in Nat
        BY DEF Last, BatchInv
      <3>3. elt \in Nat
        BY <3>2
      <3> QED
        BY <1>1, <3>1, <3>3, AppendProperties, LogAssumption DEF Log, BatchInv
    <2>2. lines \subseteq 1..Len(stamp') /\ Len(stamp') \notin entries
      <3>1. \A i \in entries : i \in 1..Len(stamp)
        BY DEF BatchInv
      <3> QED
        BY <1>0, <2>1, <3>1
    <2>3. IsFiniteSet(entries)
      BY FiniteLines DEF BatchInv
    <2>4. IsFiniteSet(lines) /\ Cardinality(lines) = Cardinality(entries) + 1 /\ Cardinality(entries) \in Nat
      BY <2>2, <2>3, FS_AddElement, FS_CardinalityType
    <2>5. CASE Cardinality(lines) >= BatchSize
      <3>1. FlushLocked(lines) /\ UNCHANGED <<flushing, kept, member>>
        BY <1>1, <2>5 DEF Log
      <3>2. Cardinality(entries) < BatchSize /\ flushing \in Nat
        BY DEF BatchInv
      <3>3. Cardinality(lines) <= BatchSize /\ lines # {} /\ Len(stamp) <= Len(stamp')
        BY <1>0, <2>1, <2>4, <3>2
      <3> QED
        BY <2>1, <2>2, <2>4, <3>1, <3>2, <3>3, FlushKeepsBatchInv
    <2>6. CASE ~(Cardinality(lines) >= BatchSize)
      <3>1. entries' = lines /\ UNCHANGED <<sent, flushing, kept, member>>
        BY <1>1, <2>6 DEF Log
      <3>2. 1..Len(stamp) \subseteq 1..Len(stamp')
        BY <1>0, <2>1
      <3> QED
        BY <1>0, <2>1, <2>2, <2>4, <2>6, <3>1, <3>2 DEF BatchInv
    <2> QED
      BY <2>5, <2>6
  <1>2. CASE TimerFires
    BY <1>2 DEF TimerFires, BatchInv
  <1>3. CASE Flush
    <2>1. FlushLocked(entries) /\ flushing' \in Nat /\ UNCHANGED <<stamp, kept, member>>
      BY <1>3 DEF Flush, BatchInv
    <2>2. IsFiniteSet(entries) /\ Cardinality(entries) \in Nat
      BY FiniteLines DEF BatchInv
    <2>3. /\ entries \subseteq 1..Len(stamp) /\ Cardinality(entries) < BatchSize
          /\ stamp \in Seq(Nat) /\ Len(stamp) <= MaxLines /\ flushing \in Nat
      BY DEF BatchInv
    <2>4. Cardinality(entries) <= BatchSize /\ Len(stamp) <= Len(stamp')
      BY <1>0, <2>1, <2>2, <2>3
    <2> QED
      BY <2>1, <2>2, <2>3, <2>4, FlushKeepsBatchInv
  <1>4. CASE Close
    <2>1. FlushLocked(entries) /\ UNCHANGED <<stamp, flushing, kept, member>>
      BY <1>4 DEF Close
    <2>2. IsFiniteSet(entries) /\ Cardinality(entries) \in Nat
      BY FiniteLines DEF BatchInv
    <2>3. /\ entries \subseteq 1..Len(stamp) /\ Cardinality(entries) < BatchSize
          /\ stamp \in Seq(Nat) /\ Len(stamp) <= MaxLines /\ flushing \in Nat
      BY DEF BatchInv
    <2>4. Cardinality(entries) <= BatchSize /\ Len(stamp) <= Len(stamp')
      BY <1>0, <2>1, <2>2, <2>3
    <2> QED
      BY <2>1, <2>2, <2>3, <2>4, FlushKeepsBatchInv
  <1>5. ASSUME NEW b \in sent, StoreBatch(b) PROVE BatchInv'
    <2> DEFINE new == [b EXCEPT !.at = "stored", !.member = member]
    <2>1. new \in Batches /\ new.lines = b.lines
      BY DEF Batches, BatchInv
    <2>2. sent' = (sent \ {b}) \cup {new} /\ kept' = kept \cup b.lines
      BY <1>5 DEF StoreBatch
    <2> HIDE DEF new
    <2> QED
      BY <1>5, <2>1, <2>2 DEF StoreBatch, BatchInv
  <1>6. ASSUME NEW b \in sent, RefuseBatch(b) \/ LoseBatch(b) \/ PublishLiveLogs(b) \/ SkipPublish(b)
        PROVE  BatchInv'
    <2>1. sent' = sent \ {b} /\ UNCHANGED <<logger, kept, member>>
      BY <1>6 DEF RefuseBatch, LoseBatch, PublishLiveLogs, SkipPublish, logger
    <2> QED
      BY <2>1 DEF BatchInv, logger
  <1>7. CASE RestartServer
    BY <1>7 DEF RestartServer, BatchInv, logger
  <1>8. CASE LeaveCluster \/ DeleteNode
    BY <1>8 DEF LeaveCluster, DeleteNode, BatchInv, logger
  <1>9. ASSUME NEW v \in Viewers,
               \/ \E s \in Scopes : Subscribe(v, s)
               \/ LoadBacklog(v) \/ BacklogFails(v) \/ BacklogWritten(v)
               \/ WriteLogEvent(v) \/ Unsubscribe(v)
        PROVE  UNCHANGED <<logger, sent, kept, member>>
    BY <1>9 DEF Subscribe, LoadBacklog, BacklogFails, BacklogWritten, WriteLogEvent, Unsubscribe
  <1>10. CASE UNCHANGED <<logger, sent, kept, member>>
    BY <1>10 DEF BatchInv, logger
  <1>11. CASE UNCHANGED logVars
    BY <1>10, <1>11 DEF logVars, logger
  <1> QED
    BY <1>1, <1>2, <1>3, <1>4, <1>5, <1>6, <1>7, <1>8, <1>9, <1>10, <1>11 DEF LogNext

-----------------------------------------------------------------------------
(* The log pipeline: the timer.                                            *)

LEMMA InitTimerInv == LogInit => TimerInv
  BY Zenon DEF LogInit, TimerInv

LEMMA NextTimerInv == BatchInv /\ TimerInv /\ [LogNext]_logVars => TimerInv'
  <1> SUFFICES ASSUME BatchInv, TimerInv, [LogNext]_logVars PROVE TimerInv'
    OBVIOUS
  <1>1. CASE Log
    <2> DEFINE lines == entries \cup {Len(stamp')}
    <2>1. lines # {}
      OBVIOUS
    <2>2. CASE Cardinality(lines) >= BatchSize
      <3>1. FlushLocked(lines)
        BY <1>1, <2>2 DEF Log
      <3>2. entries' = {} /\ armed' = FALSE
        BY <2>1, <3>1, Zenon DEF FlushLocked
      <3> QED
        BY <3>2, Zenon DEF TimerInv
    <2>3. CASE ~(Cardinality(lines) >= BatchSize)
      <3>1. timer' = TRUE /\ ~closed'
        BY <1>1, <2>3, Zenon DEF Log
      <3> QED
        BY <3>1, Zenon DEF TimerInv
    <2> QED
      BY <2>2, <2>3
  <1>2. CASE TimerFires
    BY <1>2, Zenon DEF TimerFires, TimerInv
  <1>3. ASSUME FlushLocked(entries) PROVE entries' = {} /\ (armed' => timer')
    <2>1. CASE entries = {}
      <3>1. UNCHANGED <<entries, timer, armed>>
        BY <1>3, <2>1, Zenon DEF FlushLocked
      <3> QED
        BY <2>1, <3>1, Zenon DEF TimerInv
    <2>2. CASE entries # {}
      BY <1>3, <2>2, Zenon DEF FlushLocked
    <2> QED
      BY <2>1, <2>2
  <1>4. CASE Flush
    <2>1. FlushLocked(entries)
      BY <1>4 DEF Flush
    <2>2. entries' = {} /\ (armed' => timer')
      BY <1>3, <2>1
    <2> QED
      BY <2>2, Zenon DEF TimerInv
  <1>5. CASE Close
    <2>1. FlushLocked(entries)
      BY <1>5 DEF Close
    <2>2. entries' = {} /\ (armed' => timer')
      BY <1>3, <2>1
    <2> QED
      BY <2>2, Zenon DEF TimerInv
  <1>6. CASE UNCHANGED <<entries, timer, armed, closed>>
    BY <1>6, Zenon DEF TimerInv
  <1>7. ASSUME NEW b \in sent,
               StoreBatch(b) \/ RefuseBatch(b) \/ LoseBatch(b) \/ PublishLiveLogs(b) \/ SkipPublish(b)
        PROVE  UNCHANGED <<entries, timer, armed, closed>>
    BY <1>7 DEF StoreBatch, RefuseBatch, LoseBatch, PublishLiveLogs, SkipPublish, logger
  <1>8. ASSUME NEW v \in Viewers,
               \/ \E s \in Scopes : Subscribe(v, s)
               \/ LoadBacklog(v) \/ BacklogFails(v) \/ BacklogWritten(v)
               \/ WriteLogEvent(v) \/ Unsubscribe(v)
        PROVE  UNCHANGED <<entries, timer, armed, closed>>
    BY <1>8 DEF Subscribe, LoadBacklog, BacklogFails, BacklogWritten, WriteLogEvent, Unsubscribe, logger
  <1>9. ASSUME RestartServer \/ LeaveCluster \/ DeleteNode \/ UNCHANGED logVars
        PROVE  UNCHANGED <<entries, timer, armed, closed>>
    BY <1>9 DEF RestartServer, LeaveCluster, DeleteNode, logVars, logger
  <1> QED
    BY <1>1, <1>2, <1>4, <1>5, <1>6, <1>7, <1>8, <1>9 DEF LogNext


-----------------------------------------------------------------------------
(* The log pipeline: the streams.                                          *)

Streams == [at : {"off", "subscribed", "replaying", "live"}, scope : Scopes \cup {"none"},
            ch : Seq(Nat), shown : SUBSET Nat]

\* A stream shows and queues stored lines only, and once it has replayed it
\* accounts for every line announced to its scope.
Served(v) ==
    /\ Len(viewer[v].ch) <= Buffer
    /\ viewer[v].at # "off" => viewer[v].scope \in Scopes
    /\ viewer[v].shown \cup ToSet(viewer[v].ch) \subseteq kept
    /\ viewer[v].at \in {"replaying", "live"} =>
         announced[viewer[v].scope] \subseteq viewer[v].shown \cup ToSet(viewer[v].ch) \cup missed[v]

StreamInv ==
    /\ viewer \in [Viewers -> Streams]
    /\ missed \in [Viewers -> SUBSET Nat]
    /\ announced \in [Scopes -> SUBSET Nat]
    /\ \A b \in sent : b.at = "stored" => b.lines \subseteq kept
    /\ \A s \in Scopes : announced[s] \subseteq kept
    /\ \A v \in Viewers : Served(v)

LEMMA NoStreamServed ==
  NoStream \in Streams /\ NoStream.at = "off" /\ NoStream.ch = <<>> /\ NoStream.shown = {}
    /\ Len(NoStream.ch) = 0 /\ ToSet(NoStream.ch) = {}
  BY DEF NoStream, Streams, ToSet

LEMMA InitStreamInv == LogInit => StreamInv
  BY NoStreamServed, LogAssumption DEF LogInit, StreamInv, Served

\* Rows only grow: what a stream that does not move has shown stays stored.
LEMMA ServedStays ==
  ASSUME NEW v, Served(v), viewer[v]' = viewer[v], kept \subseteq kept', UNCHANGED announced,
         missed[v] \subseteq missed[v]'
  PROVE  Served(v)'
  BY DEF Served

LEMMA NextStreamInv == BatchInv /\ StreamInv /\ [LogNext]_logVars => StreamInv'
  <1> SUFFICES ASSUME BatchInv, StreamInv, [LogNext]_logVars PROVE StreamInv'
    OBVIOUS
  <1>1. ASSUME UNCHANGED stream, kept \subseteq kept',
               \A b \in sent' : b.at = "stored" => b.lines \subseteq kept'
        PROVE  StreamInv'
    <2>1. \A v \in Viewers : Served(v)'
      BY <1>1, ServedStays DEF StreamInv, stream
    <2> QED
      BY <1>1, <2>1 DEF StreamInv, stream
  <1>2. ASSUME NEW lines, FlushLocked(lines)
        PROVE  \A b \in sent' : b.at = "stored" => b \in sent
    BY <1>2 DEF FlushLocked
  <1>3. CASE Log
    <2>1. UNCHANGED <<stream, kept>> /\ \A b \in sent' : b.at = "stored" => b \in sent
      BY <1>2, <1>3 DEF Log
    <2> QED
      BY <1>1, <2>1 DEF StreamInv
  <1>4. CASE Flush \/ Close
    <2>1. UNCHANGED <<stream, kept>> /\ \A b \in sent' : b.at = "stored" => b \in sent
      BY <1>2, <1>4 DEF Flush, Close
    <2> QED
      BY <1>1, <2>1 DEF StreamInv
  <1>5. CASE TimerFires \/ LeaveCluster \/ DeleteNode
    <2>1. UNCHANGED <<stream, kept, sent>>
      BY <1>5 DEF TimerFires, LeaveCluster, DeleteNode
    <2> QED
      BY <1>1, <2>1 DEF StreamInv
  <1>6. ASSUME NEW b \in sent, StoreBatch(b) PROVE StreamInv'
    <2> DEFINE new == [b EXCEPT !.at = "stored", !.member = member]
    <2>1. UNCHANGED stream /\ kept' = kept \cup b.lines /\ sent' = (sent \ {b}) \cup {new}
      BY <1>6 DEF StoreBatch
    <2>2. new.lines = b.lines
      BY DEF BatchInv, Batches
    <2> HIDE DEF new
    <2> QED
      BY <1>1, <2>1, <2>2 DEF StreamInv
  <1>7. ASSUME NEW b \in sent, RefuseBatch(b) \/ LoseBatch(b) \/ SkipPublish(b) PROVE StreamInv'
    <2>1. UNCHANGED <<stream, kept>> /\ sent' \subseteq sent
      BY <1>7 DEF RefuseBatch, LoseBatch, SkipPublish
    <2> QED
      BY <1>1, <2>1 DEF StreamInv
  <1>8. ASSUME NEW b \in sent, PublishLiveLogs(b) PROVE StreamInv'
    <2>1. IsFiniteSet(b.lines) /\ b.lines \subseteq kept /\ b.lines \subseteq Nat
      <3>1. b.lines \subseteq 1..Len(stamp) /\ b.lines \subseteq Nat
        BY DEF BatchInv, Batches
      <3>2. b.lines \subseteq kept
        BY <1>8 DEF PublishLiveLogs, StreamInv
      <3> QED
        BY <3>1, <3>2, FiniteLines
    <2>2. PICK seq \in SetToSeqs(b.lines) :
            /\ viewer' = [v \in Viewers |-> IF Receives(v, b) THEN Offer(viewer[v], seq) ELSE viewer[v]]
            /\ missed' = [v \in Viewers |-> IF Receives(v, b) /\ Full(viewer[v], b)
                                            THEN missed[v] \cup (b.lines \ ToSet(viewer'[v].ch))
                                            ELSE missed[v]]
      BY <1>8 DEF PublishLiveLogs
    <2>3. seq \in Seq(Nat) /\ Len(seq) = Cardinality(b.lines) /\ ToSet(seq) = b.lines
      BY <2>1, OrderingCovers
    <2>4. /\ announced' = [s \in Scopes |-> IF MatchesLive(s, b.member) THEN announced[s] \cup b.lines
                                            ELSE announced[s]]
          /\ sent' \subseteq sent /\ kept' = kept
      BY <1>8 DEF PublishLiveLogs
    <2>5. ASSUME NEW v \in Viewers PROVE viewer'[v] \in Streams /\ missed'[v] \in SUBSET Nat /\ Served(v)'
      <3> DEFINE st == viewer[v]
                 new == SubSeq(st.ch \o seq, 1, Min({Buffer, Len(st.ch) + Len(seq)}))
      <3>1. /\ st \in Streams /\ missed[v] \in SUBSET Nat /\ Served(v)
            /\ st.ch \in Seq(Nat) /\ Len(st.ch) <= Buffer
        BY DEF StreamInv, Served, Streams
      <3>2. CASE ~Receives(v, b)
        <4>1. viewer'[v] = viewer[v] /\ missed'[v] = missed[v]
          BY <2>2, <3>2
        <4>2. viewer[v].at # "off" => announced'[viewer[v].scope] = announced[viewer[v].scope]
          BY <2>4, <3>1, <3>2 DEF Receives, Subscribed, Served
        <4> QED
          BY <2>4, <3>1, <4>1, <4>2 DEF Served
      <3>3. CASE Receives(v, b)
        <4>1. /\ new \in Seq(Nat) /\ Len(new) <= Buffer
              /\ ToSet(st.ch) \subseteq ToSet(new)
              /\ ToSet(new) \subseteq ToSet(st.ch) \cup b.lines
              /\ Len(st.ch) + Len(seq) <= Buffer => b.lines \subseteq ToSet(new)
          <5>1. ASSUME NEW ch \in Seq(Nat), Len(ch) <= Buffer, NEW off,
                       off = SubSeq(ch \o seq, 1, Min({Buffer, Len(ch) + Len(seq)}))
                PROVE  /\ off \in Seq(Nat) /\ Len(off) <= Buffer
                       /\ ToSet(ch) \subseteq ToSet(off)
                       /\ ToSet(off) \subseteq ToSet(ch) \cup ToSet(seq)
                       /\ Len(ch) + Len(seq) <= Buffer => ToSet(seq) \subseteq ToSet(off)
            BY <2>3, <5>1, OfferedChannel
          <5>2. st.ch \in Seq(Nat) /\ Len(st.ch) <= Buffer
            BY <3>1
          <5> HIDE DEF st
          <5>3. /\ new \in Seq(Nat) /\ Len(new) <= Buffer
                /\ ToSet(st.ch) \subseteq ToSet(new)
                /\ ToSet(new) \subseteq ToSet(st.ch) \cup ToSet(seq)
                /\ Len(st.ch) + Len(seq) <= Buffer => ToSet(seq) \subseteq ToSet(new)
            BY <5>1, <5>2
          <5> HIDE DEF new
          <5> QED
            BY <2>3, <5>3
        <4>2. viewer'[v] = Offer(st, seq)
          BY <2>2, <3>3
        <4>3. Offer(st, seq) = [st EXCEPT !.ch = new]
          BY DEF Offer
        <4> HIDE DEF new
        <4>4. /\ viewer'[v] \in Streams
              /\ viewer'[v].ch = new /\ viewer'[v].at = st.at
              /\ viewer'[v].scope = st.scope /\ viewer'[v].shown = st.shown
          BY <3>1, <4>1, <4>2, <4>3 DEF Streams
        <4>5. Len(st.ch) \in Nat /\ Len(seq) \in Nat /\ Buffer \in Nat
          BY <2>3, <3>1, LogAssumption
        <4>6. CASE Full(st, b)
          <5>1. missed'[v] = missed[v] \cup (b.lines \ ToSet(new))
            BY <2>2, <3>3, <4>4, <4>6
          <5>2. st.at # "off" => announced'[st.scope] \subseteq announced[st.scope] \cup b.lines
            BY <2>4, <3>1 DEF Served
          <5> QED
            BY <2>1, <2>4, <3>1, <4>1, <4>4, <5>1, <5>2 DEF Served
        <4>7. CASE ~Full(st, b)
          <5>1. missed'[v] = missed[v]
            BY <2>2, <4>7
          <5>2. b.lines \subseteq ToSet(new)
            BY <2>3, <4>1, <4>5, <4>7 DEF Full
          <5>3. st.at # "off" => announced'[st.scope] \subseteq announced[st.scope] \cup b.lines
            BY <2>4, <3>1 DEF Served
          <5> QED
            BY <2>1, <2>4, <3>1, <4>1, <4>4, <5>1, <5>2, <5>3 DEF Served
        <4> QED
          BY <4>6, <4>7
      <3> QED
        BY <3>2, <3>3
    <2>6. viewer' \in [Viewers -> Streams] /\ missed' \in [Viewers -> SUBSET Nat]
      <3>1. DOMAIN viewer' = Viewers /\ viewer' = [v \in Viewers |-> viewer'[v]]
        BY <2>2
      <3>2. missed' = [v \in Viewers |-> missed'[v]]
        BY <2>2
      <3> QED
        BY <3>1, <3>2, <2>5
    <2>7. announced' \in [Scopes -> SUBSET Nat] /\ \A s \in Scopes : announced'[s] \subseteq kept'
      BY <2>1, <2>4 DEF StreamInv
    <2> QED
      BY <2>4, <2>5, <2>6, <2>7 DEF StreamInv
  <1>9. CASE RestartServer
    <2>1. /\ viewer' = [v \in Viewers |-> NoStream] /\ missed' = [v \in Viewers |-> {}]
          /\ sent' = {} /\ UNCHANGED <<kept, announced>>
      BY <1>9 DEF RestartServer
    <2> QED
      BY <2>1, NoStreamServed, LogAssumption DEF StreamInv, Served
  <1>10. ASSUME NEW v \in Viewers, NEW st \in Streams, NEW m \in SUBSET Nat,
                viewer' = [viewer EXCEPT ![v] = st], missed' = [missed EXCEPT ![v] = m],
                UNCHANGED <<sent, kept, announced>>,
                Len(st.ch) <= Buffer, st.at # "off" => st.scope \in Scopes,
                st.shown \cup ToSet(st.ch) \subseteq kept,
                st.at \in {"replaying", "live"} =>
                  announced[st.scope] \subseteq st.shown \cup ToSet(st.ch) \cup m
         PROVE  StreamInv'
    <2>1. viewer' \in [Viewers -> Streams] /\ missed' \in [Viewers -> SUBSET Nat]
      BY <1>10 DEF StreamInv
    <2>2. viewer'[v] = st /\ missed'[v] = m
      BY <1>10 DEF StreamInv
    <2>3. Served(v)'
      BY <1>10, <2>2 DEF Served
    <2>4. ASSUME NEW u \in Viewers, u # v PROVE Served(u)'
      <3>1. viewer'[u] = viewer[u] /\ missed'[u] = missed[u]
        BY <1>10, <2>4 DEF StreamInv
      <3> QED
        BY <1>10, <3>1, ServedStays DEF StreamInv
    <2> QED
      BY <1>10, <2>1, <2>3, <2>4 DEF StreamInv
  <1>11. ASSUME NEW v \in Viewers PROVE missed = [missed EXCEPT ![v] = missed[v]] /\ missed[v] \in SUBSET Nat
    BY DEF StreamInv
  <1>12. kept \subseteq Nat
    BY DEF BatchInv
  <1>13. ASSUME NEW v \in Viewers
         PROVE  /\ viewer[v] \in Streams /\ viewer[v].ch \in Seq(Nat) /\ viewer[v].shown \subseteq Nat
                /\ viewer[v].at # "off" => viewer[v].scope \in Scopes
                /\ Served(v)
    BY DEF StreamInv, Served, Streams
  <1>14. ASSUME NEW v \in Viewers, NEW s \in Scopes, Subscribe(v, s) PROVE StreamInv'
    <2> DEFINE st == [NoStream EXCEPT !.at = "subscribed", !.scope = s]
    <2>1. st \in Streams /\ st.at = "subscribed" /\ st.scope = s /\ st.ch = <<>> /\ st.shown = {}
      <3>1. NoStream \in Streams /\ NoStream.ch = <<>> /\ NoStream.shown = {}
        BY NoStreamServed
      <3> QED
        BY <3>1 DEF Streams
    <2>2. /\ viewer' = [viewer EXCEPT ![v] = st] /\ missed' = [missed EXCEPT ![v] = missed[v]]
          /\ UNCHANGED <<sent, kept, announced>>
      BY <1>11, <1>14 DEF Subscribe
    <2> HIDE DEF st
    <2>3. Len(st.ch) <= Buffer /\ ToSet(st.ch) = {}
      BY <2>1, LogAssumption DEF ToSet
    <2> QED
      BY <1>10, <1>11, <2>1, <2>2, <2>3
  <1>15. ASSUME NEW v \in Viewers, LoadBacklog(v) PROVE StreamInv'
    <2>1. PICK w \in Newest(Visible(viewer[v].scope)) :
            /\ viewer' = [viewer EXCEPT ![v].at = "replaying", ![v].shown = w]
            /\ missed' = [missed EXCEPT ![v] = @ \cup (kept \ w)]
      BY <1>15 DEF LoadBacklog
    <2> DEFINE st == [viewer[v] EXCEPT !.at = "replaying", !.shown = w]
               m == missed[v] \cup (kept \ w)
    <2>2. w \subseteq kept
      BY DEF Newest, Visible
    <2>3. /\ st \in Streams /\ st.at = "replaying" /\ st.shown = w
          /\ st.scope = viewer[v].scope /\ st.ch = viewer[v].ch
      BY <1>12, <1>13, <2>2 DEF Streams
    <2>4. viewer' = [viewer EXCEPT ![v] = st] /\ missed' = [missed EXCEPT ![v] = m]
      BY <2>1 DEF StreamInv
    <2>5. m \in SUBSET Nat
      BY <1>11, <1>12
    <2>6. UNCHANGED <<sent, kept, announced>> /\ viewer[v].at = "subscribed"
      BY <1>15 DEF LoadBacklog
    <2>7. st.scope \in Scopes
      BY <1>13, <2>3, <2>6
    <2>8. announced[st.scope] \subseteq kept
      BY <2>7 DEF StreamInv
    <2>9. announced[st.scope] \subseteq st.shown \cup ToSet(st.ch) \cup m
      BY <2>3, <2>8
    <2>10. Len(st.ch) <= Buffer /\ st.shown \cup ToSet(st.ch) \subseteq kept
      BY <1>13, <2>2, <2>3 DEF Served
    <2> HIDE DEF st, m
    <2> QED
      BY <1>10, <2>3, <2>4, <2>5, <2>6, <2>7, <2>9, <2>10
  <1>16. ASSUME NEW v \in Viewers, BacklogFails(v) PROVE StreamInv'
    <2> DEFINE st == [viewer[v] EXCEPT !.at = "replaying"]
               m == missed[v] \cup kept
    <2>1. /\ st \in Streams /\ st.at = "replaying" /\ st.shown = viewer[v].shown
          /\ st.scope = viewer[v].scope /\ st.ch = viewer[v].ch
      BY <1>13 DEF Streams
    <2>2. /\ viewer' = [viewer EXCEPT ![v] = st] /\ missed' = [missed EXCEPT ![v] = m]
          /\ UNCHANGED <<sent, kept, announced>> /\ viewer[v].at = "subscribed"
      BY <1>16 DEF BacklogFails, StreamInv
    <2>3. m \in SUBSET Nat
      BY <1>11, <1>12
    <2>4. st.scope \in Scopes
      BY <1>13, <2>1, <2>2
    <2>5. announced[st.scope] \subseteq kept
      BY <2>4 DEF StreamInv
    <2>6. Len(st.ch) <= Buffer /\ st.shown \cup ToSet(st.ch) \subseteq kept
      BY <1>13, <2>1 DEF Served
    <2>7. announced[st.scope] \subseteq st.shown \cup ToSet(st.ch) \cup m
      BY <2>5
    <2> HIDE DEF st, m
    <2> QED
      BY <1>10, <2>1, <2>2, <2>3, <2>4, <2>6, <2>7
  <1>17. ASSUME NEW v \in Viewers, BacklogWritten(v) PROVE StreamInv'
    <2> DEFINE st == [viewer[v] EXCEPT !.at = "live"]
    <2>1. /\ st \in Streams /\ st.at = "live" /\ st.shown = viewer[v].shown
          /\ st.scope = viewer[v].scope /\ st.ch = viewer[v].ch
      BY <1>13 DEF Streams
    <2>2. /\ viewer' = [viewer EXCEPT ![v] = st] /\ missed' = [missed EXCEPT ![v] = missed[v]]
          /\ UNCHANGED <<sent, kept, announced>> /\ viewer[v].at = "replaying"
      BY <1>11, <1>17 DEF BacklogWritten, StreamInv
    <2> HIDE DEF st
    <2>3. /\ st.scope \in Scopes /\ Len(st.ch) <= Buffer /\ st.shown \cup ToSet(st.ch) \subseteq kept
          /\ announced[st.scope] \subseteq st.shown \cup ToSet(st.ch) \cup missed[v]
      BY <1>13, <2>1, <2>2 DEF Served
    <2> QED
      BY <1>10, <1>11, <2>1, <2>2, <2>3
  <1>18. ASSUME NEW v \in Viewers, WriteLogEvent(v) PROVE StreamInv'
    <2> DEFINE st == [viewer[v] EXCEPT !.shown = @ \cup {Head(viewer[v].ch)}, !.ch = Tail(@)]
    <2>1. viewer[v].ch # <<>> /\ viewer[v].at = "live" /\ UNCHANGED <<sent, kept, announced>>
      BY <1>18 DEF WriteLogEvent
    <2>2. /\ Tail(viewer[v].ch) \in Seq(Nat) /\ Len(Tail(viewer[v].ch)) < Len(viewer[v].ch)
          /\ Head(viewer[v].ch) \in Nat
          /\ ToSet(viewer[v].ch) = {Head(viewer[v].ch)} \cup ToSet(Tail(viewer[v].ch))
      BY <1>13, <2>1, HeadAndTail
    <2>3. /\ st \in Streams /\ st.at = "live" /\ st.scope = viewer[v].scope
          /\ st.shown = viewer[v].shown \cup {Head(viewer[v].ch)} /\ st.ch = Tail(viewer[v].ch)
      BY <1>13, <2>1, <2>2 DEF Streams
    <2>4. viewer' = [viewer EXCEPT ![v] = st] /\ missed' = [missed EXCEPT ![v] = missed[v]]
      BY <1>11, <1>18 DEF WriteLogEvent, StreamInv
    <2> HIDE DEF st
    <2>5. Len(st.ch) <= Buffer
      BY <1>13, <2>2, <2>3, LogAssumption DEF Served
    <2>6. /\ st.scope \in Scopes /\ st.shown \cup ToSet(st.ch) \subseteq kept
          /\ announced[st.scope] \subseteq st.shown \cup ToSet(st.ch) \cup missed[v]
      BY <1>13, <2>1, <2>2, <2>3 DEF Served
    <2> QED
      BY <1>10, <1>11, <2>1, <2>3, <2>4, <2>5, <2>6
  <1>19. ASSUME NEW v \in Viewers, Unsubscribe(v) PROVE StreamInv'
    <2>1. /\ viewer' = [viewer EXCEPT ![v] = NoStream] /\ missed' = [missed EXCEPT ![v] = {}]
          /\ UNCHANGED <<sent, kept, announced>>
      BY <1>19 DEF Unsubscribe
    <2>2. NoStream \in Streams /\ NoStream.at = "off" /\ Len(NoStream.ch) <= Buffer
          /\ NoStream.shown \cup ToSet(NoStream.ch) \subseteq kept
      BY NoStreamServed, LogAssumption
    <2> QED
      BY <1>10, <2>1, <2>2
  <1>20. CASE UNCHANGED logVars
    BY <1>1, <1>20 DEF logVars, stream, StreamInv
  <1> QED
    BY <1>3, <1>4, <1>5, <1>6, <1>7, <1>8, <1>9, <1>14, <1>15, <1>16, <1>17, <1>18, <1>19, <1>20
    DEF LogNext

-----------------------------------------------------------------------------
(* The log pipeline: the theorems.                                         *)

\* The three parts hold together in every state of the pipeline.
LEMMA PipelineInvariant == LogSpec => [](BatchInv /\ TimerInv /\ StreamInv)
  <1>1. LogInit => BatchInv /\ TimerInv /\ StreamInv
    BY InitBatchInv, InitTimerInv, InitStreamInv
  <1>2. BatchInv /\ TimerInv /\ StreamInv /\ [LogNext]_logVars => (BatchInv /\ TimerInv /\ StreamInv)'
    BY NextBatchInv, NextTimerInv, NextStreamInv
  <1> QED
    BY <1>1, <1>2, PTL DEF LogSpec

\* A stream that has replayed its backlog has shown, queued or is known to miss
\* every line published to its scope: handleStreamCommandLogs subscribes before
\* it reads the rows, and the broker drops lines only at a full channel.
THEOREM NoGapHolds == LogSpec => []NoGap
  <1>1. StreamInv => NoGap
    BY DEF StreamInv, Served, NoGap
  <1> QED
    BY <1>1, PipelineInvariant, PTL

\* What a stream shows or queues was stored first: ReportCommandLog publishes
\* only after the batch's transaction, and rows of the command stay.
THEOREM LiveIsDurableHolds == LogSpec => []LiveIsDurable
  <1>1. StreamInv => LiveIsDurable
    BY DEF StreamInv, Served, LiveIsDurable, ListNodeCommandLogs, Visible
  <1> QED
    BY <1>1, PipelineInvariant, PTL

\* The buffer stays below a batch, batches and channels within their limits,
\* lines in the buffer have a timer (flushLocked and Log), and a closed logger
\* keeps none.
THEOREM LogTypeCorrect == LogSpec => []LogTypeOK
  <1>1. ASSUME BatchInv, TimerInv, StreamInv PROVE LogTypeOK
    <2>1. DOMAIN stamp = 1..Len(stamp)
      BY <1>1 DEF BatchInv
    <2>2. \A v \in Viewers : /\ viewer[v].at \in {"off", "subscribed", "replaying", "live"}
                             /\ Len(viewer[v].ch) <= Buffer
      BY <1>1 DEF StreamInv, Served, Streams
    <2>3. /\ Len(stamp) <= MaxLines
          /\ entries \subseteq DOMAIN stamp /\ Cardinality(entries) < BatchSize
          /\ \A b \in sent : b.lines \subseteq DOMAIN stamp /\ Cardinality(b.lines) \in 1..BatchSize
          /\ kept \subseteq DOMAIN stamp
      BY <1>1, <2>1 DEF BatchInv
    <2> QED
      BY <1>1, <2>2, <2>3, Zenon DEF LogTypeOK, TimerInv
  <1> QED
    BY <1>1, PipelineInvariant, PTL

-----------------------------------------------------------------------------
(* Serving: the inductive invariant, in four parts.                        *)

CallRows == [at : {"arrived", "admitted", "handled", "done", "cut"},
             transport : {"grpc", "connect"}, method : Exercised, who : People,
             cred : {"none", "access", "refresh", "key"}, target : People, id : Nat,
             error : BOOLEAN, passed : BOOLEAN, named : BOOLEAN]
TokenRows == [user : People, kind : {"access", "refresh"}, exp : Nat, secret : Nat]

\* Start and its shutdown: gRPC is served, and the database open, in the phases
\* before CloseDB only.
ProcInv ==
    /\ phase \in {"down", "campaigning", "serving", "draining", "closing", "waiting"}
    /\ session \in {"none", "open", "closed"}
    /\ accepting \subseteq {"grpc", "connect"}
    /\ phase \in {"down", "campaigning"} => accepting = {}
    /\ "grpc" \in accepting => phase \in {"serving", "draining"}
    /\ dbOpen \in BOOLEAN
    /\ phase \in {"campaigning", "serving", "draining", "closing"} => dbOpen

\* A call that has not ended belongs to a process that runs, and one of gRPC to
\* one that GracefulStop has not drained; a call that passed the interceptor
\* names its account unless it came with a refresh token, and that account
\* exists or has existed.
NameOK(k) == k.passed /\ k.cred # "refresh" => k.named = TRUE

CallOK(c) ==
    /\ call[c] \in CallRows \cup {NoCall}
    /\ Active(c) => phase \notin {"down", "campaigning"}
    /\ Active(c) /\ call[c].transport = "grpc" => phase \in {"serving", "draining"}
    /\ call[c].at = "arrived" => call[c].passed = FALSE
    /\ call[c].at # "idle" => NameOK(call[c])
    /\ call[c].at = "admitted" => call[c].who \in used \/ call[c].method \in Public(call[c].transport)

CallInv ==
    /\ call \in [CallIds -> CallRows \cup {NoCall}]
    /\ calls \in Nat
    /\ \A c \in CallIds : CallOK(c)

\* No token outlives the longer lifetime, counted from now, or from the
\* deletion of its account.
AccountInv ==
    /\ users \subseteq used /\ used \subseteq People /\ apiKeys \subseteq used
    /\ tokens \subseteq TokenRows
    /\ now \in Nat /\ secret \in Nat /\ fixed \in BOOLEAN
    /\ deletedAt \in [People -> Nat]
    /\ \A t \in tokens : t.user \in used /\ t.exp <= now + Lifetime /\ t.secret <= secret
    /\ AccessEnds
    /\ storage \subseteq [sealedWith : Nat]
    /\ fixed => \A row \in storage : row.sealedWith = secret

AuditInv == servFaults \in Nat /\ AuditComplete

-----------------------------------------------------------------------------
(* Serving: the process.                                                   *)

LEMMA InitProcInv == ServInit => ProcInv
  BY DEF ServInit, ProcInv

LEMMA NextProcInv == ProcInv /\ [ServNext]_servVars => ProcInv'
  <1> SUFFICES ASSUME ProcInv, [ServNext]_servVars PROVE ProcInv'
    OBVIOUS
  <1>1. CASE StartServer
    BY <1>1 DEF StartServer, ProcInv
  <1>2. ASSUME NEW elector \in BOOLEAN, Elected(elector) PROVE ProcInv'
    BY <1>2 DEF Elected, ProcInv
  <1>3. CASE Signal
    BY <1>3 DEF Signal, ProcInv
  <1>4. ASSUME NEW transport, StopAccepting(transport) PROVE ProcInv'
    BY <1>4 DEF StopAccepting, ProcInv
  <1>5. ASSUME NEW ok \in BOOLEAN, Stopping(ok) PROVE ProcInv'
    BY <1>5 DEF Stopping, ResignAndClose, ProcInv
  <1>6. CASE GracefulStop
    BY <1>6 DEF GracefulStop, ProcInv
  <1>7. CASE CloseDB
    BY <1>7 DEF CloseDB, ProcInv
  <1>8. ASSUME NEW left, MemberReturns(left) PROVE ProcInv'
    BY <1>8 DEF MemberReturns, ProcInv
  <1>9. CASE LoseSession
    BY <1>9 DEF LoseSession, ProcInv
  <1>10. CASE Exit
    BY <1>10 DEF Exit, ProcInv
  <1>11. CASE UNCHANGED process
    BY <1>11 DEF process, ProcInv
  <1>12. ASSUME NEW c, \/ \E transport, m, u, target : Arrive(c, transport, m, u, target)
                       \/ Authenticate(c) \/ Handle(c) \/ Audit(c)
         PROVE  UNCHANGED process
    BY <1>12 DEF Arrive, Authenticate, Handle, Audit
  <1>13. ASSUME Tick \/ UNCHANGED servVars PROVE UNCHANGED process
    BY <1>13 DEF Tick, servVars, process
  <1> QED
    BY <1>1, <1>2, <1>3, <1>4, <1>5, <1>6, <1>7, <1>8, <1>9, <1>10, <1>11, <1>12, <1>13 DEF ServNext

-----------------------------------------------------------------------------
(* Serving: what one step may do to a call.                                *)

LEMMA CallAt ==
  ASSUME CallInv, NEW c \in CallIds
  PROVE  /\ call[c] \in CallRows \cup {NoCall}
         /\ Active(c) <=> call[c].at \in {"arrived", "admitted", "handled"}
         /\ call[c].at # "idle" => call[c] \in CallRows
  BY DEF CallInv, Active, CallRows, NoCall

\* The row of the call is replaced and the others stay.
LEMMA CallMoves ==
  ASSUME CallInv, NEW c \in CallIds, NEW k \in CallRows, call' = [call EXCEPT ![c] = k],
         UNCHANGED phase, used \subseteq used', calls' \in Nat,
         k.at \in {"arrived", "admitted", "handled"} =>
            /\ phase \notin {"down", "campaigning"}
            /\ k.transport = "grpc" => phase \in {"serving", "draining"},
         k.at = "arrived" => k.passed = FALSE, NameOK(k),
         k.at = "admitted" => k.who \in used \/ k.method \in Public(k.transport)
  PROVE  CallInv'
  <1>1. call' \in [CallIds -> CallRows \cup {NoCall}] /\ call'[c] = k
    BY DEF CallInv
  <1>2. CallOK(c)'
    BY <1>1 DEF CallOK, Active, CallRows
  <1>3. ASSUME NEW d \in CallIds, d # c PROVE CallOK(d)'
    <2>1. call'[d] = call[d] /\ CallOK(d)
      BY <1>3 DEF CallInv
    <2> QED
      BY <2>1 DEF CallOK, Active
  <1> QED
    BY <1>1, <1>2, <1>3 DEF CallInv

\* The handler's answer: of an audited gRPC method it waits for its entry.
LEMMA Finished ==
  ASSUME CallInv, NEW c \in CallIds, call[c].at = "admitted", NEW ok \in BOOLEAN, Finish(c, ok)
  PROVE  \E k \in CallRows :
            /\ call' = [call EXCEPT ![c] = k]
            /\ k.at \in {"handled", "done"} /\ k.transport = call[c].transport
            /\ k.method = call[c].method /\ NameOK(k)
            /\ k.at = "done" => ~(k.transport = "grpc" /\ k.method \in methodToAuditAction)
  <1> DEFINE k == [call[c] EXCEPT !.error = ~ok,
                                  !.at = IF call[c].transport = "grpc" /\ call[c].method \in methodToAuditAction
                                         THEN "handled" ELSE "done"]
  <1>1. call[c] \in CallRows
    BY CallAt
  <1>2. /\ k \in CallRows /\ k.at \in {"handled", "done"} /\ k.transport = call[c].transport
        /\ k.method = call[c].method /\ NameOK(k)
        /\ k.at = "done" => ~(k.transport = "grpc" /\ k.method \in methodToAuditAction)
    BY <1>1 DEF CallRows, CallInv, CallOK, NameOK
  <1>3. call' = [call EXCEPT ![c] = k]
    BY DEF Finish, CallInv
  <1> HIDE DEF k
  <1> QED
    BY <1>2, <1>3

\* Every handler ends in Finish.
LEMMA Handled ==
  ASSUME CallInv, NEW c \in CallIds, Handle(c)
  PROVE  \E ok \in BOOLEAN : Finish(c, ok)
  <1>1. CASE Login(c)
    BY <1>1, Zenon DEF Login
  <1>2. CASE RefreshToken(c)
    BY <1>2, Zenon DEF RefreshToken
  <1>3. CASE CreateUser(c)
    BY <1>3, Zenon DEF CreateUser
  <1>4. CASE DeleteUser(c) \/ DeleteAPIKey(c) \/ OtherMethod(c)
    BY <1>4, Zenon DEF DeleteUser, DeleteAPIKey, OtherMethod
  <1>5. CASE CreateStorageConfig(c)
    <2>1. Finish(c, storage = {}) /\ (storage = {}) \in BOOLEAN
      BY <1>5 DEF CreateStorageConfig
    <2> QED
      BY <2>1
  <1>6. CASE DeleteStorageConfig(c)
    <2>1. Finish(c, storage # {}) /\ (storage # {}) \in BOOLEAN
      BY <1>6 DEF DeleteStorageConfig
    <2> QED
      BY <2>1
  <1>7. CASE CreateAPIKey(c)
    <2>1. call[c].at = "admitted"
      BY DEF Handle
    <2>2. call[c].named \in BOOLEAN
      BY <2>1, CallAt DEF CallRows
    <2>3. Finish(c, call[c].named)
      BY <1>7 DEF CreateAPIKey
    <2> QED
      BY <2>2, <2>3
  <1>8. CASE Finish(c, FALSE)
    BY <1>8, Zenon
  <1> QED
    BY <1>1, <1>2, <1>3, <1>4, <1>5, <1>6, <1>7, <1>8, Zenon DEF Handle

\* Ids are kept when their row goes.
LEMMA UsedGrows == ASSUME [ServNext]_servVars PROVE used \subseteq used'
  <1>1. CASE StartServer
    BY <1>1 DEF StartServer, ensureDefaultAdmin
  <1>2. ASSUME NEW c, Handle(c) PROVE used \subseteq used'
    BY <1>2 DEF Handle, Login, RefreshToken, CreateUser, DeleteUser, CreateAPIKey, DeleteAPIKey,
                CreateStorageConfig, DeleteStorageConfig, OtherMethod, accounts
  <1>3. ASSUME NEW c, \/ \E transport, m, u, target : Arrive(c, transport, m, u, target)
                      \/ Authenticate(c) \/ Audit(c)
        PROVE  used \subseteq used'
    BY <1>3 DEF Arrive, Authenticate, Audit, accounts
  <1>4. ASSUME \/ Signal \/ Tick \/ LoseSession \/ \E elector : Elected(elector)
               \/ \E transport : StopAccepting(transport)
               \/ \E ok : Stopping(ok)
               \/ GracefulStop \/ CloseDB \/ Exit \/ \E left : MemberReturns(left)
               \/ UNCHANGED servVars
        PROVE  used \subseteq used'
    BY <1>4 DEF Signal, Tick, LoseSession, Elected, StopAccepting, Stopping, GracefulStop, CloseDB,
                Exit, MemberReturns, servVars, accounts
  <1> QED
    BY <1>1, <1>2, <1>3, <1>4 DEF ServNext

-----------------------------------------------------------------------------
(* Serving: the calls.                                                     *)

LEMMA InitCallInv == ServInit => CallInv
  BY DEF ServInit, CallInv, CallOK, Active, NoCall

LEMMA NextCallInv == ProcInv /\ AccountInv /\ CallInv /\ [ServNext]_servVars => CallInv'
  <1> SUFFICES ASSUME ProcInv, AccountInv, CallInv, [ServNext]_servVars PROVE CallInv'
    OBVIOUS
  <1>0. used \subseteq used'
    BY UsedGrows
  <1>1. ASSUME UNCHANGED <<call, calls>>,
               \A c \in CallIds : Active(c) => phase' \notin {"down", "campaigning"},
               \A c \in CallIds : Active(c) /\ call[c].transport = "grpc" => phase' \in {"serving", "draining"}
        PROVE  CallInv'
    <2>1. ASSUME NEW c \in CallIds PROVE CallOK(c)'
      BY <1>0, <1>1 DEF CallInv, CallOK, Active
    <2> QED
      BY <1>1, <2>1 DEF CallInv
  <1>2. CASE StartServer
    <2>1. call' = [c \in CallIds |-> NoCall] /\ UNCHANGED calls
      BY <1>2 DEF StartServer
    <2> QED
      BY <2>1 DEF CallInv, CallOK, Active, NoCall
  <1>3. ASSUME NEW c \in CallIds, NEW transport \in {"grpc", "connect"}, NEW m \in Exercised,
               NEW u \in People, NEW target \in People, Arrive(c, transport, m, u, target)
        PROVE  CallInv'
    <2>1. PICK cred \in {"none", "access", "refresh", "key"} :
             call' = [call EXCEPT ![c] = [at |-> "arrived", transport |-> transport, method |-> m,
                                          who |-> u, cred |-> cred, target |-> target,
                                          id |-> calls, error |-> FALSE, passed |-> FALSE, named |-> FALSE]]
      <3>1. PICK cred \in {"none"} \cup {t.kind : t \in {t \in tokens : t.user = u}}
                            \cup {"key" : k \in apiKeys \cap {u}} :
               call' = [call EXCEPT ![c] = [at |-> "arrived", transport |-> transport, method |-> m,
                                            who |-> u, cred |-> cred, target |-> target,
                                            id |-> calls, error |-> FALSE, passed |-> FALSE, named |-> FALSE]]
        BY <1>3 DEF Arrive
      <3>2. cred \in {"none", "access", "refresh", "key"}
        BY DEF AccountInv, TokenRows
      <3> QED
        BY <3>1, <3>2
    <2> DEFINE k == [at |-> "arrived", transport |-> transport, method |-> m,
                     who |-> u, cred |-> cred, target |-> target,
                     id |-> calls, error |-> FALSE, passed |-> FALSE, named |-> FALSE]
    <2>2. k \in CallRows /\ k.at = "arrived" /\ k.transport = transport /\ k.passed = FALSE /\ NameOK(k)
      BY DEF CallRows, CallInv, NameOK
    <2>3. /\ phase \notin {"down", "campaigning"}
          /\ transport = "grpc" => phase \in {"serving", "draining"}
      BY <1>3 DEF Arrive, ProcInv
    <2>4. calls' \in Nat /\ UNCHANGED phase
      BY <1>3 DEF Arrive, CallInv, process
    <2>5. call' = [call EXCEPT ![c] = k]
      BY <2>1
    <2> HIDE DEF k
    <2> QED
      BY <1>0, <2>2, <2>3, <2>4, <2>5, CallMoves
  <1>4. ASSUME NEW c \in CallIds, Authenticate(c) PROVE CallInv'
    <2> DEFINE k == call[c]
               new == IF k.method \in Public(k.transport) THEN [k EXCEPT !.at = "admitted"]
                      ELSE IF Authentic(k) /\ Permitted(k)
                      THEN [k EXCEPT !.at = "admitted", !.passed = TRUE, !.named = HasUserID(k)]
                      ELSE [k EXCEPT !.at = "done", !.error = TRUE]
    <2>1. k.at = "arrived" /\ UNCHANGED <<phase, calls>> /\ call' = [call EXCEPT ![c] = new]
      BY <1>4 DEF Authenticate, process
    <2>2. k \in CallRows
      BY <2>1, CallAt
    <2>3. new \in CallRows /\ new.at \in {"admitted", "done"} /\ new.transport = k.transport
      <3>1. HasUserID(k) \in BOOLEAN
        BY DEF HasUserID
      <3> QED
        BY <2>2, <3>1 DEF CallRows
    <2>4. new.at = "admitted" => k.who \in used \/ k.method \in Public(k.transport)
      <3>1. Authentic(k) => k.who \in used
        BY DEF Authentic, authenticate, extractHTTPAuth, ValidateToken, Valid, authenticateAPIKey, GetByKeyHash, AccountInv
      <3> QED
        BY <2>2, <3>1 DEF CallRows
    <2>5. new.who = k.who /\ new.method = k.method /\ NameOK(new)
      <3>1. NameOK(k)
        BY <2>1 DEF CallInv, CallOK
      <3>2. Authentic(k) /\ k.cred # "refresh" => HasUserID(k)
        BY <2>2 DEF CallRows, Authentic, authenticate, extractHTTPAuth, ValidateToken, HasUserID
      <3> QED
        BY <2>2, <3>1, <3>2 DEF CallRows, NameOK
    <2>6. /\ phase \notin {"down", "campaigning"}
          /\ k.transport = "grpc" => phase \in {"serving", "draining"}
      BY <2>1 DEF CallInv, CallOK, Active
    <2>7. calls' \in Nat
      BY <2>1 DEF CallInv
    <2> HIDE DEF new
    <2> QED
      BY <1>0, <2>1, <2>3, <2>4, <2>5, <2>6, <2>7, CallMoves
  <1>5. ASSUME NEW c \in CallIds, Handle(c) PROVE CallInv'
    <2>1. call[c].at = "admitted" /\ UNCHANGED <<phase, calls>>
      BY <1>5 DEF Handle, process
    <2>2. PICK k \in CallRows : /\ call' = [call EXCEPT ![c] = k]
                                /\ k.at \in {"handled", "done"} /\ k.transport = call[c].transport
                                /\ NameOK(k)
      BY <1>5, <2>1, Handled, Finished
    <2>3. /\ phase \notin {"down", "campaigning"}
          /\ call[c].transport = "grpc" => phase \in {"serving", "draining"}
      BY <2>1 DEF CallInv, CallOK, Active
    <2>4. calls' \in Nat
      BY <2>1 DEF CallInv
    <2> QED
      BY <1>0, <2>1, <2>2, <2>3, <2>4, CallMoves
  <1>6. ASSUME NEW c \in CallIds, Audit(c) PROVE CallInv'
    <2> DEFINE k == [call[c] EXCEPT !.at = "done"]
    <2>1. call[c].at = "handled" /\ UNCHANGED <<phase, calls>>
      BY <1>6 DEF Audit, process
    <2>2. k \in CallRows /\ k.at = "done" /\ NameOK(k)
      <3>1. call[c] \in CallRows /\ NameOK(call[c])
        BY <2>1, CallAt DEF CallInv, CallOK
      <3> QED
        BY <3>1 DEF CallRows, NameOK
    <2>3. call' = [call EXCEPT ![c] = k]
      BY <1>6 DEF Audit, CallInv
    <2>4. calls' \in Nat
      BY <2>1 DEF CallInv
    <2> HIDE DEF k
    <2> QED
      BY <1>0, <2>1, <2>2, <2>3, <2>4, CallMoves
  <1>7. CASE GracefulStop
    BY <1>1, <1>7 DEF GracefulStop, Drained, CallInv, CallOK
  <1>8. CASE CloseDB
    BY <1>1, <1>8 DEF CloseDB, CallInv, CallOK
  <1>9. CASE Exit
    <2>1. UNCHANGED calls
      BY <1>9 DEF Exit
    <2>2. ASSUME NEW c \in CallIds
          PROVE  /\ call'[c] \in CallRows \cup {NoCall}
                 /\ call'[c].at \in {"idle", "done", "cut"}
                 /\ call'[c].at # "idle" => NameOK(call'[c])
      <3>1. CASE Active(c)
        <4>1. call'[c] = [call[c] EXCEPT !.at = "cut"]
          BY <1>9, <3>1 DEF Exit
        <4>2. call[c] \in CallRows /\ NameOK(call[c])
          BY <3>1, CallAt DEF CallInv, CallOK, Active
        <4> QED
          BY <4>1, <4>2 DEF CallRows, NameOK
      <3>2. CASE ~Active(c)
        <4>1. call'[c] = call[c]
          BY <1>9, <3>2 DEF Exit
        <4> QED
          BY <3>2, <4>1, CallAt DEF Active, CallInv, CallOK
      <3> QED
        BY <3>1, <3>2
    <2>3. call' = [c \in CallIds |-> call'[c]]
      BY <1>9 DEF Exit
    <2> QED
      BY <2>1, <2>2, <2>3 DEF CallInv, CallOK, Active
  <1>10. CASE \E ok \in BOOLEAN : Stopping(ok)
    BY <1>1, <1>10 DEF Stopping, CallInv, CallOK
  <1>11. CASE \E elector \in BOOLEAN : Elected(elector)
    BY <1>1, <1>11 DEF Elected, CallInv, CallOK
  <1>12. ASSUME \/ Signal \/ Tick \/ LoseSession
                \/ \E transport \in {"grpc", "connect"} : StopAccepting(transport)
                \/ \E left \in running : MemberReturns(left)
                \/ UNCHANGED servVars
         PROVE  UNCHANGED <<phase, call, calls>>
    BY <1>12 DEF Signal, Tick, LoseSession, StopAccepting, MemberReturns, servVars, process
  <1>13. CASE UNCHANGED <<phase, call, calls>>
    BY <1>1, <1>13 DEF CallInv, CallOK
  <1> QED
    BY <1>2, <1>3, <1>4, <1>5, <1>6, <1>7, <1>8, <1>9, <1>10, <1>11, <1>12, <1>13 DEF ServNext

-----------------------------------------------------------------------------
(* Serving: the accounts and their tokens.                                 *)

LEMMA InitAccountInv == ServInit => AccountInv
  BY ServAssumption DEF ServInit, AccountInv, AccessEnds

\* A pair of tokens for an account that exists.
LEMMA TokensIssued ==
  ASSUME AccountInv, NEW u \in users, IssueTokens(u),
         UNCHANGED <<users, used, apiKeys, storage, deletedAt, secret, fixed, now>>
  PROVE  AccountInv'
  <1> DEFINE a == Token(u, "access", TokenExpiry)
             r == Token(u, "refresh", RefreshExpiry)
  <1>1. /\ now \in Nat /\ secret \in Nat /\ TokenExpiry \in Nat /\ RefreshExpiry \in Nat
        /\ TokenExpiry <= Lifetime /\ RefreshExpiry <= Lifetime /\ Lifetime \in Nat
        /\ u \in People /\ u \in used
    BY ServAssumption DEF AccountInv, Lifetime
  <1>2. ASSUME NEW t \in {a, r}
        PROVE  t \in TokenRows /\ t.user = u /\ t.exp <= now + Lifetime /\ t.secret = secret
    BY <1>1 DEF Token, TokenRows
  <1>3. ASSUME NEW t \in tokens' PROVE t \in tokens \/ t \in {a, r}
    BY DEF IssueTokens
  <1> HIDE DEF a, r
  <1>4. tokens' \subseteq TokenRows
    BY <1>2, <1>3 DEF AccountInv
  <1>5. \A t \in tokens' : t.user \in used /\ t.exp <= now + Lifetime /\ t.secret <= secret
    BY <1>1, <1>2, <1>3 DEF AccountInv
  <1>6. AccessEnds'
    BY <1>2, <1>3 DEF AccountInv, AccessEnds
  <1> QED
    BY <1>4, <1>5, <1>6 DEF AccountInv

LEMMA NextAccountInv == AccountInv /\ CallInv /\ [ServNext]_servVars => AccountInv'
  <1> SUFFICES ASSUME AccountInv, CallInv, [ServNext]_servVars PROVE AccountInv'
    OBVIOUS
  <1>1. CASE StartServer
    <2>1. secret' \in Nat /\ secret <= secret' /\ (fixed => secret' = secret)
      BY <1>1 DEF StartServer, NewSecret, AccountInv
    <2>2. UNCHANGED <<apiKeys, tokens, storage, fixed, now, deletedAt>>
      BY <1>1 DEF StartServer
    <2>3. users' \subseteq used' /\ used' \subseteq People /\ used \subseteq used' /\ users \subseteq users'
      BY <1>1 DEF StartServer, ensureDefaultAdmin, AccountInv
    <2>4. AccessEnds'
      BY <2>2, <2>3 DEF AccountInv, AccessEnds
    <2>5. \A t \in tokens : t.secret <= secret'
      BY <2>1 DEF AccountInv, TokenRows
    <2> QED
      BY <2>1, <2>2, <2>3, <2>4, <2>5 DEF AccountInv
  <1>2. CASE Tick
    <2>1. now' = now + 1 /\ UNCHANGED <<accounts, secret, fixed>>
      BY <1>2 DEF Tick
    <2>2. \A t \in tokens : t.exp <= now' + Lifetime
      BY <2>1, ServAssumption DEF AccountInv, TokenRows, Lifetime
    <2>3. AccessEnds'
      BY <2>1 DEF accounts, AccountInv, AccessEnds
    <2> QED
      BY <2>1, <2>2, <2>3 DEF accounts, AccountInv
  <1>3. CASE UNCHANGED <<accounts, secret, fixed, now>>
    <2>1. AccessEnds'
      BY <1>3 DEF accounts, AccountInv, AccessEnds
    <2> QED
      BY <1>3, <2>1 DEF accounts, AccountInv
  <1>4. ASSUME NEW c \in CallIds, Handle(c) PROVE AccountInv'
    <2>1. call[c].at = "admitted" /\ UNCHANGED <<secret, fixed, now>>
      BY <1>4 DEF Handle
    <2>2. call[c] \in CallRows /\ call[c].target \in People
      BY <2>1, CallAt DEF CallRows
    <2>3. CASE Login(c) \/ RefreshToken(c)
      <3>1. CASE call[c].who \in users /\ IssueTokens(call[c].who)
        BY <2>1, <2>3, <3>1, TokensIssued DEF Login, RefreshToken
      <3>2. CASE UNCHANGED tokens
        BY <1>3, <2>1, <2>3, <3>2 DEF Login, RefreshToken, accounts
      <3> QED
        BY <2>3, <3>1, <3>2 DEF Login, RefreshToken, MayRefresh
    <2>4. CASE CreateUser(c)
      <3>1. /\ users' \subseteq used' /\ used' \subseteq People /\ used \subseteq used' /\ users \subseteq users'
            /\ UNCHANGED <<apiKeys, tokens, storage, deletedAt>>
        BY <2>2, <2>4 DEF CreateUser, AccountInv
      <3>2. AccessEnds'
        BY <3>1 DEF AccountInv, AccessEnds
      <3> QED
        BY <2>1, <3>1, <3>2 DEF AccountInv
    <2>5. CASE DeleteUser(c)
      <3> DEFINE u == call[c].target
      <3>1. /\ users' = users \ {u} /\ UNCHANGED <<used, apiKeys, tokens, storage>>
            /\ deletedAt' = IF u \in users THEN [deletedAt EXCEPT ![u] = now] ELSE deletedAt
        BY <2>5 DEF DeleteUser
      <3>2. deletedAt' \in [People -> Nat]
        BY <2>2, <3>1 DEF AccountInv
      <3>3. ASSUME NEW t \in tokens, t.user \notin users' PROVE t.exp <= deletedAt'[t.user] + Lifetime
        <4>1. CASE t.user \in users
          <5>1. t.user = u /\ deletedAt'[u] = now
            BY <2>2, <3>1, <3>3, <4>1 DEF AccountInv
          <5> QED
            BY <5>1 DEF AccountInv
        <4>2. CASE t.user \notin users
          <5>1. deletedAt'[t.user] = deletedAt[t.user]
            BY <3>1, <4>2 DEF AccountInv
          <5> QED
            BY <4>2, <5>1 DEF AccountInv, AccessEnds
        <4> QED
          BY <4>1, <4>2
      <3>4. AccessEnds'
        BY <3>1, <3>3 DEF AccessEnds
      <3> QED
        BY <2>1, <3>1, <3>2, <3>4 DEF AccountInv
    <2>6. CASE CreateAPIKey(c) \/ DeleteAPIKey(c)
      <3>1. UNCHANGED <<users, used, tokens, storage, deletedAt>>
        BY <2>6 DEF CreateAPIKey, DeleteAPIKey
      <3>2. apiKeys' \subseteq used
        <4>1. CASE CreateAPIKey(c)
          <5>1. call[c].method \notin Public(call[c].transport)
            BY <4>1 DEF CreateAPIKey, Public, unauthenticatedMethods, unauthenticatedPaths, AgentServiceDesc
          <5>2. call[c].who \in used
            BY <2>1, <5>1 DEF CallInv, CallOK
          <5> QED
            BY <4>1, <5>2 DEF CreateAPIKey, AccountInv
        <4>2. CASE DeleteAPIKey(c)
          BY <4>2 DEF DeleteAPIKey, AccountInv
        <4> QED
          BY <2>6, <4>1, <4>2
      <3>3. AccessEnds'
        BY <3>1 DEF AccountInv, AccessEnds
      <3> QED
        BY <2>1, <3>1, <3>2, <3>3 DEF AccountInv
    <2>7. CASE CreateStorageConfig(c) \/ DeleteStorageConfig(c)
      <3>1. UNCHANGED <<users, used, apiKeys, tokens, deletedAt>>
        BY <2>7 DEF CreateStorageConfig, DeleteStorageConfig
      <3>2. /\ storage' \subseteq [sealedWith : Nat]
            /\ fixed => \A row \in storage' : row.sealedWith = secret
        BY <2>7 DEF CreateStorageConfig, DeleteStorageConfig, EncryptedRow, EncryptAES256GCM, AccountInv
      <3>3. AccessEnds'
        BY <3>1 DEF AccountInv, AccessEnds
      <3> QED
        BY <2>1, <3>1, <3>2, <3>3 DEF AccountInv
    <2>8. CASE OtherMethod(c)
      BY <1>3, <2>1, <2>8 DEF OtherMethod
    <2>9. CASE UNCHANGED accounts
      BY <1>3, <2>1, <2>9
    <2> QED
      BY <1>4, <2>3, <2>4, <2>5, <2>6, <2>7, <2>8, <2>9 DEF Handle
  <1>5. ASSUME NEW c, \/ \E transport, m, u, target : Arrive(c, transport, m, u, target)
                      \/ Authenticate(c) \/ Audit(c)
        PROVE  UNCHANGED <<accounts, secret, fixed, now>>
    BY <1>5 DEF Arrive, Authenticate, Audit
  <1>6. ASSUME \/ Signal \/ LoseSession \/ \E elector : Elected(elector)
               \/ \E transport : StopAccepting(transport)
               \/ \E ok : Stopping(ok)
               \/ GracefulStop \/ CloseDB \/ Exit \/ \E left : MemberReturns(left)
               \/ UNCHANGED servVars
        PROVE  UNCHANGED <<accounts, secret, fixed, now>>
    BY <1>6 DEF Signal, LoseSession, Elected, StopAccepting, Stopping, GracefulStop, CloseDB,
                Exit, MemberReturns, servVars, accounts
  <1> QED
    BY <1>1, <1>2, <1>3, <1>4, <1>5, <1>6 DEF ServNext

-----------------------------------------------------------------------------
(* Serving: the audit log.                                                 *)

LEMMA InitAuditInv == ServInit => AuditInv
  BY DEF ServInit, AuditInv, AuditComplete, NoCall

\* Rows of audit_logs stay, and a fault is remembered.
LEMMA AuditGrows ==
  ASSUME AuditInv, [ServNext]_servVars
  PROVE  audit \subseteq audit' /\ servFaults' \in Nat /\ (servFaults' = 0 => servFaults = 0)
  <1>1. CASE UNCHANGED <<audit, servFaults>>
    BY <1>1 DEF AuditInv
  <1>2. ASSUME NEW c, Audit(c)
        PROVE  audit \subseteq audit' /\ servFaults' \in Nat /\ (servFaults' = 0 => servFaults = 0)
    BY <1>2 DEF Audit, Fault, AuditInv
  <1>3. ASSUME NEW c, Handle(c)
        PROVE  audit \subseteq audit' /\ servFaults' \in Nat /\ (servFaults' = 0 => servFaults = 0)
    <2>1. UNCHANGED audit /\ (UNCHANGED servFaults \/ servFaults' = servFaults + 1)
      BY <1>3, Zenon DEF Handle, Fault
    <2> QED
      BY <2>1 DEF AuditInv
  <1>4. ASSUME NEW ok, Stopping(ok)
        PROVE  audit \subseteq audit' /\ servFaults' \in Nat /\ (servFaults' = 0 => servFaults = 0)
    <2>1. UNCHANGED audit /\ (UNCHANGED servFaults \/ servFaults' = servFaults + 1)
      BY <1>4, Zenon DEF Stopping, Fault
    <2> QED
      BY <2>1 DEF AuditInv
  <1>5. CASE LoseSession
    BY <1>5 DEF LoseSession, Fault, AuditInv
  <1>6. ASSUME NEW c, \/ \E transport, m, u, target : Arrive(c, transport, m, u, target)
                      \/ Authenticate(c)
        PROVE  UNCHANGED <<audit, servFaults>>
    BY <1>6 DEF Arrive, Authenticate
  <1>7. ASSUME \/ StartServer \/ Signal \/ Tick \/ \E elector : Elected(elector)
               \/ \E transport : StopAccepting(transport)
               \/ GracefulStop \/ CloseDB \/ Exit \/ \E left : MemberReturns(left)
               \/ UNCHANGED servVars
        PROVE  UNCHANGED <<audit, servFaults>>
    BY <1>7 DEF StartServer, Signal, Tick, Elected, StopAccepting, GracefulStop, CloseDB,
                Exit, MemberReturns, servVars
  <1> QED
    BY <1>1, <1>2, <1>3, <1>4, <1>5, <1>6, <1>7 DEF ServNext

\* AuditComplete, for one call.
Recorded(c) ==
    /\ call[c].at = "done" /\ call[c].transport = "grpc"
    /\ call[c].method \in methodToAuditAction
    /\ call[c].passed \/ call[c].method \in Public("grpc")
    /\ servFaults = 0
    => \E e \in audit :
         /\ e.id = call[c].id
         /\ call[c].passed /\ call[c].cred # "refresh" => e.user = {call[c].who}

LEMMA RecordedCalls == AuditComplete <=> \A c \in CallIds : Recorded(c)
  BY DEF AuditComplete, Recorded, ListAuditLogs

LEMMA NextAuditInv ==
  ProcInv /\ CallInv /\ AuditInv /\ [ServNext]_servVars => AuditInv'
  <1> SUFFICES ASSUME ProcInv, CallInv, AuditInv, [ServNext]_servVars PROVE AuditInv'
    OBVIOUS
  <1>1. audit \subseteq audit' /\ servFaults' \in Nat /\ (servFaults' = 0 => servFaults = 0)
    BY AuditGrows
  <1>2. SUFFICES ASSUME NEW c \in CallIds PROVE Recorded(c)'
    <2>1. AuditComplete' <=> \A c \in CallIds : Recorded(c)'
      BY DEF AuditComplete, Recorded, ListAuditLogs
    <2> QED
      BY <1>1, <1>2, <2>1 DEF AuditInv
  <1>3. CASE call'[c] = call[c]
    <2>1. Recorded(c)
      BY RecordedCalls DEF AuditInv
    <2> QED
      BY <1>1, <1>3, <2>1 DEF Recorded
  <1>4. CASE call'[c].at # "done"
    BY <1>4 DEF Recorded
  <1>5. CASE StartServer
    <2>1. call'[c].at = "idle"
      BY <1>5 DEF StartServer, NoCall
    <2> QED
      BY <1>4, <2>1
  <1>6. CASE Exit
    <2>1. CASE Active(c)
      <3>1. call'[c] = [call[c] EXCEPT !.at = "cut"] /\ call[c] \in CallRows
        BY <1>6, <2>1, CallAt DEF Exit
      <3>2. call'[c].at = "cut"
        BY <3>1 DEF CallRows
      <3> QED
        BY <1>4, <3>2
    <2>2. CASE ~Active(c)
      <3>1. call'[c] = call[c]
        BY <1>6, <2>2 DEF Exit
      <3> QED
        BY <1>3, <3>1
    <2> QED
      BY <2>1, <2>2
  <1>7. ASSUME NEW d \in CallIds, NEW k, call' = [call EXCEPT ![d] = k], d # c
        PROVE  Recorded(c)'
    <2>1. call'[c] = call[c]
      BY <1>7 DEF CallInv
    <2> QED
      BY <1>3, <2>1
  <1>8. ASSUME NEW d \in CallIds, NEW transport, NEW m, NEW u, NEW target, Arrive(d, transport, m, u, target)
        PROVE  Recorded(c)'
    <2>1. PICK cred : call' = [call EXCEPT ![d] = [at |-> "arrived", transport |-> transport, method |-> m,
                                          who |-> u, cred |-> cred, target |-> target,
                                          id |-> calls, error |-> FALSE, passed |-> FALSE, named |-> FALSE]]
      BY <1>8 DEF Arrive
    <2>2. CASE d = c
      <3>1. call'[c].at = "arrived"
        BY <2>1, <2>2 DEF CallInv
      <3> QED
        BY <1>4, <3>1
    <2> QED
      BY <1>7, <2>1, <2>2
  <1>9. ASSUME NEW d \in CallIds, Authenticate(d) PROVE Recorded(c)'
    <2> DEFINE k == call[d]
               new == IF k.method \in Public(k.transport) THEN [k EXCEPT !.at = "admitted"]
                      ELSE IF Authentic(k) /\ Permitted(k)
                      THEN [k EXCEPT !.at = "admitted", !.passed = TRUE, !.named = HasUserID(k)]
                      ELSE [k EXCEPT !.at = "done", !.error = TRUE]
    <2>1. k.at = "arrived" /\ call' = [call EXCEPT ![d] = new]
      BY <1>9 DEF Authenticate
    <2>2. k \in CallRows /\ k.passed = FALSE
      BY <2>1, CallAt DEF CallInv, CallOK
    <2>3. /\ new.at = "done" => new.method \notin Public(new.transport)
          /\ new.at = "done" => new.passed = FALSE
      BY <2>2 DEF CallRows
    <2> HIDE DEF new
    <2>4. CASE d = c
      <3>1. call'[c] = new
        BY <2>1, <2>4 DEF CallInv
      <3> QED
        BY <2>3, <3>1 DEF Recorded
    <2> QED
      BY <1>7, <2>1, <2>4
  <1>10. ASSUME NEW d \in CallIds, Handle(d) PROVE Recorded(c)'
    <2>1. call[d].at = "admitted"
      BY <1>10 DEF Handle
    <2>2. PICK k \in CallRows :
             /\ call' = [call EXCEPT ![d] = k]
             /\ k.at = "done" => ~(k.transport = "grpc" /\ k.method \in methodToAuditAction)
      BY <1>10, <2>1, Handled, Finished
    <2>3. CASE d = c
      <3>1. call'[c] = k
        BY <2>2, <2>3 DEF CallInv
      <3> QED
        BY <2>2, <3>1 DEF Recorded
    <2> QED
      BY <1>7, <2>2, <2>3
  <1>11. ASSUME NEW d \in CallIds, Audit(d) PROVE Recorded(c)'
    <2> DEFINE k == [call[d] EXCEPT !.at = "done"]
    <2>1. call[d].at = "handled" /\ call[d] \in CallRows /\ call' = [call EXCEPT ![d] = k]
      BY <1>11, CallAt DEF Audit, CallInv
    <2>2. CASE d = c
      <3>1. /\ call'[c] = k /\ k.id = call[c].id /\ k.named = call[c].named
            /\ k.who = call[c].who /\ k.transport = call[c].transport
            /\ k.passed = call[c].passed /\ k.cred = call[c].cred
        BY <2>1, <2>2 DEF CallInv, CallRows
      <3>2. call[c].transport = "grpc" => dbOpen
        BY <2>1, <2>2 DEF CallInv, CallOK, Active, ProcInv
      <3> DEFINE e == [id |-> call[c].id, user |-> IF call[c].named THEN {call[c].who} ELSE {}]
      <3>3. call[c].transport = "grpc" => servFaults' = servFaults + 1 \/ e \in audit'
        BY <1>11, <2>2, <3>2 DEF Audit, Fault, Entry
      <3>4. servFaults' = 0 => ~(servFaults' = servFaults + 1)
        BY DEF AuditInv
      <3>5. /\ e.id = call[c].id
            /\ call[c].passed /\ call[c].cred # "refresh" => e.user = {call[c].who}
        BY <2>1, <2>2 DEF CallInv, CallOK, NameOK
      <3> HIDE DEF k, e
      <3> QED
        BY <3>1, <3>3, <3>4, <3>5 DEF Recorded
    <2> HIDE DEF k
    <2> QED
      BY <1>7, <2>1, <2>2
  <1>12. ASSUME \/ Signal \/ Tick \/ LoseSession \/ \E elector : Elected(elector)
                \/ \E transport : StopAccepting(transport)
                \/ \E ok : Stopping(ok)
                \/ GracefulStop \/ CloseDB \/ \E left : MemberReturns(left)
                \/ UNCHANGED servVars
         PROVE  call'[c] = call[c]
    BY <1>12 DEF Signal, Tick, LoseSession, Elected, StopAccepting, Stopping, GracefulStop, CloseDB,
                 MemberReturns, servVars
  <1> QED
    BY <1>3, <1>5, <1>6, <1>8, <1>9, <1>10, <1>11, <1>12 DEF ServNext

-----------------------------------------------------------------------------
(* Serving: the theorems.                                                  *)

\* The four parts hold together in every state of the server.
LEMMA ServerInvariant == ServSpec => [](ProcInv /\ AccountInv /\ CallInv /\ AuditInv)
  <1>1. ServInit => ProcInv /\ AccountInv /\ CallInv /\ AuditInv
    BY InitProcInv, InitAccountInv, InitCallInv, InitAuditInv
  <1>2. ProcInv /\ AccountInv /\ CallInv /\ AuditInv /\ [ServNext]_servVars
          => (ProcInv /\ AccountInv /\ CallInv /\ AuditInv)'
    BY NextProcInv, NextAccountInv, NextCallInv, NextAuditInv
  <1> QED
    BY <1>1, <1>2, PTL DEF ServSpec

\* The deferred close of the database comes after GracefulStop, which waits for
\* the gRPC calls: no handler of one finds it closed.
THEOREM GRPCCallsCompleteHolds == ServSpec => []GRPCCallsComplete
  <1>1. ProcInv /\ CallInv => GRPCCallsComplete
    BY DEF ProcInv, CallInv, CallOK, GRPCCallsComplete
  <1> QED
    BY <1>1, ServerInvariant, PTL

\* For any two lifetimes, the tokens of a deleted account end with the longer one
\* after its row: Login and RefreshToken read the row, whatever kind of token the
\* latter is given, and nothing else issues tokens.
THEOREM AccessEndsHolds == ServSpec => []AccessEnds
  <1>1. AccountInv => AccessEnds
    BY DEF AccountInv
  <1> QED
    BY <1>1, ServerInvariant, PTL

\* As long as nothing failed, an answered call that passed the interceptor and
\* that the audit interceptor knows is in the log, under the caller's name unless
\* it came with a refresh token: the interceptor of the entry runs inside the one
\* that authenticates, after the handler, while the database is open.
THEOREM AuditCompleteHolds == ServSpec => []AuditComplete
  <1>1. AuditInv => AuditComplete
    BY DEF AuditInv
  <1> QED
    BY <1>1, ServerInvariant, PTL

\* Accounts, tokens, calls and the process stay in the states the code can be
\* in; with a configured secret the stored credentials can be decrypted by every
\* process.
THEOREM ServTypeCorrect == ServSpec => []ServTypeOK
  <1>1. ASSUME ProcInv, AccountInv, CallInv PROVE ServTypeOK
    <2>1. accepting # {} => dbOpen \/ accepting = {"connect"}
      BY <1>1 DEF ProcInv
    <2>2. fixed => \A row \in storage : GetDecryptedCredentials(row)
      BY <1>1 DEF AccountInv, GetDecryptedCredentials, DecryptAES256GCM
    <2>3. \A t \in tokens : t.user \in People /\ t.exp <= now + Lifetime /\ t.secret <= secret
      BY <1>1 DEF AccountInv
    <2> QED
      BY <1>1, <2>1, <2>2, <2>3 DEF ServTypeOK, ProcInv, AccountInv, CallInv, CallOK
  <1> QED
    BY <1>1, ServerInvariant, PTL

-----------------------------------------------------------------------------
(* Backups: the inductive invariants.                                      *)

JobRows == {Absent} \cup [status : {"running", "completed", "failed"},
                          kind : {"backup", "restore"}, cluster : BackupClusters]

Goroutines == [job : JobIds, at : {"read", "stanza", "command", "completed", "failed"},
               limit : BOOLEAN]

\* A row is numbered below nextJob and has one goroutine at most.  Until that
\* ends the row says running, and the goroutine alone knows the outcome.
JobInv ==
    /\ clusterRows \subseteq BackupClusters
    /\ jobs \in [JobIds -> JobRows]
    /\ work \subseteq Goroutines
    /\ nextJob \in Nat \ {0}
    /\ \A j \in JobIds : (j \in done \/ jobs[j].status # "absent") => j < nextJob
    /\ \A w \in work : w.job < nextJob
    /\ \A w1, w2 \in work : w1.job = w2.job => w1 = w2
    /\ \A w \in work : /\ jobs[w.job].status \in {"absent", "running"}
                       /\ w.job \in done <=> w.at = "completed"
    /\ \A j \in JobIds : /\ jobs[j].status = "completed" => j \in done
                         /\ jobs[j].status = "failed" => j \notin done

\* An entry of cron is the one its schedule has in Worker.jobs; entries are
\* numbered below nextEntry and no two schedules share one.
EntryInv ==
    /\ nextEntry \in Nat \ {0}
    /\ workerJobs \in [ScheduleIds -> Nat]
    /\ \A s \in ScheduleIds : workerJobs[s] < nextEntry
    /\ \A s, t \in ScheduleIds : workerJobs[s] = workerJobs[t] /\ workerJobs[s] # 0 => s = t
    /\ \A e \in cron : /\ e.id \in ScheduleIds /\ e.entry = workerJobs[e.id] /\ e.entry # 0
                       /\ e.cluster \in BackupClusters \cup {NoCluster}
    /\ \A s \in ScheduleIds : workerJobs[s] # 0 => \E e \in cron : e.id = s
    /\ \A q \in calling : q.id \in ScheduleIds
    /\ \A q \in calling : q.op = "schedule" => q.cluster \in BackupClusters \cup {NoCluster}

-----------------------------------------------------------------------------
LEMMA InitJobInv == BackupInit => JobInv
  BY BackupAssumption DEF BackupInit, JobInv, JobRows, JobIds, Absent

\* A step that does not touch what JobInv speaks of.
LEMMA JobInvStutters ==
  ASSUME JobInv, UNCHANGED <<clusterRows, jobVars>>
  PROVE  JobInv'
  BY DEF JobInv, jobVars, JobRows, JobIds, Goroutines, Absent

LEMMA StartJobKeepsJobInv ==
  ASSUME JobInv, NEW row, NEW limit \in BOOLEAN, NEW kind \in {"backup", "restore"}, NEW c,
         row = [status |-> "running", kind |-> kind, cluster |-> c],
         StartJob(row, limit), UNCHANGED clusterRows
  PROVE  JobInv'
  <1>1. nextJob \in JobIds /\ c \in BackupClusters
    BY BackupAssumption DEF JobInv, StartJob, JobIds
  <1>2. row \in JobRows /\ row.status = "running"
    BY <1>1 DEF JobRows
  <1>3. jobs' \in [JobIds -> JobRows]
    BY <1>1, <1>2 DEF JobInv, StartJob
  <1>4. work' \subseteq Goroutines
    BY <1>1 DEF JobInv, StartJob, Goroutines
  <1>5. \A w \in work : w.job # nextJob
    BY DEF JobInv, Goroutines, JobIds
  <1>6. \A w \in work' : w \in work \/ w = [job |-> nextJob, at |-> "read", limit |-> limit]
    BY DEF StartJob
  <1>7. nextJob \notin done
    BY <1>1 DEF JobInv
  <1> QED
    BY <1>1, <1>2, <1>3, <1>4, <1>5, <1>6, <1>7 DEF JobInv, StartJob, JobIds, Goroutines

LEMMA NextJobInv == JobInv /\ [BackupNext]_backupVars => JobInv'
  <1> SUFFICES ASSUME JobInv, [BackupNext]_backupVars PROVE JobInv'
    OBVIOUS
  <1>1. ASSUME NEW c \in BackupClusters, CreateBackup(c) PROVE JobInv'
    BY <1>1, StartJobKeepsJobInv DEF CreateBackup, BackupRow
  <1>2. ASSUME NEW c \in BackupClusters, CreateRestoreJob(c) PROVE JobInv'
    BY <1>2, StartJobKeepsJobInv DEF CreateRestoreJob, RestoreRow
  <1>3. ASSUME NEW c \in BackupClusters, DropCluster(c) PROVE JobInv'
    <2>1. \A j \in JobIds : jobs'[j] = jobs[j] \/ jobs'[j] = Absent
      BY <1>3 DEF DropCluster, JobInv
    <2>2. jobs' \in [JobIds -> JobRows]
      BY <1>3 DEF DropCluster, JobInv, JobRows
    <2>3. clusterRows' \subseteq BackupClusters
      BY <1>3 DEF DropCluster, JobInv
    <2>4. UNCHANGED <<work, done, nextJob>>
      BY <1>3 DEF DropCluster
    <2> QED
      BY <2>1, <2>2, <2>3, <2>4 DEF JobInv, Absent, Goroutines
  <1>4. ASSUME NEW j \in JobIds, DeleteBackup(j) PROVE JobInv'
    <2>1. jobs' \in [JobIds -> JobRows]
      BY <1>4 DEF DeleteBackup, JobInv, JobRows
    <2>2. \A i \in JobIds : jobs'[i] = jobs[i] \/ jobs'[i] = Absent
      BY <1>4 DEF DeleteBackup, JobInv
    <2> QED
      BY <1>4, <2>1, <2>2 DEF DeleteBackup, JobInv, Absent, Goroutines
  <1>5. ASSUME NEW w \in work, NEW ok \in BOOLEAN, ReadJob(w, ok) PROVE JobInv'
    BY <1>5 DEF ReadJob, JobInv, To, Leave, Goroutines
  <1>6. ASSUME NEW w \in work, NEW ok \in BOOLEAN, Stanza(w, ok) PROVE JobInv'
    BY <1>6 DEF Stanza, JobInv, To, Goroutines
  <1>7. ASSUME NEW w \in work, NEW ok \in BOOLEAN, RunPgBackRest(w, ok) PROVE JobInv'
    BY <1>7 DEF RunPgBackRest, JobInv, To, Goroutines
  <1>8. ASSUME NEW w \in work, NEW ok \in BOOLEAN, RecordJob(w, ok) PROVE JobInv'
    <2>1. CASE UNCHANGED jobs
      BY <1>8, <2>1 DEF RecordJob, JobInv, Leave, Goroutines
    <2>2. CASE jobs[w.job].status # "absent" /\ jobs' = [jobs EXCEPT ![w.job] = Written(w)]
      <3>1. w.job \in JobIds /\ jobs[w.job] \in JobRows \ {Absent} /\ w.at \in {"completed", "failed"}
        BY <1>8, <2>2 DEF RecordJob, JobInv, Goroutines, Absent
      <3>2. Written(w) \in JobRows /\ Written(w).status = w.at
        BY <3>1 DEF Written, JobRows
      <3> QED
        BY <1>8, <2>2, <3>1, <3>2 DEF RecordJob, JobInv, Leave, Goroutines
    <2> QED
      BY <1>8, <2>1, <2>2 DEF RecordJob
  <1>9. ASSUME NEW w \in work, TimeOut(w) PROVE JobInv'
    BY <1>9 DEF TimeOut, JobInv, Leave, Goroutines
  <1>10. ASSUME NEW e \in cron, CronFires(e) PROVE JobInv'
    BY <1>10, StartJobKeepsJobInv DEF CronFires, BackupRow
  <1>11. CASE RestartWorker
    BY <1>11 DEF RestartWorker, JobInv, Goroutines
  <1>12. CASE UNCHANGED <<clusterRows, jobVars>>
    BY <1>12, JobInvStutters
  <1>13. ASSUME NEW s \in ScheduleIds, NEW valid \in BOOLEAN,
                \/ \E c \in BackupClusters : CreateSchedule(s, c, valid)
                \/ \E enabled \in BOOLEAN : UpdateSchedule(s, enabled, valid)
                \/ UnscheduleBackup(s)
         PROVE UNCHANGED <<clusterRows, jobVars>>
    BY <1>13 DEF CreateSchedule, UpdateSchedule, UnscheduleBackup
  <1>14. ASSUME NEW q \in calling, ScheduleBackup(q) \/ \E ok \in BOOLEAN : DeleteScheduleRow(q, ok)
         PROVE UNCHANGED <<clusterRows, jobVars>>
    BY <1>14 DEF ScheduleBackup, DeleteScheduleRow
  <1>15. CASE UNCHANGED backupVars
    BY <1>15, JobInvStutters DEF backupVars, jobVars
  <1> QED
    BY <1>1, <1>2, <1>3, <1>4, <1>5, <1>6, <1>7, <1>8, <1>9, <1>10, <1>11, <1>12, <1>13, <1>14, <1>15
       DEF BackupNext, JobStep

\* RecordedIsTrue for every number of jobs, requests and faults: a restart, a
\* timeout, a deleted row or cluster and a failing update between pgbackrest and
\* its record never make the record of a backup or restore false.
THEOREM RecordedIsTrueHolds == BackupSpec => []RecordedIsTrue
  <1>1. JobInv => RecordedIsTrue
    BY DEF JobInv, RecordedIsTrue, ListBackups, ListRestoreJobs, JobsOf
  <1> QED
    BY <1>1, InitJobInv, NextJobInv, PTL DEF BackupSpec

-----------------------------------------------------------------------------
LEMMA InitEntryInv == BackupInit => EntryInv
  BY DEF BackupInit, EntryInv

LEMMA NextEntryInv == EntryInv /\ JobInv /\ [BackupNext]_backupVars => EntryInv'
  <1> SUFFICES ASSUME EntryInv, JobInv, [BackupNext]_backupVars PROVE EntryInv'
    OBVIOUS
  <1>1. ASSUME NEW s \in ScheduleIds, NEW c \in BackupClusters, NEW valid \in BOOLEAN,
               CreateSchedule(s, c, valid)
        PROVE  EntryInv'
    BY <1>1 DEF CreateSchedule, EntryInv
  <1>2. ASSUME NEW s \in ScheduleIds, NEW enabled \in BOOLEAN, NEW valid \in BOOLEAN,
               UpdateSchedule(s, enabled, valid)
        PROVE  EntryInv'
    BY <1>2 DEF UpdateSchedule, EntryInv
  <1>3. ASSUME NEW s \in ScheduleIds, UnscheduleBackup(s) PROVE EntryInv'
    <2>1. cron' = {e \in cron : e.id # s}
      BY <1>3 DEF UnscheduleBackup, WithoutEntry, EntryInv
    <2> QED
      BY <1>3, <2>1 DEF UnscheduleBackup, EntryInv
  <1>4. ASSUME NEW q \in calling, ScheduleBackup(q) PROVE EntryInv'
    <2>1. WithoutEntry(q.id) = {e \in cron : e.id # q.id}
      BY DEF WithoutEntry, EntryInv
    <2>2. CASE Schedulable(q)
      <3> DEFINE new == [entry |-> nextEntry, id |-> q.id, cluster |-> q.cluster]
      <3>1. cron' = {e \in cron : e.id # q.id} \cup {new}
        BY <1>4, <2>1, <2>2 DEF ScheduleBackup
      <3>2. /\ workerJobs' = [workerJobs EXCEPT ![q.id] = nextEntry]
            /\ nextEntry' = nextEntry + 1
            /\ q.id \in ScheduleIds /\ q.cluster \in BackupClusters \cup {NoCluster}
        BY <1>4, <2>2 DEF ScheduleBackup, EntryInv
      <3>3. \A e \in cron' : (e \in cron /\ e.id # q.id) \/ e = new
        BY <3>1
      <3>4. new \in cron' /\ \A e \in cron : e.id # q.id => e \in cron'
        BY <3>1
      <3>5. new.id = q.id /\ new.entry = nextEntry /\ new.cluster = q.cluster
        OBVIOUS
      <3> HIDE DEF new
      <3>6. \A s \in ScheduleIds : workerJobs'[s] # 0 => \E e \in cron' : e.id = s
        BY <3>2, <3>4, <3>5 DEF EntryInv
      <3>7. \A e \in cron' : /\ e.id \in ScheduleIds /\ e.entry = workerJobs'[e.id] /\ e.entry # 0
                             /\ e.cluster \in BackupClusters \cup {NoCluster}
        BY <3>2, <3>3, <3>5 DEF EntryInv
      <3>8. calling' \subseteq calling
        BY <1>4 DEF ScheduleBackup
      <3> QED
        BY <3>2, <3>6, <3>7, <3>8 DEF EntryInv
    <2>3. CASE ~Schedulable(q)
      BY <1>4, <2>1, <2>3 DEF ScheduleBackup, EntryInv
    <2> QED
      BY <2>2, <2>3
  <1>5. ASSUME NEW q \in calling, NEW ok \in BOOLEAN, DeleteScheduleRow(q, ok) PROVE EntryInv'
    BY <1>5 DEF DeleteScheduleRow, EntryInv
  <1>6. CASE RestartWorker
    BY <1>6 DEF RestartWorker, EntryInv
  <1>7. CASE UNCHANGED <<nextEntry, workerJobs, cron, calling>>
    BY <1>7 DEF EntryInv
  <1>8. ASSUME \/ \E c \in BackupClusters : CreateBackup(c) \/ CreateRestoreJob(c) \/ DropCluster(c)
               \/ \E j \in JobIds : DeleteBackup(j)
               \/ JobStep
               \/ \E w \in work : TimeOut(w)
               \/ \E e \in cron : CronFires(e)
               \/ UNCHANGED backupVars
        PROVE  UNCHANGED <<nextEntry, workerJobs, cron, calling>>
    BY <1>8 DEF CreateBackup, CreateRestoreJob, DropCluster, DeleteBackup, JobStep, ReadJob, Stanza,
                RunPgBackRest, RecordJob, TimeOut, CronFires, backupVars, scheduleVars
  <1> QED
    BY <1>1, <1>2, <1>3, <1>4, <1>5, <1>6, <1>7, <1>8 DEF BackupNext

\* NoOrphanEntries for every number of schedules, requests and restarts: however
\* the calls of the worker interleave with the rows, each schedule has one entry
\* of cron at most and the worker can remove it.
THEOREM NoOrphanEntriesHolds == BackupSpec => []NoOrphanEntries
  <1>1. EntryInv => NoOrphanEntries
    BY DEF EntryInv, NoOrphanEntries
  <1> QED
    BY <1>1, InitJobInv, NextJobInv, InitEntryInv, NextEntryInv, PTL DEF BackupSpec

\* Rows, goroutines and entries of cron are in the states the code knows.
THEOREM BackupTypeCorrect == BackupSpec => []BackupTypeOK
  <1>1. JobInv /\ EntryInv => BackupTypeOK
    BY DEF JobInv, EntryInv, BackupTypeOK, JobRows, Goroutines, Absent
  <1> QED
    BY <1>1, InitJobInv, NextJobInv, InitEntryInv, NextEntryInv, PTL DEF BackupSpec

-----------------------------------------------------------------------------
(* Backups: rows and entries of a schedule whose requests do not overlap.  *)

ScheduleRows == {NoSchedule} \cup [row : {TRUE}, enabled : BOOLEAN, cluster : BackupClusters,
                                   valid : BOOLEAN]

PendingCalls == [id : ScheduleIds, n : Nat, op : {"schedule"}, enabled : BOOLEAN,
                  cluster : BackupClusters \cup {NoCluster}, valid : BOOLEAN]
                 \cup [id : ScheduleIds, n : Nat, op : {"delete"}]

Runs(s) == schedules[s].row /\ schedules[s].enabled /\ schedules[s].valid

\* One request at a time: the row already says what a schedule call will tell
\* the worker; a deletion has removed the entry; in between they agree.
InStep(s) ==
    /\ \A q1, q2 \in calling : q1.id = s /\ q2.id = s => q1 = q2
    /\ \A q \in calling : q.id = s =>
         /\ q.op = "schedule" => /\ schedules[s].row
                                 /\ Runs(s) <=> q.enabled /\ q.valid
         /\ q.op = "delete" => workerJobs[s] = 0
    /\ (\A q \in calling : q.id # s) => (workerJobs[s] # 0 <=> Runs(s))

ScheduleInv ==
    /\ schedules \in [ScheduleIds -> ScheduleRows]
    /\ calling \subseteq PendingCalls
    /\ scheduleCalls \in Nat
    /\ clusterRows = BackupClusters => \A s \in ScheduleIds \ disturbed : InStep(s)

LEMMA InitScheduleInv == BackupInit => ScheduleInv
  BY DEF BackupInit, ScheduleInv, InStep, ScheduleRows, NoSchedule, Runs

LEMMA NextScheduleInv == ScheduleInv /\ EntryInv /\ JobInv /\ [BackupNext]_backupVars => ScheduleInv'
  <1> SUFFICES ASSUME ScheduleInv, EntryInv, JobInv, [BackupNext]_backupVars PROVE ScheduleInv'
    OBVIOUS
  <1>1. ASSUME NEW s \in ScheduleIds, NEW c \in BackupClusters, NEW valid \in BOOLEAN,
               CreateSchedule(s, c, valid)
        PROVE  ScheduleInv'
    <2> DEFINE q == [id |-> s, n |-> scheduleCalls, op |-> "schedule", enabled |-> TRUE,
                     cluster |-> c, valid |-> valid]
    <2>1. q \in PendingCalls /\ q.id = s /\ q.op = "schedule" /\ q.enabled = TRUE /\ q.valid = valid
      BY DEF ScheduleInv, PendingCalls
    <2>2. calling' = calling \cup {q} /\ (\A p \in calling : p.id # s)
      BY <1>1 DEF CreateSchedule
    <2> HIDE DEF q
    <2>3. schedules' = [schedules EXCEPT ![s] = ScheduleRow(c, valid)] /\ UNCHANGED <<workerJobs, clusterRows>>
      BY <1>1 DEF CreateSchedule
    <2>4. ScheduleRow(c, valid) \in ScheduleRows
      BY DEF ScheduleRow, ScheduleRows
    <2>5. schedules' \in [ScheduleIds -> ScheduleRows]
      BY <2>3, <2>4 DEF ScheduleInv
    <2>6. disturbed \subseteq disturbed' /\ scheduleCalls' \in Nat
      BY <1>1 DEF CreateSchedule, ScheduleCall, ScheduleInv
    <2>7. ASSUME clusterRows = BackupClusters, NEW t \in ScheduleIds \ disturbed PROVE InStep(t)'
      <3>1. CASE t = s
        <4>1. schedules'[s] = ScheduleRow(c, valid)
          BY <2>3 DEF ScheduleInv
        <4>2. Runs(s)' <=> valid
          BY <4>1 DEF Runs, ScheduleRow
        <4>3. schedules'[s].row
          BY <4>1 DEF ScheduleRow
        <4> QED
          BY <3>1, <2>1, <2>2, <4>2, <4>3 DEF InStep
      <3>2. CASE t # s
        BY <3>2, <2>1, <2>2, <2>3, <2>7 DEF InStep, ScheduleInv, Runs
      <3> QED
        BY <3>1, <3>2
    <2> QED
      BY <2>1, <2>2, <2>3, <2>5, <2>6, <2>7 DEF ScheduleInv
  <1>2. ASSUME NEW s \in ScheduleIds, NEW enabled \in BOOLEAN, NEW valid \in BOOLEAN,
               UpdateSchedule(s, enabled, valid)
        PROVE  ScheduleInv'
    <2> DEFINE q == [id |-> s, n |-> scheduleCalls, op |-> "schedule", enabled |-> enabled,
                     cluster |-> NoCluster, valid |-> valid]
    <2>1. q \in PendingCalls /\ q.id = s /\ q.op = "schedule" /\ q.enabled = enabled /\ q.valid = valid
      BY DEF ScheduleInv, PendingCalls
    <2>2. calling' = calling \cup {q}
      BY <1>2 DEF UpdateSchedule
    <2> HIDE DEF q
    <2>3. schedules' = [schedules EXCEPT ![s] = UpdatedRow(s, enabled, valid)] /\ UNCHANGED <<workerJobs, clusterRows>>
      BY <1>2 DEF UpdateSchedule
    <2>4. UpdatedRow(s, enabled, valid) \in ScheduleRows
      <3>1. schedules[s] \in ScheduleRows
        BY DEF ScheduleInv
      <3>2. CASE ~schedules[s].row
        BY <3>2 DEF UpdatedRow, ScheduleRows
      <3>3. CASE schedules[s].row
        <4>1. schedules[s] \in [row : {TRUE}, enabled : BOOLEAN, cluster : BackupClusters, valid : BOOLEAN]
          <5>1. ~NoSchedule.row
            BY DEF NoSchedule
          <5>2. schedules[s] # NoSchedule
            BY <5>1, <3>3
          <5> QED
            BY <5>2, <3>1 DEF ScheduleRows
        <4>2. UpdatedRow(s, enabled, valid) = [schedules[s] EXCEPT !.enabled = enabled, !.valid = valid]
          BY <3>3 DEF UpdatedRow
        <4> QED
          BY <4>1, <4>2 DEF ScheduleRows
      <3> QED
        BY <3>2, <3>3
    <2>5. schedules' \in [ScheduleIds -> ScheduleRows]
      BY <2>3, <2>4 DEF ScheduleInv
    <2>6. disturbed \subseteq disturbed' /\ scheduleCalls' \in Nat
      BY <1>2 DEF UpdateSchedule, ScheduleCall, ScheduleInv
    <2>7. s \notin disturbed' => schedules[s].row /\ \A p \in calling : p.id # s
      BY <1>2 DEF UpdateSchedule, ScheduleCall
    <2>8. ASSUME clusterRows = BackupClusters, NEW t \in ScheduleIds \ disturbed' PROVE InStep(t)'
      <3>1. CASE t = s
        <4>1. schedules'[s] = [schedules[s] EXCEPT !.enabled = enabled, !.valid = valid]
          BY <2>3, <2>7, <2>8, <3>1 DEF ScheduleInv, UpdatedRow
        <4>2. schedules[s] \in ScheduleRows \ {NoSchedule}
          BY <2>7, <2>8, <3>1 DEF ScheduleInv, NoSchedule
        <4>3. schedules'[s].row /\ schedules'[s].enabled = enabled /\ schedules'[s].valid = valid
          BY <4>1, <4>2 DEF ScheduleRows
        <4> QED
          BY <3>1, <2>1, <2>2, <2>7, <2>8, <4>3 DEF InStep, Runs
      <3>2. CASE t # s
        BY <3>2, <2>1, <2>2, <2>3, <2>6, <2>8 DEF InStep, ScheduleInv, Runs
      <3> QED
        BY <3>1, <3>2
    <2> QED
      BY <2>1, <2>2, <2>3, <2>5, <2>6, <2>8 DEF ScheduleInv
  <1>3. ASSUME NEW s \in ScheduleIds, UnscheduleBackup(s) PROVE ScheduleInv'
    <2> DEFINE q == [id |-> s, n |-> scheduleCalls, op |-> "delete"]
    <2>1. q \in PendingCalls /\ q.id = s /\ q.op = "delete"
      BY DEF ScheduleInv, PendingCalls
    <2>2. calling' = calling \cup {q}
      BY <1>3 DEF UnscheduleBackup
    <2> HIDE DEF q
    <2>3. workerJobs' = [workerJobs EXCEPT ![s] = 0] /\ UNCHANGED <<schedules, clusterRows>>
      BY <1>3 DEF UnscheduleBackup
    <2>4. disturbed \subseteq disturbed' /\ scheduleCalls' \in Nat
      BY <1>3 DEF UnscheduleBackup, ScheduleCall, ScheduleInv
    <2>5. s \notin disturbed' => \A p \in calling : p.id # s
      BY <1>3 DEF UnscheduleBackup, ScheduleCall
    <2>6. ASSUME clusterRows = BackupClusters, NEW t \in ScheduleIds \ disturbed' PROVE InStep(t)'
      BY <2>1, <2>2, <2>3, <2>4, <2>5, <2>6 DEF InStep, ScheduleInv, Runs, EntryInv
    <2> QED
      BY <2>1, <2>2, <2>3, <2>4, <2>6 DEF ScheduleInv
  <1>4. ASSUME NEW q \in calling, ScheduleBackup(q) PROVE ScheduleInv'
    <2>1. q.id \in ScheduleIds /\ q.op = "schedule" /\ calling' = calling \ {q}
      BY <1>4 DEF ScheduleBackup, EntryInv
    <2>2. UNCHANGED <<schedules, clusterRows, disturbed, scheduleCalls>>
      BY <1>4 DEF ScheduleBackup
    <2>3. /\ \A s \in ScheduleIds \ {q.id} : workerJobs'[s] = workerJobs[s]
          /\ workerJobs'[q.id] # 0 <=> q.enabled /\ q.valid
      BY <1>4, <2>1 DEF ScheduleBackup, Schedulable, EntryInv
    <2>4. ASSUME clusterRows = BackupClusters, NEW t \in ScheduleIds \ disturbed PROVE InStep(t)'
      BY <2>1, <2>2, <2>3, <2>4 DEF InStep, ScheduleInv, Runs
    <2> QED
      BY <2>1, <2>2, <2>4 DEF ScheduleInv
  <1>5. ASSUME NEW q \in calling, NEW ok \in BOOLEAN, DeleteScheduleRow(q, ok) PROVE ScheduleInv'
    <2>1. q.id \in ScheduleIds /\ q.op = "delete" /\ calling' = calling \ {q}
      BY <1>5 DEF DeleteScheduleRow, EntryInv
    <2>2. UNCHANGED <<workerJobs, clusterRows, scheduleCalls>>
      BY <1>5 DEF DeleteScheduleRow
    <2>3. CASE ok
      <3>1. schedules' = [schedules EXCEPT ![q.id] = NoSchedule] /\ UNCHANGED disturbed
        BY <1>5, <2>3 DEF DeleteScheduleRow
      <3>2. schedules' \in [ScheduleIds -> ScheduleRows]
        BY <3>1 DEF ScheduleRows, ScheduleInv
      <3>3. ~Runs(q.id)'
        BY <2>1, <3>1 DEF Runs, NoSchedule, ScheduleInv
      <3>4. ASSUME clusterRows = BackupClusters, NEW t \in ScheduleIds \ disturbed PROVE InStep(t)'
        <4>1. CASE t = q.id
          BY <2>1, <2>2, <3>3, <3>4, <4>1 DEF InStep, ScheduleInv
        <4>2. CASE t # q.id
          BY <2>1, <2>2, <3>1, <3>4, <4>2 DEF InStep, ScheduleInv, Runs
        <4> QED
          BY <4>1, <4>2
      <3> QED
        BY <2>1, <2>2, <3>1, <3>2, <3>4 DEF ScheduleInv
    <2>4. CASE ~ok
      <3>1. schedules' = schedules /\ disturbed' = disturbed \cup {q.id}
        BY <1>5, <2>4 DEF DeleteScheduleRow
      <3>2. ASSUME clusterRows = BackupClusters, NEW t \in ScheduleIds \ disturbed' PROVE InStep(t)'
        BY <2>1, <2>2, <3>1, <3>2 DEF InStep, ScheduleInv, Runs
      <3> QED
        BY <2>1, <2>2, <3>1, <3>2 DEF ScheduleInv
    <2> QED
      BY <2>3, <2>4
  <1>6. CASE RestartWorker
    <2>1. ASSUME NEW t \in ScheduleIds \ disturbed' PROVE InStep(t)'
      BY <1>6, <2>1 DEF RestartWorker, InStep, Runs
    <2> QED
      BY <1>6, <2>1 DEF RestartWorker, ScheduleInv
  <1>7. ASSUME NEW c \in BackupClusters, DropCluster(c) PROVE ScheduleInv'
    <2>1. clusterRows' # BackupClusters
      BY <1>7 DEF DropCluster
    <2>2. schedules' \in [ScheduleIds -> ScheduleRows]
      BY <1>7 DEF DropCluster, ScheduleInv, ScheduleRows
    <2> QED
      BY <1>7, <2>1, <2>2 DEF DropCluster, ScheduleInv
  <1>8. CASE UNCHANGED <<clusterRows, scheduleVars>>
    BY <1>8 DEF ScheduleInv, InStep, Runs, scheduleVars
  <1>9. ASSUME \/ \E c \in BackupClusters : CreateBackup(c) \/ CreateRestoreJob(c)
               \/ \E j \in JobIds : DeleteBackup(j)
               \/ JobStep
               \/ \E w \in work : TimeOut(w)
               \/ \E e \in cron : CronFires(e)
               \/ UNCHANGED backupVars
        PROVE  UNCHANGED <<clusterRows, scheduleVars>>
    BY <1>9 DEF CreateBackup, CreateRestoreJob, DeleteBackup, JobStep, ReadJob, Stanza,
                RunPgBackRest, RecordJob, TimeOut, CronFires, backupVars, scheduleVars
  <1> QED
    BY <1>1, <1>2, <1>3, <1>4, <1>5, <1>6, <1>7, <1>8, <1>9 DEF BackupNext

\* EntriesFollowRows for every number of clusters, schedules and requests: as
\* long as the requests for a schedule do not overlap, none of them fails to
\* delete its row and the server stays up, cron has an entry for it exactly while
\* its row is listed, enabled and valid.
THEOREM EntriesFollowRowsHolds == BackupSpec => []EntriesFollowRows
  <1>1. ScheduleInv => EntriesFollowRows
    <2> SUFFICES ASSUME ScheduleInv, NEW s \in ScheduleIds, s \notin disturbed,
                        \A q \in calling : q.id # s, clusterRows = BackupClusters
                 PROVE  workerJobs[s] # 0 <=> /\ \E c \in clusterRows : s \in ListSchedules(c)
                                              /\ schedules[s].enabled /\ schedules[s].valid
      BY DEF EntriesFollowRows
    <2>1. workerJobs[s] # 0 <=> Runs(s)
      BY DEF ScheduleInv, InStep
    <2>2. schedules[s] \in ScheduleRows
      BY DEF ScheduleInv
    <2>3. schedules[s].row <=> \E c \in clusterRows : s \in ListSchedules(c)
      <3>1. CASE schedules[s] = NoSchedule
        BY <3>1 DEF ListSchedules, NoSchedule
      <3>2. CASE schedules[s] # NoSchedule
        <4>1. schedules[s].row /\ schedules[s].cluster \in clusterRows
          BY <2>2, <3>2 DEF ScheduleRows
        <4> QED
          BY <4>1 DEF ListSchedules
      <3> QED
        BY <3>1, <3>2
    <2> QED
      BY <2>1, <2>3 DEF Runs
  <1> QED
    BY <1>1, InitJobInv, NextJobInv, InitEntryInv, NextEntryInv, InitScheduleInv, NextScheduleInv, PTL
       DEF BackupSpec
=============================================================================
