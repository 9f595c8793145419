--------------------------- MODULE ServiceProofs ----------------------------
(***************************************************************************)
(* What the journal keeper (keeper/keeper.go) never does, for every number *)
(* of files, sizes, thresholds, channel capacity and backoff limit: it     *)
(* forgets no retry, and it deletes nothing that the archive script has    *)
(* not taken, unless it was told to.  And what the alert pipeline          *)
(* (alerting.go, bus_silence.go) says last of the bus and of the           *)
(* replication, for every channel capacity.  And that fast packets         *)
(* (fastpacket.go, can.go) arrive whole and in order, for every number of  *)
(* nodes, frame sizes, frame numbers, counters and payload lengths.        *)
(***************************************************************************)
EXTENDS Keeper, Alerts, FastPacket, TLAPS, SequenceTheorems
-----------------------------------------------------------------------------
(* The journal keeper: the retry timer *)

\* RetryArmed speaks of the loop at rest; what every step keeps up is that the
\* timer and the backoff go together, while a script runs and during startup too.
RetryInv ==
  /\ backoff \in Nat /\ timer \in BOOLEAN
  /\ timer => pending # {} /\ backoff > 0
  /\ ~timer => backoff = 0

\* The end of the loop body restores the invariant from whatever the body made of
\* pending and backoff, as long as a timer that still runs has something to do.
LEMMA ArmRestores ==
  ASSUME NEW p, NEW b \in Nat, NEW t \in BOOLEAN,
         t => p # {} /\ b > 0,
         (~t /\ p = {}) => b = 0,
         Arm(p, b, t)
  PROVE  RetryInv'
<1>1. pending' = p /\ timer' = (t \/ p # {})
  BY DEF Arm, Armed
<1>2. backoff' = IF ~t /\ p # {} /\ b = 0 THEN 1 ELSE b
  BY DEF Arm
<1>3. CASE t
  BY <1>1, <1>2, <1>3 DEF RetryInv
<1>4. CASE ~t /\ p = {}
  BY <1>1, <1>2, <1>4 DEF RetryInv
<1>5. CASE ~t /\ p # {}
  <2>1. timer' = TRUE
    BY <1>1, <1>5
  <2>2. backoff' \in Nat /\ backoff' > 0
    BY <1>2, <1>5
  <2> QED
    BY <1>1, <1>5, <2>1, <2>2 DEF RetryInv
<1> QED
  BY <1>3, <1>4, <1>5

\* Nothing of the retry state changes: the writer's steps and the startup sweep.
LEMMA RetryUntouched ==
  ASSUME RetryInv, UNCHANGED retryVars
  PROVE  RetryInv'
BY DEF RetryInv, retryVars

\* The end of a script run, archiveFiles or retryArchive, keeps the retry state in
\* order whatever the script reported.
LEMMA ScriptKeepsRetry ==
  ASSUME RetryInv, NEW ok, ScriptEnds(ok)
  PROVE  RetryInv'
<1>1. CASE job.why = "retry"
  <2> DEFINE p == job.batch \ ok
             b == IF p = {} THEN 0 ELSE Doubled(backoff)
  <2>1. Arm(p, b, FALSE)
    BY <1>1 DEF ScriptEnds, AfterRetry
  <2>2. Doubled(backoff) \in Nat
    BY KeeperAssumption DEF RetryInv, Doubled
  <2>3. b \in Nat
    BY <2>2
  <2>4. p = {} => b = 0
    OBVIOUS
  <2> HIDE DEF p, b
  <2> QED
    BY <2>1, <2>3, <2>4, ArmRestores
<1>2. CASE job.why # "retry"
  <2> DEFINE p == pending \union (job.batch \ ok)
             b == IF p = {} THEN 0 ELSE backoff
  <2>1. IF job.why \in {"boot", "sweep"}
          THEN pending' = p /\ backoff' = b /\ UNCHANGED timer
          ELSE Arm(p, b, timer)
    BY <1>2 DEF ScriptEnds, AfterArchive
  <2>2. b \in Nat /\ timer \in BOOLEAN
    BY DEF RetryInv
  <2>3. timer => p # {}
    BY DEF RetryInv
  <2>4. timer => b > 0
    BY <2>3 DEF RetryInv
  <2>5. ~timer => b = 0
    BY DEF RetryInv
  <2> HIDE DEF p, b
  <2>6. CASE job.why \in {"boot", "sweep"}
    BY <2>1, <2>2, <2>3, <2>4, <2>5, <2>6 DEF RetryInv
  <2>7. CASE job.why \notin {"boot", "sweep"}
    BY <2>1, <2>2, <2>3, <2>4, <2>5, <2>7, ArmRestores
  <2> QED
    BY <2>6, <2>7
<1> QED
  BY <1>1, <1>2

\* RetryInv is inductive: every event of the loop leaves a timer for what is
\* pending, and only for that.
LEMMA RetryInductive == RetryInv /\ [KNext]_kvars => RetryInv'
<1> SUFFICES ASSUME RetryInv, [KNext]_kvars PROVE RetryInv'
  OBVIOUS
<1>1. CASE CreateFile \/ Rotate \/ Age \/ Sweep
  <2>1. UNCHANGED retryVars
    BY <1>1 DEF CreateFile, Rotate, Age, Sweep
  <2> QED
    BY <2>1, RetryUntouched
<1>2. ASSUME Arm(pending, backoff, timer) PROVE RetryInv'
  <2>1. backoff \in Nat /\ timer \in BOOLEAN
    BY DEF RetryInv
  <2>2. timer => pending # {} /\ backoff > 0
    BY DEF RetryInv
  <2>3. ~timer => backoff = 0
    BY DEF RetryInv
  <2> QED
    BY <1>2, <2>1, <2>2, <2>3, ArmRestores
<1>3. CASE ScanDir
  <2>1. UNCHANGED retryVars \/ Arm(pending, backoff, timer)
    BY <1>3 DEF ScanDir
  <2> QED
    BY <2>1, <1>2, RetryUntouched
<1>4. CASE HandleRotation
  <2>1. UNCHANGED retryVars \/ Arm(pending, backoff, timer)
    BY <1>4 DEF HandleRotation
  <2> QED
    BY <2>1, <1>2, RetryUntouched
<1>5. CASE Retry
  <2>1. CASE pending \cap files # {}
    <3>1. pending' = pending \cap files /\ backoff' = backoff /\ timer' = timer
      BY <1>5, <2>1 DEF Retry
    <3> QED
      BY <2>1, <3>1 DEF RetryInv
  <2>2. CASE pending \cap files = {}
    <3>1. pending' = {} /\ backoff' = 0 /\ timer' = FALSE
      BY <1>5, <2>2 DEF Retry
    <3> QED
      BY <3>1 DEF RetryInv
  <2> QED
    BY <2>1, <2>2
<1>6. CASE \E ok \in SUBSET job.batch : ScriptEnds(ok)
  BY <1>6, ScriptKeepsRetry
<1>7. CASE Restart
  BY <1>7 DEF Restart, RetryInv
<1>8. CASE UNCHANGED kvars
  BY <1>8, RetryUntouched DEF kvars
<1> QED
  BY <1>1, <1>3, <1>4, <1>5, <1>6, <1>7, <1>8 DEF KNext, KeeperStep

\* The keeper's retry (JournalKeeper.Run, archiveFiles, retryArchive): for every
\* backoff limit and in any order of ticks, rotations, script results and
\* restarts, what is pending has a timer with a backoff, but for the failures of
\* the startup, and no timer runs for nothing.
THEOREM NoRetryForgotten == KSpec => []RetryArmed
<1>1. KInit => RetryInv
  <2> SUFFICES ASSUME KInit PROVE RetryInv
    OBVIOUS
  <2>1. backoff = 0 /\ timer = FALSE
    BY DEF KInit
  <2>2. backoff \in Nat
    BY <2>1
  <2> QED
    BY <2>1, <2>2, Zenon DEF RetryInv
<1>2. RetryInv => RetryArmed
  BY DEF RetryInv, RetryArmed
<1> QED
  BY <1>1, <1>2, RetryInductive, PTL DEF KSpec
-----------------------------------------------------------------------------
(* Deletion *)

\* A marker beside a file says that the script took it, whole or while open.
MarkersTrue == marked \subseteq whole \union partial

\* No step forges a marker, and what was archived stays on record; the marker of a
\* file outlives a restart as the file does.
LEMMA MarkersInductive == MarkersTrue /\ [KNext]_kvars => MarkersTrue'
<1> SUFFICES ASSUME MarkersTrue, [KNext]_kvars PROVE MarkersTrue'
  OBVIOUS
<1>1. CASE UNCHANGED <<marked, histVars>>
  BY <1>1 DEF MarkersTrue, histVars
<1>2. CASE ScanDir
  BY <1>2 DEF ScanDir, MarkersTrue, histVars
<1>3. CASE \E ok \in SUBSET job.batch : ScriptEnds(ok)
  BY <1>3 DEF ScriptEnds, MarkersTrue
<1>4. CASE CreateFile \/ Rotate \/ Age \/ Sweep \/ HandleRotation \/ Retry \/ Restart \/ UNCHANGED kvars
  <2>1. UNCHANGED <<marked, histVars>>
    BY <1>4 DEF CreateFile, Rotate, Age, Sweep, HandleRotation, Retry, Restart, kvars
  <2> QED
    BY <1>1, <2>1
<1> QED
  BY <1>2, <1>3, <1>4 DEF KNext, KeeperStep

\* scanDir is the only step that removes files, and a file it removes is marked or
\* has overflowed after the script failed on it.
LEMMA OnlyScanDeletes ==
  ASSUME [KNext]_kvars, HasArchive, NEW f \in files \ files'
  PROVE  f \in marked \/ (policy = "delete-unarchived" /\ f \in pending)
<1>1. CASE ScanDir
  <2>1. f \in Deleted
    BY <1>1 DEF ScanDir
  <2> QED
    BY <2>1 DEF Deleted, Unarchived, Overflowing, Expired
<1>2. CASE CreateFile
  BY <1>2 DEF CreateFile
<1>3. CASE Rotate \/ Age \/ Sweep \/ HandleRotation \/ Retry \/ Restart \/ UNCHANGED kvars
  BY <1>3 DEF Rotate, Age, Sweep, HandleRotation, Retry, Restart, kvars
<1>4. CASE \E ok \in SUBSET job.batch : ScriptEnds(ok)
  BY <1>4 DEF ScriptEnds
<1> QED
  BY <1>1, <1>2, <1>3, <1>4 DEF KNext, KeeperStep

\* Retention (scanDir, deleteFile): with archiving on, whatever the sizes, the
\* thresholds and the restarts, a file leaves the directory only if the script took
\* it, or the script failed on it and the policy is to delete it all the same.
THEOREM NothingDeletedUnarchived == KSpec => DeletedWasArchived
<1>1. KInit => MarkersTrue
  BY DEF KInit, MarkersTrue
<1>2. MarkersTrue /\ [KNext]_kvars =>
        [HasArchive =>
           \A f \in files \ files' :
             f \in whole \union partial \/ (policy = "delete-unarchived" /\ f \in pending)]_kvars
  <2> SUFFICES ASSUME MarkersTrue, [KNext]_kvars, HasArchive, NEW f \in files \ files'
               PROVE  f \in whole \union partial \/ (policy = "delete-unarchived" /\ f \in pending)
    OBVIOUS
  <2>1. f \in marked \/ (policy = "delete-unarchived" /\ f \in pending)
    BY OnlyScanDeletes
  <2> QED
    BY <2>1 DEF MarkersTrue
<1> QED
  BY <1>1, <1>2, MarkersInductive, PTL DEF KSpec, DeletedWasArchived
-----------------------------------------------------------------------------
(* Alerts *)

Fates == {"none", "queued", "told", "unheard"}

AlertsTypeOK ==
  /\ quiet \in Int /\ silent \in BOOLEAN /\ checked \in BOOLEAN
  /\ client \in {"down", "failing", "joining", "up"} /\ disconnects \in BOOLEAN
  /\ since \in [Types -> Nat] /\ ch \in Seq(Types)
  /\ told \in [Topics -> Types \union {"nothing"}]
  /\ said \in [Topics -> Types \union {"nothing"}]
  /\ fate \in [Topics -> Fates]

\* What was raised last follows the monitor and the client.
SaidAgrees ==
  /\ said["bus"] \in {"nothing", "bus_silence", "bus_resumed"}
  /\ said["replication"] \in {"nothing", "disconnected", "reconnected"}
  /\ (said["bus"] = "bus_silence") = silent
  /\ (said["bus"] = "nothing") = (fate["bus"] = "none")
  /\ (said["replication"] = "nothing") = (fate["replication"] = "none")
  /\ disconnects = (said["replication"] # "nothing")
  /\ client \in {"failing", "joining"} => said["replication"] = "disconnected"
  /\ (client = "up" /\ disconnects) => said["replication"] = "reconnected"
  /\ (client = "down" /\ disconnects) => said["replication"] = "disconnected"
  /\ checked => (quiet >= 0 /\ silent = (quiet >= SilenceTimeout))

\* The channel holds no alert on t; its last one on t is the last word said.
Absent(t) == \A i \in 1..Len(ch) : Topic(ch[i]) # t
LastIs(t) == \E i \in 1..Len(ch) : ch[i] = said[t] /\ \A j \in (i+1)..Len(ch) : Topic(ch[j]) # t

\* What became of it.
FateHolds(t) ==
  /\ fate[t] = "none" => told[t] = "nothing" /\ Absent(t)
  /\ fate[t] = "queued" => LastIs(t)
  /\ fate[t] = "told" => told[t] = said[t] /\ Absent(t)

AlertsInv == AlertsTypeOK /\ SaidAgrees /\ \A t \in Topics : FateHolds(t)

\* What each alert is about.
LEMMA TopicOf ==
  /\ Topic("bus_silence") = "bus" /\ Topic("bus_resumed") = "bus"
  /\ Topic("disconnected") = "replication" /\ Topic("reconnected") = "replication"
  /\ Topic("device_removed") = "devices"
  /\ "devices" \notin Topics /\ "bus" \in Topics /\ "replication" \in Topics
BY DEF Topic, Topics

\* Fire keeps the types.
LEMMA FireKeepsTypes ==
  ASSUME AlertsInv, NEW e \in Types, Fire(e)
  PROVE  /\ since' \in [Types -> Nat] /\ ch' \in Seq(Types)
         /\ told' \in [Topics -> Types \union {"nothing"}]
         /\ said' \in [Topics -> Types \union {"nothing"}]
         /\ fate' \in [Topics -> Fates]
<1> USE DEF AlertsInv, AlertsTypeOK
<1>1. ch' \in Seq(Types) /\ told' = told
  <2>1. Append(ch, e) \in Seq(Types)
    OBVIOUS
  <2> QED BY <2>1 DEF Fire
<1>2. since' \in [Types -> Nat]
  BY DEF Fire
<1>3. ASSUME NEW f \in {"queued", "unheard"}, Recorded(e, f)
      PROVE  said' \in [Topics -> Types \union {"nothing"}] /\ fate' \in [Topics -> Fates]
  <2>1. CASE UNCHANGED <<said, fate>>
    BY <2>1
  <2>2. CASE said' = [said EXCEPT ![Topic(e)] = e] /\ fate' = [fate EXCEPT ![Topic(e)] = f]
    BY <2>2, <1>3 DEF Fates
  <2> QED BY <1>3, <2>1, <2>2 DEF Recorded
<1> QED BY <1>1, <1>2, <1>3 DEF Fire

\* What Fire says: the alert of its topic, and nothing on the other one.
LEMMA FireSays ==
  ASSUME AlertsInv, NEW e \in Types, Fire(e), NEW t \in Topics
  PROVE  /\ Topic(e) = t => said'[t] = e /\ (fate'[t] = "none" => fate[t] = "none" /\ said[t] = e)
         /\ Topic(e) # t => said'[t] = said[t] /\ fate'[t] = fate[t]
         /\ told' = told
BY DEF AlertsInv, AlertsTypeOK, Fire, Recorded, Fates

\* Fire keeps account of what became of the last word on every topic.
LEMMA FireKeepsFate ==
  ASSUME AlertsInv, NEW e \in Types, Fire(e), NEW t \in Topics
  PROVE  FateHolds(t)'
<1> USE DEF AlertsInv, AlertsTypeOK
<1>0. FateHolds(t) /\ ch \in Seq(Types) /\ Len(ch) \in Nat
  OBVIOUS
<1>1. CASE ch' = Append(ch, e) /\ Recorded(e, "queued")
  <2>1. /\ Len(ch') = Len(ch) + 1 /\ ch'[Len(ch) + 1] = e
        /\ \A i \in 1..Len(ch) : ch'[i] = ch[i]
    BY <1>0, <1>1
  <2>2. CASE Topic(e) = t
    <3>1. said'[t] = e /\ fate'[t] = "queued"
      BY <1>1, <2>2 DEF Recorded
    <3>2. LastIs(t)'
      <4>1. Len(ch) + 1 \in 1..Len(ch') /\ \A j \in (Len(ch) + 1 + 1)..Len(ch') : Topic(ch'[j]) # t
        BY <1>0, <2>1
      <4> QED BY <4>1, <2>1, <3>1 DEF LastIs
    <3> QED BY <3>1, <3>2 DEF FateHolds
  <2>3. CASE Topic(e) # t
    <3>1. said'[t] = said[t] /\ fate'[t] = fate[t] /\ told'[t] = told[t]
      BY <2>3, FireSays
    <3>2. Absent(t) => Absent(t)'
      BY <1>0, <2>1, <2>3 DEF Absent, Topic
    <3>3. LastIs(t) => LastIs(t)'
      <4>1. ASSUME NEW i \in 1..Len(ch), ch[i] = said[t], \A j \in (i+1)..Len(ch) : Topic(ch[j]) # t
            PROVE  i \in 1..Len(ch') /\ ch'[i] = said'[t] /\ \A j \in (i+1)..Len(ch') : Topic(ch'[j]) # t
        <5>1. i \in 1..Len(ch') /\ ch'[i] = said'[t]
          BY <4>1, <1>0, <2>1, <3>1
        <5>2. ASSUME NEW j \in (i+1)..Len(ch') PROVE Topic(ch'[j]) # t
          <6>1. j \in (i+1)..Len(ch) \/ j = Len(ch) + 1
            <7>1. j \in Int /\ i \in Int /\ i + 1 <= j /\ j <= Len(ch) + 1
              BY <2>1
            <7> QED BY <7>1, <1>0
          <6>2. CASE j \in (i+1)..Len(ch)
            <7>1. j \in 1..Len(ch)
              BY <6>2, <1>0
            <7> QED BY <6>2, <7>1, <4>1, <2>1
          <6> QED BY <6>1, <6>2, <2>1, <2>3
        <5> QED BY <5>1, <5>2
      <4> QED BY <4>1 DEF LastIs, Topic
    <3> QED BY <1>0, <3>1, <3>2, <3>3 DEF FateHolds
  <2> QED BY <2>2, <2>3
<1>2. CASE ch' = ch /\ Recorded(e, "unheard")
  <2>1. told'[t] = told[t]
    BY FireSays
  <2>2. \/ said'[t] = said[t] /\ fate'[t] = fate[t]
        \/ fate'[t] = "unheard"
    BY <1>2 DEF Recorded
  <2> QED BY <1>0, <1>2, <2>1, <2>2 DEF FateHolds, Absent, LastIs
<1> QED BY <1>1, <1>2 DEF Fire

\* The POST of the next alert, accepted or refused, keeps account too.
LEMMA PostKeepsFate ==
  ASSUME AlertsInv, NEW ok \in BOOLEAN, Post(ok), NEW t \in Topics
  PROVE  FateHolds(t)' /\ (fate'[t] = "none") = (fate[t] = "none")
<1> USE DEF AlertsInv, AlertsTypeOK
<1>0. FateHolds(t) /\ ch \in Seq(Types) /\ Len(ch) \in Nat \ {0} /\ ch # <<>>
  BY DEF Post
<1>1. /\ Len(ch') = Len(ch) - 1 /\ Head(ch) = ch[1] /\ \A i \in 1..Len(ch') : ch'[i] = ch[i+1]
      /\ said' = said
  BY <1>0 DEF Post
<1> DEFINE h == Topic(ch[1])
<1>2. Absent(t) => Absent(t)' /\ h # t
  <2>1. ASSUME Absent(t), NEW i \in 1..Len(ch') PROVE Topic(ch'[i]) # t
    <3>1. i + 1 \in 1..Len(ch)
      BY <1>0, <1>1
    <3> QED BY <2>1, <3>1, <1>1 DEF Absent
  <2>2. Absent(t) => h # t
    BY <1>0 DEF Absent
  <2> QED BY <2>1, <2>2 DEF Absent, Topic
<1>3. CASE h # t
  <2>1. told'[t] = told[t] /\ fate'[t] = fate[t]
    BY <1>1, <1>3 DEF Post
  <2>2. fate[t] = "queued" /\ LastIs(t) => LastIs(t)'
    <3>1. ASSUME NEW i \in 1..Len(ch), ch[i] = said[t], \A j \in (i+1)..Len(ch) : Topic(ch[j]) # t,
                 fate[t] = "queued"
          PROVE  i - 1 \in 1..Len(ch') /\ ch'[i-1] = said'[t] /\ \A j \in (i-1+1)..Len(ch') : Topic(ch'[j]) # t
      <4>1. Topic(said[t]) = t
        BY <3>1, TopicOf DEF SaidAgrees, Topics
      <4>2. i # 1
        BY <3>1, <4>1, <1>3
      <4>3. i - 1 \in 1..Len(ch') /\ i - 1 + 1 = i
        BY <3>1, <4>2, <1>0, <1>1
      <4>4. ASSUME NEW j \in i..Len(ch') PROVE Topic(ch'[j]) # t
        <5>1. j \in 1..Len(ch') /\ j + 1 \in (i+1)..Len(ch)
          BY <1>0, <1>1
        <5> QED BY <5>1, <3>1, <1>1
      <4> QED BY <3>1, <4>3, <4>4, <1>1
    <3> QED BY <3>1 DEF LastIs, Topic
  <2> QED BY <1>0, <1>1, <1>2, <2>1, <2>2 DEF FateHolds
<1>4. CASE h = t
  <2>0. h \in Topics
    BY <1>4
  <2>1. /\ told' = IF ok THEN [told EXCEPT ![t] = ch[1]] ELSE told
        /\ fate' = IF IsLast(t) THEN [fate EXCEPT ![t] = IF ok THEN "told" ELSE "unheard"] ELSE fate
    BY <1>1, <1>4, <2>0 DEF Post
  <2>2. fate[t] \in {"queued", "unheard"}
    BY <1>0, <1>2, <1>4 DEF FateHolds, Fates
  <2>3. CASE IsLast(t)
    <3>1. Absent(t)'
      <4>1. ASSUME NEW i \in 1..Len(ch') PROVE Topic(ch'[i]) # t
        <5>1. i + 1 \in 2..Len(ch)
          BY <1>0, <1>1
        <5> QED BY <2>3, <5>1, <1>1 DEF IsLast
      <4> QED BY <4>1 DEF Absent, Topic
    <3>2. ch[1] = said[t]
      <4>1. LastIs(t)
        BY <2>3, <1>0 DEF IsLast, FateHolds
      <4>2. PICK i \in 1..Len(ch) : ch[i] = said[t]
        BY <4>1 DEF LastIs
      <4>3. fate[t] = "queued" /\ Topic(said[t]) = t
        BY <2>3, TopicOf DEF IsLast, SaidAgrees, Topics
      <4>4. i = 1
        BY <4>2, <4>3, <2>3, <1>0 DEF IsLast
      <4> QED BY <4>2, <4>4
    <3>3. fate'[t] = (IF ok THEN "told" ELSE "unheard") /\ (ok => told'[t] = ch[1])
      BY <2>1, <2>3
    <3> QED BY <3>1, <3>2, <3>3, <2>2, <1>1 DEF FateHolds
  <2>4. CASE ~IsLast(t)
    <3>1. fate'[t] = fate[t]
      BY <2>1, <2>4
    <3>2. fate[t] = "queued" => LastIs(t)'
      <4> SUFFICES ASSUME fate[t] = "queued" PROVE LastIs(t)'
        OBVIOUS
      <4>1. PICK i \in 1..Len(ch) : ch[i] = said[t] /\ \A j \in (i+1)..Len(ch) : Topic(ch[j]) # t
        BY <1>0 DEF FateHolds, LastIs
      <4>2. i # 1
        BY <4>1, <2>4 DEF IsLast
      <4>3. i - 1 \in 1..Len(ch') /\ ch'[i-1] = said'[t] /\ \A j \in (i-1+1)..Len(ch') : Topic(ch'[j]) # t
        <5>1. i - 1 \in 1..Len(ch') /\ i - 1 + 1 = i
          BY <4>2, <1>0, <1>1
        <5>2. ASSUME NEW j \in i..Len(ch') PROVE Topic(ch'[j]) # t
          <6>1. j \in 1..Len(ch') /\ j + 1 \in (i+1)..Len(ch)
            BY <1>0, <1>1
          <6> QED BY <6>1, <4>1, <1>1
        <5> QED BY <4>1, <5>1, <5>2, <1>1
      <4> QED BY <4>3 DEF LastIs, Topic
    <3> QED BY <2>2, <3>1, <3>2 DEF FateHolds
  <2> QED BY <2>3, <2>4
<1> QED BY <1>3, <1>4

\* The boat starts in the invariant.
LEMMA AlertsInit == LInit => AlertsInv
<1> SUFFICES ASSUME LInit PROVE AlertsInv
  OBVIOUS
<1>1. AlertsTypeOK
  <2>1. since \in [Types -> Nat] /\ ch \in Seq(Types)
    BY AlertsAssumption DEF LInit
  <2>2. told \in [Topics -> Types \union {"nothing"}] /\ said = told
    BY DEF LInit
  <2>3. silent \in BOOLEAN /\ checked \in BOOLEAN /\ disconnects \in BOOLEAN
    BY DEF LInit
  <2>4. quiet \in Int /\ client = "down" /\ fate \in [Topics -> Fates]
    BY DEF LInit, Fates
  <2> QED BY <2>1, <2>2, <2>3, <2>4 DEF AlertsTypeOK
<1>2. SaidAgrees
  BY DEF LInit, SaidAgrees, Topics
<1>3. \A t \in Topics : FateHolds(t)
  BY DEF LInit, FateHolds, Absent, Topics
<1> QED BY <1>1, <1>2, <1>3 DEF AlertsInv

\* Every step keeps the invariant.
LEMMA AlertsNext == AlertsInv /\ [LNext]_avars => AlertsInv'
<1> SUFFICES ASSUME AlertsInv, [LNext]_avars PROVE AlertsInv'
  OBVIOUS
<1> USE AlertsAssumption
<1>a. AlertsTypeOK /\ SaidAgrees /\ \A t \in Topics : FateHolds(t)
  BY DEF AlertsInv
<1>b. {"bus_silence", "bus_resumed", "device_removed", "disconnected", "reconnected"} = Types
      /\ Topics = {"bus", "replication"}
  BY DEF Types, Topics
<1>c. UNCHANGED <<ch, told, said, fate>> => \A t \in Topics : FateHolds(t)'
  BY <1>a DEF FateHolds, Absent, LastIs
<1>1. CASE Frame
  <2>1. /\ quiet' = 0 /\ checked' = FALSE
        /\ UNCHANGED <<silent, client, disconnects, since, ch, told, said, fate>>
    BY <1>1 DEF Frame, clientVars, managerVars
  <2>2. AlertsTypeOK'
    <3>1. quiet' \in Int
      BY <2>1
    <3>2. checked' \in BOOLEAN
      BY <2>1
    <3> QED BY <1>a, <2>1, <3>1, <3>2 DEF AlertsTypeOK
  <2>3. SaidAgrees'
    BY <1>a, <2>1 DEF SaidAgrees
  <2> QED BY <2>1, <2>2, <2>3, <1>c DEF AlertsInv
<1>2. CASE Tick
  <2>1. AlertsTypeOK'
    <3>1. quiet' \in Int
      BY <1>a, <1>2 DEF Tick, AlertsTypeOK
    <3>2. since' \in [Types -> Nat]
      BY <1>a, <1>2 DEF Tick, AlertsTypeOK
    <3> QED BY <1>a, <1>2, <3>1, <3>2 DEF Tick, AlertsTypeOK, clientVars
  <2> QED BY <2>1, <1>a, <1>c, <1>2 DEF Tick, AlertsInv, SaidAgrees, clientVars
<1>3. CASE Check
  <2>0. /\ quiet' = quiet /\ client' = client /\ disconnects' = disconnects /\ checked' = TRUE
        /\ silent' = (quiet >= SilenceTimeout) /\ quiet >= 0 /\ quiet \in Int
        /\ silent \in BOOLEAN /\ silent' \in BOOLEAN
    BY <1>a, <1>3 DEF Check, clientVars, AlertsTypeOK
  <2>1. CASE silent' /\ ~silent
    <3>1. Fire("bus_silence")
      BY <1>3, <2>1 DEF Check
    <3>2. AlertsTypeOK'
      BY <1>a, <1>b, <2>0, <3>1, FireKeepsTypes DEF AlertsTypeOK
    <3>3. /\ said'["bus"] = "bus_silence" /\ said'["replication"] = said["replication"]
          /\ fate'["bus"] # "none" /\ fate'["replication"] = fate["replication"]
      BY <1>a, <1>b, <3>1, <2>1, FireSays, TopicOf DEF SaidAgrees
    <3>4. SaidAgrees'
      BY <1>a, <2>0, <2>1, <3>3 DEF SaidAgrees
    <3> QED BY <3>1, <3>2, <3>4, <1>b, FireKeepsFate DEF AlertsInv
  <2>2. CASE silent /\ ~silent'
    <3>1. Fire("bus_resumed")
      BY <1>3, <2>2 DEF Check
    <3>2. AlertsTypeOK'
      BY <1>a, <1>b, <2>0, <3>1, FireKeepsTypes DEF AlertsTypeOK
    <3>3. /\ said'["bus"] = "bus_resumed" /\ said'["replication"] = said["replication"]
          /\ fate'["bus"] # "none" /\ fate'["replication"] = fate["replication"]
      BY <1>a, <1>b, <3>1, <2>2, FireSays, TopicOf DEF SaidAgrees
    <3>4. SaidAgrees'
      BY <1>a, <2>0, <2>2, <3>3 DEF SaidAgrees
    <3> QED BY <3>1, <3>2, <3>4, <1>b, FireKeepsFate DEF AlertsInv
  <2>3. CASE silent' = silent
    <3>1. UNCHANGED managerVars
      BY <1>3, <2>3, <2>0 DEF Check
    <3> QED BY <1>a, <1>c, <2>0, <2>3, <3>1 DEF AlertsInv, AlertsTypeOK, SaidAgrees, managerVars
  <2> QED BY <2>0, <2>1, <2>2, <2>3
<1>4. CASE Handshake
  BY <1>a, <1>c, <1>4 DEF Handshake, AlertsInv, AlertsTypeOK, SaidAgrees, monitorVars, managerVars
<1>5. CASE Joined
  <2>1. Fire("reconnected") /\ client' = "up" /\ client = "joining" /\ UNCHANGED <<disconnects, quiet, silent, checked>>
    BY <1>5 DEF Joined, monitorVars
  <2>2. AlertsTypeOK'
    BY <1>a, <1>b, <2>1, FireKeepsTypes DEF AlertsTypeOK
  <2>3. /\ said'["replication"] = "reconnected" /\ said'["bus"] = said["bus"]
        /\ fate'["replication"] # "none" /\ fate'["bus"] = fate["bus"]
    BY <1>a, <1>b, <2>1, FireSays, TopicOf DEF SaidAgrees
  <2>4. SaidAgrees'
    BY <1>a, <2>1, <2>3 DEF SaidAgrees
  <2> QED BY <2>1, <2>2, <2>4, <1>b, FireKeepsFate DEF AlertsInv
<1>6. CASE Fails
  <2>1. /\ Fire("disconnected") /\ disconnects' = TRUE /\ client \in {"down", "up"}
        /\ client' = (IF client = "up" THEN "failing" ELSE "down") /\ UNCHANGED <<quiet, silent, checked>>
    BY <1>6 DEF Fails, monitorVars
  <2>2. AlertsTypeOK'
    BY <1>a, <1>b, <2>1, FireKeepsTypes DEF AlertsTypeOK
  <2>3. /\ said'["replication"] = "disconnected" /\ said'["bus"] = said["bus"]
        /\ fate'["replication"] # "none" /\ fate'["bus"] = fate["bus"]
    BY <1>a, <1>b, <2>1, FireSays, TopicOf DEF SaidAgrees
  <2>4. SaidAgrees'
    BY <1>a, <2>1, <2>3 DEF SaidAgrees
  <2> QED BY <2>1, <2>2, <2>4, <1>b, FireKeepsFate DEF AlertsInv
<1>7. CASE Failed
  BY <1>a, <1>c, <1>7 DEF Failed, AlertsInv, AlertsTypeOK, SaidAgrees, monitorVars, managerVars
<1>8. CASE FireDeviceRemoved
  <2>1. Fire("device_removed") /\ UNCHANGED <<quiet, silent, checked, client, disconnects>>
    BY <1>8 DEF FireDeviceRemoved, monitorVars, clientVars
  <2>2. AlertsTypeOK'
    BY <1>a, <1>b, <2>1, FireKeepsTypes DEF AlertsTypeOK
  <2>3. SaidAgrees'
    BY <1>a, <1>b, <2>1, FireSays, TopicOf DEF SaidAgrees
  <2> QED BY <2>1, <2>2, <2>3, <1>b, FireKeepsFate DEF AlertsInv
<1>9. ASSUME NEW ok \in BOOLEAN, Post(ok) PROVE AlertsInv'
  <2>1. UNCHANGED <<since, said, quiet, silent, checked, client, disconnects>>
    BY <1>9 DEF Post, monitorVars, clientVars
  <2>2. AlertsTypeOK'
    <3>1. ch' \in Seq(Types) /\ Head(ch) \in Types
      BY <1>a, <1>9 DEF AlertsTypeOK, Post
    <3>2. told' \in [Topics -> Types \union {"nothing"}]
      BY <1>a, <1>9, <3>1 DEF AlertsTypeOK, Post
    <3>3. fate' \in [Topics -> Fates]
      BY <1>a, <1>9 DEF AlertsTypeOK, Post, Fates
    <3> QED BY <1>a, <2>1, <3>1, <3>2, <3>3 DEF AlertsTypeOK
  <2>3. SaidAgrees'
    BY <1>a, <1>b, <1>9, <2>1, PostKeepsFate DEF SaidAgrees
  <2> QED BY <1>9, <2>2, <2>3, PostKeepsFate DEF AlertsInv
<1>10. CASE UNCHANGED avars
  BY <1>a, <1>c, <1>10 DEF avars, AlertsInv, AlertsTypeOK, SaidAgrees
<1> QED BY <1>1, <1>2, <1>3, <1>4, <1>5, <1>6, <1>7, <1>8, <1>9, <1>10 DEF LNext

\* The last word told is the last one raised, which follows monitor and client.
LEMMA AlertsInvMeans == AlertsInv => AlertsAgree
<1> SUFFICES ASSUME AlertsInv PROVE AlertsAgree
  OBVIOUS
<1>1. AlertsTypeOK /\ SaidAgrees /\ FateHolds("bus") /\ FateHolds("replication")
  BY DEF AlertsInv, Topics
<1>2. fate["bus"] = "told" => (told["bus"] = "bus_silence") = silent
  BY <1>1 DEF SaidAgrees, FateHolds
<1>3. fate["replication"] = "told" /\ AtRest =>
        /\ (told["replication"] = "disconnected") = (client = "down")
        /\ (told["replication"] = "reconnected") = (client = "up")
  BY <1>1 DEF SaidAgrees, FateHolds, AtRest
<1>4. fate["bus"] \in {"none", "told"} => (told["bus"] = "bus_silence") = silent
  BY <1>1, <1>2 DEF SaidAgrees, FateHolds
<1>5. checked /\ quiet # SilenceTimeout => silent = (quiet > SilenceTimeout)
  BY <1>1, AlertsAssumption DEF SaidAgrees, AlertsTypeOK
<1>6. (Health = "ok") = (~(quiet > SilenceTimeout) /\ Connected)
  BY DEF Health
<1>7. AtRest => Connected = (client = "up")
  BY DEF AtRest, Connected
<1> QED BY <1>2, <1>3, <1>4, <1>5, <1>6, <1>7 DEF AlertsAgree

\* When the alert of the last change has reached the webhook, the webhook, the bus silence
\* monitor, the replication client and /healthz tell the same story, for every dedup window,
\* silence timeout and channel capacity (alerting.go, bus_silence.go, health.go).
THEOREM AlertsAgreeHolds == LSpec => []AlertsAgree
<1> QED BY AlertsInit, AlertsNext, AlertsInvMeans, PTL DEF LSpec
-----------------------------------------------------------------------------
(* Fast packets: the invariant *)

\* Where frame k's data begins.
Pos(k) == IF k = 0 THEN 0 ELSE First + (k - 1) * Rest

\* The frames of a transfer after the first k.
FramesFrom(p, c, k) == [i \in 1..(Later(Len(p)) + 1 - k) |-> Fragment(p, c, k + i - 1)]

\* The counter went from a to b in d steps.
Ahead(a, d, b) == \E e \in Nat : a + d = b + e * Counters

\* The payload sent last.
LastOf(s) == s[Len(s)]

\* The last payload's transfer has k frames behind it.
UnderWay(o, ctr, s, c, k) ==
  /\ s # <<>> /\ c \in 0..(Counters - 1)
  /\ ctr = (c + 1) % Counters
  /\ k \in 0..Later(Len(LastOf(s)))
  /\ o = FramesFrom(LastOf(s), c, k)

\* The reassembly of a transfer whose first k frames have come.
Held(p, c, size, k) == [counter |-> c, total |-> Len(p), data |-> SubSeq(p, 1, size), next |-> k]
Reassembled(p, c, k) == Held(p, c, Pos(k), k)

\* The assembler waits for the next frame.
Following(st, p, c, k) == k >= 1 /\ st = Reassembled(p, c, k)

\* The reassembly is of a transfer that has lost a frame.  The counter has moved
\* on by d since it began, and all of it went unseen but the transfer under way
\* while its first frame is still to come.
Abandoned(st, ctr, u, d) ==
  /\ d \in Nat \ {0} /\ d <= u
  /\ st.counter \in 0..(Counters - 1) /\ st.next \in Nat
  /\ Ahead(st.counter, d, ctr)

\* The same while a transfer has k frames behind it, of the same counter or a later.
Orphan(st, ctr, u, k, d) ==
  /\ d \in Nat \ {0}
  /\ st.counter \in 0..(Counters - 1) /\ st.next \in Nat
  /\ Ahead(st.counter, d, ctr)
  /\ IF k = 0 THEN d >= 2 /\ d <= u + 1 ELSE d <= u /\ (d >= 2 \/ k > st.next)

\* A reassembly counts while it is not older than the timeout.
PacketAge(n) == IF n \in late THEN "late" ELSE "fresh"
Timely(st, a) == st # NoState /\ a = "fresh"

\* What a node sent is its own.
SentOk(n, s) == \A m \in DOMAIN s : \E len \in PacketLengths : s[m] = Payload(n, m, len)

\* The number of the payload received as the i-th.
Number(r, i) == r[i][1][2]

\* What came was sent, in this order, and not the transfer under way.
RxOk(o, s, r) ==
  /\ \A i \in DOMAIN r : /\ Number(r, i) \in DOMAIN s
                         /\ r[i] = s[Number(r, i)]
                         /\ o # <<>> => Number(r, i) < Len(s)
  /\ \A i, j \in DOMAIN r : i < j => Number(r, i) < Number(r, j)

\* What lost nothing came, or is under way.
IntactOk(o, s, it, r) ==
  /\ it \subseteq DOMAIN s
  /\ \A m \in it : (o # <<>> /\ m = Len(s)) \/ \E i \in DOMAIN r : r[i] = s[m]

\* A transfer is under way, with k frames behind it: the reassembly in time follows
\* it, or is an orphan that its frames cannot continue.
SendingAt(o, ctr, st, a, u, s, it, c, k) ==
  /\ UnderWay(o, ctr, s, c, k)
  /\ Timely(st, a) => Following(st, LastOf(s), c, k) \/ \E d \in Nat : Orphan(st, ctr, u, k, d)
  /\ Len(s) \in it => k = 0 \/ (Following(st, LastOf(s), c, k) /\ a = "fresh")

SendingOk(o, ctr, st, a, u, s, it) ==
  o # <<>> => \E c \in 0..(Counters - 1), k \in Nat : SendingAt(o, ctr, st, a, u, s, it, c, k)

\* Between transfers a reassembly in time has missed something.
IdleOk(o, ctr, st, a, u) ==
  o = <<>> /\ Timely(st, a) => \E d \in Nat : Abandoned(st, ctr, u, d)

\* The inductive invariant, of one node.
NodeOk(n, o, ctr, st, a, u, s, it, r) ==
  /\ SentOk(n, s) /\ RxOk(o, s, r) /\ IntactOk(o, s, it, r)
  /\ Timely(st, a) => u <= MaxUnseen
  /\ SendingOk(o, ctr, st, a, u, s, it)
  /\ IdleOk(o, ctr, st, a, u)

\* The types of bytes, frames and reassemblies.
Byte == Nodes \X Nat \X Nat
CanFrame == [counter : 0..(Counters - 1), num : Nat, total : Nat, bytes : Seq(Byte \union {Pad})]
Reassembly == [counter : Int, total : Nat, data : Seq(Byte), next : Nat]

-----------------------------------------------------------------------------
(* Numbers *)

\* The constants' assumptions, as the proofs use them.
LEMMA PacketConstants ==
  /\ First \in Nat \ {0} /\ Rest \in Nat \ {0} /\ Nums \in Nat \ {0} /\ Counters \in Nat \ {0}
  /\ MaxUnseen \in Nat /\ MaxUnseen <= Counters
  /\ \A len \in PacketLengths : len \in Nat \ {0} /\ len <= First + (Nums - 1) * Rest
BY FastPacketAssumption

\* Multiples are ordered as their factors.
LEMMA Multiples ==
  ASSUME NEW a \in Nat, NEW b \in Nat, NEW r \in Nat, a <= b
  PROVE  a * r <= b * r /\ a * r \in Nat /\ b * r \in Nat
OBVIOUS

\* And the factors as the multiples.
LEMMA CancelMultiples ==
  ASSUME NEW a \in Nat, NEW b \in Nat, NEW r \in Nat, a * r < b * r
  PROVE  a < b
<1>1. ~(b <= a)
  BY Multiples
<1> QED
  BY <1>1

\* What division by the data bytes of a frame gives.
LEMMA Remainders ==
  ASSUME NEW x \in Nat, NEW r \in Nat \ {0}
  PROVE  /\ x \div r \in Nat
         /\ (x \div r) * r <= x
         /\ x < (x \div r) * r + r
<1>1. x = r * (x \div r) + (x % r) /\ x % r \in 0..(r - 1) /\ x \div r \in Int
  OBVIOUS
<1>2. x \div r >= 0
  <2>1. SUFFICES ASSUME x \div r <= -1 PROVE FALSE
    BY <1>1
  <2>2. PICK q \in Int : q = x \div r
    BY <1>1
  <2>3. PICK z \in Nat : z = -q - 1
    BY <2>1, <2>2
  <2>4. r * q = -(r * z) - r
    BY <2>2, <2>3
  <2>5. r * z >= 0
    OBVIOUS
  <2> QED
    BY <1>1, <2>2, <2>4, <2>5
<1>3. (x \div r) * r = r * (x \div r)
  BY <1>1
<1>4. PICK y \in Int : y = r * (x \div r)
  BY <1>1
<1> QED
  BY <1>1, <1>2, <1>3, <1>4

\* A frame number below the limit does not wrap.
LEMMA SmallRemainder ==
  ASSUME NEW r \in Nat \ {0}, NEW x \in 0..(r - 1)
  PROVE  x % r = x
OBVIOUS

\* CANWriter's seqCounter goes to the next counter, or round to 0.
LEMMA Increment ==
  ASSUME NEW c \in 0..(Counters - 1)
  PROVE  (c + 1) % Counters = (IF c + 1 = Counters THEN 0 ELSE c + 1)
<1>1. CASE c + 1 = Counters
  BY <1>1, PacketConstants
<1>2. CASE c + 1 # Counters
  BY <1>2, PacketConstants, SmallRemainder
<1> QED
  BY <1>1, <1>2

\* FragmentFastPacket makes as many frames as the payload needs: each begins inside
\* it, there is none to follow the last, and all have numbers of their own.
LEMMA FrameCount ==
  ASSUME NEW len \in PacketLengths
  PROVE  /\ Later(len) \in 0..(Nums - 1)
         /\ \A k \in 0..Later(len) : Pos(k) \in Nat /\ Pos(k) < len
         /\ Pos(Later(len) + 1) \in Nat /\ Pos(Later(len) + 1) >= len
<1>a. /\ First \in Nat \ {0} /\ Rest \in Nat \ {0} /\ Nums \in Nat \ {0} 
      /\ len \in Nat \ {0} /\ len <= First + (Nums - 1) * Rest
  BY PacketConstants
<1>b. PICK w \in Nat : w = Nums - 1
  BY <1>a
<1>1. CASE len <= First
  BY <1>1, <1>a DEF Later, Pos
<1>2. CASE len > First
  <2>1. PICK x \in Nat : x = len - First + Rest - 1
    BY <1>2, <1>a
  <2>2. PICK q : q = x \div Rest
    OBVIOUS
  <2>3. Later(len) = q
    BY <2>1, <2>2, <1>2, <1>a DEF Later
  <2>4. q \in Nat /\ q * Rest <= x /\ x < q * Rest + Rest
    BY <2>2, <1>a, Remainders
  <2>5. q * Rest >= len - First /\ q * Rest \in Nat
    BY <2>1, <2>4, <1>a
  <2>6. q <= w
    <3>1. q * Rest < w * Rest + Rest
      <4>1. w * Rest \in Nat /\ q * Rest \in Nat
        BY <1>a, <2>4, <1>b, Multiples
      <4> QED
      BY <2>4, <2>1, <1>a, <1>b, <4>1
    <3>2. w * Rest + Rest = (w + 1) * Rest
      BY <1>a
    <3>3. q < w + 1
      BY <3>1, <3>2, <1>a, <2>4, CancelMultiples
    <3> QED
      BY <3>3, <2>4
  <2>7. q >= 1
    <3>1. q # 0
      BY <2>4, <2>1, <1>2, <1>a
    <3> QED
      BY <3>1, <2>4
  <2>8. ASSUME NEW k \in 1..q PROVE Pos(k) \in Nat /\ Pos(k) < len
    <3>1. PICK j \in Nat : j = k - 1
      OBVIOUS
    <3>2. PICK p \in Nat : p = q - 1
      BY <2>7, <2>4
    <3>3. j * Rest <= p * Rest /\ j * Rest \in Nat /\ p * Rest \in Nat
      BY <3>1, <3>2, <1>a, <2>4, Multiples
    <3>4. p * Rest = q * Rest - Rest
      BY <3>2, <2>4, <1>a
    <3>5. Pos(k) = First + j * Rest
      BY <3>1, <1>a DEF Pos
    <3> QED
      BY <3>3, <3>4, <3>5, <2>4, <2>5, <2>1, <1>a
  <2>9. Pos(0) = 0
    BY DEF Pos
  <2>10. Pos(q + 1) = First + q * Rest
    BY <2>4 DEF Pos
  <2> QED
    BY <2>3, <2>4, <2>5, <2>6, <2>8, <2>9, <2>10, <1>a, <1>b
<1> QED
  BY <1>1, <1>2, <1>a
-----------------------------------------------------------------------------
(* Frames *)

\* A payload has its length, and names its node and number.
LEMMA Payloads ==
  ASSUME NEW n \in Nodes, NEW m \in Nat, NEW len \in PacketLengths
  PROVE  /\ Payload(n, m, len) \in Seq(Byte) /\ Len(Payload(n, m, len)) = len
         /\ Payload(n, m, len)[1] = <<n, m, 1>> /\ Payload(n, m, len) # <<>>
<1>1. len \in Nat \ {0}
  BY PacketConstants
<1>2. \A j \in 1..len : <<n, m, j>> \in Byte
  BY <1>1 DEF Byte
<1>3. PICK p : p = Payload(n, m, len)
  OBVIOUS
<1>4. p = [j \in 1..len |-> <<n, m, j>>]
  BY <1>3 DEF Payload
<1>5. p \in Seq(Byte) /\ Len(p) = len
  BY <1>1, <1>2, <1>4
<1>6. p[1] = <<n, m, 1>>
  BY <1>1, <1>4
<1>7. p # <<>>
  BY <1>1, <1>5
<1> QED
  BY <1>3, <1>5, <1>6, <1>7

\* What a frame of a transfer holds.
LEMMA Fragments ==
  ASSUME NEW p \in Seq(Byte), Len(p) \in PacketLengths, NEW c \in 0..(Counters - 1),
         NEW k \in 0..Later(Len(p))
  PROVE  /\ Fragment(p, c, k) \in CanFrame
         /\ Fragment(p, c, k).counter = c /\ Fragment(p, c, k).num = k
         /\ k = 0 => Fragment(p, c, k).total = Len(p) /\ Fragment(p, c, k).bytes = Chunk(p, 0, First)
         /\ k # 0 => Fragment(p, c, k).bytes = Chunk(p, Pos(k), Rest)
<1>a. First \in Nat /\ Rest \in Nat /\ Nums \in Nat \ {0} /\ Later(Len(p)) \in 0..(Nums - 1)
  BY PacketConstants, FrameCount
<1>b. k \in 0..(Nums - 1) /\ k % Nums = k /\ k \in Nat
  BY <1>a, SmallRemainder
<1>1. ASSUME NEW from \in Nat, NEW size \in Nat
      PROVE  Chunk(p, from, size) \in Seq(Byte \union {Pad})
  <2>1. \A j \in 1..size : (IF from + j <= Len(p) THEN p[from + j] ELSE Pad) \in Byte \union {Pad}
    OBVIOUS
  <2> QED
    BY <2>1 DEF Chunk
<1>2. CASE k = 0
  <2>1. Fragment(p, c, k) = [counter |-> c, num |-> 0, total |-> Len(p), bytes |-> Chunk(p, 0, First)]
    BY <1>2 DEF Fragment
  <2>2. Chunk(p, 0, First) \in Seq(Byte \union {Pad})
    <3>1. 0 \in Nat
      OBVIOUS
    <3> QED
      BY <1>1, <1>a, <3>1, Zenon
  <2>3. Len(p) \in Nat
    OBVIOUS
  <2> QED
    BY <2>1, <2>2, <2>3, <1>2 DEF CanFrame
<1>3. CASE k # 0
  <2>1. Fragment(p, c, k) = [counter |-> c, num |-> k, total |-> 0, bytes |-> Chunk(p, Pos(k), Rest)]
    BY <1>3, <1>b DEF Fragment, Pos
  <2>2. Pos(k) \in Nat
    BY FrameCount
  <2>3. Chunk(p, Pos(k), Rest) \in Seq(Byte \union {Pad})
    BY <1>1, <1>a, <2>2
  <2> QED
    BY <2>1, <2>3, <1>3, <1>b DEF CanFrame
<1> QED
  BY <1>2, <1>3

\* The frames still to be sent, and what is left of them after the next.
LEMMA FramesLeft ==
  ASSUME NEW p \in Seq(Byte), Len(p) \in PacketLengths, NEW c \in 0..(Counters - 1),
         NEW k \in 0..Later(Len(p))
  PROVE  /\ FramesFrom(p, c, k) \in Seq(CanFrame) /\ FramesFrom(p, c, k) # <<>>
         /\ Head(FramesFrom(p, c, k)) = Fragment(p, c, k)
         /\ Tail(FramesFrom(p, c, k)) = FramesFrom(p, c, k + 1)
         /\ k = Later(Len(p)) => FramesFrom(p, c, k + 1) = <<>>
         /\ k = 0 => FragmentFastPacket(p, c) = FramesFrom(p, c, k)
<1>1. PICK q \in Nat : q = Later(Len(p))
  BY FrameCount
<1>2. \A i \in 1..(q + 1 - k) : Fragment(p, c, k + i - 1) \in CanFrame
  BY <1>1, Fragments
<1>3. FramesFrom(p, c, k) = [i \in 1..(q + 1 - k) |-> Fragment(p, c, k + i - 1)]
  BY <1>1 DEF FramesFrom
<1>4. q + 1 - k \in Nat \ {0}
  BY <1>1
<1>5. FramesFrom(p, c, k) \in Seq(CanFrame) /\ Len(FramesFrom(p, c, k)) = q + 1 - k
  BY <1>2, <1>3, <1>4
<1>6. FramesFrom(p, c, k) # <<>> /\ Head(FramesFrom(p, c, k)) = Fragment(p, c, k)
  <2>1. FramesFrom(p, c, k)[1] = Fragment(p, c, k)
    BY <1>3, <1>4, <1>1
  <2> QED
    BY <2>1, <1>5, <1>4
<1>7. FramesFrom(p, c, k + 1) = [i \in 1..(q - k) |-> Fragment(p, c, k + i)]
  <2>1. q + 1 - (k + 1) = q - k /\ \A i \in 1..(q - k) : (k + 1) + i - 1 = k + i
    BY <1>1
  <2>2. FramesFrom(p, c, k + 1) = [i \in 1..(q + 1 - (k + 1)) |-> Fragment(p, c, (k + 1) + i - 1)]
    BY <1>1 DEF FramesFrom
  <2> QED
    BY <2>1, <2>2
<1>8. Tail(FramesFrom(p, c, k)) = FramesFrom(p, c, k + 1)
  <2>1. PICK t : t = Tail(FramesFrom(p, c, k))
    OBVIOUS
  <2>3. t \in Seq(CanFrame) /\ Len(t) = q - k /\ \A i \in 1..Len(t) : t[i] = FramesFrom(p, c, k)[i + 1]
    BY <2>1, <1>5, <1>6, <1>4, HeadTailProperties, <1>1
  <2>2. \A i \in 1..(q - k) : FramesFrom(p, c, k)[i + 1] = Fragment(p, c, k + i)
    <3>1. SUFFICES ASSUME NEW i \in 1..(q - k) PROVE FramesFrom(p, c, k)[i + 1] = Fragment(p, c, k + i)
      OBVIOUS
    <3>2. i + 1 \in 1..(q + 1 - k) /\ k + (i + 1) - 1 = k + i
      BY <1>1
    <3> QED
      BY <3>2, <1>3
  <2>4. DOMAIN t = 1..(q - k) /\ t = [i \in 1..(q - k) |-> t[i]]
    BY <2>3
  <2> QED
    BY <2>1, <2>2, <2>3, <2>4, <1>7
<1>9. ASSUME k = q PROVE FramesFrom(p, c, k + 1) = <<>>
  BY <1>9, <1>7, <1>5, <1>8
<1>10. ASSUME k = 0 PROVE FragmentFastPacket(p, c) = FramesFrom(p, c, k)
  <2>1. \A i \in 1..(q + 1) : k + i - 1 = i - 1
    BY <1>10
  <2> QED
  BY <1>10, <1>3, <1>1, <2>1 DEF FragmentFastPacket
<1> QED
  BY <1>1, <1>5, <1>6, <1>8, <1>9, <1>10

\* A frame adds its data to what went before.
LEMMA Extends ==
  ASSUME NEW p \in Seq(Byte), NEW z \in Nat \ {0}, NEW S \in Nat, S < Len(p),
         NEW c, NEW k \in Nat,
         NEW f, f.bytes = Chunk(p, S, z),
         NEW st, st = Held(p, c, S, k)
  PROVE  Extended(st, f) = IF S + z >= Len(p) THEN Done(p) ELSE Going(Held(p, c, S + z, k + 1))
<1>s. st = [counter |-> c, total |-> Len(p), data |-> SubSeq(p, 1, S), next |-> k]
  BY DEF Held
<1>a. Len(p) \in Nat
  OBVIOUS
<1>1. PICK t \in Nat : t = IF S + z >= Len(p) THEN Len(p) - S ELSE z
  <2>1. (IF S + z >= Len(p) THEN Len(p) - S ELSE z) \in Nat
    BY <1>a
  <2> QED
    BY <2>1
<1>2. /\ SubSeq(p, 1, S) \in Seq(Byte) /\ Len(SubSeq(p, 1, S)) = S
      /\ \A j \in 1..S : SubSeq(p, 1, S)[j] = p[j]
  OBVIOUS
<1>3. /\ f.bytes \in Seq(Byte \union {Pad}) /\ Len(f.bytes) = z
      /\ \A j \in 1..z : f.bytes[j] = IF S + j <= Len(p) THEN p[S + j] ELSE Pad
  BY DEF Chunk
<1>4. Taken(st, f) = SubSeq(f.bytes, 1, t)
  <2>1. st.total = Len(p) /\ st.data = SubSeq(p, 1, S)
    BY <1>s
  <2> QED
  BY <2>1, <1>1, <1>2, <1>3 DEF Taken, Shortest
<1>5. t <= z /\ t >= 1 /\ S + t <= Len(p)
  BY <1>1
<1>6. /\ Taken(st, f) \in Seq(Byte \union {Pad}) /\ Len(Taken(st, f)) = t
      /\ \A j \in 1..t : Taken(st, f)[j] = f.bytes[j]
  <2>1. \A j \in 1..t : f.bytes[j] \in Byte \union {Pad}
    BY <1>3, <1>5
  <2>2. 1 <= t /\ t - 1 + 1 = t /\ \A j \in 1..t : 1 + j - 1 = j
    BY <1>5
  <2>3. SubSeq(f.bytes, 1, t) \in Seq(Byte \union {Pad}) /\ Len(SubSeq(f.bytes, 1, t)) = t
        /\ \A j \in 1..t : SubSeq(f.bytes, 1, t)[j] = f.bytes[j]
    BY <2>1, <2>2, SubSeqProperties
  <2> QED
    BY <2>3, <1>4
<1>7. \A j \in 1..t : Taken(st, f)[j] = p[S + j]
  <2>1. SUFFICES ASSUME NEW j \in 1..t PROVE Taken(st, f)[j] = p[S + j]
    OBVIOUS
  <2>2. j \in 1..z /\ S + j <= Len(p)
    BY <1>5, <1>a
  <2> QED
    BY <2>2, <1>6, <1>3
<1>8. SubSeq(p, 1, S) \in Seq(Byte \union {Pad})
  OBVIOUS
<1>9. PICK d : d = SubSeq(p, 1, S) \o Taken(st, f)
  OBVIOUS
<1>10. /\ d \in Seq(Byte \union {Pad}) /\ Len(d) = S + t
       /\ \A j \in 1..(S + t) : d[j] = IF j <= S THEN SubSeq(p, 1, S)[j] ELSE Taken(st, f)[j - S]
  <2>1. PICK a, b : a = SubSeq(p, 1, S) /\ b = Taken(st, f)
    OBVIOUS
  <2>2. a \in Seq(Byte \union {Pad}) /\ b \in Seq(Byte \union {Pad}) /\ Len(a) = S /\ Len(b) = t
    BY <2>1, <1>8, <1>2, <1>6
  <2>3. d = a \o b
    BY <2>1, <1>9
  <2>4. /\ d \in Seq(Byte \union {Pad}) /\ Len(d) = S + t
        /\ \A j \in 1..(S + t) : d[j] = IF j <= S THEN a[j] ELSE b[j - S]
    BY <2>2, <2>3, ConcatProperties
  <2> QED
    BY <2>1, <2>4
<1>11. \A j \in 1..(S + t) : d[j] = p[j]
  <2>1. SUFFICES ASSUME NEW j \in 1..(S + t) PROVE d[j] = p[j]
    OBVIOUS
  <2>2. CASE j <= S
    BY <2>2, <1>10, <1>2
  <2>3. CASE j > S
    <3>1. j - S \in 1..t /\ S + (j - S) = j
      BY <2>3
    <3>2. d[j] = Taken(st, f)[j - S]
      <4>1. ~(j <= S)
        BY <2>3
      <4> QED
        BY <4>1, <1>10, Zenon
    <3>3. Taken(st, f)[j - S] = p[S + (j - S)]
      BY <3>1, <1>7
    <3> QED
      BY <3>1, <3>2, <3>3
  <2> QED
    BY <2>2, <2>3
<1>12. d = SubSeq(p, 1, S + t)
  <2>1. SubSeq(p, 1, S + t) \in Seq(Byte) /\ Len(SubSeq(p, 1, S + t)) = S + t
        /\ \A j \in 1..(S + t) : SubSeq(p, 1, S + t)[j] = p[j]
    BY <1>5
  <2> QED
    BY <2>1, <1>10, <1>11
<1>13. st.data \o Taken(st, f) = d /\ st.total = Len(p)
  <2>1. st.data = SubSeq(p, 1, S) /\ st.total = Len(p)
    BY <1>s
  <2> QED
    BY <2>1, <1>9
<1>14. CASE S + z >= Len(p)
  <2>1. S + t = Len(p) /\ Len(d) >= st.total
    BY <1>14, <1>1, <1>10, <1>13
  <2>2. d = p
    <3>1. SubSeq(p, 1, Len(p)) = p
      OBVIOUS
    <3> QED
      BY <3>1, <2>1, <1>12
  <2> QED
    BY <2>1, <2>2, <1>14, <1>13 DEF Extended
<1>15. CASE ~(S + z >= Len(p))
  <2>1. S + t = S + z /\ ~(Len(d) >= st.total)
    BY <1>15, <1>1, <1>10, <1>13
  <2>2. st.counter = c /\ st.next = k
    BY <1>s
  <2> QED
    BY <2>1, <2>2, <1>12, <1>15, <1>13 DEF Extended, Held
<1> QED
  BY <1>14, <1>15

\* The first frame starts over.
LEMMA FirstFrame ==
  ASSUME NEW p \in Seq(Byte), Len(p) \in PacketLengths, NEW c \in 0..(Counters - 1), NEW st, NEW tm
  PROVE  Process(st, Fragment(p, c, 0), tm) =
           IF Later(Len(p)) = 0 THEN Done(p) ELSE Going(Reassembled(p, c, 1))
<1>1. 0 \in 0..Later(Len(p)) /\ Later(Len(p)) \in Nat
  BY FrameCount
<1>2. PICK f : f = Fragment(p, c, 0)
  OBVIOUS
<1>3. f.counter = c /\ f.num = 0 /\ f.total = Len(p) /\ f.bytes = Chunk(p, 0, First)
  BY <1>1, <1>2, Fragments
<1>4. Len(p) \in Nat \ {0} /\ First \in Nat \ {0}
  BY PacketConstants
<1>5. PICK x : x = [counter |-> c, total |-> Len(p), data |-> <<>>, next |-> 0]
  OBVIOUS
<1>6. Process(st, f, tm) = Extended(x, f)
  BY <1>3, <1>4, <1>5 DEF Process
<1>7. SubSeq(p, 1, 0) = <<>>
  BY SubSeqEmpty
<1>8. x = [counter |-> c, total |-> Len(p), data |-> SubSeq(p, 1, 0), next |-> 0]
  BY <1>5, <1>7
<1>9. Extended(x, f) =
        IF 0 + First >= Len(p) THEN Done(p) ELSE Going(Held(p, c, 0 + First, 0 + 1))
  <2>1. PICK S \in Nat, z \in Nat \ {0} : S = 0 /\ z = First
    BY <1>4
  <2>2. f.bytes = Chunk(p, S, z) /\ S < Len(p)
    BY <1>3, <1>4, <2>1
  <2>3. x = Held(p, c, S, S)
    BY <1>8, <2>1 DEF Held
  <2>4. Extended(x, f) = IF S + z >= Len(p) THEN Done(p) ELSE Going(Held(p, c, S + z, S + 1))
    BY <2>2, <2>3, Extends
  <2> QED
    BY <2>1, <2>4
<1>10. Pos(1) = First /\ 0 + First = First /\ 0 + 1 = 1
  BY <1>4, PacketConstants DEF Pos
<1>11. First >= Len(p) <=> Later(Len(p)) = 0
  <2>1. CASE Later(Len(p)) = 0
    BY <2>1, <1>10, FrameCount
  <2>2. CASE Later(Len(p)) # 0
    <3>1. 1 \in 0..Later(Len(p))
      BY <2>2, <1>1
    <3>2. Pos(1) < Len(p)
      BY <3>1, FrameCount
    <3> QED
      BY <3>2, <2>2, <1>10, <1>4
  <2> QED
    BY <2>1, <2>2
<1> QED
  BY <1>2, <1>6, <1>9, <1>10, <1>11 DEF Reassembled

\* A later frame continues the reassembly that waits for it.
LEMMA NextFrame ==
  ASSUME NEW p \in Seq(Byte), Len(p) \in PacketLengths, NEW c \in 0..(Counters - 1),
         NEW k \in 1..Later(Len(p)), NEW st, st = Reassembled(p, c, k), NEW tm, ~tm, st # NoState
  PROVE  Process(st, Fragment(p, c, k), tm) =
           IF k = Later(Len(p)) THEN Done(p) ELSE Going(Reassembled(p, c, k + 1))
<1>1. k \in 0..Later(Len(p)) /\ k # 0 /\ Later(Len(p)) \in Nat /\ k \in Nat
  BY FrameCount
<1>2. PICK f : f = Fragment(p, c, k)
  OBVIOUS
<1>3. f.counter = c /\ f.num = k /\ f.bytes = Chunk(p, Pos(k), Rest)
  BY <1>1, <1>2, Fragments
<1>4. Len(p) \in Nat \ {0} /\ First \in Nat \ {0} /\ Rest \in Nat \ {0}
  BY PacketConstants
<1>5. st = [counter |-> c, total |-> Len(p), data |-> SubSeq(p, 1, Pos(k)), next |-> k]
  BY DEF Reassembled, Held
<1>6. Process(st, f, tm) = Extended(st, f)
  <2>1. Continues(st, f)
    BY <1>3, <1>5 DEF Continues
  <2> QED
    BY <1>1, <1>3, <2>1 DEF Process
<1>7. Pos(k) \in Nat /\ Pos(k) < Len(p)
  BY <1>1, FrameCount
<1>8. Extended(st, f) =
        IF Pos(k) + Rest >= Len(p) THEN Done(p) ELSE Going(Held(p, c, Pos(k) + Rest, k + 1))
  <2>1. PICK S \in Nat, z \in Nat \ {0} : S = Pos(k) /\ z = Rest
    BY <1>4, <1>7
  <2>2. f.bytes = Chunk(p, S, z) /\ S < Len(p)
    BY <1>3, <1>7, <2>1
  <2>3. st = Held(p, c, S, k)
    BY <2>1 DEF Reassembled
  <2>4. Extended(st, f) = IF S + z >= Len(p) THEN Done(p) ELSE Going(Held(p, c, S + z, k + 1))
    BY <2>2, <2>3, <1>1, Extends
  <2> QED
    BY <2>1, <2>4
<1>9. Pos(k + 1) = Pos(k) + Rest
  <2>1. PICK j \in Nat : j = k - 1
    BY <1>1
  <2>2. (j + 1) * Rest = j * Rest + Rest
    BY <1>4
  <2>3. j * Rest \in Nat
    BY <1>4
  <2>4. Pos(k) = First + j * Rest /\ Pos(k + 1) = First + (j + 1) * Rest
    BY <1>1, <2>1 DEF Pos
  <2> QED
    BY <2>2, <2>3, <2>4, <1>4
<1>10. Pos(k + 1) >= Len(p) <=> k = Later(Len(p))
  <2>1. CASE k = Later(Len(p))
    BY <2>1, FrameCount
  <2>2. CASE k # Later(Len(p))
    <3>1. k + 1 \in 0..Later(Len(p))
      BY <2>2, <1>1
    <3>2. Pos(k + 1) < Len(p) /\ Pos(k + 1) \in Nat
      BY <3>1, FrameCount
    <3> QED
      BY <3>2, <2>2, <1>4
  <2> QED
    BY <2>1, <2>2
<1> QED
  BY <1>2, <1>6, <1>8, <1>9, <1>10 DEF Reassembled

\* Any other frame ends it.
LEMMA OtherFrame ==
  ASSUME NEW p \in Seq(Byte), Len(p) \in PacketLengths, NEW c \in 0..(Counters - 1),
         NEW k \in 1..Later(Len(p)), NEW st, NEW tm,
         st = NoState \/ st.counter # c \/ st.next # k \/ tm
  PROVE  Process(st, Fragment(p, c, k), tm) = Going(NoState)
<1>1. k \in 0..Later(Len(p)) /\ k # 0
  BY FrameCount
<1>2. PICK f : f = Fragment(p, c, k)
  OBVIOUS
<1>3. f.counter = c /\ f.num = k
  BY <1>1, <1>2, Fragments
<1> QED
  BY <1>1, <1>2, <1>3 DEF Process, Continues
-----------------------------------------------------------------------------
(* One node *)

\* The types of a node's entries.
NodeTypes(o, ctr, st, u, s, it, r) ==
  /\ o \in Seq(CanFrame) /\ ctr \in 0..(Counters - 1) /\ st \in Reassembly /\ u \in Nat
  /\ s \in Seq(Seq(Byte)) /\ it \in SUBSET Nat /\ r \in Seq(Seq(Byte))

\* The payload of the transfer under way.
LEMMA LastSent ==
  ASSUME NEW n \in Nodes, NEW s \in Seq(Seq(Byte)), s # <<>>, SentOk(n, s)
  PROVE  /\ LastOf(s) \in Seq(Byte) /\ Len(LastOf(s)) \in PacketLengths /\ LastOf(s) # <<>>
         /\ LastOf(s)[1][2] = Len(s) /\ Len(s) \in DOMAIN s /\ Len(s) \in Nat \ {0}
<1>1. Len(s) \in DOMAIN s /\ Len(s) \in Nat \ {0}
  OBVIOUS
<1>2. PICK len \in PacketLengths : s[Len(s)] = Payload(n, Len(s), len)
  BY <1>1 DEF SentOk
<1>3. PICK m \in Nat : m = Len(s)
  BY <1>1
<1>4. /\ Payload(n, m, len) \in Seq(Byte) /\ Len(Payload(n, m, len)) = len
      /\ Payload(n, m, len)[1] = <<n, m, 1>> /\ Payload(n, m, len) # <<>>
  BY Payloads
<1>5. LastOf(s) = Payload(n, m, len)
  BY <1>2, <1>3 DEF LastOf
<1>6. LastOf(s)[1] = <<n, m, 1>>
  BY <1>4, <1>5
<1> QED
  BY <1>1, <1>3, <1>4, <1>5, <1>6

\* One more step of the counter.
LEMMA AheadOne ==
  ASSUME NEW a \in 0..(Counters - 1), NEW d \in Nat, NEW b \in 0..(Counters - 1), Ahead(a, d, b)
  PROVE  Ahead(a, d + 1, (b + 1) % Counters) /\ (b + 1) % Counters \in 0..(Counters - 1)
<1>a. Counters \in Nat \ {0}
  BY PacketConstants
<1>1. PICK e \in Nat : a + d = b + e * Counters
  BY DEF Ahead
<1>2. PICK x \in Nat : x = e * Counters
  BY <1>a
<1>3. CASE b + 1 = Counters
  <2>1. (b + 1) % Counters = 0
    BY <1>3, Increment
  <2>2. (e + 1) * Counters = e * Counters + Counters
    BY <1>a
  <2>3. a + (d + 1) = 0 + (e + 1) * Counters
    BY <1>1, <1>2, <1>3, <2>2, <1>a
  <2>4. e + 1 \in Nat
    OBVIOUS
  <2> QED
    <3>1. Ahead(a, d + 1, 0)
      BY <2>3, <2>4 DEF Ahead
    <3>2. 0 \in 0..(Counters - 1)
      BY <1>a
    <3> QED
      BY <2>1, <3>1, <3>2, Zenon
<1>4. CASE b + 1 # Counters
  <2>1. (b + 1) % Counters = b + 1
    BY <1>4, Increment
  <2>2. a + (d + 1) = (b + 1) + e * Counters
    BY <1>1, <1>2, <1>a
  <2> QED
    <3>1. Ahead(a, d + 1, b + 1)
      BY <2>2 DEF Ahead
    <3>2. b + 1 \in 0..(Counters - 1)
      BY <1>a, <1>4
    <3> QED
      BY <2>1, <3>1, <3>2, Zenon
<1> QED
  BY <1>3, <1>4

\* The counter does not come round in fewer steps than there are counters.
LEMMA NoReturn ==
  ASSUME NEW c \in 0..(Counters - 1), NEW d \in Nat, d >= 2, d <= Counters,
         Ahead(c, d, (c + 1) % Counters)
  PROVE  FALSE
<1>a. Counters \in Nat \ {0}
  BY PacketConstants
<1>1. PICK e \in Nat : c + d = ((c + 1) % Counters) + e * Counters
  BY DEF Ahead
<1>2. PICK x \in Nat : x = e * Counters
  BY <1>a
<1>3. e = 0 => x = 0
  BY <1>2, <1>a
<1>4. e >= 1 => x >= Counters
  <2>1. e >= 1 => 1 * Counters <= e * Counters
    BY Multiples, <1>a
  <2> QED
    BY <2>1, <1>2, <1>a
<1>5. e >= 2 => x >= 2 * Counters
  <2>1. e >= 2 => 2 * Counters <= e * Counters
    BY Multiples, <1>a
  <2> QED
    BY <2>1, <1>2, <1>a
<1>6. e = 1 => x = Counters
  BY <1>2, <1>a
<1>7. CASE c + 1 = Counters
  <2>1. c + d = x
    BY <1>7, <1>1, <1>2, Increment
  <2> QED
    BY <2>1, <1>7, <1>3, <1>5, <1>6, <1>a
<1>8. CASE c + 1 # Counters
  <2>1. d - 1 = x
    BY <1>8, <1>1, <1>2, Increment
  <2> QED
    BY <2>1, <1>8, <1>3, <1>4, <1>a
<1> QED
  BY <1>7, <1>8

\* BeginOther keeps a node's invariant.
LEMMA NodeOther ==
  ASSUME NEW n \in Nodes, NEW o, NEW ctr, NEW st, NEW a, NEW u, NEW s, NEW it, NEW r,
         NodeTypes(o, ctr, st, u, s, it, r), NodeOk(n, o, ctr, st, a, u, s, it, r),
         o = <<>>, Timely(st, a) => u < MaxUnseen,
         NEW v, v = IF Timely(st, a) THEN u + 1 ELSE 0
  PROVE  /\ NodeTypes(o, (ctr + 1) % Counters, st, v, s, it, r)
         /\ NodeOk(n, o, (ctr + 1) % Counters, st, a, v, s, it, r)
<1>1. PICK b : b = (ctr + 1) % Counters
  OBVIOUS
<1>t. ctr \in 0..(Counters - 1) /\ u \in Nat
  BY DEF NodeTypes
<1>2. b \in 0..(Counters - 1)
  <2>1. CASE ctr + 1 = Counters
    BY <1>1, <1>t, <2>1, Increment, PacketConstants
  <2>2. CASE ctr + 1 # Counters
    BY <1>1, <1>t, <2>2, Increment, PacketConstants
  <2> QED
    BY <2>1, <2>2
<1>3. v \in Nat
  BY <1>t
<1>4. NodeTypes(o, b, st, v, s, it, r)
  BY <1>2, <1>3 DEF NodeTypes
<1>5. SentOk(n, s) /\ RxOk(o, s, r) /\ IntactOk(o, s, it, r)
  BY DEF NodeOk
<1>6. Timely(st, a) => v <= MaxUnseen
  BY <1>t, PacketConstants
<1>7. SendingOk(o, b, st, a, v, s, it)
  BY DEF SendingOk
<1>8. IdleOk(o, b, st, a, v)
  <2>1. SUFFICES ASSUME Timely(st, a) PROVE \E d \in Nat : Abandoned(st, b, v, d)
    BY DEF IdleOk
  <2>2. PICK d \in Nat : Abandoned(st, ctr, u, d)
    BY <2>1 DEF NodeOk, IdleOk
  <2>3. st.counter \in 0..(Counters - 1) /\ st.next \in Nat /\ Ahead(st.counter, d, ctr) /\ d <= u
    BY <2>2 DEF Abandoned
  <2>4. Ahead(st.counter, d + 1, b)
    BY <2>3, <1>1, <1>t, AheadOne
  <2>5. d + 1 \in Nat \ {0} /\ d + 1 <= v
    BY <2>3, <1>t, <2>1
  <2>6. Abandoned(st, b, v, d + 1)
    BY <2>3, <2>4, <2>5 DEF Abandoned
  <2> QED
    BY <2>5, <2>6
<1>9. NodeOk(n, o, b, st, a, v, s, it, r)
  BY <1>5, <1>6, <1>7, <1>8 DEF NodeOk
<1> QED
  BY <1>1, <1>4, <1>9

\* Begin keeps a node's invariant.
LEMMA NodeBegin ==
  ASSUME NEW n \in Nodes, NEW o, NEW ctr, NEW st, NEW a, NEW u, NEW s, NEW it, NEW r,
         NodeTypes(o, ctr, st, u, s, it, r), NodeOk(n, o, ctr, st, a, u, s, it, r),
         o = <<>>, NEW len \in PacketLengths,
         NEW p, p = Payload(n, Len(s) + 1, len)
  PROVE  /\ NodeTypes(FragmentFastPacket(p, ctr), (ctr + 1) % Counters, st, u, Append(s, p),
                      it \union {Len(s) + 1}, r)
         /\ NodeOk(n, FragmentFastPacket(p, ctr), (ctr + 1) % Counters, st, a, u, Append(s, p),
                   it \union {Len(s) + 1}, r)
<1>1. PICK b, x, y, w : /\ b = (ctr + 1) % Counters /\ x = FragmentFastPacket(p, ctr)
                        /\ y = Append(s, p) /\ w = it \union {Len(s) + 1}
  OBVIOUS
<1>t. /\ ctr \in 0..(Counters - 1) /\ u \in Nat /\ s \in Seq(Seq(Byte)) /\ it \in SUBSET Nat
      /\ st \in Reassembly /\ r \in Seq(Seq(Byte))
  BY DEF NodeTypes
<1>2. b \in 0..(Counters - 1)
  <2>1. CASE ctr + 1 = Counters
    BY <1>1, <1>t, <2>1, Increment, PacketConstants
  <2>2. CASE ctr + 1 # Counters
    BY <1>1, <1>t, <2>2, Increment, PacketConstants
  <2> QED
    BY <2>1, <2>2
<1>3. p \in Seq(Byte) /\ Len(p) = len /\ p # <<>>
  <2>1. PICK m \in Nat : m = Len(s) + 1
    BY <1>t
  <2> QED
    BY <2>1, Payloads
<1>4. Later(Len(p)) \in Nat /\ 0 \in 0..Later(Len(p))
  BY <1>3, FrameCount
<1>5. x \in Seq(CanFrame) /\ x # <<>> /\ x = FramesFrom(p, ctr, 0)
  BY <1>1, <1>3, <1>4, <1>t, FramesLeft
<1>6. /\ y \in Seq(Seq(Byte)) /\ Len(y) = Len(s) + 1 /\ y # <<>> /\ Len(s) \in Nat
      /\ y[Len(s) + 1] = p /\ DOMAIN y = 1..(Len(s) + 1) /\ DOMAIN s = 1..Len(s)
      /\ \A m \in 1..Len(s) : y[m] = s[m]
  <2>1. /\ Append(s, p) \in Seq(Seq(Byte)) /\ Append(s, p) # <<>> /\ Len(Append(s, p)) = Len(s) + 1
        /\ \A i \in 1..Len(s) : Append(s, p)[i] = s[i] /\ Append(s, p)[Len(s) + 1] = p
    BY <1>3, <1>t, AppendProperties
  <2>2. y[Len(s) + 1] = p
    BY <1>1, <1>3, <1>t
  <2> QED
    BY <2>1, <2>2, <1>1, <1>t
<1>7. LastOf(y) = p
  BY <1>6 DEF LastOf
<1>8. w \in SUBSET Nat
  <2>1. Len(s) + 1 \in Nat
    BY <1>6
  <2> QED
    BY <2>1, <1>1, <1>t, Zenon
<1>9. NodeTypes(x, b, st, u, y, w, r)
  BY <1>t, <1>2, <1>5, <1>6, <1>8 DEF NodeTypes
<1>10. SentOk(n, y)
  <2>1. SUFFICES ASSUME NEW m \in DOMAIN y PROVE \E l \in PacketLengths : y[m] = Payload(n, m, l)
    BY DEF SentOk
  <2>2. CASE m = Len(s) + 1
    BY <2>2, <1>6
  <2>3. CASE m # Len(s) + 1
    <3>1. m \in DOMAIN s /\ y[m] = s[m]
      BY <2>3, <1>6
    <3> QED
      BY <3>1 DEF NodeOk, SentOk
  <2> QED
    BY <2>2, <2>3
<1>11. RxOk(x, y, r)
  <2>1. /\ \A i \in DOMAIN r : Number(r, i) \in DOMAIN s /\ r[i] = s[Number(r, i)]
        /\ \A i, j \in DOMAIN r : i < j => Number(r, i) < Number(r, j)
    BY DEF NodeOk, RxOk
  <2>2. ASSUME NEW i \in DOMAIN r
        PROVE  Number(r, i) \in DOMAIN y /\ r[i] = y[Number(r, i)] /\ Number(r, i) < Len(y)
    <3>1. PICK m : m = Number(r, i)
      OBVIOUS
    <3>2. m \in 1..Len(s) /\ r[i] = s[m]
      BY <2>1, <3>1, <1>6
    <3>3. m \in DOMAIN y /\ m < Len(y) /\ r[i] = y[m]
      BY <3>2, <1>6
    <3> QED
      BY <3>1, <3>3
  <2> QED
    BY <2>1, <2>2 DEF RxOk
<1>12. IntactOk(x, y, w, r)
  <2>1. it \subseteq DOMAIN s /\ \A m \in it : \E i \in DOMAIN r : r[i] = s[m]
    BY DEF NodeOk, IntactOk
  <2>2. w \subseteq DOMAIN y
    BY <2>1, <1>1, <1>6
  <2>3. \A m \in w : (x # <<>> /\ m = Len(y)) \/ \E i \in DOMAIN r : r[i] = y[m]
    <3>1. SUFFICES ASSUME NEW m \in w, m # Len(y) PROVE \E i \in DOMAIN r : r[i] = y[m]
      BY <1>5
    <3>2. m \in it
      BY <3>1, <1>1, <1>6
    <3>3. m \in 1..Len(s) /\ y[m] = s[m]
      BY <3>2, <2>1, <1>6
    <3> QED
      BY <3>2, <3>3, <2>1
  <2> QED
    BY <2>2, <2>3 DEF IntactOk
<1>13. SendingOk(x, b, st, a, u, y, w)
  <2>1. UnderWay(x, b, y, ctr, 0)
    BY <1>1, <1>4, <1>5, <1>6, <1>7, <1>t DEF UnderWay
  <2>2. ASSUME Timely(st, a) PROVE \E d \in Nat : Orphan(st, b, u, 0, d)
    <3>1. PICK d \in Nat : Abandoned(st, ctr, u, d)
      BY <2>2 DEF NodeOk, IdleOk
    <3>2. /\ st.counter \in 0..(Counters - 1) /\ st.next \in Nat /\ Ahead(st.counter, d, ctr)
          /\ d <= u /\ d \in Nat \ {0}
      BY <3>1 DEF Abandoned
    <3>3. Ahead(st.counter, d + 1, b)
      BY <3>2, <1>1, <1>t, AheadOne
    <3>4. d + 1 \in Nat \ {0} /\ d + 1 >= 2 /\ d + 1 <= u + 1
      BY <3>2, <1>t
    <3>5. Orphan(st, b, u, 0, d + 1)
      BY <3>2, <3>3, <3>4 DEF Orphan
    <3> QED
      BY <3>4, <3>5
  <2>3. SendingAt(x, b, st, a, u, y, w, ctr, 0)
    BY <2>1, <2>2 DEF SendingAt
  <2>4. 0 \in Nat
    OBVIOUS
  <2> QED
    BY <2>3, <2>4, <1>t DEF SendingOk
<1>14. IdleOk(x, b, st, a, u)
  BY <1>5 DEF IdleOk
<1>15. NodeOk(n, x, b, st, a, u, y, w, r)
  <2>1. Timely(st, a) => u <= MaxUnseen
    BY DEF NodeOk
  <2> QED
    BY <2>1, <1>10, <1>11, <1>12, <1>13, <1>14 DEF NodeOk
<1> QED
  BY <1>1, <1>9, <1>15

\* The counter is one ahead of the transfer under way.
LEMMA AheadSelf ==
  ASSUME NEW c \in 0..(Counters - 1)
  PROVE  Ahead(c, 1, (c + 1) % Counters)
<1>a. Counters \in Nat \ {0}
  BY PacketConstants
<1>1. CASE c + 1 = Counters
  <2>1. (c + 1) % Counters = 0
    BY <1>1, Increment
  <2>2. c + 1 = 0 + 1 * Counters /\ 1 \in Nat
    BY <1>1, <1>a
  <2>3. Ahead(c, 1, 0)
    BY <2>2 DEF Ahead
  <2> QED
    BY <2>1, <2>3
<1>2. CASE c + 1 # Counters
  <2>1. (c + 1) % Counters = c + 1
    BY <1>2, Increment
  <2>2. c + 1 = (c + 1) + 0 * Counters /\ 0 \in Nat
    BY <1>a
  <2>3. Ahead(c, 1, c + 1)
    BY <2>2 DEF Ahead
  <2> QED
    BY <2>1, <2>3
<1> QED
  BY <1>1, <1>2

\* The frame a sending node is about to send, and what is left after it.
LEMMA Sender ==
  ASSUME NEW n \in Nodes, NEW o, NEW ctr, NEW s \in Seq(Seq(Byte)), NEW c, NEW k, NEW p,
         SentOk(n, s), UnderWay(o, ctr, s, c, k), p = LastOf(s)
  PROVE  /\ p \in Seq(Byte) /\ Len(p) \in PacketLengths /\ p # <<>> /\ p[1][2] = Len(s)
         /\ c \in 0..(Counters - 1) /\ ctr = (c + 1) % Counters
         /\ Later(Len(p)) \in Nat /\ k \in 0..Later(Len(p)) /\ k \in Nat
         /\ Head(o) = Fragment(p, c, k) /\ Head(o).num = k
         /\ k # Later(Len(p)) => /\ UnderWay(Tail(o), ctr, s, c, k + 1) /\ Tail(o) # <<>>
                                 /\ Tail(o) \in Seq(CanFrame)
<1>1. s # <<>> /\ c \in 0..(Counters - 1) /\ ctr = (c + 1) % Counters /\ k \in 0..Later(Len(p))
      /\ o = FramesFrom(p, c, k)
  BY DEF UnderWay
<1>2. /\ p \in Seq(Byte) /\ Len(p) \in PacketLengths /\ p # <<>> /\ p[1][2] = Len(s)
  BY <1>1, LastSent
<1>3. Later(Len(p)) \in Nat /\ k \in Nat
  BY <1>1, <1>2, FrameCount
<1>4. Head(o) = Fragment(p, c, k) /\ Head(o).num = k
  BY <1>1, <1>2, FramesLeft, Fragments, SMTT(30)
<1>5. Tail(o) = FramesFrom(p, c, k + 1)
  BY <1>1, <1>2, FramesLeft, SMTT(30)
<1>6. ASSUME k # Later(Len(p))
      PROVE  UnderWay(Tail(o), ctr, s, c, k + 1) /\ Tail(o) # <<>> /\ Tail(o) \in Seq(CanFrame)
  <2>1. k + 1 \in 0..Later(Len(p))
    BY <1>6, <1>1, <1>3
  <2>2. Tail(o) # <<>> /\ Tail(o) \in Seq(CanFrame)
    <3>1. PICK j \in 0..Later(Len(p)) : j = k + 1
      BY <2>1
    <3>2. FramesFrom(p, c, j) \in Seq(CanFrame) /\ FramesFrom(p, c, j) # <<>>
      BY <1>1, <1>2, FramesLeft
    <3> QED
      BY <3>1, <3>2, <1>5
  <2> QED
    BY <2>1, <2>2, <1>1, <1>5 DEF UnderWay
<1> QED
  BY <1>1, <1>2, <1>3, <1>4, <1>5, <1>6

\* Nothing is left after the last frame.
LEMMA LastFrame ==
  ASSUME NEW n \in Nodes, NEW o, NEW ctr, NEW s \in Seq(Seq(Byte)), NEW c, NEW k,
         SentOk(n, s), UnderWay(o, ctr, s, c, k), k = Later(Len(LastOf(s)))
  PROVE  Tail(o) = <<>>
<1>1. PICK p : p = LastOf(s)
  OBVIOUS
<1>2. s # <<>> /\ c \in 0..(Counters - 1) /\ k \in 0..Later(Len(p)) /\ o = FramesFrom(p, c, k)
  BY <1>1 DEF UnderWay
<1>3. p \in Seq(Byte) /\ Len(p) \in PacketLengths
  BY <1>1, <1>2, LastSent
<1> QED
  BY <1>1, <1>2, <1>3, FramesLeft, SMTT(30)

\* What a loss may leave of the frames still to be sent.
AfterLoss(o) == {Tail(o), <<>>}

\* Lose keeps a node's invariant.
LEMMA NodeLose ==
  ASSUME NEW n \in Nodes, NEW o, NEW ctr, NEW st, NEW a, NEW u, NEW s, NEW it, NEW r,
         NodeTypes(o, ctr, st, u, s, it, r), NodeOk(n, o, ctr, st, a, u, s, it, r),
         o # <<>>, Timely(st, a) => u < MaxUnseen,
         NEW v, v = IF Timely(st, a) THEN u + 1 ELSE 0,
         NEW w, w = it \ {Len(s)},
         NEW x \in AfterLoss(o)
  PROVE  /\ NodeTypes(x, ctr, st, v, s, w, r)
         /\ NodeOk(n, x, ctr, st, a, v, s, w, r)
<1>t. /\ ctr \in 0..(Counters - 1) /\ u \in Nat /\ s \in Seq(Seq(Byte)) /\ it \in SUBSET Nat
      /\ st \in Reassembly /\ r \in Seq(Seq(Byte))
  BY DEF NodeTypes
<1>x. x = Tail(o) \/ x = <<>>
  BY DEF AfterLoss
<1>s. SentOk(n, s)
  BY DEF NodeOk
<1>1. PICK c \in 0..(Counters - 1), k \in Nat : SendingAt(o, ctr, st, a, u, s, it, c, k)
  BY DEF NodeOk, SendingOk
<1>2. PICK p : p = LastOf(s)
  OBVIOUS
<1>3. UnderWay(o, ctr, s, c, k)
  BY <1>1 DEF SendingAt
<1>4. /\ p \in Seq(Byte) /\ Len(p) \in PacketLengths /\ p # <<>>
      /\ ctr = (c + 1) % Counters /\ Later(Len(p)) \in Nat /\ k \in 0..Later(Len(p))
      /\ k = Later(Len(p)) => Tail(o) = <<>>
      /\ k # Later(Len(p)) => /\ UnderWay(Tail(o), ctr, s, c, k + 1) /\ Tail(o) # <<>>
                              /\ Tail(o) \in Seq(CanFrame)
  <2>1. p \in Seq(Byte) /\ Len(p) \in PacketLengths /\ p # <<>> /\ ctr = (c + 1) % Counters
    BY <1>2, <1>3, <1>s, <1>t, Sender, ZenonT(30)
  <2>2. Later(Len(p)) \in Nat /\ k \in 0..Later(Len(p))
    BY <1>2, <1>3, <1>s, <1>t, Sender, ZenonT(30)
  <2>3. k = Later(Len(p)) => Tail(o) = <<>>
    BY <1>2, <1>3, <1>s, <1>t, LastFrame
  <2>4. k # Later(Len(p)) => UnderWay(Tail(o), ctr, s, c, k + 1) /\ Tail(o) # <<>> /\ Tail(o) \in Seq(CanFrame)
    BY <1>2, <1>3, <1>s, <1>t, Sender, ZenonT(30)
  <2> QED
    BY <2>1, <2>2, <2>3, <2>4, Zenon
<1>5. x \in Seq(CanFrame)
  <2>1. <<>> \in Seq(CanFrame)
    OBVIOUS
  <2> QED
    BY <2>1, <1>4, <1>x
<1>6. v \in Nat /\ (Timely(st, a) => v = u + 1 /\ v <= MaxUnseen)
  BY <1>t, PacketConstants
<1>7. NodeTypes(x, ctr, st, v, s, w, r)
  BY <1>t, <1>5, <1>6 DEF NodeTypes
<1>8. RxOk(x, s, r)
  BY DEF NodeOk, RxOk
<1>9. IntactOk(x, s, w, r)
  BY DEF NodeOk, IntactOk
<1>10. ASSUME Timely(st, a)
       PROVE  \E d \in Nat : /\ d \in Nat \ {0} /\ d <= v /\ (d >= 2 \/ k + 1 > st.next)
                             /\ st.counter \in 0..(Counters - 1) /\ st.next \in Nat
                             /\ Ahead(st.counter, d, ctr)
  <2>1. CASE Following(st, p, c, k)
    <3>1. st.counter = c /\ st.next = k
      BY <2>1 DEF Following, Reassembled, Held
    <3>2. Ahead(c, 1, ctr)
      BY <1>4, AheadSelf
    <3>3. 1 \in Nat \ {0} /\ 1 <= v /\ k + 1 > st.next
      BY <1>6, <1>10, <1>t, <3>1
    <3> QED
      BY <3>1, <3>2, <3>3
  <2>2. ASSUME NEW d \in Nat, Orphan(st, ctr, u, k, d)
        PROVE  /\ d \in Nat \ {0} /\ d <= v /\ (d >= 2 \/ k + 1 > st.next)
               /\ st.counter \in 0..(Counters - 1) /\ st.next \in Nat
               /\ Ahead(st.counter, d, ctr)
    <3>1. /\ d \in Nat \ {0} /\ st.counter \in 0..(Counters - 1) /\ st.next \in Nat
          /\ Ahead(st.counter, d, ctr)
      BY <2>2 DEF Orphan
    <3>2. CASE k = 0
      <4>1. d >= 2 /\ d <= u + 1
        BY <2>2, <3>2 DEF Orphan
      <4> QED
        BY <4>1, <3>1, <1>6, <1>10
    <3>3. CASE k # 0
      <4>1. d <= u /\ (d >= 2 \/ k > st.next)
        BY <2>2, <3>3 DEF Orphan
      <4>2. d <= v
        BY <4>1, <1>6, <1>10, <1>t
      <4>3. d >= 2 \/ k + 1 > st.next
        BY <4>1, <3>1
      <4> QED
        BY <4>2, <4>3, <3>1
    <3> QED
      BY <3>2, <3>3
  <2>3. Following(st, p, c, k) \/ \E d \in Nat : Orphan(st, ctr, u, k, d)
    BY <1>1, <1>2, <1>10 DEF SendingAt
  <2> QED
    BY <2>1, <2>2, <2>3
<1>11. SendingOk(x, ctr, st, a, v, s, w)
  <2>1. SUFFICES ASSUME x # <<>>
                PROVE  \E e \in 0..(Counters - 1), j \in Nat : SendingAt(x, ctr, st, a, v, s, w, e, j)
    BY DEF SendingOk
  <2>2. UnderWay(x, ctr, s, c, k + 1)
    BY <2>1, <1>4, <1>x
  <2>3. ASSUME Timely(st, a) PROVE \E d \in Nat : Orphan(st, ctr, v, k + 1, d)
    <3>1. k + 1 # 0
      OBVIOUS
    <3> QED
      BY <3>1, <2>3, <1>10 DEF Orphan
  <2>4. Len(s) \notin w
    OBVIOUS
  <2>5. SendingAt(x, ctr, st, a, v, s, w, c, k + 1)
    BY <2>2, <2>3, <2>4 DEF SendingAt
  <2>6. k + 1 \in Nat
    OBVIOUS
  <2> QED
    BY <2>5, <2>6
<1>12. IdleOk(x, ctr, st, a, v)
  BY <1>10 DEF IdleOk, Abandoned
<1>13. NodeOk(n, x, ctr, st, a, v, s, w, r)
  BY <1>s, <1>6, <1>8, <1>9, <1>11, <1>12 DEF NodeOk
<1> QED
  BY <1>7, <1>13

\* Late keeps a node's invariant.
LEMMA NodeLate ==
  ASSUME NEW n \in Nodes, NEW o, NEW ctr, NEW st, NEW u, NEW s, NEW it, NEW r,
         NodeTypes(o, ctr, st, u, s, it, r), NodeOk(n, o, ctr, st, "fresh", u, s, it, r),
         NEW w, w = IF o = <<>> \/ Head(o).num = 0 THEN it ELSE it \ {Len(s)}
  PROVE  /\ NodeTypes(o, ctr, st, u, s, w, r)
         /\ NodeOk(n, o, ctr, st, "late", u, s, w, r)
<1>t. s \in Seq(Seq(Byte)) /\ it \in SUBSET Nat
  BY DEF NodeTypes
<1>s. SentOk(n, s) /\ RxOk(o, s, r)
  BY DEF NodeOk
<1>1. w \subseteq it
  OBVIOUS
<1>2. NodeTypes(o, ctr, st, u, s, w, r)
  BY <1>1 DEF NodeTypes
<1>3. ~Timely(st, "late")
  BY DEF Timely
<1>4. IntactOk(o, s, w, r)
  BY <1>1 DEF NodeOk, IntactOk
<1>5. IdleOk(o, ctr, st, "late", u)
  BY <1>3 DEF IdleOk
<1>6. SendingOk(o, ctr, st, "late", u, s, w)
  <2>1. SUFFICES ASSUME o # <<>>
                PROVE  \E c \in 0..(Counters - 1), k \in Nat : SendingAt(o, ctr, st, "late", u, s, w, c, k)
    BY DEF SendingOk
  <2>2. PICK c \in 0..(Counters - 1), k \in Nat : SendingAt(o, ctr, st, "fresh", u, s, it, c, k)
    BY <2>1 DEF NodeOk, SendingOk
  <2>3. UnderWay(o, ctr, s, c, k)
    BY <2>2 DEF SendingAt
  <2>4. PICK p : p = LastOf(s)
    OBVIOUS
  <2>5. Head(o).num = k
    BY <2>3, <2>4, <1>s, <1>t, Sender
  <2>6. Len(s) \in w => k = 0
    BY <2>1, <2>5
  <2> QED
    BY <2>3, <2>6, <1>3 DEF SendingAt
<1>7. NodeOk(n, o, ctr, st, "late", u, s, w, r)
  BY <1>s, <1>3, <1>4, <1>5, <1>6 DEF NodeOk
<1> QED
  BY <1>2, <1>7

\* PurgeStale keeps a node's invariant.
LEMMA NodePurge ==
  ASSUME NEW n \in Nodes, NEW o, NEW ctr, NEW st, NEW u, NEW s, NEW it, NEW r,
         NodeTypes(o, ctr, st, u, s, it, r), NodeOk(n, o, ctr, st, "late", u, s, it, r)
  PROVE  /\ NodeTypes(o, ctr, NoState, u, s, it, r)
         /\ NodeOk(n, o, ctr, NoState, "late", u, s, it, r)
<1>1. NoState \in Reassembly
  BY DEF NoState, Reassembly
<1>2. NodeTypes(o, ctr, NoState, u, s, it, r)
  BY <1>1 DEF NodeTypes
<1>3. ~Timely(NoState, "late")
  BY DEF Timely
<1>5. IdleOk(o, ctr, NoState, "late", u)
  BY <1>3 DEF IdleOk
<1>6. SendingOk(o, ctr, NoState, "late", u, s, it)
  <2>1. SUFFICES ASSUME o # <<>>
                PROVE  \E c \in 0..(Counters - 1), k \in Nat : SendingAt(o, ctr, NoState, "late", u, s, it, c, k)
    BY DEF SendingOk
  <2>2. PICK c \in 0..(Counters - 1), k \in Nat : SendingAt(o, ctr, st, "late", u, s, it, c, k)
    BY <2>1 DEF NodeOk, SendingOk
  <2>3. UnderWay(o, ctr, s, c, k) /\ (Len(s) \in it => k = 0)
    BY <2>2 DEF SendingAt
  <2> QED
    BY <2>3, <1>3 DEF SendingAt
<1>7. NodeOk(n, o, ctr, NoState, "late", u, s, it, r)
  BY <1>3, <1>5, <1>6 DEF NodeOk
<1> QED
  BY <1>2, <1>7

\* What Process may make of a frame: it completes the payload, continues its
\* reassembly, or finds none that waits for it.
OutcomeOf(res, p, c, k, a, u, s, it) ==
  \/ k = Later(Len(p)) /\ res = Done(p)
  \/ /\ k # Later(Len(p)) /\ res = Going(Reassembled(p, c, k + 1))
     /\ k # 0 => a = "fresh" /\ u <= MaxUnseen
  \/ k # 0 /\ res = Going(NoState) /\ Len(s) \notin it

\* A frame does one of these, and a transfer that is still intact is not dropped.
LEMMA Outcome ==
  ASSUME NEW n \in Nodes, NEW o, NEW ctr, NEW st, NEW a \in {"fresh", "late"}, NEW u, NEW s, NEW it, NEW r,
         NodeTypes(o, ctr, st, u, s, it, r), NodeOk(n, o, ctr, st, a, u, s, it, r), o # <<>>,
         NEW c \in 0..(Counters - 1), NEW k \in Nat, SendingAt(o, ctr, st, a, u, s, it, c, k),
         NEW p, p = LastOf(s),
         NEW tm, tm <=> a = "late", NEW res, res = Process(st, Head(o), tm)
  PROVE  OutcomeOf(res, p, c, k, a, u, s, it)
<1>o. SUFFICES \/ k = Later(Len(p)) /\ Process(st, Head(o), tm) = Done(p)
               \/ /\ k # Later(Len(p)) /\ Process(st, Head(o), tm) = Going(Reassembled(p, c, k + 1))
                  /\ k # 0 => a = "fresh" /\ u <= MaxUnseen
               \/ k # 0 /\ Process(st, Head(o), tm) = Going(NoState) /\ Len(s) \notin it
  BY DEF OutcomeOf
<1>t. ctr \in 0..(Counters - 1) /\ u \in Nat /\ s \in Seq(Seq(Byte))
  BY DEF NodeTypes
<1>s. SentOk(n, s) /\ (Timely(st, a) => u <= MaxUnseen)
  BY DEF NodeOk
<1>1. UnderWay(o, ctr, s, c, k)
  BY DEF SendingAt
<1>2. p \in Seq(Byte) /\ Len(p) \in PacketLengths /\ ctr = (c + 1) % Counters
  BY <1>1, <1>s, <1>t, Sender, ZenonT(30)
<1>3. Later(Len(p)) \in Nat /\ k \in 0..Later(Len(p)) /\ Head(o) = Fragment(p, c, k)
  BY <1>1, <1>s, <1>t, Sender, ZenonT(30)
<1>4. CASE k = 0
  <2>1. Process(st, Head(o), tm) = IF Later(Len(p)) = 0 THEN Done(p) ELSE Going(Reassembled(p, c, 1))
    BY <1>2, <1>3, <1>4, FirstFrame
  <2>2. k + 1 = 1
    BY <1>4
  <2> QED
    BY <2>1, <2>2, <1>4
<1>5. CASE k # 0 /\ Following(st, p, c, k) /\ a = "fresh"
  <2>1. st = Reassembled(p, c, k) /\ ~tm /\ k \in 1..Later(Len(p))
    BY <1>5, <1>3 DEF Following
  <2>2. st # NoState
    <3>1. st.counter = c /\ NoState.counter = -1
      BY <2>1 DEF Reassembled, Held, NoState
    <3>2. c # -1
      OBVIOUS
    <3> QED
      BY <3>1, <3>2
  <2>3. u <= MaxUnseen
    BY <2>2, <1>5, <1>s DEF Timely
  <2>4. Process(st, Head(o), tm) = IF k = Later(Len(p)) THEN Done(p) ELSE Going(Reassembled(p, c, k + 1))
    BY <2>1, <2>2, <1>2, <1>3, NextFrame
  <2> QED
    BY <2>3, <2>4, <1>5
<1>6. CASE k # 0 /\ ~(Following(st, p, c, k) /\ a = "fresh")
  <2>1. Len(s) \notin it
    BY <1>6 DEF SendingAt
  <2>2. k \in 1..Later(Len(p))
    BY <1>6, <1>3
  <2>3. st = NoState \/ st.counter # c \/ st.next # k \/ tm
    <3>1. SUFFICES ASSUME st # NoState, ~tm, st.counter = c, st.next = k PROVE FALSE
      OBVIOUS
    <3>2. Timely(st, a) /\ a = "fresh"
      BY <3>1 DEF Timely
    <3>3. PICK d \in Nat : Orphan(st, ctr, u, k, d)
      BY <3>2, <1>6 DEF SendingAt
    <3>4. Ahead(c, d, (c + 1) % Counters) /\ d <= u /\ (d >= 2 \/ k > k)
      BY <3>1, <3>3, <1>6, <1>2 DEF Orphan
    <3>5. d >= 2 /\ d <= Counters
      BY <3>4, <3>2, <1>s, <1>t, PacketConstants
    <3> QED
      BY <3>4, <3>5, NoReturn
  <2>4. Process(st, Head(o), tm) = Going(NoState)
    BY <2>2, <2>3, <1>2, <1>3, OtherFrame
  <2> QED
    BY <2>1, <2>4, <1>6
<1> QED
  BY <1>4, <1>5, <1>6

\* Process keeps a node's invariant.
LEMMA NodeReceive ==
  ASSUME NEW n \in Nodes, NEW o, NEW ctr, NEW st, NEW a \in {"fresh", "late"}, NEW u, NEW s, NEW it, NEW r,
         NodeTypes(o, ctr, st, u, s, it, r), NodeOk(n, o, ctr, st, a, u, s, it, r), o # <<>>,
         NEW tm, tm <=> a = "late", NEW res, res = Process(st, Head(o), tm),
         NEW b, b = IF Head(o).num = 0 THEN "fresh" ELSE a,
         NEW v, v = IF Head(o).num = 0 THEN 0 ELSE u,
         NEW z, z = IF res.data = <<>> THEN r ELSE Append(r, res.data)
  PROVE  /\ NodeTypes(Tail(o), ctr, res.st, v, s, it, z)
         /\ NodeOk(n, Tail(o), ctr, res.st, b, v, s, it, z)
<1>t. /\ ctr \in 0..(Counters - 1) /\ u \in Nat /\ s \in Seq(Seq(Byte)) /\ it \in SUBSET Nat
      /\ st \in Reassembly /\ r \in Seq(Seq(Byte))
  BY DEF NodeTypes
<1>s. SentOk(n, s) /\ RxOk(o, s, r) /\ IntactOk(o, s, it, r)
  BY DEF NodeOk
<1>1. PICK c \in 0..(Counters - 1), k \in Nat : SendingAt(o, ctr, st, a, u, s, it, c, k)
  BY DEF NodeOk, SendingOk
<1>2. PICK p, x : p = LastOf(s) /\ x = Tail(o)
  OBVIOUS
<1>3. UnderWay(o, ctr, s, c, k)
  BY <1>1 DEF SendingAt
<1>4. /\ p \in Seq(Byte) /\ Len(p) \in PacketLengths /\ p # <<>> /\ p[1][2] = Len(s)
      /\ Head(o).num = k
  BY <1>2, <1>3, <1>s, <1>t, Sender, ZenonT(30)
<1>5. /\ Later(Len(p)) \in Nat /\ k \in 0..Later(Len(p))
      /\ k = Later(Len(p)) => x = <<>>
  <2>1. Later(Len(p)) \in Nat /\ k \in 0..Later(Len(p))
    BY <1>2, <1>3, <1>s, <1>t, Sender, ZenonT(30)
  <2>2. k = Later(Len(p)) => x = <<>>
    BY <1>2, <1>3, <1>s, <1>t, LastFrame
  <2> QED
    BY <2>1, <2>2
<1>6. k # Later(Len(p)) => UnderWay(x, ctr, s, c, k + 1) /\ x # <<>> /\ x \in Seq(CanFrame)
  BY <1>2, <1>3, <1>s, <1>t, Sender, ZenonT(90)
<1>7. /\ Len(s) \in DOMAIN s /\ s[Len(s)] = p /\ Len(s) \in Nat
      /\ DOMAIN s = 1..Len(s)
  <2>1. s # <<>>
    BY <1>3 DEF UnderWay
  <2> QED
    BY <2>1, <1>2, <1>t DEF LastOf
<1>8. x \in Seq(CanFrame)
  <2>1. <<>> \in Seq(CanFrame)
    OBVIOUS
  <2> QED
    BY <2>1, <1>5, <1>6
<1>9. v \in Nat
  BY <1>t
<1>10. NoState \in Reassembly
  BY DEF NoState, Reassembly
<1>11. /\ \A i \in DOMAIN r : Number(r, i) \in DOMAIN s /\ r[i] = s[Number(r, i)] /\ Number(r, i) < Len(s)
       /\ \A i, j \in DOMAIN r : i < j => Number(r, i) < Number(r, j)
  BY <1>s DEF RxOk
<1>12. /\ it \subseteq DOMAIN s
       /\ \A m \in it : m = Len(s) \/ \E i \in DOMAIN r : r[i] = s[m]
  BY <1>s DEF IntactOk
<1>13. CASE k = Later(Len(p)) /\ res = Done(p)
  <2>1. res.st = NoState /\ res.data = p /\ x = <<>>
    BY <1>13, <1>5 DEF Done
  <2>2. z = Append(r, p)
    BY <2>1, <1>4
  <2>3. /\ z \in Seq(Seq(Byte)) /\ Len(z) = Len(r) + 1 /\ Len(r) \in Nat
        /\ DOMAIN r = 1..Len(r) /\ DOMAIN z = 1..(Len(r) + 1)
        /\ z[Len(r) + 1] = p
    BY <2>2, <1>4, <1>t
  <2>4. \A i \in 1..Len(r) : z[i] = r[i]
    BY <2>2, <1>4, <1>t, AppendProperties
  <2>5. Number(z, Len(r) + 1) = Len(s)
    BY <2>3, <1>4 DEF Number
  <2>6. \A i \in DOMAIN r : Number(z, i) = Number(r, i)
    BY <2>3, <2>4 DEF Number
  <2>7. RxOk(x, s, z)
    <3>1. ASSUME NEW i \in DOMAIN z
          PROVE  Number(z, i) \in DOMAIN s /\ z[i] = s[Number(z, i)]
      <4>1. CASE i = Len(r) + 1
        BY <4>1, <2>3, <2>5, <1>7
      <4>2. CASE i # Len(r) + 1
        <5>1. i \in DOMAIN r /\ z[i] = r[i]
          BY <4>2, <2>3, <2>4
        <5> QED
          BY <5>1, <2>6, <1>11
      <4> QED
        BY <4>1, <4>2
    <3>2. ASSUME NEW i \in DOMAIN z, NEW j \in DOMAIN z, i < j
          PROVE  Number(z, i) < Number(z, j)
      <4>1. i \in DOMAIN r
        BY <3>2, <2>3
      <4>2. CASE j = Len(r) + 1
        BY <4>1, <4>2, <2>5, <2>6, <1>11
      <4>3. CASE j # Len(r) + 1
        <5>1. j \in DOMAIN r
          BY <4>3, <2>3
        <5> QED
          BY <4>1, <5>1, <3>2, <2>6, <1>11
      <4> QED
        BY <4>2, <4>3
    <3> QED
      BY <3>1, <3>2, <2>1 DEF RxOk
  <2>8. IntactOk(x, s, it, z)
    <3>1. ASSUME NEW m \in it PROVE \E i \in DOMAIN z : z[i] = s[m]
      <4>1. CASE m = Len(s)
        <5>1. Len(r) + 1 \in DOMAIN z
          BY <2>3
        <5> QED
          BY <5>1, <4>1, <2>3, <1>7
      <4>2. CASE m # Len(s)
        <5>1. PICK i \in DOMAIN r : r[i] = s[m]
          BY <4>2, <1>12
        <5>2. i \in DOMAIN z /\ z[i] = r[i]
          BY <2>3, <2>4
        <5> QED
          BY <5>1, <5>2
      <4> QED
        BY <4>1, <4>2
    <3> QED
      BY <3>1, <1>12 DEF IntactOk
  <2>9. ~Timely(NoState, b)
    BY DEF Timely
  <2>10. SendingOk(x, ctr, NoState, b, v, s, it) /\ IdleOk(x, ctr, NoState, b, v)
    BY <2>1, <2>9 DEF SendingOk, IdleOk
  <2>11. NodeTypes(x, ctr, NoState, v, s, it, z)
    BY <1>t, <1>8, <1>9, <1>10, <2>3 DEF NodeTypes
  <2>12. NodeOk(n, x, ctr, NoState, b, v, s, it, z)
    BY <2>7, <2>8, <2>9, <2>10, <1>s DEF NodeOk
  <2> QED
    BY <2>1, <2>11, <2>12, <1>2
<1>14. CASE /\ k # Later(Len(p)) /\ res = Going(Reassembled(p, c, k + 1))
            /\ k # 0 => a = "fresh" /\ u <= MaxUnseen
  <2>1. PICK t : t = Reassembled(p, c, k + 1)
    OBVIOUS
  <2>2. res.st = t /\ z = r
    BY <2>1, <1>14 DEF Going
  <2>3. x # <<>> /\ UnderWay(x, ctr, s, c, k + 1)
    BY <1>14, <1>6
  <2>4. b = "fresh" /\ v <= MaxUnseen
    BY <1>14, <1>4, PacketConstants
  <2>5. t \in Reassembly
    <3>1. k + 1 \in 0..Later(Len(p)) /\ k + 1 \in Nat
      BY <1>14, <1>5
    <3>2. Pos(k + 1) \in Nat /\ Pos(k + 1) < Len(p)
      BY <3>1, <1>4, FrameCount
    <3>3. SubSeq(p, 1, Pos(k + 1)) \in Seq(Byte) /\ Len(p) \in Nat
      BY <3>2, <1>4
    <3>4. c \in Int
      OBVIOUS
    <3> QED
      BY <2>1, <3>1, <3>3, <3>4 DEF Reassembled, Held, Reassembly
  <2>6. Following(t, p, c, k + 1)
    BY <2>1 DEF Following
  <2>7. SendingAt(x, ctr, t, b, v, s, it, c, k + 1)
    BY <2>3, <2>4, <2>6, <1>2 DEF SendingAt
  <2>8. SendingOk(x, ctr, t, b, v, s, it) /\ IdleOk(x, ctr, t, b, v)
    <3>1. k + 1 \in Nat
      OBVIOUS
    <3> QED
      BY <3>1, <2>3, <2>7 DEF SendingOk, IdleOk
  <2>9. RxOk(x, s, z) /\ IntactOk(x, s, it, z)
    BY <2>2, <2>3, <1>11, <1>12 DEF RxOk, IntactOk
  <2>10. NodeTypes(x, ctr, t, v, s, it, z)
    BY <1>t, <1>8, <1>9, <2>2, <2>5 DEF NodeTypes
  <2>11. NodeOk(n, x, ctr, t, b, v, s, it, z)
    BY <2>4, <2>8, <2>9, <1>s DEF NodeOk
  <2> QED
    BY <2>2, <2>10, <2>11, <1>2
<1>15. CASE k # 0 /\ res = Going(NoState) /\ Len(s) \notin it
  <2>1. res.st = NoState /\ z = r
    BY <1>15 DEF Going
  <2>2. ~Timely(NoState, b)
    BY DEF Timely
  <2>3. RxOk(x, s, z) /\ IntactOk(x, s, it, z)
    BY <2>1, <1>15, <1>11, <1>12 DEF RxOk, IntactOk
  <2>4. SendingOk(x, ctr, NoState, b, v, s, it)
    <3>1. SUFFICES ASSUME x # <<>>
                  PROVE  \E e \in 0..(Counters - 1), j \in Nat : SendingAt(x, ctr, NoState, b, v, s, it, e, j)
      BY DEF SendingOk
    <3>2. UnderWay(x, ctr, s, c, k + 1)
      BY <3>1, <1>5, <1>6
    <3>3. SendingAt(x, ctr, NoState, b, v, s, it, c, k + 1)
      BY <3>2, <2>2, <1>15 DEF SendingAt
    <3>4. k + 1 \in Nat
      OBVIOUS
    <3> QED
      BY <3>3, <3>4
  <2>5. IdleOk(x, ctr, NoState, b, v)
    BY <2>2 DEF IdleOk
  <2>6. NodeTypes(x, ctr, NoState, v, s, it, z)
    BY <1>t, <1>8, <1>9, <1>10, <2>1 DEF NodeTypes
  <2>7. NodeOk(n, x, ctr, NoState, b, v, s, it, z)
    BY <2>2, <2>3, <2>4, <2>5, <1>s DEF NodeOk
  <2> QED
    BY <2>1, <2>6, <2>7, <1>2
<1>16. \/ k = Later(Len(p)) /\ res = Done(p)
       \/ /\ k # Later(Len(p)) /\ res = Going(Reassembled(p, c, k + 1))
          /\ k # 0 => a = "fresh" /\ u <= MaxUnseen
       \/ k # 0 /\ res = Going(NoState) /\ Len(s) \notin it
  <2>1. OutcomeOf(res, p, c, k, a, u, s, it)
    BY <1>1, <1>2, Outcome, ZenonT(30)
  <2> QED
    BY <2>1 DEF OutcomeOf
<1> QED
  BY <1>13, <1>14, <1>15, <1>16
-----------------------------------------------------------------------------
(* The bus *)

\* The invariant of a node, as it stands in the tables.
Node(n) ==
  /\ NodeTypes(out[n], counter[n], asm[n], unseen[n], sent[n], intact[n], rx[n])
  /\ NodeOk(n, out[n], counter[n], asm[n], PacketAge(n), unseen[n], sent[n], intact[n], rx[n])

\* The types of the tables.
Tables ==
  /\ counter \in [Nodes -> 0..(Counters - 1)] /\ out \in [Nodes -> Seq(CanFrame)]
  /\ asm \in [Nodes -> Reassembly] /\ late \subseteq Nodes /\ unseen \in [Nodes -> Nat]
  /\ sent \in [Nodes -> Seq(Seq(Byte))] /\ intact \in [Nodes -> SUBSET Nat]
  /\ rx \in [Nodes -> Seq(Seq(Byte))]

\* The inductive invariant.
PacketsInv == Tables /\ \A n \in Nodes : Node(n)

\* The invariant holds before anything is sent.
LEMMA PacketsStart == PInit => PacketsInv
<1>1. SUFFICES ASSUME PInit PROVE PacketsInv
  OBVIOUS
<1>2. NoState \in Reassembly
  BY DEF NoState, Reassembly
<1>3. 0 \in 0..(Counters - 1) /\ 0 \in Nat
  BY PacketConstants
<1>4. <<>> \in Seq(CanFrame) /\ <<>> \in Seq(Seq(Byte)) /\ {} \in SUBSET Nat
  OBVIOUS
<1>5. Tables
  BY <1>1, <1>2, <1>3, <1>4 DEF PInit, Tables
<1>6. ASSUME NEW n \in Nodes PROVE Node(n)
  <2>1. /\ out[n] = <<>> /\ counter[n] = 0 /\ asm[n] = NoState /\ unseen[n] = 0 /\ sent[n] = <<>>
        /\ intact[n] = {} /\ rx[n] = <<>>
    BY <1>1 DEF PInit
  <2>2. NodeTypes(<<>>, 0, NoState, 0, <<>>, {}, <<>>)
    BY <1>2, <1>3, <1>4 DEF NodeTypes
  <2>3. SentOk(n, <<>>) /\ RxOk(<<>>, <<>>, <<>>) /\ IntactOk(<<>>, <<>>, {}, <<>>)
    BY DEF SentOk, RxOk, IntactOk
  <2>4. ~Timely(NoState, PacketAge(n))
    BY DEF Timely
  <2>5. SendingOk(<<>>, 0, NoState, PacketAge(n), 0, <<>>, {}) /\ IdleOk(<<>>, 0, NoState, PacketAge(n), 0)
    BY <2>4 DEF SendingOk, IdleOk
  <2>6. NodeOk(n, <<>>, 0, NoState, PacketAge(n), 0, <<>>, {}, <<>>)
    BY <2>3, <2>4, <2>5 DEF NodeOk
  <2> QED
    BY <2>1, <2>2, <2>6 DEF Node
<1> QED
  BY <1>5, <1>6 DEF PacketsInv

\* A step of one node changes nothing of the others.
Others(n) ==
  \A x \in Nodes \ {n} :
    /\ out'[x] = out[x] /\ counter'[x] = counter[x] /\ asm'[x] = asm[x] /\ unseen'[x] = unseen[x]
    /\ sent'[x] = sent[x] /\ intact'[x] = intact[x] /\ rx'[x] = rx[x]
    /\ x \in late' <=> x \in late

\* A step that keeps its own node's invariant keeps all.
LEMMA OneNode ==
  ASSUME NEW n \in Nodes, PacketsInv, Tables', Others(n),
         NodeTypes(out'[n], counter'[n], asm'[n], unseen'[n], sent'[n], intact'[n], rx'[n]),
         NodeOk(n, out'[n], counter'[n], asm'[n], PacketAge(n)', unseen'[n], sent'[n], intact'[n], rx'[n])
  PROVE  PacketsInv'
<1>1. ASSUME NEW x \in Nodes PROVE Node(x)'
  <2>1. CASE x = n
    BY <2>1 DEF Node
  <2>2. CASE x # n
    <3>1. PacketAge(x)' = PacketAge(x)
      BY <2>2 DEF PacketAge, Others
    <3>2. Node(x)
      BY DEF PacketsInv
    <3> QED
      BY <2>2, <3>1, <3>2 DEF Node, Others
  <2> QED
    BY <2>1, <2>2
<1> QED
  BY <1>1 DEF PacketsInv

\* Every step of a sender, of the bus and of the reader keeps the invariant.
LEMMA PacketsStep == PacketsInv /\ [PNext]_pvars => PacketsInv'
<1> SUFFICES ASSUME PacketsInv, [PNext]_pvars PROVE PacketsInv'
  OBVIOUS
<1>t. Tables
  BY DEF PacketsInv
<1>n. ASSUME NEW n \in Nodes
      PROVE  /\ NodeTypes(out[n], counter[n], asm[n], unseen[n], sent[n], intact[n], rx[n])
             /\ NodeOk(n, out[n], counter[n], asm[n], PacketAge(n), unseen[n], sent[n], intact[n], rx[n])
  BY DEF PacketsInv, Node
<1>u. CASE UNCHANGED pvars
  BY <1>u DEF pvars, PacketsInv, Tables, Node, PacketAge
<1>1. ASSUME NEW n \in Nodes, Begin(n) PROVE PacketsInv'
  <2>1. PICK len \in PacketLengths :
          LET p == Payload(n, Len(sent[n]) + 1, len)
          IN  /\ sent' = [sent EXCEPT ![n] = Append(@, p)]
              /\ out' = [out EXCEPT ![n] = FragmentFastPacket(p, counter[n])]
              /\ intact' = [intact EXCEPT ![n] = @ \union {Len(sent[n]) + 1}]
    BY <1>1 DEF Begin
  <2>2. PICK p : p = Payload(n, Len(sent[n]) + 1, len)
    OBVIOUS
  <2>3. /\ sent' = [sent EXCEPT ![n] = Append(sent[n], p)]
        /\ out' = [out EXCEPT ![n] = FragmentFastPacket(p, counter[n])]
        /\ intact' = [intact EXCEPT ![n] = intact[n] \union {Len(sent[n]) + 1}]
        /\ counter' = [counter EXCEPT ![n] = (counter[n] + 1) % Counters]
        /\ out[n] = <<>> /\ UNCHANGED <<asm, late, unseen, rx>>
    BY <2>1, <2>2, <1>1 DEF Begin, Counted
  <2>4. /\ sent'[n] = Append(sent[n], p) /\ out'[n] = FragmentFastPacket(p, counter[n])
        /\ intact'[n] = intact[n] \union {Len(sent[n]) + 1} /\ counter'[n] = (counter[n] + 1) % Counters
        /\ asm'[n] = asm[n] /\ unseen'[n] = unseen[n] /\ rx'[n] = rx[n] /\ PacketAge(n)' = PacketAge(n)
    BY <2>3, <1>t DEF Tables, PacketAge
  <2>5. /\ NodeTypes(FragmentFastPacket(p, counter[n]), (counter[n] + 1) % Counters, asm[n], unseen[n],
                     Append(sent[n], p), intact[n] \union {Len(sent[n]) + 1}, rx[n])
        /\ NodeOk(n, FragmentFastPacket(p, counter[n]), (counter[n] + 1) % Counters, asm[n],
                  PacketAge(n), unseen[n], Append(sent[n], p), intact[n] \union {Len(sent[n]) + 1}, rx[n])
    BY <1>n, <2>2, <2>3, NodeBegin, ZenonT(30)
  <2>6. /\ NodeTypes(out'[n], counter'[n], asm'[n], unseen'[n], sent'[n], intact'[n], rx'[n])
        /\ NodeOk(n, out'[n], counter'[n], asm'[n], PacketAge(n)', unseen'[n], sent'[n], intact'[n], rx'[n])
    BY <2>4, <2>5
  <2>7. Others(n)
    BY <2>3, <1>t DEF Others, Tables
  <2>8. Tables'
    BY <2>3, <2>5, <1>t DEF Tables, NodeTypes
  <2> QED
    BY <2>6, <2>7, <2>8, OneNode
<1>2. ASSUME NEW n \in Nodes, BeginOther(n) PROVE PacketsInv'
  <2>1. PICK v : v = IF Timely(asm[n], PacketAge(n)) THEN unseen[n] + 1 ELSE 0
    OBVIOUS
  <2>2. InTime(n) <=> Timely(asm[n], PacketAge(n))
    BY DEF InTime, Timely, PacketAge
  <2>3. /\ counter' = [counter EXCEPT ![n] = (counter[n] + 1) % Counters]
        /\ unseen' = [unseen EXCEPT ![n] = v]
        /\ Timely(asm[n], PacketAge(n)) => unseen[n] < MaxUnseen
        /\ out[n] = <<>> /\ UNCHANGED <<out, asm, late, sent, intact, rx>>
    BY <2>1, <2>2, <1>2 DEF BeginOther, Missed, Counted
  <2>4. /\ counter'[n] = (counter[n] + 1) % Counters /\ unseen'[n] = v
        /\ out'[n] = out[n] /\ sent'[n] = sent[n] /\ intact'[n] = intact[n]
        /\ asm'[n] = asm[n] /\ rx'[n] = rx[n] /\ PacketAge(n)' = PacketAge(n)
    BY <2>3, <1>t DEF Tables, PacketAge
  <2>5. /\ NodeTypes(out[n], (counter[n] + 1) % Counters, asm[n], v, sent[n], intact[n], rx[n])
        /\ NodeOk(n, out[n], (counter[n] + 1) % Counters, asm[n], PacketAge(n), v, sent[n], intact[n], rx[n])
    BY <1>n, <2>1, <2>3, NodeOther, ZenonT(30)
  <2>6. /\ NodeTypes(out'[n], counter'[n], asm'[n], unseen'[n], sent'[n], intact'[n], rx'[n])
        /\ NodeOk(n, out'[n], counter'[n], asm'[n], PacketAge(n)', unseen'[n], sent'[n], intact'[n], rx'[n])
    BY <2>4, <2>5
  <2>7. Others(n)
    BY <2>3, <1>t DEF Others, Tables
  <2>8. Tables'
    BY <2>3, <2>5, <1>t DEF Tables, NodeTypes
  <2> QED
    BY <2>6, <2>7, <2>8, OneNode
<1>3. ASSUME NEW n \in Nodes, Receive(n) PROVE PacketsInv'
  <2>1. PICK f, res : f = Head(out[n]) /\ res = Process(asm[n], f, n \in late)
    OBVIOUS
  <2>2. PICK b, v, z : /\ b = IF f.num = 0 THEN "fresh" ELSE PacketAge(n)
                       /\ v = IF f.num = 0 THEN 0 ELSE unseen[n]
                       /\ z = IF res.data = <<>> THEN rx[n] ELSE Append(rx[n], res.data)
    OBVIOUS
  <2>3. /\ asm' = [asm EXCEPT ![n] = res.st]
        /\ late' = (IF f.num = 0 THEN late \ {n} ELSE late)
        /\ unseen' = (IF f.num = 0 THEN [unseen EXCEPT ![n] = 0] ELSE unseen)
        /\ rx' = (IF res.data = <<>> THEN rx ELSE [rx EXCEPT ![n] = Append(rx[n], res.data)])
        /\ out' = [out EXCEPT ![n] = Tail(out[n])]
        /\ out[n] # <<>> /\ UNCHANGED <<counter, sent, intact>>
    BY <2>1, <1>3 DEF Receive
  <2>4. /\ unseen' = [unseen EXCEPT ![n] = v] /\ rx' = [rx EXCEPT ![n] = z]
    BY <2>2, <2>3, <1>t DEF Tables
  <2>5. /\ asm'[n] = res.st /\ unseen'[n] = v /\ rx'[n] = z /\ out'[n] = Tail(out[n])
        /\ counter'[n] = counter[n] /\ sent'[n] = sent[n] /\ intact'[n] = intact[n]
    BY <2>3, <2>4, <1>t DEF Tables
  <2>6. PacketAge(n)' = b
    BY <2>2, <2>3 DEF PacketAge
  <2>7. PacketAge(n) \in {"fresh", "late"} /\ (n \in late <=> PacketAge(n) = "late")
    BY DEF PacketAge
  <2>8. /\ NodeTypes(Tail(out[n]), counter[n], res.st, v, sent[n], intact[n], z)
        /\ NodeOk(n, Tail(out[n]), counter[n], res.st, b, v, sent[n], intact[n], z)
    BY <1>n, <2>1, <2>2, <2>3, <2>7, NodeReceive, ZenonT(120)
  <2>9. /\ NodeTypes(out'[n], counter'[n], asm'[n], unseen'[n], sent'[n], intact'[n], rx'[n])
        /\ NodeOk(n, out'[n], counter'[n], asm'[n], PacketAge(n)', unseen'[n], sent'[n], intact'[n], rx'[n])
    BY <2>5, <2>6, <2>8
  <2>10. Others(n)
    BY <2>3, <2>4, <1>t DEF Others, Tables
  <2>11. Tables'
    BY <2>3, <2>4, <2>8, <1>t DEF Tables, NodeTypes
  <2> QED
    BY <2>9, <2>10, <2>11, OneNode
<1>4. ASSUME NEW n \in Nodes, Lose(n) PROVE PacketsInv'
  <2>1. PICK v, w : /\ v = IF Timely(asm[n], PacketAge(n)) THEN unseen[n] + 1 ELSE 0
                    /\ w = intact[n] \ {Len(sent[n])}
    OBVIOUS
  <2>2. InTime(n) <=> Timely(asm[n], PacketAge(n))
    BY DEF InTime, Timely, PacketAge
  <2>3. PICK x \in AfterLoss(out[n]) : out' = [out EXCEPT ![n] = x]
    BY <1>4 DEF Lose, AfterLoss
  <2>4. /\ unseen' = [unseen EXCEPT ![n] = v] /\ intact' = [intact EXCEPT ![n] = w]
        /\ Timely(asm[n], PacketAge(n)) => unseen[n] < MaxUnseen
        /\ out[n] # <<>> /\ UNCHANGED <<counter, asm, late, sent, rx>>
    BY <2>1, <2>2, <1>4 DEF Lose, Missed, Spoilt
  <2>5. /\ unseen'[n] = v /\ intact'[n] = w /\ out'[n] = x
        /\ counter'[n] = counter[n] /\ asm'[n] = asm[n] /\ sent'[n] = sent[n] /\ rx'[n] = rx[n]
        /\ PacketAge(n)' = PacketAge(n)
    BY <2>3, <2>4, <1>t DEF Tables, PacketAge
  <2>6. /\ NodeTypes(x, counter[n], asm[n], v, sent[n], w, rx[n])
        /\ NodeOk(n, x, counter[n], asm[n], PacketAge(n), v, sent[n], w, rx[n])
    BY <1>n, <2>1, <2>4, NodeLose, ZenonT(30)
  <2>7. /\ NodeTypes(out'[n], counter'[n], asm'[n], unseen'[n], sent'[n], intact'[n], rx'[n])
        /\ NodeOk(n, out'[n], counter'[n], asm'[n], PacketAge(n)', unseen'[n], sent'[n], intact'[n], rx'[n])
    BY <2>5, <2>6
  <2>8. Others(n)
    BY <2>3, <2>4, <1>t DEF Others, Tables
  <2>9. Tables'
    BY <2>3, <2>4, <2>6, <1>t DEF Tables, NodeTypes
  <2> QED
    BY <2>7, <2>8, <2>9, OneNode
<1>5. ASSUME NEW n \in Nodes, Late(n) PROVE PacketsInv'
  <2>1. PICK w : w = IF out[n] = <<>> \/ Head(out[n]).num = 0 THEN intact[n] ELSE intact[n] \ {Len(sent[n])}
    OBVIOUS
  <2>2. /\ late' = late \union {n} /\ UNCHANGED <<counter, out, asm, unseen, sent, rx>>
        /\ n \notin late
    BY <1>5 DEF Late, InTime
  <2>3. intact' = [intact EXCEPT ![n] = w]
    BY <2>1, <1>5, <1>t DEF Late, Spoilt, Tables
  <2>4. /\ intact'[n] = w /\ out'[n] = out[n] /\ unseen'[n] = unseen[n]
        /\ counter'[n] = counter[n] /\ asm'[n] = asm[n] /\ sent'[n] = sent[n] /\ rx'[n] = rx[n]
        /\ PacketAge(n) = "fresh" /\ PacketAge(n)' = "late"
    BY <2>2, <2>3, <1>t DEF Tables, PacketAge
  <2>5. /\ NodeTypes(out[n], counter[n], asm[n], unseen[n], sent[n], w, rx[n])
        /\ NodeOk(n, out[n], counter[n], asm[n], "late", unseen[n], sent[n], w, rx[n])
    BY <1>n, <2>1, <2>4, NodeLate, ZenonT(30)
  <2>6. /\ NodeTypes(out'[n], counter'[n], asm'[n], unseen'[n], sent'[n], intact'[n], rx'[n])
        /\ NodeOk(n, out'[n], counter'[n], asm'[n], PacketAge(n)', unseen'[n], sent'[n], intact'[n], rx'[n])
    BY <2>4, <2>5
  <2>7. Others(n)
    BY <2>2, <2>3, <1>t DEF Others, Tables
  <2>8. Tables'
    BY <2>2, <2>3, <2>5, <1>t DEF Tables, NodeTypes
  <2> QED
    BY <2>6, <2>7, <2>8, OneNode
<1>6. ASSUME NEW n \in Nodes, Purge(n) PROVE PacketsInv'
  <2>1. /\ asm' = [asm EXCEPT ![n] = NoState] /\ n \in late
        /\ UNCHANGED <<counter, out, late, unseen, sent, intact, rx>>
    BY <1>6 DEF Purge
  <2>2. /\ asm'[n] = NoState /\ out'[n] = out[n] /\ unseen'[n] = unseen[n] /\ intact'[n] = intact[n]
        /\ counter'[n] = counter[n] /\ sent'[n] = sent[n] /\ rx'[n] = rx[n]
        /\ PacketAge(n) = "late" /\ PacketAge(n)' = "late"
    BY <2>1, <1>t DEF Tables, PacketAge
  <2>3. /\ NodeTypes(out[n], counter[n], NoState, unseen[n], sent[n], intact[n], rx[n])
        /\ NodeOk(n, out[n], counter[n], NoState, "late", unseen[n], sent[n], intact[n], rx[n])
    BY <1>n, <2>2, NodePurge, ZenonT(90)
  <2>4. /\ NodeTypes(out'[n], counter'[n], asm'[n], unseen'[n], sent'[n], intact'[n], rx'[n])
        /\ NodeOk(n, out'[n], counter'[n], asm'[n], PacketAge(n)', unseen'[n], sent'[n], intact'[n], rx'[n])
    BY <2>2, <2>3
  <2>5. Others(n)
    BY <2>1, <1>t DEF Others, Tables
  <2>6. Tables'
    BY <2>1, <2>3, <1>t DEF Tables, NodeTypes
  <2> QED
    BY <2>4, <2>5, <2>6, OneNode
<1> QED
  BY <1>u, <1>1, <1>2, <1>3, <1>4, <1>5, <1>6 DEF PNext

\* The invariant is stronger than the property.
LEMMA PacketsInvWhole == PacketsInv => PacketsWhole
<1> SUFFICES ASSUME PacketsInv, NEW n \in Nodes
             PROVE  /\ \A i \in DOMAIN rx[n] : \E m \in DOMAIN sent[n] : rx[n][i] = sent[n][m]
                    /\ \A i, j \in DOMAIN rx[n] : i < j => rx[n][i][1][2] < rx[n][j][1][2]
                    /\ \A m \in intact[n] : Sending(n, m) \/ Got(n, m)
  BY DEF PacketsWhole
<1>1. RxOk(out[n], sent[n], rx[n]) /\ IntactOk(out[n], sent[n], intact[n], rx[n])
  BY DEF PacketsInv, Node, NodeOk
<1>2. \A i \in DOMAIN rx[n] : \E m \in DOMAIN sent[n] : rx[n][i] = sent[n][m]
  BY <1>1 DEF RxOk
<1>3. \A i, j \in DOMAIN rx[n] : i < j => rx[n][i][1][2] < rx[n][j][1][2]
  BY <1>1 DEF RxOk, Number
<1>4. \A m \in intact[n] : Sending(n, m) \/ Got(n, m)
  BY <1>1 DEF IntactOk, Sending, Got
<1> QED
  BY <1>2, <1>3, <1>4

\* A payload the reader passes on was sent whole, none comes twice or out of order,
\* and a transfer that lost nothing and was in time is passed on.
THEOREM PacketsArriveWhole == PSpec => []PacketsWhole
<1>1. PInit => PacketsInv
  BY PacketsStart
<1>2. PacketsInv /\ [PNext]_pvars => PacketsInv'
  BY PacketsStep
<1>3. PacketsInv => PacketsWhole
  BY PacketsInvWhole
<1> QED
  BY <1>1, <1>2, <1>3, PTL DEF PSpec
=============================================================================
