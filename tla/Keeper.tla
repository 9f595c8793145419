------------------------------- MODULE Keeper -------------------------------
(***************************************************************************)
(* The journal keeper (keeper/keeper.go): retention and archiving of the   *)
(* files of one journal directory, beside the journal writer that creates, *)
(* closes and announces them.                                              *)
(*                                                                         *)
(* A file is its place in the order of creation and counts one unit of     *)
(* size.  A run of the archive script is two steps, its start and its end: *)
(* the writer goes on in between.  The script answers for its files in     *)
(* order; no answer counts as a failure, so its outcome is the set of the  *)
(* files it reported "ok".                                                 *)
(***************************************************************************)
EXTENDS Integers, Sequences, FiniteSets

CONSTANTS
  MaxFiles,    \* bound: files the writer creates
  MaxRestarts, \* bound: restarts of the process
  MaxSize,     \* KeeperConfig.MaxSize in files, 0: no size limit
  SoftSize,    \* the soft threshold in files, 0: none
  AgeLimit,    \* TRUE: MaxAge is set
  RotateCap,   \* capacity of rotateCh
  MaxBackoff,  \* doublings up to keeperMaxBackoff
  Triggers,    \* the ArchiveTriggers considered
  Policies     \* the OverflowPolicies considered

ASSUME KeeperAssumption ==
  /\ MaxFiles \in Nat /\ MaxRestarts \in Nat /\ MaxSize \in Nat /\ SoftSize \in Nat
  /\ RotateCap \in Nat \ {0} /\ MaxBackoff \in Nat \ {0} /\ AgeLimit \in BOOLEAN
  /\ Triggers \subseteq {"disabled", "on-rotate", "before-expire"}
  /\ Policies \subseteq {"delete-unarchived", "pause-recording"}

VARIABLES
  trigger, policy, \* the configuration
  files,     \* files in the directory
  created,   \* the last file created
  open,      \* the file the writer has open, 0: none
  aged,      \* the files up to this one are older than MaxAge and MinKeep
  marked,    \* files with an .archived marker
  rotateCh,  \* rotation notifications
  kpc,       \* the keeper: "boot" (startup scan), "sweep" (archiveUnarchived), "idle", "script"
  job,       \* the script run: why, for which files, and the file open at its start
  pending,   \* JournalKeeper.pending
  backoff,   \* JournalKeeper.backoff: 0, or 1 + doublings
  timer,     \* the retry timer is armed
  kPaused,   \* JournalKeeper.paused
  wPaused,   \* JournalWriter.paused
  restarts,  \* restarts so far
  whole,     \* history: files archived after they were closed
  partial    \* history: files archived while the writer had them open

writerVars == <<created, open, aged, rotateCh>>
retryVars == <<pending, backoff, timer>>
histVars == <<whole, partial>>
kvars == <<trigger, policy, files, marked, kpc, job, kPaused, wPaused, restarts,
           writerVars, retryVars, histVars>>

NoJob == [why |-> "none", batch |-> {}, open |-> 0, needPause |-> FALSE]

KInit ==
  /\ trigger \in Triggers /\ policy \in Policies
  /\ files = {} /\ created = 0 /\ open = 0 /\ aged = 0 /\ marked = {} /\ rotateCh = <<>>
  /\ kpc = "boot" /\ job = NoJob /\ pending = {} /\ backoff = 0 /\ timer = FALSE
  /\ kPaused = FALSE /\ wPaused = FALSE /\ restarts = 0
  /\ whole = {} /\ partial = {}
-----------------------------------------------------------------------------
(* The journal writer, as far as the keeper sees it *)

CreateFile ==
  /\ open = 0 /\ ~wPaused /\ created < MaxFiles
  /\ created' = created + 1
  /\ open' = created'
  /\ files' = files \union {created'}
  /\ UNCHANGED <<trigger, policy, aged, marked, rotateCh, kpc, job, kPaused, wPaused, restarts,
                 retryVars, histVars>>

\* checkRotation and the keeper's Send: a full channel drops the notification.
Rotate ==
  /\ open # 0 /\ ~wPaused
  /\ open' = 0
  /\ rotateCh' = IF Len(rotateCh) < RotateCap THEN Append(rotateCh, open) ELSE rotateCh
  /\ UNCHANGED <<trigger, policy, files, created, aged, marked, kpc, job, kPaused, wPaused,
                 restarts, retryVars, histVars>>

\* Time passes: one more file is over the age limit.
Age ==
  /\ AgeLimit /\ aged < created
  /\ aged' = aged + 1
  /\ UNCHANGED <<trigger, policy, files, created, open, marked, rotateCh, kpc, job, kPaused,
                 wPaused, restarts, retryVars, histVars>>
-----------------------------------------------------------------------------
(* scanDir *)

HasArchive == trigger # "disabled"

\* The size from a file on: what totalSize is when the loop comes to it, every
\* older file having been subtracted whether it was deleted or not.
SizeFrom(f) == Cardinality({g \in files : g >= f})

\* Mutant: off by one.
OverCap_OffByOne(f) == MaxSize > 0 /\ SizeFrom(f) > MaxSize + 1

OverCap(f) == MaxSize > 0 /\ SizeFrom(f) > MaxSize

\* Hard expiration; both conditions hold of a run of oldest files.
Expired == {f \in files : OverCap(f) \/ f <= aged}
Unarchived == {f \in files : HasArchive /\ f \notin marked}

\* Mutant: the overflow policy is applied to a file the script was never given.
Overflowing_Unasked == {f \in Expired \cap Unarchived : OverCap(f)}

\* A file over the cap that the script already failed on: the overflow policy.
Overflowing == {f \in Expired \cap Unarchived : OverCap(f) /\ f \in pending}

Deleted ==
  (Expired \ Unarchived) \union (IF policy = "delete-unarchived" THEN Overflowing ELSE {})

Kept == files \ Expired

\* Soft zone: from the oldest kept file on, when the rest is over the threshold.
SoftZone ==
  IF MaxSize > 0 /\ HasArchive /\ SoftSize > 0 /\ Cardinality(Kept) > SoftSize THEN Kept ELSE {}

ToArchive == ((Expired \cap Unarchived) \union (SoftZone \ marked)) \ pending

\* Mutant: a pause is never lifted.
NeedPause_Sticky == kPaused \/ (policy = "pause-recording" /\ Overflowing # {})

NeedPause == policy = "pause-recording" /\ Overflowing # {}

\* The pause state, and OnPauseChange on a transition.
SetPause(p) ==
  /\ kPaused' = p
  /\ wPaused' = IF p # kPaused THEN p ELSE wPaused

\* Mutant: the timer is armed for a new failure only.
Armed_NewOnly(p, t) == t \/ (p \ pending # {})

\* The end of the loop body: a timer if something is pending and none runs.
Armed(p, t) == t \/ p # {}

Arm(p, b, t) ==
  /\ pending' = p
  /\ timer' = Armed(p, t)
  /\ backoff' = IF ~t /\ p # {} /\ b = 0 THEN 1 ELSE b

StartScript(why, batch, pause) ==
  /\ kpc' = "script"
  /\ job' = [why |-> why, batch |-> batch, open |-> open, needPause |-> pause]

\* The startup scan, and the one of each tick.
ScanDir ==
  /\ kpc \in {"boot", "idle"}
  /\ files' = files \ Deleted
  /\ marked' = marked \ Deleted
  /\ IF ToArchive # {}
       THEN /\ StartScript(kpc, ToArchive, NeedPause)
            /\ UNCHANGED <<kPaused, wPaused, retryVars>>
       ELSE /\ SetPause(NeedPause)
            /\ kpc' = IF kpc = "boot" THEN "sweep" ELSE "idle"
            /\ IF kpc = "boot" THEN UNCHANGED retryVars ELSE Arm(pending, backoff, timer)
            /\ UNCHANGED job
  /\ UNCHANGED <<trigger, policy, writerVars, restarts, histVars>>

\* archiveUnarchived, once after the startup scan; the writer is already running.
Sweep ==
  LET batch == (files \ marked) \ pending
  IN  /\ kpc = "sweep"
      /\ IF trigger = "on-rotate" /\ batch # {}
           THEN StartScript("sweep", batch, FALSE)
           ELSE kpc' = "idle" /\ UNCHANGED job
      /\ UNCHANGED <<trigger, policy, files, marked, writerVars, kPaused, wPaused, restarts,
                     retryVars, histVars>>

\* handleRotation; a file that is gone fails os.Stat.
HandleRotation ==
  /\ kpc = "idle" /\ rotateCh # <<>>
  /\ rotateCh' = Tail(rotateCh)
  /\ IF trigger = "on-rotate" /\ Head(rotateCh) \in files
       THEN StartScript("rotate", {Head(rotateCh)}, FALSE) /\ UNCHANGED retryVars
       ELSE Arm(pending, backoff, timer) /\ UNCHANGED <<kpc, job>>
  /\ UNCHANGED <<trigger, policy, files, created, open, aged, marked, kPaused, wPaused, restarts,
                 histVars>>

\* retryArchive: the files still there, in one batch.
Retry ==
  /\ kpc = "idle" /\ timer
  /\ LET alive == pending \cap files IN
       IF alive # {}
         THEN /\ StartScript("retry", alive, FALSE)
              /\ pending' = alive
              /\ UNCHANGED <<backoff, timer>>
         ELSE pending' = {} /\ backoff' = 0 /\ timer' = FALSE /\ UNCHANGED <<kpc, job>>
  /\ UNCHANGED <<trigger, policy, files, marked, writerVars, kPaused, wPaused, restarts, histVars>>
-----------------------------------------------------------------------------
(* The end of a script run: archiveFiles or retryArchive, and what follows *)

Doubled(b) == IF b < MaxBackoff THEN b + 1 ELSE MaxBackoff

\* archiveFiles: new failures are queued; with nothing queued the backoff ends.
AfterArchive(ok) ==
  LET p == pending \union (job.batch \ ok)
      b == IF p = {} THEN 0 ELSE backoff
  IN  IF job.why \in {"boot", "sweep"}
        THEN pending' = p /\ backoff' = b /\ UNCHANGED timer
        ELSE Arm(p, b, timer)

AfterRetry(ok) ==
  LET p == job.batch \ ok IN Arm(p, IF p = {} THEN 0 ELSE Doubled(backoff), FALSE)

ScriptEnds(ok) ==
  /\ kpc = "script"
  /\ marked' = marked \union ok
  /\ whole' = whole \union (ok \ {job.open})
  /\ partial' = partial \union (ok \cap {job.open})
  /\ IF job.why = "retry" THEN AfterRetry(ok) ELSE AfterArchive(ok)
  /\ IF job.why \in {"boot", "idle"} THEN SetPause(job.needPause) ELSE UNCHANGED <<kPaused, wPaused>>
  /\ kpc' = IF job.why = "boot" THEN "sweep" ELSE "idle"
  /\ job' = NoJob
  /\ UNCHANGED <<trigger, policy, files, writerVars, restarts>>

\* The process ends, in good order or not, and starts again: only the directory
\* survives.  (The drain of rotateCh on ctx.Done is HandleRotation before this.)
Restart ==
  /\ restarts < MaxRestarts
  /\ restarts' = restarts + 1
  /\ open' = 0 /\ rotateCh' = <<>>
  /\ kpc' = "boot" /\ job' = NoJob
  /\ pending' = {} /\ backoff' = 0 /\ timer' = FALSE
  /\ kPaused' = FALSE /\ wPaused' = FALSE
  /\ UNCHANGED <<trigger, policy, files, created, aged, marked, histVars>>

KeeperStep == ScanDir \/ Sweep \/ HandleRotation \/ Retry \/ \E ok \in SUBSET job.batch : ScriptEnds(ok)

KNext == CreateFile \/ Rotate \/ Age \/ KeeperStep \/ Restart

KSpec == KInit /\ [][KNext]_kvars

\* Ticker, timer and channel are served (a select picks among them at random) and
\* the script ends, at the latest by its timeout; whether it succeeds is open.
KFairSpec ==
  /\ KSpec
  /\ SF_kvars(ScanDir) /\ SF_kvars(HandleRotation) /\ SF_kvars(Retry)
  /\ WF_kvars(Sweep) /\ WF_kvars(\E ok \in SUBSET job.batch : ScriptEnds(ok))
-----------------------------------------------------------------------------
(* Properties *)

\* With archiving on, a file is deleted only if the script took it whole, or took
\* it while the writer had it open (the soft zone and the startup sweep do so), or
\* failed on it since the last start and the policy is to delete.
DeletedWasArchived ==
  [][HasArchive =>
       \A f \in files \ files' :
         f \in whole \union partial \/ (policy = "delete-unarchived" /\ f \in pending)]_kvars

\* A retry is never forgotten: whatever is pending in the loop has a timer with a
\* backoff, but for the failures of the startup, which the next event of any kind
\* arms; and no timer runs for nothing (scans, rotations, retries in any order).
RetryArmed ==
  /\ timer => pending # {} /\ backoff > 0
  /\ (kpc = "idle" /\ pending # {} /\ ~timer) => backoff = 0

\* Over the size cap, the directory shrinks below it or recording is paused,
\* whether the script ever succeeds or not.
CapEnforced ==
  (MaxSize > 0 /\ Cardinality(files) > MaxSize)
    ~> (Cardinality(files) <= MaxSize \/ wPaused)

\* If of the script runs that keep coming some succeed, recording is resumed.
PauseEnds == SF_kvars(ScriptEnds(job.batch)) => (wPaused ~> ~wPaused)
-----------------------------------------------------------------------------
(* A statement of the repository that the code does not meet *)

\* Send: "drops if the channel is full (the periodic scan will pick it up)": a
\* closed file is handed to the script, or expires, or the process restarts.
RotatedIsArchived ==
  \A f \in 1..MaxFiles :
    (trigger = "on-rotate" /\ restarts = MaxRestarts /\ f \in files /\ f # open)
      ~> (f \in marked \union pending \/ f \notin files)
=============================================================================
