------------------------------ MODULE Instances ------------------------------
(***************************************************************************)
(* The cloud's per-boat brokers from first connection to process exit:     *)
(* InstanceManager and InstanceState (replication_server.go), the shutdown *)
(* sequence of cmd/lplex-cloud/main.go and the journal keeper's callbacks  *)
(* into both.                                                              *)
(*                                                                         *)
(* Every start of an instance's broker is a life: its broker and writer    *)
(* goroutines, its two channels, its context and its journalDone channel   *)
(* are told apart by the life's number, because InstanceState holds them   *)
(* in fields that a later life overwrites.  Everything a handler does      *)
(* under inst.mu is one step; stopBroker, which gives the lock up while it *)
(* waits, is several.  A frame is its sequence number.                     *)
(***************************************************************************)
EXTENDS Integers, Sequences, FiniteSets, SequencesExt

CONSTANTS
  Boats,      \* instance IDs
  MaxLives,   \* bound: broker starts per instance
  MaxLive,    \* bound: frames per boat
  RxCap,      \* capacity of a broker's rxFrames
  JournalCap, \* capacity of a journal channel
  RotateCap   \* capacity of the keeper's rotateCh

ASSUME InstancesAssumption ==
  /\ 0 \notin Boats /\ "idle" \notin Boats
  /\ MaxLives \in Nat \ {0} /\ MaxLive \in Nat
  /\ RxCap \in Nat /\ JournalCap \in Nat /\ RotateCap \in Nat

VARIABLES
  graceful,  \* configuration: gRPC on its own port (GracefulStop) or shared with HTTP
  phase,     \* main: "serving", "draining", "stopping", "exiting" or "stopped"
  stopping,  \* Shutdown's loop: the boats left, the one under way and its next step
  imLocked,  \* Shutdown holds the manager's lock
  held,      \* boats whose inst.mu stopBroker holds
  inst,      \* per boat: the InstanceState's fields, or Unknown
  life,      \* per boat and life: its goroutines and channels
  liveStream, \* per boat: its Live handler, "none", "open" (no frame yet) or "bound"
  disk,      \* per boat: numbers in finished or flushed journal files
  saved,     \* per boat: the cursor in state.json
  dropped,   \* history: numbers lost on a full channel or by a paused writer
  rotated,   \* the keeper's queue: number of notifications
  keeper,    \* the keeper goroutine: "idle", or the boat whose pause flag it sets
  panicked   \* history: a close of a nil or closed channel

ivars == <<graceful, phase, stopping, imLocked, held, inst, life, liveStream, disk, saved,
           dropped, rotated, keeper, panicked>>
mainVars == <<graceful, phase, stopping, imLocked, held>>
keeperVars == <<rotated, keeper>>

Lives == 1..MaxLives
NoLife == [run |-> "none", rx |-> <<>>, rxClosed |-> FALSE, jq |-> <<>>, jqClosed |-> FALSE,
           cancelled |-> FALSE, writer |-> "none", doneCh |-> 0, doneClosed |-> FALSE,
           paused |-> FALSE, mem |-> {}, given |-> {}]
Unknown == [known |-> FALSE, broker |-> 0, ch |-> 0, done |-> 0, cursor |-> 0]
\* NewInstanceManager: an instance loaded from its directory has no broker yet.
Loaded == [Unknown EXCEPT !.known = TRUE]
NotStopping == [left |-> {}, boat |-> 0, step |-> "none"]

IInit ==
  /\ graceful \in BOOLEAN /\ phase = "serving" /\ stopping = NotStopping
  /\ imLocked = FALSE /\ held = {}
  /\ inst \in [Boats -> {Unknown, Loaded}] /\ life = [b \in Boats |-> [k \in Lives |-> NoLife]]
  /\ liveStream = [b \in Boats |-> "none"]
  /\ disk = [b \in Boats |-> {}] /\ saved = [b \in Boats |-> 0]
  /\ dropped = [b \in Boats |-> {}] /\ rotated = 0 /\ keeper = "idle" /\ panicked = FALSE
-----------------------------------------------------------------------------
(* Starting: ensureBroker, called under inst.mu *)

Unlocked(b) == b \notin held
Started(b) == Cardinality({k \in Lives : life[b][k].run # "none"})
MayStart(b) == inst[b].broker # 0 \/ Started(b) < MaxLives

\* The broker that serves b after ensureBroker.
BrokerOf(b) == IF inst[b].broker # 0 THEN inst[b].broker ELSE Started(b) + 1

\* NewBroker, SetJournal, NewJournalWriter and the two go statements.
EnsuredInst(b) ==
  IF inst[b].broker # 0 THEN [inst[b] EXCEPT !.known = TRUE]
  ELSE LET k == Started(b) + 1
       IN  [inst[b] EXCEPT !.known = TRUE, !.broker = k, !.ch = k, !.done = k]

EnsuredLife(b) ==
  IF inst[b].broker # 0 THEN life[b]
  ELSE [life[b] EXCEPT ![Started(b) + 1] = [NoLife EXCEPT !.run = "running", !.writer = "new"]]

\* Handshake: GetOrCreate, ensureBroker, the save.
Handshake(b) ==
  /\ phase = "serving" /\ ~imLocked /\ Unlocked(b) /\ MayStart(b)
  /\ liveStream[b] = "none"
  /\ inst' = [inst EXCEPT ![b] = EnsuredInst(b)]
  /\ life' = [life EXCEPT ![b] = EnsuredLife(b)]
  /\ saved' = [saved EXCEPT ![b] = inst[b].cursor]
  /\ liveStream' = [liveStream EXCEPT ![b] = "open"]
  /\ UNCHANGED <<mainVars, disk, dropped, keeperVars, panicked>>

\* GetInstanceBroker, for an HTTP handler: no state of its own.  HTTP requests
\* are served until the gRPC server has stopped.
GetInstanceBroker(b) ==
  /\ phase \in {"serving", "draining"} /\ ~imLocked /\ Unlocked(b) /\ MayStart(b)
  /\ inst[b].known /\ inst[b].broker = 0
  /\ inst' = [inst EXCEPT ![b] = EnsuredInst(b)]
  /\ life' = [life EXCEPT ![b] = EnsuredLife(b)]
  /\ UNCHANGED <<mainVars, liveStream, disk, saved, dropped, keeperVars, panicked>>

\* Live, one frame: the first one looks the instance up, which takes the
\* manager's lock; each starts the broker if there is none.  The frame is
\* dropped when rxFrames is full, the cursor moves all the same; the ack ticker
\* saves it now and then.
LiveFrame(b) ==
  LET n == inst[b].cursor + 1
      k == BrokerOf(b)
      l == EnsuredLife(b)[k]
  IN  /\ liveStream[b] # "none" /\ (liveStream[b] = "open" => ~imLocked)
      /\ Unlocked(b) /\ MayStart(b) /\ n <= MaxLive
      /\ inst' = [inst EXCEPT ![b] = [EnsuredInst(b) EXCEPT !.cursor = n]]
      /\ liveStream' = [liveStream EXCEPT ![b] = "bound"]
      /\ IF Len(l.rx) < RxCap
           THEN /\ life' = [life EXCEPT ![b] =
                     [EnsuredLife(b) EXCEPT ![k].rx = Append(@, n), ![k].given = @ \union {n}]]
                /\ UNCHANGED dropped
           ELSE /\ life' = [life EXCEPT ![b] = EnsuredLife(b)]
                /\ dropped' = [dropped EXCEPT ![b] = @ \union {n}]
      /\ saved' \in {saved, [saved EXCEPT ![b] = n]}
      /\ UNCHANGED <<mainVars, disk, keeperVars, panicked>>

\* The boat closes its stream, or it breaks.
LiveEnd(b) ==
  /\ liveStream[b] # "none"
  /\ liveStream' = [liveStream EXCEPT ![b] = "none"]
  /\ UNCHANGED <<mainVars, inst, life, disk, saved, dropped, keeperVars, panicked>>
-----------------------------------------------------------------------------
(* The goroutines of a life *)

SetLife(b, k, l) == life' = [life EXCEPT ![b][k] = l]

\* Broker.Run: a frame goes to the journal channel if it has room.
BrokerStep(b, k) ==
  LET l == life[b][k]
  IN  /\ l.run = "running" /\ l.rx # <<>>
      /\ IF Len(l.jq) < JournalCap
           THEN /\ SetLife(b, k, [l EXCEPT !.rx = Tail(@), !.jq = Append(@, Head(l.rx))])
                /\ UNCHANGED dropped
           ELSE /\ SetLife(b, k, [l EXCEPT !.rx = Tail(@)])
                /\ dropped' = [dropped EXCEPT ![b] = @ \union {Head(l.rx)}]
      /\ UNCHANGED <<mainVars, inst, liveStream, disk, saved, keeperVars, panicked>>

BrokerExit(b, k) ==
  LET l == life[b][k]
  IN  /\ l.run = "running" /\ l.rx = <<>> /\ l.rxClosed
      /\ SetLife(b, k, [l EXCEPT !.run = "done"])
      /\ UNCHANGED <<mainVars, inst, liveStream, disk, saved, dropped, keeperVars, panicked>>

\* "defer close(s.journalDone)" reads the field when the goroutine gets to run.
WriterStart(b, k) ==
  LET l == life[b][k]
  IN  /\ l.writer = "new"
      /\ SetLife(b, k, [l EXCEPT !.writer = "running", !.doneCh = inst[b].done])
      /\ UNCHANGED <<mainVars, inst, liveStream, disk, saved, dropped, keeperVars, panicked>>

\* A frame into the block; a paused writer discards it.
WriterStep(b, k) ==
  LET l == life[b][k]
  IN  /\ l.writer = "running" /\ l.jq # <<>>
      /\ IF l.paused
           THEN /\ SetLife(b, k, [l EXCEPT !.jq = Tail(@)])
                /\ dropped' = [dropped EXCEPT ![b] = @ \union {Head(l.jq)}]
           ELSE /\ SetLife(b, k, [l EXCEPT !.jq = Tail(@), !.mem = @ \union {Head(l.jq)}])
                /\ UNCHANGED dropped
      /\ UNCHANGED <<mainVars, inst, liveStream, disk, saved, keeperVars, panicked>>

\* Mutant: the notification waits for room in the keeper's channel.
MayNotify_Blocking == rotated < RotateCap
\* Send drops a notification that does not fit.
MayNotify == TRUE

Notified == IF rotated < RotateCap THEN rotated + 1 ELSE rotated

\* Rotation by age or size: the file is finished and OnRotate called.
WriterRotate(b, k) ==
  /\ life[b][k].writer = "running" /\ life[b][k].mem # {} /\ MayNotify
  /\ disk' = [disk EXCEPT ![b] = @ \union life[b][k].mem]
  /\ SetLife(b, k, [life[b][k] EXCEPT !.mem = {}])
  /\ rotated' = Notified
  /\ UNCHANGED <<mainVars, inst, liveStream, saved, dropped, keeper, panicked>>

\* Run returns: drain, finalize (flush, OnRotate), close(journalDone).
WriterExit(b, k) ==
  LET l == life[b][k]
  IN  /\ l.writer = "running" /\ l.jq = <<>>
      /\ l.jqClosed \/ l.cancelled
      /\ MayNotify
      /\ disk' = [disk EXCEPT ![b] = @ \union l.mem]
      /\ rotated' = Notified
      /\ IF l.doneCh # 0 /\ ~life[b][l.doneCh].doneClosed
           THEN /\ life' = [life EXCEPT ![b][k].writer = "done", ![b][k].mem = {},
                                        ![b][l.doneCh].doneClosed = TRUE]
                /\ UNCHANGED panicked
           ELSE panicked' = TRUE /\ UNCHANGED life
      /\ UNCHANGED <<mainVars, inst, liveStream, saved, dropped, keeper>>
-----------------------------------------------------------------------------
(* Shutting down *)

\* A signal: the servers stop accepting.
BeginShutdown ==
  /\ phase = "serving"
  /\ phase' = "draining"
  /\ UNCHANGED <<graceful, stopping, imLocked, held, inst, life, liveStream, disk, saved,
                 dropped, keeperVars, panicked>>

\* Mutant: the gRPC server is stopped without waiting for its handlers.
ServersStopped_NoWait == TRUE
\* GracefulStop waits for the streams; http.Server.Shutdown gives up after 5 s.
ServersStopped == graceful => \A b \in Boats : liveStream[b] = "none"

\* InstanceManager.Shutdown takes the manager's lock and keeps it.
Shutdown ==
  /\ phase = "draining" /\ ServersStopped
  /\ phase' = "stopping" /\ imLocked' = TRUE
  /\ stopping' = [NotStopping EXCEPT !.left = {b \in Boats : inst[b].known}]
  /\ UNCHANGED <<graceful, held, inst, life, liveStream, disk, saved, dropped, keeperVars, panicked>>

\* stopBroker, first part: CloseRx, under the lock.
StopCloseRx ==
  /\ phase = "stopping" /\ stopping.boat = 0
  /\ \E b \in stopping.left :
       LET k == inst[b].broker
       IN  /\ stopping' = [left |-> stopping.left \ {b}, boat |-> b,
                           step |-> IF k = 0 THEN "save" ELSE "broker"]
           /\ held' = held \union {b}
           /\ inst' = [inst EXCEPT ![b].broker = 0]
           /\ life' = IF k = 0 THEN life ELSE [life EXCEPT ![b][k].rxClosed = TRUE]
  /\ UNCHANGED <<graceful, phase, imLocked, liveStream, disk, saved, dropped, keeperVars, panicked>>

BrokerDone(l) == l.run = "done"

\* Then <-b.Done(), close(journalCh), cancel(), and the lock is released.  The
\* fields are those of the life just stopped: nobody else had the lock.
StopCloseJournal ==
  /\ phase = "stopping" /\ stopping.step = "broker"
  /\ LET b == stopping.boat
         k == inst[b].ch
     IN  /\ BrokerDone(life[b][k])
         /\ life' = [life EXCEPT ![b][k].jqClosed = TRUE, ![b][k].cancelled = TRUE]
         /\ stopping' = [stopping EXCEPT !.step = "writer"]
         /\ held' = held \ {b}
  /\ UNCHANGED <<graceful, phase, imLocked, inst, liveStream, disk, saved, dropped, keeperVars, panicked>>

\* <-journalDone, the lock again, and the fields are cleared.
StopWaitWriter ==
  /\ phase = "stopping" /\ stopping.step = "writer"
  /\ LET b == stopping.boat
     IN  /\ \E k \in Lives : life[b][k].jqClosed /\ life[b][k].doneClosed
         /\ held' = held \union {b}
         /\ inst' = [inst EXCEPT ![b].ch = 0, ![b].done = 0]
         /\ stopping' = [stopping EXCEPT !.step = "save"]
  /\ UNCHANGED <<graceful, phase, imLocked, life, liveStream, disk, saved, dropped, keeperVars, panicked>>

\* Shutdown saves the state and goes on to the next instance.
StopSave ==
  /\ phase = "stopping" /\ stopping.step = "save"
  /\ saved' = [saved EXCEPT ![stopping.boat] = inst[stopping.boat].cursor]
  /\ held' = held \ {stopping.boat}
  /\ stopping' = [NotStopping EXCEPT !.left = stopping.left]
  /\ UNCHANGED <<graceful, phase, imLocked, inst, life, liveStream, disk, dropped, keeperVars, panicked>>

\* Shutdown returns and releases the manager's lock.
ShutdownDone ==
  /\ phase = "stopping" /\ stopping = NotStopping
  /\ imLocked' = FALSE /\ phase' = "exiting"
  /\ UNCHANGED <<graceful, stopping, held, inst, life, liveStream, disk, saved, dropped, keeperVars, panicked>>

\* The keeper, cancelled, drains its queue; main has waited for it and exits.
Exit ==
  /\ phase = "exiting" /\ keeper = "idle" /\ rotated = 0
  /\ phase' = "stopped"
  /\ UNCHANGED <<graceful, stopping, imLocked, held, inst, life, liveStream, disk, saved, dropped, keeperVars, panicked>>
-----------------------------------------------------------------------------
(* The keeper *)

\* A notification, handled: it may decide to change a boat's pause flag.
KeeperTake ==
  /\ phase # "stopped" /\ keeper = "idle" /\ rotated > 0
  /\ rotated' = rotated - 1
  /\ keeper' \in {"idle"} \union {b \in Boats : inst[b].known}
  /\ UNCHANGED <<mainVars, inst, life, liveStream, disk, saved, dropped, panicked>>

\* SetInstancePaused takes the manager's lock, then the instance's; without a
\* writer it does nothing.
SetInstancePaused ==
  /\ keeper # "idle" /\ ~imLocked /\ Unlocked(keeper)
  /\ LET k == inst[keeper].done
     IN  life' = IF k = 0 THEN life ELSE [life EXCEPT ![keeper][k].paused = ~@]
  /\ keeper' = "idle"
  /\ UNCHANGED <<mainVars, inst, liveStream, disk, saved, dropped, rotated, panicked>>

Handlers == \E b \in Boats : Handshake(b) \/ GetInstanceBroker(b) \/ LiveFrame(b) \/ LiveEnd(b)
Goroutine(b, k) == BrokerStep(b, k) \/ BrokerExit(b, k) \/ WriterStart(b, k)
                   \/ WriterStep(b, k) \/ WriterRotate(b, k) \/ WriterExit(b, k)
Goroutines == \E b \in Boats, k \in Lives : Goroutine(b, k)
StopSteps == Shutdown \/ StopCloseRx \/ StopCloseJournal \/ StopWaitWriter \/ StopSave \/ ShutdownDone \/ Exit
Keeper == KeeperTake \/ SetInstancePaused

INext == /\ phase # "stopped" /\ ~panicked
         /\ Handlers \/ Goroutines \/ BeginShutdown \/ StopSteps \/ Keeper

\* Goroutines that can run do; boats are under no obligation to close their streams.
IFairness ==
  /\ WF_ivars(StopSteps) /\ WF_ivars(Keeper)
  /\ \A b \in Boats, k \in Lives : WF_ivars(Goroutine(b, k))
ISpec == IInit /\ [][INext]_ivars /\ IFairness
-----------------------------------------------------------------------------
(* Properties *)

\* main's comment: "Order matters: stop servers first (no new connections), then
\* stop brokers".  When the gRPC server has been stopped gracefully, no goroutine
\* closes a channel twice or a nil one, and at exit every frame that state.json
\* counts is in the journal, except those dropped on a full channel or paused.
\* With the servers sharing a port, handlers outlive the shutdown and may start a
\* later life that is not waited for: then it holds of the frames given to the
\* broker that Shutdown stopped.
ExitComplete ==
  /\ graceful => ~panicked
  /\ phase = "stopped" =>
       \A b \in Boats :
         /\ graceful => 1..saved[b] \subseteq disk[b] \union dropped[b]
         /\ life[b][1].given \subseteq disk[b] \union dropped[b]

\* Once a signal arrives the process ends, unless a boat keeps its stream open
\* (GracefulStop waits for it): the manager's lock, the instances' locks, the
\* keeper's channel and its pause callback cannot wait for one another.
ShutdownEnds ==
  []<>(~graceful \/ phase \in {"serving", "stopped"} \/ \E b \in Boats : liveStream[b] # "none")
=============================================================================
