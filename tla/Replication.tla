---------------------------- MODULE Replication ----------------------------
(***************************************************************************)
(* Boat-to-cloud replication: the boat's client (replication_client.go),   *)
(* the cloud's server and per-boat state (replication_server.go), and the  *)
(* two gRPC streams between them, which deliver in order and break at any  *)
(* point.  A stream that broke may still have messages on the cloud's side *)
(* that its handler processes while a new connection is up.                *)
(*                                                                         *)
(* A frame is its sequence number.  The boat's journal is the run of whole *)
(* blocks 1..flushed (JournalWriter models how it is written); its live    *)
(* consumer finds every frame (TieredLog models where) or breaks the       *)
(* stream.  Lag and rate limits appear as broken streams.                  *)
(***************************************************************************)
EXTENDS HoleRanges, FiniteSets

CONSTANTS
  MaxSeq,      \* bound: frames the boat produces
  BlockLen,    \* frames per journal block on the boat
  MaxConns,    \* bound: connection attempts
  MaxFlight,   \* bound: live messages in flight
  MaxCrashes,  \* bound: cloud crashes
  RxMayBeFull, \* TRUE: the replica broker's input channel may be full
  WriteMayFail \* TRUE: a backfilled block may fail to be written

ASSUME ReplicationAssumption ==
  /\ MaxSeq \in Nat /\ MaxConns \in Nat /\ MaxCrashes \in Nat
  /\ BlockLen \in Nat \ {0} /\ MaxFlight \in Nat \ {0}
  /\ RxMayBeFull \in BOOLEAN /\ WriteMayFail \in BOOLEAN

VARIABLES
  bhead,     \* boat: Broker.CurrentSeq, the last number given to a frame
  flushed,   \* boat: the last number in the journal's flushed blocks
  conn,      \* boat: "down", "dialing" (handshake sent) or "up"
  conns,     \* boat: connection attempts so far
  hsHead,    \* the HeadSeq of the handshake request under way
  liveNext,  \* boat: cursor of the live stream's consumer
  bfHoles,   \* boat: holes runBackfillStream has still to serve, newest first
  backfill,  \* boat: "idle", "open" or "closed" (CloseSend)
  liveQ,     \* live stream: messages in flight
  fillQ,     \* backfill stream: numbers of the blocks in flight
  oldLive,   \* messages of a broken live stream that its handler still holds
  oldFill,   \* the same of a broken backfill stream
  stale,     \* a handler of a broken stream has not returned yet
  inst,      \* cloud: InstanceState's Cursor, HoleTracker and BoatHeadSeq
  connected, \* cloud: InstanceState.Connected
  state,     \* cloud: state.json
  received,  \* cloud: numbers of the frames it holds, in memory or on disk
  durable,   \* cloud: those on disk
  crashes,   \* cloud: crashes so far
  lost,      \* history: frames dropped on the full channel, or in memory only at a crash
  jumped     \* history: Backfill set Cursor to a BoatHeadSeq it had not received

boatVars  == <<bhead, flushed>>
linkVars  == <<conn, conns, hsHead, liveNext, bfHoles, backfill, liveQ, fillQ>>
oldVars   == <<oldLive, oldFill, stale>>
cloudVars == <<inst, connected, state, received, durable, lost, jumped>>
rvars == <<boatVars, linkVars, oldVars, cloudVars, crashes>>

FrameMsg(s)  == [status |-> FALSE, seq |-> s]
StatusMsg(s) == [status |-> TRUE, seq |-> s]

NewInstance == [cursor |-> 0, holes |-> <<>>, boatHead |-> 0]

RInit ==
  /\ bhead = 0 /\ flushed = 0
  /\ conn = "down" /\ conns = 0 /\ hsHead = 0 /\ liveNext = 1
  /\ bfHoles = <<>> /\ backfill = "idle" /\ liveQ = <<>> /\ fillQ = <<>>
  /\ oldLive = <<>> /\ oldFill = <<>> /\ stale = FALSE
  /\ inst = NewInstance /\ connected = FALSE /\ state = NewInstance
  /\ received = {} /\ durable = {} /\ lost = {} /\ crashes = 0 /\ jumped = FALSE
-----------------------------------------------------------------------------
(* The boat's broker and journal *)

BoatFrame ==
  /\ bhead < MaxSeq
  /\ bhead' = bhead + 1
  /\ UNCHANGED <<flushed, linkVars, oldVars, cloudVars, crashes>>

\* A block is written when the next frame no longer fits in it.
BoatFlush ==
  /\ bhead > flushed + BlockLen
  /\ flushed' = flushed + BlockLen
  /\ UNCHANGED <<bhead, linkVars, oldVars, cloudVars, crashes>>

BlockSeqs(k) == ((k - 1) * BlockLen + 1)..(k * BlockLen)

\* Mutant: only the blocks that lie within the hole.
Serves_Contained(k, hole) == BlockSeqs(k) \subseteq Seqs(hole)

\* backfillFromFile sends a block that overlaps the hole.
Serves(k, hole) == Overlaps(hole, (k - 1) * BlockLen + 1, k * BlockLen + 1)

BlocksLoop(hole) ==
  LET sent[k \in 0..(flushed \div BlockLen)] ==
        IF k = 0 THEN <<>>
        ELSE IF Serves(k, hole) THEN Append(sent[k - 1], k) ELSE sent[k - 1]
  IN  sent

\* backfillHole: the flushed blocks that overlap the hole, in file order.
BlocksFor(hole) == BlocksLoop(hole)[flushed \div BlockLen]
-----------------------------------------------------------------------------
(* Connecting: connectAndStream and Handshake *)

Dial ==
  /\ conn = "down" /\ conns < MaxConns
  /\ conns' = conns + 1
  /\ hsHead' = bhead
  /\ conn' = "dialing"
  /\ UNCHANGED <<boatVars, liveNext, bfHoles, backfill, liveQ, fillQ, oldVars, cloudVars, crashes>>

\* Mutant: the hole is opened at the cursor's successor only when more than one is missing.
HandshakeHoles_SkipsOne(head) ==
  IF inst.cursor > 0 /\ head > inst.cursor + 2
    THEN Add(inst.holes, inst.cursor + 1, head) ELSE inst.holes

\* The gap between what arrived and where the boat will stream from.
HandshakeHoles(head) ==
  IF inst.cursor > 0 /\ head > inst.cursor + 1
    THEN Add(inst.holes, inst.cursor + 1, head) ELSE inst.holes

LiveStartFrom(head) == IF inst.cursor = 0 THEN 1 ELSE head

\* The consumer's start: runLiveStream corrects a start it cannot use.
LiveStart(from) == IF from = 0 \/ from > bhead + 1 THEN bhead + 1 ELSE from

\* The server's handler, its state.json write included; the response may be lost.
Handshake ==
  /\ conn = "dialing"
  /\ inst' = [inst EXCEPT !.holes = HandshakeHoles(hsHead), !.boatHead = hsHead]
  /\ connected' = TRUE
  /\ state' = inst'
  /\ \/ /\ conn' = "up"
        /\ liveNext' = LiveStart(LiveStartFrom(hsHead))
        /\ liveQ' = <<FrameMsg(0)>>   \* the device snapshot
        /\ bfHoles' = Reverse(inst'.holes)
        /\ backfill' = IF inst'.holes = <<>> THEN "idle" ELSE "open"
     \/ /\ conn' = "down"
        /\ UNCHANGED <<liveNext, liveQ, bfHoles, backfill>>
  /\ UNCHANGED <<boatVars, conns, hsHead, fillQ, oldVars, received, durable, lost, jumped, crashes>>

\* A failed stream cancels the other: what is in flight is lost but for a prefix.
Disconnect ==
  /\ conn = "up"
  /\ conn' = "down"
  /\ \E n \in 0..Len(liveQ), m \in 0..Len(fillQ) :
       oldLive' = SubSeq(liveQ, 1, n) /\ oldFill' = SubSeq(fillQ, 1, m)
  /\ stale' = TRUE
  /\ liveQ' = <<>> /\ fillQ' = <<>> /\ bfHoles' = <<>> /\ backfill' = "idle"
  /\ UNCHANGED <<boatVars, conns, hsHead, liveNext, cloudVars, crashes>>
-----------------------------------------------------------------------------
(* The boat's two streams *)

SendFrame ==
  /\ conn = "up" /\ Len(liveQ) < MaxFlight
  /\ liveNext <= bhead
  /\ liveQ' = Append(liveQ, FrameMsg(liveNext))
  /\ liveNext' = liveNext + 1
  /\ UNCHANGED <<boatVars, conn, conns, hsHead, bfHoles, backfill, fillQ, oldVars, cloudVars, crashes>>

SendStatus ==
  /\ conn = "up" /\ Len(liveQ) < MaxFlight
  /\ liveQ' = Append(liveQ, StatusMsg(bhead))
  /\ UNCHANGED <<boatVars, conn, conns, hsHead, liveNext, bfHoles, backfill, fillQ, oldVars, cloudVars, crashes>>

SendHole ==
  /\ conn = "up" /\ backfill = "open"
  /\ \/ /\ bfHoles # <<>>
        /\ fillQ' = fillQ \o BlocksFor(Head(bfHoles))
        /\ bfHoles' = Tail(bfHoles)
        /\ UNCHANGED backfill
     \/ /\ bfHoles = <<>>
        /\ backfill' = "closed"
        /\ UNCHANGED <<fillQ, bfHoles>>
  /\ UNCHANGED <<boatVars, conn, conns, hsHead, liveNext, liveQ, oldVars, cloudVars, crashes>>
-----------------------------------------------------------------------------
(* The cloud's handlers *)

\* Live: the cursor advances only by the next number.
CursorAfter(s) == IF s = inst.cursor + 1 THEN s ELSE inst.cursor

\* Live's message handler.  A full broker channel drops the frame, the cursor
\* advances all the same; the ack ticker, when it has fired, saves the state.
LiveMessage(m) ==
  /\ \/ /\ ~m.status
        /\ inst' = [inst EXCEPT !.cursor = CursorAfter(m.seq)]
        /\ \/ received' = received \union {m.seq} /\ lost' = lost
           \/ RxMayBeFull /\ received' = received /\ lost' = lost \union {m.seq}
        /\ state' \in {state, inst'}
     \/ /\ m.status
        /\ inst' = [inst EXCEPT !.boatHead = m.seq]
        /\ UNCHANGED <<received, state, lost>>
  /\ UNCHANGED <<connected, durable, jumped>>

LiveRecv ==
  /\ liveQ # <<>>
  /\ LiveMessage(Head(liveQ))
  /\ liveQ' = Tail(liveQ)
  /\ UNCHANGED <<boatVars, conn, conns, hsHead, liveNext, bfHoles, backfill, fillQ, oldVars, crashes>>

\* Mutant: the hole is closed even if the block was not written.
BackfillBlock_FillsFirst(k) ==
  /\ inst' = [inst EXCEPT !.holes = Fill(inst.holes, (k - 1) * BlockLen + 1, k * BlockLen + 1)]
  /\ \/ received' = received \union BlockSeqs(k) /\ durable' = durable \union BlockSeqs(k)
     \/ UNCHANGED <<received, durable>>
  /\ UNCHANGED <<connected, state, lost, jumped>>

\* Backfill's block handler: write the block, close the hole, move the cursor.
\* Without holes the cursor is set to the boat's last reported head.  Every
\* tenth block saves the state.
BackfillBlock(k) ==
  LET left == Fill(inst.holes, (k - 1) * BlockLen + 1, k * BlockLen + 1)
      ct   == ContinuousThrough(left, 0)
      new  == IF ct # NoBound THEN Greatest(inst.cursor, ct)
              ELSE IF inst.boatHead > 0 THEN inst.boatHead ELSE inst.cursor
  IN  \/ /\ received' = received \union BlockSeqs(k)
         /\ durable' = durable \union BlockSeqs(k)
         /\ inst' = [inst EXCEPT !.holes = left, !.cursor = new]
         /\ jumped' = (jumped \/ (ct = NoBound /\ ~(1..new \subseteq received')))
         /\ state' \in {state, inst'}
         /\ UNCHANGED <<connected, lost>>
      \/ WriteMayFail /\ UNCHANGED cloudVars

BackfillRecv ==
  /\ fillQ # <<>>
  /\ BackfillBlock(Head(fillQ))
  /\ fillQ' = Tail(fillQ)
  /\ UNCHANGED <<boatVars, conn, conns, hsHead, liveNext, bfHoles, backfill, liveQ, oldVars, crashes>>

\* io.EOF: the final save.
BackfillEOF ==
  /\ backfill = "closed" /\ fillQ = <<>>
  /\ backfill' = "idle"
  /\ state' = inst
  /\ UNCHANGED <<boatVars, conn, conns, hsHead, liveNext, bfHoles, liveQ, fillQ, oldVars,
                 inst, connected, received, durable, lost, jumped, crashes>>

\* The handlers of broken streams go on with what they hold, then fail.
OldLiveRecv ==
  /\ oldLive # <<>>
  /\ LiveMessage(Head(oldLive))
  /\ oldLive' = Tail(oldLive)
  /\ UNCHANGED <<boatVars, linkVars, oldFill, stale, crashes>>

OldFillRecv ==
  /\ oldFill # <<>>
  /\ BackfillBlock(Head(oldFill))
  /\ oldFill' = Tail(oldFill)
  /\ UNCHANGED <<boatVars, linkVars, oldLive, stale, crashes>>

OldStreamError ==
  /\ stale
  /\ stale' = FALSE /\ oldLive' = <<>> /\ oldFill' = <<>>
  /\ connected' = FALSE
  /\ UNCHANGED <<boatVars, linkVars, inst, state, received, durable, lost, jumped, crashes>>

\* The replica's journal writer flushes its block.
CloudFlush ==
  /\ durable # received
  /\ durable' = received
  /\ UNCHANGED <<boatVars, linkVars, oldVars, inst, connected, state, received, lost, jumped, crashes>>

DropStreams ==
  /\ conn' = "down"
  /\ liveQ' = <<>> /\ fillQ' = <<>> /\ bfHoles' = <<>> /\ backfill' = "idle"
  /\ oldLive' = <<>> /\ oldFill' = <<>> /\ stale' = FALSE
  /\ UNCHANGED <<conns, hsHead, liveNext>>

\* The process dies and starts again from state.json and the journal.
CloudCrash ==
  /\ crashes < MaxCrashes
  /\ crashes' = crashes + 1
  /\ DropStreams
  /\ inst' = state /\ received' = durable /\ connected' = FALSE
  /\ lost' = lost \union (received \ durable)
  /\ UNCHANGED <<boatVars, state, durable, jumped>>

\* Mutant: the journal writers are not waited for.
CloudRestart_NoWait ==
  /\ crashes < MaxCrashes
  /\ crashes' = crashes + 1
  /\ DropStreams
  /\ received' = durable /\ state' = inst /\ connected' = FALSE
  /\ UNCHANGED <<boatVars, inst, durable, lost, jumped>>

\* InstanceManager.Shutdown (brokers stopped, state saved) and a new start.
CloudRestart ==
  /\ crashes < MaxCrashes
  /\ crashes' = crashes + 1
  /\ DropStreams
  /\ durable' = received /\ state' = inst /\ connected' = FALSE
  /\ UNCHANGED <<boatVars, inst, received, lost, jumped>>

Boat == Dial \/ SendFrame \/ SendStatus \/ SendHole
Cloud == Handshake \/ LiveRecv \/ BackfillRecv \/ BackfillEOF
Faults == Disconnect \/ CloudCrash \/ CloudRestart
Leftovers == OldLiveRecv \/ OldFillRecv \/ OldStreamError

RNext == BoatFrame \/ BoatFlush \/ Boat \/ Cloud \/ CloudFlush \/ Faults \/ Leftovers

RSpec == RInit /\ [][RNext]_rvars

\* The goroutines of an open connection are scheduled; nothing obliges the boat
\* to produce frames, to dial, or the network to hold.
RFairSpec ==
  /\ RSpec
  /\ WF_rvars(SendHole) /\ WF_rvars(BackfillRecv) /\ WF_rvars(LiveRecv)
-----------------------------------------------------------------------------
(* Properties *)

MissingAt(i) == UNION {Seqs(i.holes[k]) : k \in DOMAIN i.holes}

\* While Backfill has not set the cursor to a head it had not received, every
\* number up to the cursor has arrived: neither late messages of a broken stream
\* nor handshakes nor backfill in any order move it past a gap, a restart in good
\* order keeps it; only live frames dropped on a full channel and those a crash
\* found unflushed are missing below it.
CursorBacked == ~jumped => 1..inst.cursor \subseteq (received \union lost)

\* Once connected, each number below the point the boat streams from has arrived,
\* is in a hole, or is still to be delivered: handshakes leave no gap untracked.
GapsTracked ==
  (conn = "up" /\ ~jumped) =>
    \A s \in 1..(liveNext - 1) :
      \/ s \in received \union lost \/ s \in MissingAt(inst)
      \/ \E i \in DOMAIN liveQ : liveQ[i] = FrameMsg(s)

\* A number leaves the holes only when its frame is on the cloud's disk.
HoleClosedByData ==
  [][(crashes' = crashes) => \A s \in MissingAt(inst) \ MissingAt(inst') : s \in durable']_rvars

\* As long as the connection lasts, a flushed number of a hole that the backfill
\* stream was asked for is delivered, unless its block cannot be written.
BackfillDelivers ==
  \A s \in 1..MaxSeq :
    (/\ conn = "up" /\ s <= flushed
     /\ \E i \in DOMAIN bfHoles : s \in Seqs(bfHoles[i]))
      ~> (conn # "up" \/ s \in received)
-----------------------------------------------------------------------------
(* A statement of the repository that the code does not meet *)

\* InstanceState.Cursor: "continuous data through this seq".
CursorContinuous == 1..inst.cursor \subseteq received
=============================================================================
