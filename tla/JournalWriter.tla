--------------------------- MODULE JournalWriter ---------------------------
(***************************************************************************)
(* The journal writer goroutine (journal_writer.go), the broker's          *)
(* non-blocking send that feeds it (the end of handleFrame, broker.go) and *)
(* the two shutdown sequences that end both: the boat's main and the       *)
(* cloud's stopBroker.                                                     *)
(*                                                                         *)
(* Sizes are counted in units: a frame takes one unit of its block, a      *)
(* device-table entry EntrySize units, and BlockSpace units are what a     *)
(* block offers to frames and device table together (the header and the    *)
(* trailer are taken off).  A frame is its broker sequence number and      *)
(* whether it is an address claim; its payload is not told apart.          *)
(***************************************************************************)
EXTENDS Integers, Sequences, FiniteSets

CONSTANTS
  MaxSeq,      \* bound: the highest sequence number the model assigns
  MaxRepeats,  \* bound: frames a replica is given that do not move its head
  ChanCap,     \* capacity of the journal channel
  BlockSpace,  \* units of a block
  EntrySize,   \* units of one device-table entry (at most DeviceEntryMaxSize)
  MaxDevices,  \* bound: devices the registry can come to hold
  ReplicaMode, \* TRUE: the cloud's broker, the sequence number comes with the frame
  Claims,      \* {FALSE}, or BOOLEAN where address claims are modelled
  Events       \* which of "stop" (shutdown), "pause" and "io" (I/O errors) may happen

ASSUME SizesAssumption ==
  /\ MaxSeq \in Nat /\ MaxRepeats \in Nat /\ ChanCap \in Nat \ {0} /\ BlockSpace \in Nat \ {0}
  /\ EntrySize \in Nat /\ MaxDevices \in Nat
  /\ ReplicaMode \in BOOLEAN /\ Claims \subseteq BOOLEAN
  /\ Events \subseteq {"stop", "pause", "io"}

VARIABLES
  head,     \* Broker.head: the next sequence number
  broker,   \* the broker goroutine: "running", "done", "panicked"
  repeats,  \* history: frames that did not move head
  devices,  \* number of devices with a NAME in the registry
  ch,       \* the journal channel
  stop,     \* shutdown statements already executed, 0 to 3
  paused,   \* JournalWriter.paused
  writer,   \* the goroutine: "running", "stopped" (finalize returned nil), "failed"
  file,     \* index of the open file in disk, 0 when w.file is nil
  disk,     \* the journal directory: a sequence of blocks per file, oldest first
  block,    \* the block in memory
  lost,     \* history: sequence numbers dropped on a full channel or while paused
  ioError   \* history: a create, write, sync or close failed

jvars == <<head, repeats, broker, devices, ch, stop, paused, writer, file, disk, block, lost, ioError>>

Frame == [seq: 0..MaxSeq, claim: BOOLEAN]
OpenBlock == [base: Nat, frames: Seq(Frame), startTable: Nat]
DiskBlock == [base: Nat, frames: Seq(Frame), limit: Int]
EmptyBlock == [base |-> 0, frames |-> <<>>, startTable |-> 0]

JInit ==
  /\ head = 1
  /\ repeats = 0
  /\ broker = "running"
  /\ devices = 0
  /\ ch = <<>>
  /\ stop = 0
  /\ paused = FALSE
  /\ writer = "running"
  /\ file = 0
  /\ disk = <<>>
  /\ block = EmptyBlock
  /\ lost = {}
  /\ ioError = FALSE
-----------------------------------------------------------------------------
(* Shutdown.  Boat: cancel(); CloseRx(); close(journalCh).                 *)
(* Cloud: CloseRx(); <-Done(); close(journalCh); cancel().                 *)

Cancelled  == stop >= (IF ReplicaMode THEN 3 ELSE 1)
RxClosed   == stop >= (IF ReplicaMode THEN 1 ELSE 2)
ChanClosed == stop >= (IF ReplicaMode THEN 2 ELSE 3)

\* Mutants: the wait left out; a wait for the writer too.
MayCloseChan_NoWait == TRUE
MayCloseChan_WaitsForWriter == ~ReplicaMode \/ (broker = "done" /\ writer # "running")

\* stopBroker waits for Run to return before it closes the channel; main does not.
MayCloseChan == ~ReplicaMode \/ broker = "done"

ShutdownStep ==
  /\ "stop" \in Events /\ stop < 3
  /\ broker # "panicked"
  /\ (stop = (IF ReplicaMode THEN 1 ELSE 2)) => MayCloseChan
  /\ stop' = stop + 1
  /\ UNCHANGED <<head, repeats, broker, devices, ch, paused, writer, file, disk, block, lost, ioError>>
-----------------------------------------------------------------------------
(* The broker's side *)

\* Mutant: the send is not bounded by the channel's capacity.
JournalSend_Unbounded(f) ==
  /\ ch' = Append(ch, f)
  /\ UNCHANGED <<broker, lost>>

\* handleFrame's last statement.  A send on a closed channel panics.
JournalSend(f) ==
  \/ /\ ChanClosed
     /\ broker' = "panicked"
     /\ UNCHANGED <<ch, lost>>
  \/ /\ ~ChanClosed /\ Len(ch) < ChanCap
     /\ ch' = Append(ch, f)
     /\ UNCHANGED <<broker, lost>>
  \/ /\ ~ChanClosed /\ Len(ch) = ChanCap
     /\ lost' = lost \union {f.seq}
     /\ UNCHANGED <<ch, broker>>

\* A boat's broker numbers frames itself.  A replica takes the boat's number:
\* 0 for a device snapshot, the last one again or a later one after a reconnect.
SeqChoices ==
  IF ReplicaMode THEN ({0} \union (head - 1)..(head + 1)) \cap 0..MaxSeq
                 ELSE {head} \cap 1..MaxSeq

Advance(s) == IF s + 1 > head THEN s + 1 ELSE head

HandleFrameAs(s, c) ==
  /\ broker = "running"
  /\ head' = Advance(s)
  /\ repeats' = IF s < head THEN repeats + 1 ELSE repeats
  /\ repeats' <= MaxRepeats
  /\ devices' \in {devices} \union (IF c THEN {devices + 1} \cap 0..MaxDevices ELSE {})
  /\ JournalSend([seq |-> s, claim |-> c])
  /\ UNCHANGED <<stop, paused, writer, file, disk, block, ioError>>

HandleFrame == \E s \in SeqChoices, c \in Claims : HandleFrameAs(s, c)

\* Run returns on ctx.Done, or when rxFrames is closed and drained.
BrokerExit ==
  /\ broker = "running"
  /\ Cancelled \/ RxClosed
  /\ broker' = "done"
  /\ UNCHANGED <<head, repeats, devices, ch, stop, paused, writer, file, disk, block, lost, ioError>>
-----------------------------------------------------------------------------
(* Blocks *)

ClaimsIn(frames) == Cardinality({i \in DOMAIN frames : frames[i].claim})

\* deviceTableSize: the block-start entries and one entry per claim in the block.
DeviceTableSize(b) == b.startTable + ClaimsIn(b.frames) * EntrySize

\* Mutant: no space reserved for the device table.
Available_NoReserve(b) == BlockSpace - Len(b.frames)

\* Mutant: a frame too many.
Available_OffByOne(b) == BlockSpace + 1 - Len(b.frames) - DeviceTableSize(b)

\* The free units appendFrame sees; the table entry of the frame at hand is not among them.
Available(b) == BlockSpace - Len(b.frames) - DeviceTableSize(b)

\* Mutant: the base is the broker's position, not the frame's.
InitBlock_AtHead(f) == [base |-> head - 1, frames |-> <<>>, startTable |-> devices * EntrySize]

\* initBlock: base sequence number of the first frame, device table from the registry.
InitBlock(f) == [base |-> f.seq, frames |-> <<>>, startTable |-> devices * EntrySize]

Appended(b, f) == [b EXCEPT !.frames = Append(@, f)]

\* flushBlock: the table is laid out downwards from the trailer, over frame data
\* if it has to be; a reader stops at the table.
Written(b) ==
  [base |-> b.base, frames |-> b.frames, limit |-> BlockSpace - DeviceTableSize(b)]

\* Mutant: the block is cleared before it is written.
FlushBlock_AfterInit(dir, i, b) == [dir EXCEPT ![i] = Append(@, Written(EmptyBlock))]

FlushBlock(dir, i, b) ==
  IF b.frames = <<>> THEN dir ELSE [dir EXCEPT ![i] = Append(@, Written(b))]

\* openFile: a new, empty file at the end of the directory.
OpenIndex == IF file = 0 THEN Len(disk) + 1 ELSE file
OpenDisk  == IF file = 0 THEN Append(disk, <<>>) ELSE disk
-----------------------------------------------------------------------------
(* The writer goroutine *)

WriterStep ==
  /\ writer = "running"
  /\ broker # "panicked"

\* Run, paused: the frame is drained and discarded.
Discard ==
  /\ WriterStep /\ ch # <<>> /\ paused
  /\ lost' = lost \union {Head(ch).seq}
  /\ ch' = Tail(ch)
  /\ UNCHANGED <<head, repeats, broker, devices, stop, paused, writer, file, disk, block, ioError>>

\* Mutant: the file is opened with the first frame of a block only.
AppendFrame_LateOpen ==
  /\ WriterStep /\ ch # <<>> /\ ~paused
  /\ LET f == Head(ch) IN
       \/ /\ Available(block) < 1
          /\ disk' = FlushBlock(OpenDisk, OpenIndex, block)
          /\ file' \in {OpenIndex, 0}
          /\ block' = Appended(InitBlock(f), f)
       \/ /\ Available(block) >= 1
          /\ disk' = IF block.frames = <<>> THEN OpenDisk ELSE disk
          /\ file' = IF block.frames = <<>> THEN OpenIndex ELSE file
          /\ block' = Appended(IF block.frames = <<>> THEN InitBlock(f) ELSE block, f)
  /\ ch' = Tail(ch)
  /\ UNCHANGED <<head, repeats, broker, devices, stop, paused, writer, lost, ioError>>

\* appendFrame.  checkRotation (duration, size or count reached) closes the file
\* and leaves w.file nil; the frame goes into the new block in memory all the same.
AppendFrame ==
  /\ WriterStep /\ ch # <<>> /\ ~paused
  /\ LET f == Head(ch) IN
       \/ /\ Available(block) < 1
          /\ disk' = FlushBlock(OpenDisk, OpenIndex, block)
          /\ file' \in {OpenIndex, 0}
          /\ block' = Appended(InitBlock(f), f)
       \/ /\ Available(block) >= 1
          /\ disk' = OpenDisk
          /\ file' = OpenIndex
          /\ block' = Appended(IF block.frames = <<>> THEN InitBlock(f) ELSE block, f)
  /\ ch' = Tail(ch)
  /\ UNCHANGED <<head, repeats, broker, devices, stop, paused, writer, lost, ioError>>

FinalizeDue == Cancelled \/ (ChanClosed /\ ch = <<>>)

\* A create, write, sync or close in appendFrame or finalize fails: Run returns
\* the error.
IOFails ==
  /\ "io" \in Events /\ WriterStep
  /\ \/ ch # <<>> /\ ~paused /\ ch' = Tail(ch)
     \/ FinalizeDue /\ ch' = ch
  /\ writer' = "failed"
  /\ ioError' = TRUE
  /\ UNCHANGED <<head, repeats, broker, devices, stop, paused, file, disk, block, lost>>

\* finalize, on ctx.Done or on the closed and drained channel.  flushBlock on a
\* nil file is a write error.
Finalize ==
  /\ WriterStep /\ FinalizeDue
  /\ IF block.frames # <<>> /\ file = 0
       THEN /\ writer' = "failed"
            /\ UNCHANGED <<disk, file, block>>
       ELSE /\ writer' = "stopped"
            /\ disk' = IF file = 0 THEN disk ELSE FlushBlock(disk, file, block)
            /\ file' = 0
            /\ block' = [block EXCEPT !.frames = <<>>]
  /\ UNCHANGED <<head, repeats, broker, devices, ch, stop, paused, lost, ioError>>

\* The keeper's pause callback (overflow policy pause-recording).
SetPaused ==
  /\ "pause" \in Events
  /\ broker # "panicked"
  /\ paused' = ~paused
  /\ UNCHANGED <<head, repeats, broker, devices, ch, stop, writer, file, disk, block, lost, ioError>>

Writer == Discard \/ AppendFrame \/ IOFails \/ Finalize

JNext == HandleFrame \/ BrokerExit \/ ShutdownStep \/ SetPaused \/ Writer

JSpec == JInit /\ [][JNext]_jvars

\* The goroutines are scheduled; shutdown, once begun, is carried through.
JFairSpec ==
  /\ JSpec
  /\ WF_jvars(Writer) /\ WF_jvars(BrokerExit)
  /\ WF_jvars(stop > 0 /\ ShutdownStep)
-----------------------------------------------------------------------------
(* Properties *)

BlocksOf(dir) == UNION {{dir[i][j] : j \in DOMAIN dir[i]} : i \in DOMAIN dir}
SeqsOf(frames) == {frames[i].seq : i \in DOMAIN frames}
SeqsOn(dir) == UNION {SeqsOf(b.frames) : b \in BlocksOf(dir)}

AllBlocks == BlocksOf(disk)
OnDisk == SeqsOn(disk)

JTypeOK ==
  /\ head \in 1..(MaxSeq + 1)
  /\ repeats \in 0..MaxRepeats
  /\ broker \in {"running", "done", "panicked"}
  /\ devices \in 0..MaxDevices
  /\ ch \in Seq(Frame) /\ Len(ch) <= ChanCap
  /\ stop \in 0..3
  /\ paused \in BOOLEAN
  /\ writer \in {"running", "stopped", "failed"}
  /\ disk \in Seq(Seq(DiskBlock))
  /\ file \in 0..Len(disk)
  /\ block \in OpenBlock
  /\ lost \subseteq 0..MaxSeq
  /\ ioError \in BOOLEAN

\* While the process lives and the writer has met no error, every frame the
\* broker numbered is in exactly one place: on disk, in the block in memory, in
\* the channel, or counted as dropped (handleFrame, Run and appendFrame
\* together neither lose nor duplicate one, across flushes and rotations).
EveryFrameAccounted ==
  (writer # "failed" /\ broker # "panicked") =>
    LET places == <<OnDisk, SeqsOf(block.frames), SeqsOf(ch), lost>> IN
      /\ UNION {places[i] : i \in 1..4} = 1..(head - 1)
      /\ \A i, j \in 1..4 : i # j => places[i] \cap places[j] = {}

\* The first number that is not on disk when nothing was lost.
FirstUnwritten == head - Len(ch) - Len(block.frames)

\* On the boat, while nothing is lost: channel and block hold consecutive numbers
\* up to the head, in order, all earlier ones are on disk, and the block holds no
\* more frames than fit in it.
PipelineInOrder ==
  /\ Len(block.frames) <= BlockSpace
  /\ (writer = "running" /\ lost = {} /\ broker # "panicked") =>
       /\ FirstUnwritten >= 1
       /\ \A i \in 1..Len(ch) : ch[i].seq = head - Len(ch) + (i - 1)
       /\ \A i \in 1..Len(block.frames) : block.frames[i].seq = FirstUnwritten + (i - 1)
       /\ \A s \in 1..(FirstUnwritten - 1) : s \in OnDisk

\* A reader labels frame i of a block base + i (FrameSeq).  On the boat the label
\* is behind the frame's own number by exactly the frames dropped since the base
\* was taken: initBlock and appendFrame add no other error.
DriftIsLoss ==
  \A b \in AllBlocks : \A i \in DOMAIN b.frames :
    b.frames[i].seq = b.base + (i - 1)
                      + Cardinality({s \in lost : b.base < s /\ s < b.frames[i].seq})

\* The space appendFrame reserves covers every entry but the one of a claim that
\* ends its block: a block whose last frame is no claim is never overwritten.
ReservationHolds ==
  \A b \in AllBlocks : b.frames[Len(b.frames)].claim \/ Len(b.frames) <= b.limit

\* A shutdown that finds no open file loses the block in memory, but only while
\* that block is the one frame whose arrival rotated the file (checkRotation
\* leaves w.file nil, the next appendFrame opens a file before anything else).
FinalizeLosesAtMostOne ==
  /\ (block.frames # <<>> /\ file = 0) => Len(block.frames) = 1
  /\ (writer = "failed" /\ ~ioError) => Len(block.frames) = 1

\* The cloud's stopBroker never closes the channel under a broker that may still
\* send: no panic during shutdown.
NoSendOnClosedChannel == broker # "panicked"

\* Shutdown ends: once it has begun, finalize returns (Run's two exits suffice
\* whatever is left in the channel), unless the process has panicked.
ShutdownTerminates == (stop > 0) ~> (writer # "running" \/ broker = "panicked")
=============================================================================
