-------------------------- MODULE TieredLogProofs ---------------------------
(***************************************************************************)
(* The boat's journal and tiered log, for every ring, channel, block size  *)
(* and set of consumers.  First what holds of the writer alone: the order  *)
(* of what is in channel, block and file, and what the journal loses and   *)
(* how it mislabels (every numbered frame is in one place, a label is off  *)
(* by exactly the frames dropped, the space reserved for the device table  *)
(* suffices, a shutdown between two files loses at most one frame).  Then  *)
(* the consumers that read ring, journal and channel.                      *)
(***************************************************************************)
EXTENDS TieredLog, FiniteSetTheorems, WellFoundedInduction, TLAPS
-----------------------------------------------------------------------------
(* JournalWriter *)

\* The number of claims in a block (blockDeviceChanges) is a number.
LEMMA ClaimsInNat ==
  ASSUME NEW frames \in Seq(Frame)
  PROVE  ClaimsIn(frames) \in Nat
<1>1. IsFiniteSet(1..Len(frames))
  BY FS_Interval
<1>2. IsFiniteSet({i \in DOMAIN frames : frames[i].claim})
  BY <1>1, FS_Subset
<1>3. QED
  BY <1>2, FS_CardinalityType DEF ClaimsIn

\* deviceTableSize is never negative.
LEMMA TableSizeNat ==
  ASSUME NEW b \in OpenBlock
  PROVE  DeviceTableSize(b) \in Nat
<1>1. b.startTable \in Nat /\ b.frames \in Seq(Frame)
  BY DEF OpenBlock
<1>2. ClaimsIn(b.frames) \in Nat
  BY <1>1, ClaimsInNat
<1>3. ClaimsIn(b.frames) * EntrySize \in Nat
  BY <1>2, SizesAssumption
<1>4. QED
  BY <1>1, <1>3 DEF DeviceTableSize

\* A block written by flushBlock is a block of the disk.
LEMMA WrittenType ==
  ASSUME NEW b \in OpenBlock
  PROVE  Written(b) \in DiskBlock
<1>1. DeviceTableSize(b) \in Nat
  BY TableSizeNat
<1>2. QED
  BY <1>1, SizesAssumption DEF Written, OpenBlock, DiskBlock

\* openFile leaves a directory that has the open file.
LEMMA OpenDiskType ==
  ASSUME disk \in Seq(Seq(DiskBlock)), file \in 0..Len(disk)
  PROVE  /\ OpenDisk \in Seq(Seq(DiskBlock))
         /\ OpenIndex \in 1..Len(OpenDisk)
         /\ Len(OpenDisk) >= Len(disk)
BY DEF OpenDisk, OpenIndex

\* flushBlock adds at most a block to one file.
LEMMA FlushBlockType ==
  ASSUME NEW dir \in Seq(Seq(DiskBlock)), NEW i \in 1..Len(dir), NEW b \in OpenBlock
  PROVE  /\ FlushBlock(dir, i, b) \in Seq(Seq(DiskBlock))
         /\ Len(FlushBlock(dir, i, b)) = Len(dir)
<1>1. Written(b) \in DiskBlock
  BY WrittenType
<1>2. Append(dir[i], Written(b)) \in Seq(DiskBlock)
  BY <1>1
<1>3. QED
  BY <1>2 DEF FlushBlock

\* initBlock and the append of a frame give a block.
LEMMA AppendedType ==
  ASSUME NEW b \in OpenBlock, NEW f \in Frame
  PROVE  /\ Appended(b, f) \in OpenBlock
         /\ Appended(b, f).frames = Append(b.frames, f)
BY DEF Appended, OpenBlock

\* initBlock gives an empty block.
LEMMA InitBlockType ==
  ASSUME NEW f \in Frame, devices \in Nat
  PROVE  /\ InitBlock(f) \in OpenBlock
         /\ InitBlock(f).frames = <<>>
<1>1. devices * EntrySize \in Nat
  BY SizesAssumption
<1>2. QED
  BY <1>1 DEF InitBlock, OpenBlock, Frame
-----------------------------------------------------------------------------
(* Type correctness *)

\* The last statement of handleFrame keeps the channel within its capacity.
LEMMA JournalSendType ==
  ASSUME JTypeOK, NEW f \in Frame, JournalSend(f)
  PROVE  /\ ch' \in Seq(Frame) /\ Len(ch') <= ChanCap
         /\ broker' \in {"running", "done", "panicked"} \union {broker}
         /\ lost' \subseteq 0..MaxSeq
<1>1. CASE ChanClosed /\ broker' = "panicked" /\ UNCHANGED <<ch, lost>>
  BY <1>1 DEF JTypeOK
<1>2. CASE Len(ch) < ChanCap /\ ch' = Append(ch, f) /\ UNCHANGED <<broker, lost>>
  BY <1>2, SizesAssumption DEF JTypeOK
<1>3. CASE lost' = lost \union {f.seq} /\ UNCHANGED <<ch, broker>>
  BY <1>3 DEF JTypeOK, Frame
<1>4. QED
  BY <1>1, <1>2, <1>3 DEF JournalSend

\* One frame of the broker keeps the types.
LEMMA HandleFrameType ==
  ASSUME JTypeOK, NEW s \in SeqChoices, NEW c \in Claims, HandleFrameAs(s, c)
  PROVE  JTypeOK'
<1>1. s \in 0..MaxSeq /\ c \in BOOLEAN
  BY SizesAssumption DEF SeqChoices, JTypeOK
<1> DEFINE f == [seq |-> s, claim |-> c]
<1>2. f \in Frame
  BY <1>1 DEF Frame
<1>3. JournalSend(f)
  BY DEF HandleFrameAs
<1>4. /\ ch' \in Seq(Frame) /\ Len(ch') <= ChanCap
      /\ broker' \in {"running", "done", "panicked"} \union {broker}
      /\ lost' \subseteq 0..MaxSeq
  BY <1>2, <1>3, JournalSendType
<1>5. head' \in 1..(MaxSeq + 1)
  BY <1>1, SizesAssumption DEF HandleFrameAs, Advance, JTypeOK
<1>6. repeats' \in 0..MaxRepeats
  BY SizesAssumption DEF HandleFrameAs, JTypeOK
<1>7. devices' \in 0..MaxDevices
  BY <1>1, SizesAssumption DEF HandleFrameAs, JTypeOK
<1>8. UNCHANGED <<stop, paused, writer, file, disk, block, ioError>>
  BY DEF HandleFrameAs
<1>9. QED
  BY <1>4, <1>5, <1>6, <1>7, <1>8 DEF JTypeOK

\* One frame of the writer keeps the types.
LEMMA AppendFrameType ==
  ASSUME JTypeOK, AppendFrame
  PROVE  JTypeOK'
<1> DEFINE f == Head(ch)
<1>1. f \in Frame /\ ch' \in Seq(Frame) /\ Len(ch') <= ChanCap
  BY SizesAssumption DEF AppendFrame, JTypeOK
<1>2. devices \in Nat /\ block \in OpenBlock
  BY SizesAssumption DEF JTypeOK
<1>3. Appended(InitBlock(f), f) \in OpenBlock /\ Appended(block, f) \in OpenBlock
  BY <1>1, <1>2, AppendedType, InitBlockType
<1>4. /\ OpenDisk \in Seq(Seq(DiskBlock)) /\ OpenIndex \in 1..Len(OpenDisk)
  BY OpenDiskType DEF JTypeOK
<1>5. /\ FlushBlock(OpenDisk, OpenIndex, block) \in Seq(Seq(DiskBlock))
      /\ Len(FlushBlock(OpenDisk, OpenIndex, block)) = Len(OpenDisk)
  BY <1>2, <1>4, FlushBlockType
<1>6. CASE /\ disk' = FlushBlock(OpenDisk, OpenIndex, block)
           /\ file' \in {OpenIndex, 0}
           /\ block' = Appended(InitBlock(f), f)
  <2>1. disk' \in Seq(Seq(DiskBlock)) /\ file' \in 0..Len(disk') /\ block' \in OpenBlock
    BY <1>3, <1>4, <1>5, <1>6
  <2>2. QED
    BY <2>1, <1>1 DEF AppendFrame, JTypeOK
<1>7. CASE /\ disk' = OpenDisk
           /\ file' = OpenIndex
           /\ block' = Appended(IF block.frames = <<>> THEN InitBlock(f) ELSE block, f)
  <2>1. disk' \in Seq(Seq(DiskBlock)) /\ file' \in 0..Len(disk') /\ block' \in OpenBlock
    BY <1>3, <1>4, <1>7
  <2>2. QED
    BY <2>1, <1>1 DEF AppendFrame, JTypeOK
<1>8. QED
  BY <1>6, <1>7 DEF AppendFrame

\* Finalize keeps the types.
LEMMA FinalizeType ==
  ASSUME JTypeOK, Finalize
  PROVE  JTypeOK'
<1>1. block \in OpenBlock /\ disk \in Seq(Seq(DiskBlock)) /\ file \in 0..Len(disk)
  BY DEF JTypeOK
<1>2. CASE writer' = "failed" /\ UNCHANGED <<disk, file, block>>
  BY <1>2 DEF Finalize, JTypeOK
<1>3. CASE /\ writer' = "stopped"
           /\ disk' = IF file = 0 THEN disk ELSE FlushBlock(disk, file, block)
           /\ file' = 0
           /\ block' = [block EXCEPT !.frames = <<>>]
  <2>1. file # 0 => FlushBlock(disk, file, block) \in Seq(Seq(DiskBlock))
    BY <1>1, FlushBlockType
  <2>2. disk' \in Seq(Seq(DiskBlock)) /\ file' \in 0..Len(disk')
    BY <1>1, <1>3, <2>1
  <2>3. block' \in OpenBlock
    <3>1. <<>> \in Seq(Frame)
      OBVIOUS
    <3>2. QED
      BY <1>1, <1>3, <3>1, Zenon DEF OpenBlock
  <2>4. QED
    BY <1>3, <2>2, <2>3 DEF Finalize, JTypeOK
<1>4. QED
  BY <1>2, <1>3 DEF Finalize

\* Every action of broker, writer and shutdown keeps the types.
LEMMA JTypeStep == JTypeOK /\ [JNext]_jvars => JTypeOK'
<1> SUFFICES ASSUME JTypeOK, [JNext]_jvars PROVE JTypeOK'
  OBVIOUS
<1>1. CASE HandleFrame
  BY <1>1, HandleFrameType DEF HandleFrame
<1>2. CASE BrokerExit
  BY <1>2 DEF BrokerExit, JTypeOK
<1>3. CASE ShutdownStep
  BY <1>3 DEF ShutdownStep, JTypeOK
<1>4. CASE SetPaused
  BY <1>4 DEF SetPaused, JTypeOK
<1>5. CASE Discard
  <2>1. Head(ch) \in Frame /\ Tail(ch) \in Seq(Frame) /\ Len(Tail(ch)) <= ChanCap
    BY <1>5, SizesAssumption DEF Discard, JTypeOK
  <2>2. lost' \subseteq 0..MaxSeq
    BY <1>5, <2>1 DEF Discard, JTypeOK, Frame
  <2>3. QED
    BY <1>5, <2>1, <2>2 DEF Discard, JTypeOK
<1>6. CASE AppendFrame
  BY <1>6, AppendFrameType
<1>7. CASE IOFails
  <2>1. (ch # <<>> /\ ch' = Tail(ch)) \/ ch' = ch
    BY <1>7 DEF IOFails
  <2> ch \in Seq(Frame) /\ Len(ch) <= ChanCap
    BY DEF JTypeOK
  <2>2. ch' \in Seq(Frame) /\ Len(ch') <= ChanCap
    <3>1. CASE ch # <<>> /\ ch' = Tail(ch)
      BY <3>1, SizesAssumption
    <3>2. CASE ch' = ch
      BY <3>2
    <3>3. QED
      BY <2>1, <3>1, <3>2
  <2>3. /\ writer' = "failed" /\ ioError' = TRUE
        /\ UNCHANGED <<head, repeats, broker, devices, stop, paused, file, disk, block, lost>>
    BY <1>7 DEF IOFails
  <2>4. QED
    BY <2>2, <2>3 DEF JTypeOK
<1>8. CASE Finalize
  BY <1>8, FinalizeType
<1>9. CASE UNCHANGED jvars
  BY <1>9 DEF jvars, JTypeOK
<1>10. QED
  BY <1>1, <1>2, <1>3, <1>4, <1>5, <1>6, <1>7, <1>8, <1>9 DEF JNext, Writer

\* Type correctness of the journal writer: the channel never exceeds its
\* capacity and the open file is always one of the directory's.
THEOREM JTypeCorrect == JSpec => []JTypeOK
<1>1. JInit => JTypeOK
  <2> SUFFICES ASSUME JInit PROVE JTypeOK
    OBVIOUS
  <2>1. head \in 1..(MaxSeq + 1) /\ repeats \in 0..MaxRepeats /\ devices \in 0..MaxDevices
    BY SizesAssumption DEF JInit
  <2>2. ch \in Seq(Frame) /\ Len(ch) <= ChanCap /\ disk \in Seq(Seq(DiskBlock)) /\ file \in 0..Len(disk)
    BY SizesAssumption DEF JInit
  <2>3. block \in OpenBlock
    BY DEF JInit, EmptyBlock, OpenBlock
  <2>4. /\ broker \in {"running", "done", "panicked"} /\ stop \in 0..3
        /\ writer \in {"running", "stopped", "failed"} /\ lost \subseteq 0..MaxSeq
    BY DEF JInit
  <2>5. paused \in BOOLEAN /\ ioError \in BOOLEAN
    BY DEF JInit
  <2>6. QED
    BY <2>1, <2>2, <2>3, <2>4, <2>5 DEF JTypeOK
<1>2. QED
  BY <1>1, JTypeStep, PTL DEF JSpec
-----------------------------------------------------------------------------
(* The cloud's shutdown *)

\* stopBroker closes the journal channel only after the broker's Run returned.
ReplicaInv == NoSendOnClosedChannel /\ (stop >= 2 => broker = "done")

\* On the cloud no interleaving of broker, writer and stopBroker sends on the
\* closed journal channel.
THEOREM ReplicaNeverPanics ==
  ASSUME ReplicaMode
  PROVE  JSpec => []NoSendOnClosedChannel
<1>1. JInit => ReplicaInv
  BY DEF JInit, ReplicaInv, NoSendOnClosedChannel
<1>2. ReplicaInv /\ JTypeOK /\ [JNext]_jvars => ReplicaInv'
  <2> SUFFICES ASSUME ReplicaInv, JTypeOK, [JNext]_jvars PROVE ReplicaInv'
    OBVIOUS
  <2> USE DEF ReplicaInv, NoSendOnClosedChannel
  <2>1. CASE HandleFrame
    <3>1. PICK s \in SeqChoices, c \in Claims : HandleFrameAs(s, c)
      BY <2>1 DEF HandleFrame
    <3>2. broker = "running" /\ ~(stop >= 2) /\ stop' = stop
      BY <3>1 DEF HandleFrameAs
    <3>3. ~ChanClosed
      BY <3>2 DEF ChanClosed
    <3>4. broker' = broker
      BY <3>1, <3>3 DEF HandleFrameAs, JournalSend
    <3>5. QED
      BY <3>2, <3>4
  <2>2. CASE ShutdownStep
    BY <2>2 DEF ShutdownStep, MayCloseChan, JTypeOK
  <2>3. CASE BrokerExit
    BY <2>3 DEF BrokerExit
  <2>4. CASE SetPaused \/ Writer
    BY <2>4 DEF SetPaused, Writer, Discard, AppendFrame, IOFails, Finalize
  <2>5. CASE UNCHANGED jvars
    BY <2>5 DEF jvars
  <2>6. QED
    BY <2>1, <2>2, <2>3, <2>4, <2>5 DEF JNext
<1>3. ReplicaInv => NoSendOnClosedChannel
  BY DEF ReplicaInv
<1>4. QED
  BY <1>1, <1>2, <1>3, JTypeCorrect, PTL DEF JSpec
-----------------------------------------------------------------------------
(* The boat's pipeline: broker, channel, block, disk *)

\* What flushBlock writes is on disk, and nothing that was there is gone.
LEMMA FlushKeeps ==
  ASSUME NEW dir \in Seq(Seq(DiskBlock)), NEW i \in 1..Len(dir), NEW b \in OpenBlock
  PROVE  /\ SeqsOn(dir) \subseteq SeqsOn(FlushBlock(dir, i, b))
         /\ SeqsOf(b.frames) \subseteq SeqsOn(FlushBlock(dir, i, b))
<1>1. CASE b.frames = <<>>
  <2>1. SeqsOf(b.frames) = {}
    BY <1>1 DEF SeqsOf
  <2>2. QED
    BY <1>1, <2>1 DEF FlushBlock
<1>2. CASE b.frames # <<>>
  <2> DEFINE w == Written(b)
             new == [dir EXCEPT ![i] = Append(@, w)]
  <2>1. FlushBlock(dir, i, b) = new
    BY <1>2 DEF FlushBlock
  <2>2. /\ DOMAIN new = DOMAIN dir /\ new[i] = Append(dir[i], w)
        /\ \A k \in DOMAIN dir : k # i => new[k] = dir[k]
    OBVIOUS
  <2>3. w \in DiskBlock
    BY WrittenType
  <2>4. /\ DOMAIN dir[i] \subseteq DOMAIN new[i]
        /\ \A j \in DOMAIN dir[i] : new[i][j] = dir[i][j]
        /\ Len(dir[i]) + 1 \in DOMAIN new[i] /\ new[i][Len(dir[i]) + 1] = w
    BY <2>2, <2>3
  <2> HIDE DEF w, new
  <2>5. ASSUME NEW x \in BlocksOf(dir) PROVE x \in BlocksOf(new)
    <3>1. PICK k \in DOMAIN dir : \E j \in DOMAIN dir[k] : x = dir[k][j]
      BY <2>5 DEF BlocksOf
    <3>2. PICK j \in DOMAIN dir[k] : x = dir[k][j]
      BY <3>1
    <3>3. j \in DOMAIN new[k] /\ new[k][j] = x /\ k \in DOMAIN new
      BY <2>2, <2>4, <3>2
    <3>4. QED
      BY <3>3 DEF BlocksOf
  <2>6. w \in BlocksOf(new)
    BY <2>2, <2>4 DEF BlocksOf
  <2>7. w.frames = b.frames
    BY DEF w, Written
  <2>8. QED
    BY <2>1, <2>5, <2>6, <2>7 DEF SeqsOn
<1>3. QED
  BY <1>1, <1>2

\* openFile takes nothing from the disk.
LEMMA OpenKeeps ==
  ASSUME disk \in Seq(Seq(DiskBlock))
  PROVE  OnDisk \subseteq SeqsOn(OpenDisk)
<1>1. /\ DOMAIN disk \subseteq DOMAIN OpenDisk
      /\ \A k \in DOMAIN disk : OpenDisk[k] = disk[k]
  BY DEF OpenDisk
<1> HIDE DEF OpenDisk
<1>2. BlocksOf(disk) \subseteq BlocksOf(OpenDisk)
  BY <1>1 DEF BlocksOf
<1>3. QED
  BY <1>2 DEF OnDisk, SeqsOn

\* A frame is appended to a block only while it has room.
LEMMA RoomLeft ==
  ASSUME NEW b \in OpenBlock, Available(b) >= 1
  PROVE  Len(b.frames) + 1 <= BlockSpace
<1>1. DeviceTableSize(b) \in Nat /\ Len(b.frames) \in Nat
  BY TableSizeNat DEF OpenBlock
<1>2. QED
  BY <1>1, SizesAssumption DEF Available

\* The history of losses only grows, and a broken pipeline stays broken.
LEMMA BrokenStaysBroken ==
  ASSUME JTypeOK, JNext, writer' = "running", lost' = {}, broker' # "panicked"
  PROVE  writer = "running" /\ lost = {} /\ broker # "panicked"
<1>1. CASE HandleFrame
  BY <1>1 DEF HandleFrame, HandleFrameAs, JournalSend
<1>2. CASE BrokerExit \/ ShutdownStep \/ SetPaused
  BY <1>2 DEF BrokerExit, ShutdownStep, SetPaused
<1>3. CASE Writer
  BY <1>3 DEF Writer, WriterStep, Discard, AppendFrame, IOFails, Finalize
<1>4. QED
  BY <1>1, <1>2, <1>3 DEF JNext

\* handleFrame numbers the frame and sends it to the end of the channel.
LEMMA PipelineHandleFrame ==
  ASSUME JTypeOK, PipelineInOrder, ~ReplicaMode, HandleFrame,
         writer' = "running", lost' = {}, broker' # "panicked"
  PROVE  PipelineInOrder'
<1>1. PICK s \in SeqChoices, c \in Claims : HandleFrameAs(s, c)
  BY DEF HandleFrame
<1>2. s = head /\ head \in Nat /\ head >= 1
  BY SizesAssumption DEF SeqChoices, JTypeOK
<1> DEFINE f == [seq |-> s, claim |-> c]
<1>3. writer = "running" /\ lost = {} /\ broker # "panicked"
  BY BrokenStaysBroken DEF JNext
<1>4. head' = head + 1 /\ UNCHANGED <<block, disk>> /\ JournalSend(f)
  BY <1>1, <1>2 DEF HandleFrameAs, Advance
<1>5. ch' = Append(ch, f)
  BY <1>4 DEF JournalSend
<1>6. ch \in Seq(Frame) /\ Len(ch') = Len(ch) + 1 /\ Len(block.frames) \in Nat
  BY <1>5 DEF JTypeOK, OpenBlock
<1>7. FirstUnwritten' = FirstUnwritten /\ OnDisk' = OnDisk
  BY <1>2, <1>4, <1>6 DEF FirstUnwritten, OnDisk
<1>8. ASSUME NEW i \in 1..Len(ch') PROVE ch'[i].seq = head' - Len(ch') + (i - 1)
  <2>1. CASE i = Len(ch')
    <3>1. ch'[i] = f
      BY <1>5, <1>6, <2>1
    <3>2. QED
      BY <1>2, <1>4, <1>6, <2>1, <3>1
  <2>2. CASE i # Len(ch')
    <3>1. i \in 1..Len(ch) /\ ch'[i] = ch[i]
      BY <1>5, <1>6, <2>2
    <3>2. ch[i].seq = head - Len(ch) + (i - 1)
      BY <1>3, <3>1 DEF PipelineInOrder
    <3>3. QED
      BY <1>2, <1>4, <1>6, <3>1, <3>2
  <2>3. QED
    BY <2>1, <2>2
<1>9. QED
  BY <1>3, <1>4, <1>7, <1>8 DEF PipelineInOrder

\* appendFrame moves the channel's first frame to the end of the block, after
\* the block has gone to disk if it was full.
LEMMA PipelineAppendFrame ==
  ASSUME JTypeOK, PipelineInOrder, AppendFrame,
         writer' = "running", lost' = {}, broker' # "panicked"
  PROVE  PipelineInOrder'
<1>1. writer = "running" /\ lost = {} /\ broker # "panicked"
  BY BrokenStaysBroken DEF JNext, Writer
<1> DEFINE f == Head(ch)
<1>2. /\ ch \in Seq(Frame) /\ ch # <<>> /\ ch' = Tail(ch) /\ head' = head /\ head \in Nat
      /\ block \in OpenBlock /\ block.frames \in Seq(Frame) /\ devices \in Nat
  BY SizesAssumption DEF AppendFrame, JTypeOK, OpenBlock
<1>3. /\ f \in Frame /\ f = ch[1] /\ Len(ch') = Len(ch) - 1 /\ Len(ch) \in Nat /\ Len(ch) >= 1
      /\ \A i \in 1..Len(ch') : ch'[i] = ch[i + 1] /\ i + 1 \in 1..Len(ch)
  BY <1>2
<1>4. f.seq = head - Len(ch)
  BY <1>1, <1>2, <1>3 DEF PipelineInOrder
<1>5. \A i \in 1..Len(ch') : ch'[i].seq = head' - Len(ch') + (i - 1)
  <2> TAKE i \in 1..Len(ch')
  <2>1. ch'[i] = ch[i + 1] /\ ch[i + 1].seq = head - Len(ch) + ((i + 1) - 1)
    BY <1>1, <1>3 DEF PipelineInOrder
  <2>2. QED
    BY <1>2, <1>3, <2>1
<1>6. /\ disk \in Seq(Seq(DiskBlock)) /\ OpenDisk \in Seq(Seq(DiskBlock))
      /\ OpenIndex \in 1..Len(OpenDisk) /\ OnDisk \subseteq SeqsOn(OpenDisk)
  BY OpenDiskType, OpenKeeps DEF JTypeOK
<1>7. /\ Appended(InitBlock(f), f).frames = <<f>>
      /\ Appended(block, f).frames = Append(block.frames, f)
  <2>1. InitBlock(f) \in OpenBlock /\ InitBlock(f).frames = <<>>
    BY <1>2, <1>3, InitBlockType
  <2>2. Appended(InitBlock(f), f).frames = Append(<<>>, f)
    BY <1>3, <2>1, AppendedType
  <2>3. Appended(block, f).frames = Append(block.frames, f)
    BY <1>2, <1>3, AppendedType
  <2>4. Append(<<>>, f) = <<f>>
    BY <1>3
  <2>5. QED
    BY <2>2, <2>3, <2>4
<1> HIDE DEF f
<1>8. CASE disk' = FlushBlock(OpenDisk, OpenIndex, block) /\ block' = Appended(InitBlock(f), f)
  <2>1. block'.frames = <<f>>
    BY <1>7, <1>8
  <2>2. Len(block'.frames) = 1 /\ block'.frames[1] = f
    BY <2>1
  <2>3. FirstUnwritten' = head - Len(ch)
    BY <1>2, <1>3, <2>2 DEF FirstUnwritten
  <2>4. OnDisk \union SeqsOf(block.frames) \subseteq OnDisk'
    BY <1>2, <1>6, <1>8, FlushKeeps DEF OnDisk
  <2> /\ FirstUnwritten \in Int /\ FirstUnwritten' \in Int /\ Len(block.frames) \in Nat
      /\ FirstUnwritten' = FirstUnwritten + Len(block.frames)
    BY <1>2, <1>3, <2>3 DEF FirstUnwritten
  <2>5. ASSUME NEW s \in 1..(FirstUnwritten' - 1) PROVE s \in OnDisk'
    <3>1. CASE s < FirstUnwritten
      <4>1. s \in 1..(FirstUnwritten - 1)
        BY <3>1
      <4>2. QED
        BY <1>1, <2>4, <4>1 DEF PipelineInOrder
    <3>2. CASE s >= FirstUnwritten
      <4> DEFINE i == s - FirstUnwritten + 1
      <4>1. i \in 1..Len(block.frames)
        BY <3>2
      <4>2. block.frames[i].seq = FirstUnwritten + (i - 1)
        BY <1>1, <4>1 DEF PipelineInOrder
      <4>3. FirstUnwritten + (i - 1) = s
        OBVIOUS
      <4>4. s \in SeqsOf(block.frames)
        BY <1>2, <4>1, <4>2, <4>3 DEF SeqsOf
      <4>5. QED
        BY <2>4, <4>4
    <3>3. QED
      BY <3>1, <3>2
  <2>6. FirstUnwritten' >= 1 /\ 1 <= BlockSpace
    <3>1. FirstUnwritten >= 1 /\ Len(block.frames) \in Nat
      BY <1>1, <1>2 DEF PipelineInOrder
    <3>2. QED
      BY <1>2, <1>3, <2>3, <3>1, SizesAssumption DEF FirstUnwritten
  <2>7. \A i \in 1..Len(block'.frames) : block'.frames[i].seq = FirstUnwritten' + (i - 1)
    <3> TAKE i \in 1..Len(block'.frames)
    <3>1. i = 1
      BY <2>2
    <3>2. f.seq = FirstUnwritten'
      BY <1>4, <2>3
    <3>3. FirstUnwritten' + (i - 1) = FirstUnwritten'
      BY <3>1
    <3>4. QED
      BY <2>2, <3>1, <3>2, <3>3
  <2>8. QED
    BY <1>5, <2>2, <2>5, <2>6, <2>7 DEF PipelineInOrder
<1>9. CASE /\ Available(block) >= 1 /\ disk' = OpenDisk
           /\ block' = Appended(IF block.frames = <<>> THEN InitBlock(f) ELSE block, f)
  <2>1. block'.frames = Append(block.frames, f)
    <3>1. CASE block.frames = <<>>
      BY <1>3, <1>7, <1>9, <3>1
    <3>2. CASE block.frames # <<>>
      BY <1>7, <1>9, <3>2
    <3>3. QED
      BY <3>1, <3>2
  <2>2. /\ Len(block'.frames) = Len(block.frames) + 1 /\ Len(block.frames) \in Nat
        /\ block'.frames[Len(block.frames) + 1] = f
        /\ \A i \in 1..Len(block.frames) : block'.frames[i] = block.frames[i]
    BY <1>2, <1>3, <2>1
  <2>3. FirstUnwritten' = FirstUnwritten
    BY <1>2, <1>3, <2>2 DEF FirstUnwritten
  <2>4. OnDisk \subseteq OnDisk'
    BY <1>6, <1>9 DEF OnDisk
  <2>5. ASSUME NEW i \in 1..Len(block'.frames)
        PROVE  block'.frames[i].seq = FirstUnwritten' + (i - 1)
    <3>1. CASE i = Len(block.frames) + 1
      BY <1>2, <1>3, <1>4, <2>2, <2>3, <3>1 DEF FirstUnwritten
    <3>2. CASE i # Len(block.frames) + 1
      <4>1. i \in 1..Len(block.frames)
        BY <2>2, <3>2
      <4>2. QED
        BY <1>1, <2>2, <2>3, <4>1 DEF PipelineInOrder
    <3>3. QED
      BY <3>1, <3>2
  <2>6. Len(block'.frames) <= BlockSpace
    BY <1>2, <1>9, <2>2, RoomLeft
  <2>7. QED
    BY <1>1, <1>5, <2>3, <2>4, <2>5, <2>6 DEF PipelineInOrder
<1>10. QED
  BY <1>8, <1>9 DEF AppendFrame, f

\* The block never holds more frames than fit, whatever else went wrong.
LEMMA BlockFitsStep ==
  ASSUME JTypeOK, JTypeOK', Len(block.frames) <= BlockSpace, [JNext]_jvars
  PROVE  Len(block'.frames) <= BlockSpace
<1>1. block \in OpenBlock /\ block.frames \in Seq(Frame) /\ devices \in Nat
  BY SizesAssumption DEF JTypeOK, OpenBlock
<1>2. CASE AppendFrame
  <2> DEFINE f == Head(ch)
  <2>1. f \in Frame
    BY <1>2 DEF AppendFrame, JTypeOK
  <2>2. InitBlock(f) \in OpenBlock /\ InitBlock(f).frames = <<>>
    BY <1>1, <2>1, InitBlockType
  <2>3. /\ Appended(InitBlock(f), f).frames = Append(<<>>, f)
        /\ Appended(block, f).frames = Append(block.frames, f)
    BY <1>1, <2>1, <2>2, AppendedType
  <2>4. Len(Append(<<>>, f)) = 1 /\ Len(Append(block.frames, f)) = Len(block.frames) + 1
    BY <1>1, <2>1
  <2>5. 1 <= BlockSpace
    BY SizesAssumption
  <2>6. Available(block) >= 1 => Len(block.frames) + 1 <= BlockSpace
    BY <1>1, RoomLeft
  <2> HIDE DEF f
  <2>7. CASE block' = Appended(InitBlock(f), f)
    BY <2>3, <2>4, <2>5, <2>7
  <2>8. CASE Available(block) >= 1 /\ block' = Appended(block, f)
    BY <2>3, <2>4, <2>6, <2>8
  <2>9. QED
    BY <1>2, <2>7, <2>8 DEF AppendFrame, f
<1>3. CASE Finalize
  <2>1. block' = block \/ block' = [block EXCEPT !.frames = <<>>]
    BY <1>3 DEF Finalize
  <2>2. block'.frames = block.frames \/ block'.frames = <<>>
    BY <1>1, <2>1 DEF OpenBlock
  <2>3. QED
    BY <2>2, SizesAssumption
<1>4. CASE block' = block
  BY <1>4
<1>5. QED
  BY <1>2, <1>3, <1>4
  DEF JNext, Writer, HandleFrame, HandleFrameAs, BrokerExit, ShutdownStep, SetPaused,
      Discard, IOFails, jvars

\* Every step of the boat keeps the pipeline in order.
LEMMA PipelineStep ==
  ASSUME ~ReplicaMode
  PROVE  JTypeOK /\ JTypeOK' /\ PipelineInOrder /\ [JNext]_jvars => PipelineInOrder'
<1> SUFFICES ASSUME JTypeOK, JTypeOK', PipelineInOrder, [JNext]_jvars PROVE PipelineInOrder'
  OBVIOUS
<1>1. Len(block'.frames) <= BlockSpace
  BY BlockFitsStep DEF PipelineInOrder
<1>2. CASE ~(writer' = "running" /\ lost' = {} /\ broker' # "panicked")
  BY <1>1, <1>2 DEF PipelineInOrder
<1>3. CASE writer' = "running" /\ lost' = {} /\ broker' # "panicked"
  <2>1. CASE HandleFrame
    BY <1>3, <2>1, PipelineHandleFrame
  <2>2. CASE AppendFrame
    BY <1>3, <2>2, PipelineAppendFrame
  <2>3. CASE BrokerExit \/ ShutdownStep \/ SetPaused
    <3>1. UNCHANGED <<head, ch, block, disk, writer, lost>> /\ broker # "panicked"
      BY <2>3 DEF BrokerExit, ShutdownStep, SetPaused
    <3>2. QED
      BY <1>3, <3>1 DEF PipelineInOrder, FirstUnwritten, OnDisk
  <2>4. CASE Discard
    BY <1>3, <2>4 DEF Discard
  <2>5. CASE IOFails \/ Finalize
    BY <1>3, <2>5 DEF IOFails, Finalize
  <2>6. CASE UNCHANGED jvars
    BY <2>6 DEF jvars, PipelineInOrder, FirstUnwritten, OnDisk
  <2>7. QED
    BY <2>1, <2>2, <2>3, <2>4, <2>5, <2>6 DEF JNext, Writer
<1>4. QED
  BY <1>2, <1>3

\* On the boat, as long as nothing is dropped, the frames from the first
\* unwritten one to the head are in the block and the channel, in order and
\* without gaps, and every earlier one is on disk.
THEOREM PipelineCorrect ==
  ASSUME ~ReplicaMode
  PROVE  JSpec => []PipelineInOrder
<1>1. JInit => PipelineInOrder
  <2> SUFFICES ASSUME JInit PROVE PipelineInOrder
    OBVIOUS
  <2>1. head = 1 /\ Len(ch) = 0 /\ Len(block.frames) = 0
    BY DEF JInit, EmptyBlock
  <2>2. QED
    BY <2>1, SizesAssumption DEF PipelineInOrder, FirstUnwritten
<1>2. QED
  BY <1>1, PipelineStep, JTypeCorrect, PTL DEF JSpec
-----------------------------------------------------------------------------
(* The numbers in a sequence of frames, and the blocks of a directory *)

\* An appended frame adds its number.
LEMMA SeqsOfAppend ==
  ASSUME NEW s \in Seq(Frame), NEW f \in Frame
  PROVE  SeqsOf(Append(s, f)) = SeqsOf(s) \union {f.seq}
<1> DEFINE t == Append(s, f)
<1>1. /\ Len(t) = Len(s) + 1 /\ DOMAIN t = 1..(Len(s) + 1) /\ DOMAIN s = 1..Len(s)
      /\ t[Len(s) + 1] = f /\ \A i \in 1..Len(s) : t[i] = s[i]
  OBVIOUS
<1> HIDE DEF t
<1>2. ASSUME NEW x \in SeqsOf(t) PROVE x \in SeqsOf(s) \union {f.seq}
  <2>1. PICK i \in DOMAIN t : x = t[i].seq
    BY DEF SeqsOf
  <2>2. CASE i = Len(s) + 1
    BY <1>1, <2>1, <2>2
  <2>3. CASE i # Len(s) + 1
    <3>1. i \in DOMAIN s /\ t[i] = s[i]
      BY <1>1, <2>3
    <3>2. QED
      BY <2>1, <3>1 DEF SeqsOf
  <2>4. QED
    BY <2>2, <2>3
<1>3. ASSUME NEW x \in SeqsOf(s) PROVE x \in SeqsOf(t)
  <2>1. PICK i \in DOMAIN s : x = s[i].seq
    BY DEF SeqsOf
  <2>2. i \in DOMAIN t /\ t[i] = s[i]
    BY <1>1
  <2>3. QED
    BY <2>1, <2>2 DEF SeqsOf
<1>4. f.seq \in SeqsOf(t)
  BY <1>1 DEF SeqsOf
<1>5. QED
  BY <1>2, <1>3, <1>4 DEF t

\* Frames in the order their numbers were assigned.
Increasing(s) == \A i, j \in DOMAIN s : i < j => s[i].seq < s[j].seq

\* The broker numbers frames with Nat.
LEMMA SeqsOfType ==
  ASSUME NEW s \in Seq(Frame)
  PROVE  SeqsOf(s) \subseteq 0..MaxSeq
<1>1. \A i \in DOMAIN s : s[i] \in Frame
  OBVIOUS
<1>2. QED
  BY <1>1 DEF SeqsOf, Frame

\* A frame with a later number keeps the order.
LEMMA IncreasingAppend ==
  ASSUME NEW s \in Seq(Frame), NEW f \in Frame, Increasing(s), \A x \in SeqsOf(s) : x < f.seq
  PROVE  Increasing(Append(s, f))
<1> DEFINE t == Append(s, f)
<1>1. /\ DOMAIN t = 1..(Len(s) + 1) /\ DOMAIN s = 1..Len(s) /\ Len(s) \in Nat
      /\ t[Len(s) + 1] = f /\ \A i \in 1..Len(s) : t[i] = s[i]
  OBVIOUS
<1> HIDE DEF t
<1> SUFFICES ASSUME NEW i \in DOMAIN t, NEW j \in DOMAIN t, i < j PROVE t[i].seq < t[j].seq
  BY DEF Increasing, t
<1>2. i \in DOMAIN s /\ t[i] = s[i]
  BY <1>1
<1>3. CASE j = Len(s) + 1
  BY <1>1, <1>2, <1>3 DEF SeqsOf
<1>4. CASE j # Len(s) + 1
  <2>1. j \in DOMAIN s /\ t[j] = s[j]
    BY <1>1, <1>4
  <2>2. QED
    BY <1>2, <2>1 DEF Increasing
<1>5. QED
  BY <1>3, <1>4

\* Receiving the first frame removes its number and no other; all that remain
\* are later.
LEMMA SeqsOfTail ==
  ASSUME NEW s \in Seq(Frame), s # <<>>, Increasing(s)
  PROVE  /\ SeqsOf(Tail(s)) = SeqsOf(s) \ {Head(s).seq}
         /\ Head(s).seq \in SeqsOf(s)
         /\ \A x \in SeqsOf(Tail(s)) : Head(s).seq < x
         /\ Increasing(Tail(s))
<1> DEFINE t == Tail(s)
<1>1. /\ Len(t) = Len(s) - 1 /\ Len(s) >= 1 /\ Len(s) \in Nat /\ DOMAIN t = 1..(Len(s) - 1)
      /\ DOMAIN s = 1..Len(s) /\ Head(s) = s[1] /\ \A i \in 1..(Len(s) - 1) : t[i] = s[i + 1]
      /\ \A i \in DOMAIN s : s[i] \in Frame
  OBVIOUS
<1> HIDE DEF t
<1>2. ASSUME NEW x \in SeqsOf(t) PROVE x \in SeqsOf(s) /\ Head(s).seq < x
  <2>1. PICK i \in DOMAIN t : x = t[i].seq
    BY DEF SeqsOf
  <2>2. i + 1 \in DOMAIN s /\ 1 \in DOMAIN s /\ 1 < i + 1 /\ t[i] = s[i + 1]
    BY <1>1
  <2>3. QED
    BY <1>1, <2>1, <2>2 DEF SeqsOf, Increasing
<1>3. ASSUME NEW x \in SeqsOf(s), x # Head(s).seq PROVE x \in SeqsOf(t)
  <2>1. PICK i \in DOMAIN s : x = s[i].seq
    BY DEF SeqsOf
  <2>2. i # 1
    BY <1>1, <1>3, <2>1
  <2> DEFINE k == i - 1
  <2>3. k \in DOMAIN t /\ t[k] = s[k + 1] /\ k + 1 = i
    BY <1>1, <2>2
  <2>4. QED
    BY <2>1, <2>3 DEF SeqsOf
<1>4. Head(s).seq \in SeqsOf(s) /\ Head(s).seq \in Int
  BY <1>1 DEF SeqsOf, Frame
<1>5. Increasing(t)
  <2> SUFFICES ASSUME NEW i \in DOMAIN t, NEW j \in DOMAIN t, i < j PROVE t[i].seq < t[j].seq
    BY DEF Increasing
  <2>1. i + 1 \in DOMAIN s /\ j + 1 \in DOMAIN s /\ i + 1 < j + 1 /\ t[i] = s[i + 1] /\ t[j] = s[j + 1]
    BY <1>1
  <2>2. QED
    BY <2>1 DEF Increasing
<1>6. SeqsOf(t) \subseteq Int
  BY <1>2, SeqsOfType
<1>7. QED
  BY <1>2, <1>3, <1>4, <1>5, <1>6 DEF t

\* flushBlock adds the block, if it has frames, and nothing else.
LEMMA FlushAdds ==
  ASSUME NEW dir \in Seq(Seq(DiskBlock)), NEW i \in 1..Len(dir), NEW b \in OpenBlock
  PROVE  BlocksOf(FlushBlock(dir, i, b)) =
           BlocksOf(dir) \union (IF b.frames = <<>> THEN {} ELSE {Written(b)})
<1>1. CASE b.frames = <<>>
  BY <1>1 DEF FlushBlock
<1>2. CASE b.frames # <<>>
  <2> DEFINE w == Written(b)
             new == [dir EXCEPT ![i] = Append(@, w)]
  <2>1. FlushBlock(dir, i, b) = new
    BY <1>2 DEF FlushBlock
  <2>2. /\ DOMAIN new = DOMAIN dir /\ new[i] = Append(dir[i], w) /\ i \in DOMAIN dir
        /\ \A k \in DOMAIN dir : k # i => new[k] = dir[k]
    OBVIOUS
  <2>3. w \in DiskBlock
    BY WrittenType
  <2>4. /\ DOMAIN new[i] = 1..(Len(dir[i]) + 1) /\ DOMAIN dir[i] = 1..Len(dir[i]) /\ Len(dir[i]) \in Nat
        /\ \A j \in DOMAIN dir[i] : new[i][j] = dir[i][j]
        /\ new[i][Len(dir[i]) + 1] = w
    BY <2>2, <2>3
  <2> HIDE DEF w, new
  <2>5. ASSUME NEW x \in BlocksOf(dir) PROVE x \in BlocksOf(new)
    <3>1. PICK k \in DOMAIN dir : \E j \in DOMAIN dir[k] : x = dir[k][j]
      BY <2>5 DEF BlocksOf
    <3>2. PICK j \in DOMAIN dir[k] : x = dir[k][j]
      BY <3>1
    <3>3. j \in DOMAIN new[k] /\ new[k][j] = x /\ k \in DOMAIN new
      <4>1. CASE k = i
        BY <2>2, <2>4, <3>2, <4>1
      <4>2. CASE k # i
        BY <2>2, <3>2, <4>2
      <4>3. QED
        BY <4>1, <4>2
    <3>4. QED
      BY <3>3 DEF BlocksOf
  <2>6. w \in BlocksOf(new)
    <3>1. Len(dir[i]) + 1 \in DOMAIN new[i] /\ i \in DOMAIN new
      BY <2>2, <2>4
    <3>2. QED
      BY <2>4, <3>1 DEF BlocksOf
  <2>7. ASSUME NEW x \in BlocksOf(new) PROVE x \in BlocksOf(dir) \union {w}
    <3>1. PICK k \in DOMAIN new : \E j \in DOMAIN new[k] : x = new[k][j]
      BY <2>7 DEF BlocksOf
    <3>2. PICK j \in DOMAIN new[k] : x = new[k][j]
      BY <3>1
    <3>3. CASE k = i /\ j = Len(dir[i]) + 1
      BY <2>4, <3>2, <3>3
    <3>4. CASE ~(k = i /\ j = Len(dir[i]) + 1)
      <4>1. k \in DOMAIN dir /\ j \in DOMAIN dir[k] /\ x = dir[k][j]
        <5>1. CASE k = i
          BY <2>2, <2>4, <3>2, <3>4, <5>1
        <5>2. CASE k # i
          BY <2>2, <3>2, <5>2
        <5>3. QED
          BY <5>1, <5>2
      <4>2. QED
        BY <4>1 DEF BlocksOf
    <3>5. QED
      BY <3>3, <3>4
  <2>8. QED
    BY <1>2, <2>1, <2>5, <2>6, <2>7 DEF w
<1>3. QED
  BY <1>1, <1>2

\* openFile adds no block.
LEMMA OpenAddsNone ==
  ASSUME disk \in Seq(Seq(DiskBlock))
  PROVE  BlocksOf(OpenDisk) = AllBlocks
<1>1. CASE file # 0
  BY <1>1 DEF OpenDisk, AllBlocks
<1>2. CASE file = 0
  <2> DEFINE d == Append(disk, <<>>)
  <2>1. /\ DOMAIN d = 1..(Len(disk) + 1) /\ DOMAIN disk = 1..Len(disk) /\ Len(disk) \in Nat
        /\ \A k \in 1..Len(disk) : d[k] = disk[k]
        /\ d[Len(disk) + 1] = <<>>
    OBVIOUS
  <2> HIDE DEF d
  <2>2. ASSUME NEW x \in BlocksOf(disk) PROVE x \in BlocksOf(d)
    <3>1. PICK k \in DOMAIN disk : \E j \in DOMAIN disk[k] : x = disk[k][j]
      BY <2>2 DEF BlocksOf
    <3>2. k \in DOMAIN d /\ d[k] = disk[k]
      BY <2>1
    <3>3. QED
      BY <3>1, <3>2 DEF BlocksOf
  <2>3. ASSUME NEW x \in BlocksOf(d) PROVE x \in BlocksOf(disk)
    <3>1. PICK k \in DOMAIN d : \E j \in DOMAIN d[k] : x = d[k][j]
      BY <2>3 DEF BlocksOf
    <3>2. DOMAIN <<>> = {}
      OBVIOUS
    <3>3. k # Len(disk) + 1
      BY <2>1, <3>1, <3>2
    <3>4. k \in DOMAIN disk /\ d[k] = disk[k]
      BY <2>1, <3>3
    <3>5. QED
      BY <3>1, <3>4 DEF BlocksOf
  <2>4. QED
    BY <1>2, <2>2, <2>3 DEF d, OpenDisk, AllBlocks
<1>3. QED
  BY <1>1, <1>2

\* What a flush of block b adds to the directory.
Flushed(b) == IF b.frames = <<>> THEN {} ELSE {Written(b)}

\* The numbers on disk are of the broker's range.
LEMMA OnDiskType ==
  ASSUME JTypeOK
  PROVE  /\ OnDisk \subseteq 0..MaxSeq
         /\ \A b \in AllBlocks : b \in DiskBlock
<1>1. ASSUME NEW b \in AllBlocks PROVE b \in DiskBlock
  <2>1. PICK k \in DOMAIN disk : \E j \in DOMAIN disk[k] : b = disk[k][j]
    BY DEF AllBlocks, BlocksOf
  <2>2. disk[k] \in Seq(DiskBlock)
    BY DEF JTypeOK
  <2>3. QED
    BY <2>1, <2>2
<1>2. ASSUME NEW b \in AllBlocks PROVE SeqsOf(b.frames) \subseteq 0..MaxSeq
  <2>1. b.frames \in Seq(Frame)
    BY <1>1 DEF DiskBlock
  <2>2. QED
    BY <2>1, SeqsOfType
<1>3. QED
  BY <1>1, <1>2 DEF OnDisk, SeqsOn, AllBlocks

\* A flush puts the block's numbers on disk.
LEMMA OnDiskGrows ==
  ASSUME AllBlocks' = AllBlocks \union Flushed(block)
  PROVE  OnDisk' = OnDisk \union SeqsOf(block.frames)
<1>1. CASE block.frames = <<>>
  <2>1. SeqsOf(block.frames) = {}
    BY <1>1 DEF SeqsOf
  <2>2. QED
    BY <1>1, <2>1 DEF OnDisk, SeqsOn, AllBlocks, Flushed
<1>2. CASE block.frames # <<>>
  <2>1. Written(block).frames = block.frames
    BY DEF Written
  <2>2. BlocksOf(disk)' = BlocksOf(disk) \union {Written(block)}
    BY <1>2 DEF AllBlocks, Flushed
  <2>3. QED
    BY <2>1, <2>2 DEF OnDisk, SeqsOn
<1>3. QED
  BY <1>1, <1>2

\* appendFrame either starts a block with the channel's first frame, the old one
\* flushed if there was one, or continues the block that has room.
StartsBlock(f) ==
  /\ AllBlocks' = AllBlocks \union Flushed(block)
  /\ block' = [base |-> f.seq, frames |-> <<f>>, startTable |-> devices * EntrySize]

ContinuesBlock(f) ==
  /\ block.frames # <<>> /\ Available(block) >= 1
  /\ AllBlocks' = AllBlocks
  /\ block' = Appended(block, f)

\* The two outcomes of appendFrame, with the file operations left out.
LEMMA AppendFrameEffect ==
  ASSUME JTypeOK, AppendFrame
  PROVE  /\ ch \in Seq(Frame) /\ ch # <<>> /\ Head(ch) \in Frame /\ ch' = Tail(ch)
         /\ block \in OpenBlock
         /\ StartsBlock(Head(ch)) \/ ContinuesBlock(Head(ch))
<1> DEFINE f == Head(ch)
<1>1. /\ ch \in Seq(Frame) /\ ch # <<>> /\ f \in Frame /\ ch' = Tail(ch)
      /\ block \in OpenBlock /\ devices \in Nat /\ disk \in Seq(Seq(DiskBlock))
  BY SizesAssumption DEF AppendFrame, JTypeOK
<1>2. /\ OpenDisk \in Seq(Seq(DiskBlock)) /\ OpenIndex \in 1..Len(OpenDisk)
  BY OpenDiskType DEF JTypeOK
<1>3. BlocksOf(OpenDisk) = AllBlocks
  BY <1>1, OpenAddsNone
<1>4. BlocksOf(FlushBlock(OpenDisk, OpenIndex, block)) = AllBlocks \union Flushed(block)
  BY <1>1, <1>2, <1>3, FlushAdds DEF Flushed
<1>5. Appended(InitBlock(f), f) = [base |-> f.seq, frames |-> <<f>>, startTable |-> devices * EntrySize]
  <2>1. Append(<<>>, f) = <<f>>
    BY <1>1
  <2>2. InitBlock(f).frames = <<>>
    BY DEF InitBlock
  <2>3. QED
    BY <2>1, <2>2 DEF InitBlock, Appended
<1> HIDE DEF f
<1>6. CASE disk' = FlushBlock(OpenDisk, OpenIndex, block) /\ block' = Appended(InitBlock(f), f)
  <2>1. AllBlocks' = AllBlocks \union Flushed(block)
    BY <1>4, <1>6 DEF AllBlocks
  <2>2. QED
    BY <1>1, <1>5, <1>6, <2>1 DEF StartsBlock, f
<1>7. CASE /\ Available(block) >= 1 /\ disk' = OpenDisk
           /\ block' = Appended(IF block.frames = <<>> THEN InitBlock(f) ELSE block, f)
  <2>1. AllBlocks' = AllBlocks
    BY <1>3, <1>7 DEF AllBlocks
  <2>2. CASE block.frames = <<>>
    <3>1. Flushed(block) = {}
      BY <2>2 DEF Flushed
    <3>2. QED
      BY <1>1, <1>5, <1>7, <2>1, <2>2, <3>1 DEF StartsBlock, f
  <2>3. CASE block.frames # <<>>
    BY <1>1, <1>7, <2>1, <2>3 DEF ContinuesBlock, f
  <2>4. QED
    BY <2>2, <2>3
<1>8. QED
  BY <1>6, <1>7 DEF AppendFrame, f

\* finalize either fails and changes nothing or leaves no block in memory.
LEMMA FinalizeEffect ==
  ASSUME JTypeOK, Finalize
  PROVE  /\ block \in OpenBlock
         /\ \/ /\ writer' = "failed" /\ block.frames # <<>> /\ file = 0
               /\ UNCHANGED <<disk, file, block>>
            \/ /\ writer' = "stopped"
               /\ AllBlocks' = AllBlocks \union Flushed(block)
               /\ block'.frames = <<>> /\ block' \in OpenBlock
<1>1. block \in OpenBlock /\ disk \in Seq(Seq(DiskBlock)) /\ file \in 0..Len(disk)
  BY DEF JTypeOK
<1>2. CASE block.frames # <<>> /\ file = 0
  BY <1>1, <1>2 DEF Finalize
<1>3. CASE ~(block.frames # <<>> /\ file = 0)
  <2>1. /\ writer' = "stopped"
        /\ disk' = IF file = 0 THEN disk ELSE FlushBlock(disk, file, block)
        /\ block' = [block EXCEPT !.frames = <<>>]
    BY <1>3 DEF Finalize
  <2>2. AllBlocks' = AllBlocks \union Flushed(block)
    <3>1. CASE file = 0
      <4>1. block.frames = <<>>
        BY <1>3, <3>1
      <4>2. QED
        BY <2>1, <3>1, <4>1 DEF AllBlocks, Flushed
    <3>2. CASE file # 0
      <4>1. file \in 1..Len(disk)
        BY <1>1, <3>2
      <4>2. QED
        BY <1>1, <2>1, <3>2, <4>1, FlushAdds DEF AllBlocks, Flushed
    <3>3. QED
      BY <3>1, <3>2
  <2>3. block'.frames = <<>>
    BY <1>1, <2>1 DEF OpenBlock
  <2>4. block' \in OpenBlock
    <3>1. <<>> \in Seq(Frame)
      OBVIOUS
    <3>2. QED
      BY <1>1, <2>1, <3>1, Zenon DEF OpenBlock
  <2>5. QED
    BY <1>1, <2>1, <2>2, <2>3, <2>4
<1>4. QED
  BY <1>2, <1>3

\* handleFrame on the boat: the frame gets the broker's next number and is sent,
\* dropped, or panics on the closed channel.
LEMMA HandleFrameEffect ==
  ASSUME JTypeOK, ~ReplicaMode, HandleFrame
  PROVE  /\ head \in 1..MaxSeq /\ head' = head + 1
         /\ broker = "running" /\ UNCHANGED <<block, disk, writer, file, ioError>>
         /\ \/ broker' = "panicked" /\ UNCHANGED <<ch, lost>>
            \/ \E f \in Frame : f.seq = head /\ ch' = Append(ch, f) /\ UNCHANGED <<broker, lost>>
            \/ lost' = lost \union {head} /\ UNCHANGED <<ch, broker>>
<1>1. PICK s \in SeqChoices, c \in Claims : HandleFrameAs(s, c)
  BY DEF HandleFrame
<1>2. s = head /\ head \in 1..MaxSeq /\ c \in BOOLEAN
  BY SizesAssumption DEF SeqChoices, JTypeOK
<1> DEFINE f == [seq |-> s, claim |-> c]
<1>3. f \in Frame /\ f.seq = head
  BY <1>2, SizesAssumption DEF Frame
<1>4. JournalSend(f) /\ broker = "running" /\ UNCHANGED <<block, disk, writer, file, ioError>>
  BY <1>1 DEF HandleFrameAs
<1>5. head' = head + 1
  BY <1>1, <1>2 DEF HandleFrameAs, Advance
<1> HIDE DEF f
<1>6. \/ broker' = "panicked" /\ UNCHANGED <<ch, lost>>
      \/ ch' = Append(ch, f) /\ UNCHANGED <<broker, lost>>
      \/ lost' = lost \union {head} /\ UNCHANGED <<ch, broker>>
  BY <1>3, <1>4 DEF JournalSend
<1>7. QED
  BY <1>2, <1>3, <1>4, <1>5, <1>6

\* The steps that touch neither the frames nor their places.
LEMMA QuietEffect ==
  ASSUME BrokerExit \/ ShutdownStep \/ SetPaused \/ UNCHANGED jvars
  PROVE  /\ UNCHANGED <<head, ch, block, disk, file, writer, lost, ioError>>
         /\ broker' # "panicked" => broker # "panicked"
BY DEF BrokerExit, ShutdownStep, SetPaused, jvars
-----------------------------------------------------------------------------
(* Frames stay in the order they were numbered: disk, block, channel *)

\* Everything on disk is earlier than everything in the block, that is earlier
\* than everything in the channel, and all of it is behind the head.
OrderInv ==
  /\ Increasing(ch) /\ Increasing(block.frames)
  /\ \A x \in OnDisk : /\ \A y \in SeqsOf(block.frames) : x < y
                       /\ \A y \in SeqsOf(ch) : x < y
                       /\ x < head
  /\ \A x \in SeqsOf(block.frames) : x < head /\ \A y \in SeqsOf(ch) : x < y
  /\ \A x \in SeqsOf(ch) : x < head

\* The empty sequence and a single frame are in order.
LEMMA IncreasingShort ==
  /\ Increasing(<<>>) /\ SeqsOf(<<>>) = {}
  /\ \A f \in Frame : Increasing(<<f>>) /\ SeqsOf(<<f>>) = {f.seq}
<1>1. DOMAIN <<>> = {}
  OBVIOUS
<1>2. ASSUME NEW f \in Frame PROVE DOMAIN <<f>> = {1} /\ <<f>>[1] = f
  OBVIOUS
<1>3. Increasing(<<>>) /\ SeqsOf(<<>>) = {}
  BY <1>1 DEF Increasing, SeqsOf
<1>4. ASSUME NEW f \in Frame PROVE Increasing(<<f>>) /\ SeqsOf(<<f>>) = {f.seq}
  BY <1>2 DEF Increasing, SeqsOf
<1>5. QED
  BY <1>3, <1>4

\* appendFrame keeps the order.
LEMMA OrderAppendFrame ==
  ASSUME JTypeOK, OrderInv, AppendFrame
  PROVE  OrderInv'
<1> DEFINE f == Head(ch)
<1>1. /\ ch \in Seq(Frame) /\ ch # <<>> /\ f \in Frame /\ ch' = Tail(ch) /\ block \in OpenBlock
      /\ StartsBlock(f) \/ ContinuesBlock(f)
  BY AppendFrameEffect
<1>2. head' = head /\ head \in Int /\ block.frames \in Seq(Frame)
  BY <1>1, SizesAssumption DEF AppendFrame, JTypeOK, OpenBlock
<1>3. /\ SeqsOf(ch') = SeqsOf(ch) \ {f.seq} /\ f.seq \in SeqsOf(ch)
      /\ \A x \in SeqsOf(ch') : f.seq < x
      /\ Increasing(ch')
  BY <1>1, SeqsOfTail DEF OrderInv
<1> HIDE DEF f
<1>4. CASE StartsBlock(f)
  <2>1. OnDisk' = OnDisk \union SeqsOf(block.frames)
    BY <1>4, OnDiskGrows DEF StartsBlock
  <2>2. block'.frames = <<f>>
    BY <1>4 DEF StartsBlock
  <2>3. Increasing(block'.frames) /\ SeqsOf(block'.frames) = {f.seq}
    BY <1>1, <2>2, IncreasingShort
  <2>4. QED
    BY <1>2, <1>3, <2>1, <2>3 DEF OrderInv
<1>5. CASE ContinuesBlock(f)
  <2>1. OnDisk' = OnDisk
    BY <1>5 DEF ContinuesBlock, OnDisk, SeqsOn, AllBlocks
  <2>2. block'.frames = Append(block.frames, f)
    BY <1>1, <1>5, AppendedType DEF ContinuesBlock
  <2>3. SeqsOf(block'.frames) = SeqsOf(block.frames) \union {f.seq}
    BY <1>1, <1>2, <2>2, SeqsOfAppend
  <2>4. Increasing(block'.frames)
    BY <1>1, <1>2, <1>3, <2>2, IncreasingAppend DEF OrderInv
  <2>5. QED
    BY <1>2, <1>3, <2>1, <2>3, <2>4 DEF OrderInv
<1>6. QED
  BY <1>1, <1>4, <1>5

\* Every step of the boat keeps the order.
LEMMA OrderStep ==
  ASSUME ~ReplicaMode, JTypeOK, OrderInv, [JNext]_jvars
  PROVE  OrderInv'
<1>1. /\ ch \in Seq(Frame) /\ block \in OpenBlock /\ block.frames \in Seq(Frame) /\ head \in Int
      /\ OnDisk \subseteq Int /\ SeqsOf(ch) \subseteq Int /\ SeqsOf(block.frames) \subseteq Int
  <2>1. /\ ch \in Seq(Frame) /\ block \in OpenBlock /\ block.frames \in Seq(Frame) /\ head \in Int
    BY DEF JTypeOK, OpenBlock
  <2>2. QED
    BY <2>1, SeqsOfType, OnDiskType, SizesAssumption
<1>2. CASE HandleFrame
  <2>1. head' = head + 1 /\ UNCHANGED <<block, disk>> /\ OnDisk' = OnDisk
    BY <1>2, HandleFrameEffect DEF OnDisk
  <2>2. CASE ch' = ch
    BY <1>1, <2>1, <2>2 DEF OrderInv
  <2>3. CASE \E f \in Frame : f.seq = head /\ ch' = Append(ch, f)
    <3>1. PICK f \in Frame : f.seq = head /\ ch' = Append(ch, f)
      BY <2>3
    <3>2. SeqsOf(ch') = SeqsOf(ch) \union {head}
      BY <1>1, <3>1, SeqsOfAppend
    <3>3. Increasing(ch')
      BY <1>1, <3>1, IncreasingAppend DEF OrderInv
    <3> DEFINE D == OnDisk
               B == SeqsOf(block.frames)
               C == SeqsOf(ch)
    <3>a. /\ D \subseteq Int /\ B \subseteq Int /\ C \subseteq Int /\ head \in Int
          /\ \A x \in D : (\A y \in B : x < y) /\ (\A y \in C : x < y) /\ x < head
          /\ \A x \in B : x < head /\ \A y \in C : x < y
          /\ \A x \in C : x < head
      BY <1>1 DEF OrderInv
    <3> HIDE DEF D, B, C
    <3>b. /\ \A x \in D : x < head + 1
          /\ \A x \in B : x < head + 1
          /\ \A x \in C \union {head} : x < head + 1
      BY <3>a
    <3>4. /\ \A x \in OnDisk : /\ \A y \in SeqsOf(block.frames) : x < y
                               /\ \A y \in SeqsOf(ch') : x < y
                               /\ x < head + 1
          /\ \A x \in SeqsOf(block.frames) : x < head + 1 /\ \A y \in SeqsOf(ch') : x < y
          /\ \A x \in SeqsOf(ch') : x < head + 1
      BY <3>2, <3>a, <3>b DEF D, B, C
    <3>5. Increasing(block.frames)
      BY DEF OrderInv
    <3>6. QED
      BY <2>1, <3>3, <3>4, <3>5 DEF OrderInv
  <2>4. QED
    BY <1>2, <2>2, <2>3, HandleFrameEffect
<1>3. CASE AppendFrame
  BY <1>3, OrderAppendFrame
<1>4. CASE Discard \/ IOFails
  <2>1. /\ UNCHANGED <<head, block, disk>> /\ OnDisk' = OnDisk
        /\ ch' = ch \/ (ch # <<>> /\ ch' = Tail(ch))
    BY <1>4 DEF Discard, IOFails, OnDisk
  <2>2. Increasing(ch') /\ SeqsOf(ch') \subseteq SeqsOf(ch)
    <3>1. Increasing(ch)
      BY DEF OrderInv
    <3>2. CASE ch' = ch
      BY <3>1, <3>2
    <3>3. CASE ch # <<>> /\ ch' = Tail(ch)
      <4>1. /\ SeqsOf(Tail(ch)) = SeqsOf(ch) \ {Head(ch).seq} /\ Increasing(Tail(ch))
        BY <1>1, <3>1, <3>3, SeqsOfTail
      <4>2. QED
        BY <3>3, <4>1
    <3>4. QED
      BY <2>1, <3>2, <3>3
  <2>3. QED
    BY <2>1, <2>2 DEF OrderInv
<1>5. CASE Finalize
  <2>1. UNCHANGED <<head, ch>>
    BY <1>5 DEF Finalize
  <2>2. CASE UNCHANGED <<disk, block>>
    BY <2>1, <2>2 DEF OrderInv, OnDisk
  <2>3. CASE AllBlocks' = AllBlocks \union Flushed(block) /\ block'.frames = <<>>
    <3>1. OnDisk' = OnDisk \union SeqsOf(block.frames)
      BY <2>3, OnDiskGrows
    <3>2. QED
      BY <2>1, <2>3, <3>1, IncreasingShort DEF OrderInv
  <2>4. QED
    BY <1>5, <2>2, <2>3, FinalizeEffect
<1>6. CASE BrokerExit \/ ShutdownStep \/ SetPaused \/ UNCHANGED jvars
  BY <1>6, QuietEffect DEF OrderInv, OnDisk
<1>7. QED
  BY <1>2, <1>3, <1>4, <1>5, <1>6 DEF JNext, Writer
-----------------------------------------------------------------------------
(* Every frame is in one place *)

\* The process lives and the writer has met no error.
Healthy == writer # "failed" /\ broker # "panicked"

\* What is not on disk, in the block or in the channel was counted as dropped,
\* and nothing of what is there was.
Accounted ==
  Healthy =>
    /\ OnDisk \union SeqsOf(block.frames) \union SeqsOf(ch) \union lost = 1..(head - 1)
    /\ lost \cap (OnDisk \union SeqsOf(block.frames) \union SeqsOf(ch)) = {}

\* Every step of the boat keeps the account.
LEMMA AccountedStep ==
  ASSUME ~ReplicaMode, JTypeOK, OrderInv, Accounted, [JNext]_jvars
  PROVE  Accounted'
<1> SUFFICES ASSUME Healthy'
             PROVE  /\ (OnDisk \union SeqsOf(block.frames) \union SeqsOf(ch) \union lost = 1..(head - 1))'
                    /\ (lost \cap (OnDisk \union SeqsOf(block.frames) \union SeqsOf(ch)) = {})'
  BY DEF Accounted
<1>1. /\ ch \in Seq(Frame) /\ block \in OpenBlock /\ block.frames \in Seq(Frame) /\ head \in Int
  BY DEF JTypeOK, OpenBlock
<1>2. CASE HandleFrame
  <2>1. /\ head \in 1..MaxSeq /\ head' = head + 1 /\ UNCHANGED <<block, disk, writer>>
        /\ OnDisk' = OnDisk /\ broker = "running"
    BY <1>2, HandleFrameEffect DEF OnDisk
  <2>2. Healthy /\ broker' # "panicked"
    BY <2>1 DEF Healthy
  <2>3. 1..(head' - 1) = 1..(head - 1) \union {head} /\ head \notin 1..(head - 1)
    BY <2>1, SizesAssumption
  <2>4. CASE \E f \in Frame : f.seq = head /\ ch' = Append(ch, f) /\ UNCHANGED <<broker, lost>>
    <3>1. PICK f \in Frame : f.seq = head /\ ch' = Append(ch, f) /\ UNCHANGED <<broker, lost>>
      BY <2>4
    <3>2. SeqsOf(ch') = SeqsOf(ch) \union {head}
      BY <1>1, <3>1, SeqsOfAppend
    <3> HIDE <1>1
    <3>3. QED
      BY <2>1, <2>2, <2>3, <3>1, <3>2 DEF Accounted
  <2>5. CASE lost' = lost \union {head} /\ UNCHANGED <<ch, broker>>
    BY <2>1, <2>2, <2>3, <2>5 DEF Accounted
  <2>6. QED
    BY <1>2, <2>2, <2>4, <2>5, HandleFrameEffect
<1>3. CASE AppendFrame
  <2> DEFINE f == Head(ch)
  <2>1. /\ ch # <<>> /\ f \in Frame /\ ch' = Tail(ch)
        /\ StartsBlock(f) \/ ContinuesBlock(f)
        /\ UNCHANGED <<head, lost, writer, broker>>
    BY <1>3, AppendFrameEffect DEF AppendFrame
  <2>2. SeqsOf(ch') = SeqsOf(ch) \ {f.seq} /\ f.seq \in SeqsOf(ch)
    BY <1>1, <2>1, SeqsOfTail DEF OrderInv
  <2> HIDE DEF f
  <2>3. Healthy
    BY <2>1 DEF Healthy
  <2>4. (OnDisk \union SeqsOf(block.frames))' = OnDisk \union SeqsOf(block.frames) \union {f.seq}
    <3>1. CASE StartsBlock(f)
      <4>1. OnDisk' = OnDisk \union SeqsOf(block.frames)
        BY <3>1, OnDiskGrows DEF StartsBlock
      <4>2. block'.frames = <<f>>
        BY <3>1 DEF StartsBlock
      <4>3. QED
        BY <2>1, <4>1, <4>2, IncreasingShort
    <3>2. CASE ContinuesBlock(f)
      <4>1. OnDisk' = OnDisk
        BY <3>2 DEF ContinuesBlock, OnDisk, SeqsOn, AllBlocks
      <4>2. block'.frames = Append(block.frames, f)
        BY <1>1, <2>1, <3>2, AppendedType DEF ContinuesBlock
      <4>3. SeqsOf(block'.frames) = SeqsOf(block.frames) \union {f.seq}
        BY <1>1, <2>1, <4>2, SeqsOfAppend
      <4>4. QED
        BY <4>1, <4>3
    <3>3. QED
      BY <2>1, <3>1, <3>2
  <2>5. QED
    BY <2>1, <2>2, <2>3, <2>4 DEF Accounted
<1>4. CASE Discard
  <2>1. /\ UNCHANGED <<head, block, disk, writer, broker>> /\ OnDisk' = OnDisk
        /\ ch # <<>> /\ ch' = Tail(ch) /\ lost' = lost \union {Head(ch).seq}
    BY <1>4 DEF Discard, OnDisk
  <2>2. SeqsOf(ch') = SeqsOf(ch) \ {Head(ch).seq} /\ Head(ch).seq \in SeqsOf(ch)
    BY <1>1, <2>1, SeqsOfTail DEF OrderInv
  <2>3. Head(ch).seq \notin OnDisk \union SeqsOf(block.frames)
    <3>1. OnDisk \subseteq Int /\ SeqsOf(block.frames) \subseteq Int
      BY <1>1, SeqsOfType, OnDiskType, SizesAssumption
    <3> DEFINE n == Head(ch).seq
    <3>2. \A x \in OnDisk \union SeqsOf(block.frames) : x \in Int /\ x < n
      BY <2>2, <3>1 DEF OrderInv
    <3> HIDE DEF n
    <3>3. n \notin OnDisk \union SeqsOf(block.frames)
      BY <3>2
    <3>4. QED
      BY <3>3 DEF n
  <2>4. Healthy
    BY <2>1 DEF Healthy
  <2>5. QED
    BY <2>1, <2>2, <2>3, <2>4 DEF Accounted
<1>5. CASE IOFails
  BY <1>5 DEF IOFails, Healthy
<1>6. CASE Finalize
  <2>1. UNCHANGED <<head, ch, lost, broker>> /\ writer = "running"
    BY <1>6 DEF Finalize, WriterStep
  <2>2. AllBlocks' = AllBlocks \union Flushed(block) /\ block'.frames = <<>>
    BY <1>6, FinalizeEffect DEF Healthy
  <2>3. OnDisk' = OnDisk \union SeqsOf(block.frames) /\ SeqsOf(block'.frames) = {}
    BY <2>2, OnDiskGrows, IncreasingShort
  <2>4. Healthy
    BY <2>1 DEF Healthy
  <2>5. QED
    BY <2>1, <2>3, <2>4 DEF Accounted
<1>7. CASE BrokerExit \/ ShutdownStep \/ SetPaused \/ UNCHANGED jvars
  BY <1>7, QuietEffect DEF Accounted, Healthy, OnDisk
<1>8. QED
  BY <1>2, <1>3, <1>4, <1>5, <1>6, <1>7 DEF JNext, Writer

\* The order and the account together put every frame in exactly one place.
LEMMA AccountedMeans ==
  ASSUME JTypeOK, OrderInv, Accounted
  PROVE  EveryFrameAccounted
<1> SUFFICES ASSUME Healthy
             PROVE  LET places == <<OnDisk, SeqsOf(block.frames), SeqsOf(ch), lost>> IN
                      /\ UNION {places[i] : i \in 1..4} = 1..(head - 1)
                      /\ \A i, j \in 1..4 : i # j => places[i] \cap places[j] = {}
  BY DEF EveryFrameAccounted, Healthy
<1> DEFINE D == OnDisk
           B == SeqsOf(block.frames)
           C == SeqsOf(ch)
           places == <<D, B, C, lost>>
<1>1. D \union B \union C \union lost = 1..(head - 1) /\ lost \cap (D \union B \union C) = {}
  BY DEF Accounted
<1>2. D \cap B = {} /\ D \cap C = {} /\ B \cap C = {}
  <2>1. block.frames \in Seq(Frame) /\ ch \in Seq(Frame)
    BY DEF JTypeOK, OpenBlock
  <2>2. D \subseteq Int /\ B \subseteq Int /\ C \subseteq Int
    BY <2>1, SeqsOfType, OnDiskType, SizesAssumption
  <2>3. QED
    BY <2>2 DEF OrderInv
<1> HIDE DEF D, B, C
<1>3. places[1] = D /\ places[2] = B /\ places[3] = C /\ places[4] = lost
  OBVIOUS
<1> HIDE DEF places
<1>4. 1..4 = {1, 2, 3, 4}
  OBVIOUS
<1>5. UNION {places[i] : i \in 1..4} = D \union B \union C \union lost
  BY <1>3, <1>4
<1>6. \A i, j \in 1..4 : i # j => places[i] \cap places[j] = {}
  BY <1>1, <1>2, <1>3, <1>4
<1>7. QED
  BY <1>1, <1>5, <1>6 DEF places, D, B, C

\* In an empty boat all frames are in order and accounted for.
LEMMA BoatInit == JInit => OrderInv /\ Accounted
<1> SUFFICES ASSUME JInit PROVE OrderInv /\ Accounted
  OBVIOUS
<1>1. head = 1 /\ ch = <<>> /\ block.frames = <<>> /\ disk = <<>> /\ lost = {}
  BY DEF JInit, EmptyBlock
<1>2. OnDisk = {}
  BY <1>1 DEF OnDisk, SeqsOn, BlocksOf
<1>3. 1..(head - 1) = {}
  BY <1>1
<1>4. QED
  BY <1>1, <1>2, <1>3, IncreasingShort DEF OrderInv, Accounted

\* On the boat every numbered frame is on disk, in the block, in the channel or
\* counted as dropped, and in one of them only, for every interleaving of
\* broker, writer, pauses, rotations and shutdown.
THEOREM EveryFrameIsSomewhere ==
  ASSUME ~ReplicaMode
  PROVE  JSpec => []EveryFrameAccounted
<1>1. JInit => OrderInv /\ Accounted
  BY BoatInit
<1>2. JTypeOK /\ OrderInv /\ Accounted /\ [JNext]_jvars => (OrderInv /\ Accounted)'
  BY OrderStep, AccountedStep
<1>3. JTypeOK /\ OrderInv /\ Accounted => EveryFrameAccounted
  BY AccountedMeans
<1>4. QED
  BY <1>1, <1>2, <1>3, JTypeCorrect, PTL DEF JSpec
-----------------------------------------------------------------------------
(* A label is off by exactly the frames dropped *)

\* The frames dropped between the base and number x.
DroppedIn(base, x) == {s \in lost : base < s /\ s < x}

\* The label a reader gives frame i of block b, corrected by the drops.
Drifts(b) ==
  \A i \in DOMAIN b.frames :
    b.frames[i].seq = b.base + (i - 1) + Cardinality(DroppedIn(b.base, b.frames[i].seq))

\* The label is right up to the drops in every block, the one in memory included.
DriftInv == Drifts(block) /\ \A b \in AllBlocks : Drifts(b)

\* A frame dropped after number x does not move the labels up to x.
LEMMA LaterDrops ==
  ASSUME NEW b, NEW n \in Int, lost' = lost \union {n}, Drifts(b),
         SeqsOf(b.frames) \subseteq Int, \A x \in SeqsOf(b.frames) : x < n
  PROVE  Drifts(b)'
<1> SUFFICES ASSUME NEW i \in DOMAIN b.frames
             PROVE  b.frames[i].seq =
                      b.base + (i - 1) + Cardinality(DroppedIn(b.base, b.frames[i].seq)')
  BY DEF Drifts
<1> DEFINE x == b.frames[i].seq
<1>1. x \in SeqsOf(b.frames)
  BY DEF SeqsOf
<1>2. x \in Int /\ x < n
  BY <1>1
<1>3. DroppedIn(b.base, x)' = DroppedIn(b.base, x)
  <2> HIDE DEF x
  <2> QED
    BY <1>2 DEF DroppedIn
<1>4. QED
  BY <1>3 DEF Drifts

\* The frame after the block's last one is ahead of it by the drops between them.
LEMMA NextDrift ==
  ASSUME NEW base \in Nat, NEW last \in Nat, NEW next \in Nat, NEW n \in Nat,
         base <= last, last < next, lost \subseteq 0..MaxSeq, last \notin lost,
         (last + 1)..(next - 1) \subseteq lost,
         last = base + n + Cardinality(DroppedIn(base, last))
  PROVE  next = base + (n + 1) + Cardinality(DroppedIn(base, next))
<1> DEFINE A == DroppedIn(base, last)
           G == (last + 1)..(next - 1)
<1>a. \A s \in lost : s \in Nat /\ s \in 0..MaxSeq
  BY SizesAssumption
<1>b. \A s : s \in A <=> s \in lost /\ base < s /\ s < last
  BY DEF DroppedIn
<1>c. \A s : s \in G <=> s \in Int /\ last < s /\ s < next
  OBVIOUS
<1>d. \A s : s \in DroppedIn(base, next) <=> s \in lost /\ base < s /\ s < next
  BY DEF DroppedIn
<1>e. G \subseteq lost
  OBVIOUS
<1> HIDE DEF A, G
<1>1. DroppedIn(base, next) = A \union G
  <2>1. ASSUME NEW s \in DroppedIn(base, next) PROVE s \in A \union G
    <3>a. s \in lost /\ base < s /\ s < next
      BY <1>d, Zenon
    <3>1. s \in lost /\ s \in Int /\ base < s /\ s < next /\ s # last
      BY <1>a, <3>a
    <3>2. CASE s < last
      BY <1>b, <3>1, <3>2
    <3>3. CASE last < s
      BY <1>c, <3>1, <3>3
    <3>4. QED
      BY <3>1, <3>2, <3>3
  <2>2. ASSUME NEW s \in A PROVE s \in DroppedIn(base, next)
    <3>a. s \in lost /\ base < s /\ s < last
      BY <1>b, Zenon
    <3>1. s \in lost /\ s \in Int /\ base < s /\ s < last
      BY <1>a, <3>a
    <3>2. QED
      BY <1>d, <3>1
  <2>3. ASSUME NEW s \in G PROVE s \in DroppedIn(base, next)
    <3>1. s \in lost /\ s \in Int /\ last < s /\ s < next
      BY <1>c, <1>e
    <3>2. QED
      BY <1>d, <3>1
  <2>4. QED
    BY <2>1, <2>2, <2>3
<1>2. A \cap G = {}
  BY <1>a, <1>b, <1>c
<1>3. IsFiniteSet(G) /\ Cardinality(G) = next - last - 1
  BY FS_Interval DEF G
<1>4. IsFiniteSet(A) /\ Cardinality(A) \in Nat
  <2>1. A \subseteq 0..MaxSeq
    BY <1>a, <1>b
  <2>2. IsFiniteSet(0..MaxSeq)
    BY SizesAssumption, FS_Interval
  <2>3. IsFiniteSet(A)
    BY <2>1, <2>2, FS_Subset
  <2>4. QED
    BY <2>3, FS_CardinalityType
<1>5. Cardinality(A \union G) = Cardinality(A) + Cardinality(G)
  <2>1. Cardinality(A \cap G) = 0
    BY <1>2, FS_EmptySet
  <2>2. Cardinality(A \union G) = Cardinality(A) + Cardinality(G) - Cardinality(A \cap G)
    BY <1>3, <1>4, FS_Union
  <2>3. QED
    BY <1>3, <1>4, <2>1, <2>2
<1>6. QED
  BY <1>1, <1>3, <1>4, <1>5 DEF A

\* The labels of a block depend on its base, its frames and the drops only.
LEMMA WrittenDrifts ==
  ASSUME NEW b, Drifts(b)
  PROVE  Drifts(Written(b))
BY DEF Drifts, Written

\* A block of one frame is labelled with that frame's number.
LEMMA FirstFrameDrift ==
  ASSUME NEW f \in Frame, NEW b, b.base = f.seq, b.frames = <<f>>, lost \subseteq 0..MaxSeq
  PROVE  Drifts(b)
<1>1. DOMAIN b.frames = {1} /\ b.frames[1] = f /\ f.seq \in Int
  BY SizesAssumption DEF Frame
<1>2. DroppedIn(b.base, f.seq) = {}
  <2>1. \A s \in lost : s \in Int
    BY SizesAssumption
  <2>2. \A s \in lost : ~(f.seq < s /\ s < f.seq)
    BY <1>1, <2>1
  <2>3. QED
    BY <2>2 DEF DroppedIn
<1>3. Cardinality(DroppedIn(b.base, f.seq)) = 0
  BY <1>2, FS_EmptySet
<1>4. f.seq = b.base + (1 - 1) + 0
  BY <1>1
<1>5. QED
  BY <1>1, <1>3, <1>4 DEF Drifts

\* appendFrame keeps the labels right up to the drops.
LEMMA DriftAppendFrame ==
  ASSUME JTypeOK, OrderInv, Accounted, DriftInv, AppendFrame
  PROVE  DriftInv'
<1> DEFINE f == Head(ch)
<1>1. /\ ch \in Seq(Frame) /\ ch # <<>> /\ f \in Frame /\ block \in OpenBlock
      /\ StartsBlock(f) \/ ContinuesBlock(f)
      /\ lost' = lost /\ lost \subseteq 0..MaxSeq
  BY AppendFrameEffect DEF AppendFrame, JTypeOK
<1>2. f.seq \in SeqsOf(ch) /\ \A x \in SeqsOf(ch) : x = f.seq \/ f.seq < x
  <2>1. /\ SeqsOf(Tail(ch)) = SeqsOf(ch) \ {f.seq} /\ f.seq \in SeqsOf(ch)
        /\ \A x \in SeqsOf(Tail(ch)) : f.seq < x
    BY <1>1, SeqsOfTail DEF OrderInv
  <2>2. QED
    BY <2>1
<1> HIDE DEF f
<1>3. \A b : Drifts(b)' <=> Drifts(b)
  BY <1>1 DEF Drifts, DroppedIn
<1>4. CASE StartsBlock(f)
  <2>1. \A b \in AllBlocks' : Drifts(b)
    BY <1>4, WrittenDrifts DEF StartsBlock, DriftInv, Flushed
  <2>2. block'.base = f.seq /\ block'.frames = <<f>>
    BY <1>4 DEF StartsBlock
  <2>3. lost' \subseteq 0..MaxSeq
    BY <1>1
  <2>4. \A b : b.base = f.seq /\ b.frames = <<f>> => Drifts(b)
    BY <1>1, FirstFrameDrift
  <2>5. \A b : b.base = f.seq /\ b.frames = <<f>> => Drifts(b)'
    BY <1>3, <2>4
  <2>6. Drifts(block)'
    BY <2>2, <2>5 DEF Drifts, DroppedIn
  <2>7. QED
    BY <1>3, <2>1, <2>6 DEF DriftInv
<1>5. CASE ContinuesBlock(f)
  <2> DEFINE n == Len(block.frames)
             last == block.frames[n]
  <2>1. /\ block.frames \in Seq(Frame) /\ block.frames # <<>> /\ block.base \in Nat
        /\ AllBlocks' = AllBlocks
    BY <1>1, <1>5 DEF ContinuesBlock, OpenBlock
  <2>2. /\ n \in Nat /\ n >= 1 /\ n \in DOMAIN block.frames /\ DOMAIN block.frames = 1..n
        /\ last \in Frame
    BY <2>1
  <2>3. /\ block'.frames = Append(block.frames, f) /\ block'.base = block.base
    BY <1>1, <1>5, AppendedType DEF ContinuesBlock, Appended, OpenBlock
  <2>4. /\ DOMAIN block'.frames = 1..(n + 1) /\ block'.frames[n + 1] = f
        /\ \A i \in 1..n : block'.frames[i] = block.frames[i]
    BY <1>1, <2>1, <2>3
  <2> HIDE DEF n
  <2>5. last.seq \in SeqsOf(block.frames) /\ last.seq \in Nat /\ f.seq \in Nat
    BY <1>1, <2>2, SizesAssumption DEF SeqsOf, Frame
  <2>6. last.seq < f.seq
    BY <1>2, <2>5 DEF OrderInv
  <2>7. last.seq = block.base + (n - 1) + Cardinality(DroppedIn(block.base, last.seq))
    BY <2>2 DEF DriftInv, Drifts
  <2>8. Cardinality(DroppedIn(block.base, last.seq)) \in Nat
    <3>1. DroppedIn(block.base, last.seq) \subseteq 0..MaxSeq
      BY <1>1 DEF DroppedIn
    <3>2. IsFiniteSet(0..MaxSeq)
      BY SizesAssumption, FS_Interval
    <3>3. QED
      BY <3>1, <3>2, FS_Subset, FS_CardinalityType
  <2>9. block.base <= last.seq
    BY <2>1, <2>2, <2>5, <2>7, <2>8
  <2>10. Healthy
    BY DEF AppendFrame, WriterStep, Healthy
  <2>11. last.seq \notin lost
    BY <2>5, <2>10 DEF Accounted
  <2>12. (last.seq + 1)..(f.seq - 1) \subseteq lost
    <3> SUFFICES ASSUME NEW s \in (last.seq + 1)..(f.seq - 1), s \notin lost PROVE FALSE
      OBVIOUS
    <3>1. s \in Nat /\ last.seq < s /\ s < f.seq /\ 1 <= s
      BY <2>5
    <3>2. f.seq < head /\ head \in Int
      BY <1>2 DEF OrderInv, JTypeOK
    <3>3. s \in 1..(head - 1)
      BY <2>5, <3>1, <3>2
    <3>4. s \in OnDisk \union SeqsOf(block.frames) \union SeqsOf(ch)
      BY <2>10, <3>3 DEF Accounted
    <3>5. s \notin OnDisk
      <4>1. \A x \in OnDisk : x < last.seq
        BY <2>5 DEF OrderInv
      <4>2. s \in OnDisk => s < last.seq
        BY <4>1
      <4>3. QED
        BY <2>5, <3>1, <4>2
    <3>6. s \notin SeqsOf(block.frames)
      <4> SUFFICES ASSUME NEW i \in DOMAIN block.frames, s = block.frames[i].seq PROVE FALSE
        BY DEF SeqsOf
      <4>1. i = n \/ i < n
        BY <2>2
      <4>2. i < n => s < last.seq
        BY <2>2 DEF OrderInv, Increasing
      <4>3. QED
        BY <2>5, <3>1, <4>1, <4>2
    <3>7. s \notin SeqsOf(ch)
      <4>1. s \in SeqsOf(ch) => s = f.seq \/ f.seq < s
        BY <1>2
      <4>2. QED
        BY <2>5, <3>1, <4>1
    <3>8. QED
      BY <3>4, <3>5, <3>6, <3>7
  <2>13. f.seq = block.base + ((n - 1) + 1) + Cardinality(DroppedIn(block.base, f.seq))
    <3>1. n - 1 \in Nat
      BY <2>2
    <3> HIDE DEF last
    <3>2. QED
      BY <1>1, <2>1, <2>5, <2>6, <2>7, <2>9, <2>11, <2>12, <3>1, NextDrift
  <2>14. f.seq = block.base + ((n + 1) - 1) + Cardinality(DroppedIn(block.base, f.seq))
    <3>1. (n - 1) + 1 = (n + 1) - 1
      BY <2>2
    <3>2. QED
      BY <2>13, <3>1
  <2>15. ASSUME NEW i \in DOMAIN block'.frames
         PROVE  block'.frames[i].seq =
                  block'.base + (i - 1) + Cardinality(DroppedIn(block'.base, block'.frames[i].seq))
    <3>1. CASE i = n + 1
      BY <2>3, <2>4, <2>14, <3>1
    <3>2. CASE i # n + 1
      <4>1. i \in 1..n /\ block'.frames[i] = block.frames[i]
        BY <2>2, <2>4, <3>2
      <4>2. block.frames[i].seq =
              block.base + (i - 1) + Cardinality(DroppedIn(block.base, block.frames[i].seq))
        BY <2>2, <4>1 DEF DriftInv, Drifts
      <4>3. QED
        BY <2>3, <4>1, <4>2
    <3>3. QED
      BY <3>1, <3>2
  <2>16. Drifts(block)'
    BY <1>1, <2>15 DEF Drifts, DroppedIn
  <2>17. QED
    BY <1>3, <2>1, <2>16 DEF DriftInv
<1>6. QED
  BY <1>1, <1>4, <1>5

\* Every step of the boat keeps the labels right up to the drops.
LEMMA DriftStep ==
  ASSUME ~ReplicaMode, JTypeOK, OrderInv, Accounted, DriftInv, [JNext]_jvars
  PROVE  DriftInv'
<1>1. /\ ch \in Seq(Frame) /\ block \in OpenBlock /\ block.frames \in Seq(Frame) /\ head \in Int
  BY DEF JTypeOK, OpenBlock
<1>2. /\ SeqsOf(block.frames) \subseteq Int
      /\ \A b \in AllBlocks : SeqsOf(b.frames) \subseteq Int /\ SeqsOf(b.frames) \subseteq OnDisk
  <2>1. ASSUME NEW b \in AllBlocks PROVE SeqsOf(b.frames) \subseteq OnDisk
    BY DEF OnDisk, SeqsOn, AllBlocks
  <2>2. OnDisk \subseteq Int
    BY OnDiskType, SizesAssumption
  <2>3. SeqsOf(block.frames) \subseteq Int
    BY <1>1, SeqsOfType, SizesAssumption
  <2>4. QED
    BY <2>1, <2>2, <2>3
<1>3. ASSUME lost' = lost, block' = block, disk' = disk PROVE DriftInv'
  BY <1>3 DEF DriftInv, Drifts, DroppedIn, AllBlocks
<1>4. ASSUME NEW n \in Int, lost' = lost \union {n}, block' = block, disk' = disk,
             \A x \in SeqsOf(block.frames) : x < n, \A x \in OnDisk : x < n
      PROVE  DriftInv'
  <2>1. AllBlocks' = AllBlocks
    BY <1>4 DEF AllBlocks
  <2>2. \A b \in AllBlocks : Drifts(b)'
    <3> TAKE b \in AllBlocks
    <3>1. Drifts(b) /\ SeqsOf(b.frames) \subseteq Int /\ \A x \in SeqsOf(b.frames) : x < n
      BY <1>2, <1>4 DEF DriftInv
    <3>2. QED
      BY <1>4, <3>1, LaterDrops
  <2>3. \A b : b = block => Drifts(b)'
    <3> TAKE b
    <3> HAVE b = block
    <3>1. Drifts(b) /\ SeqsOf(b.frames) \subseteq Int /\ \A x \in SeqsOf(b.frames) : x < n
      BY <1>2, <1>4 DEF DriftInv
    <3>2. QED
      BY <1>4, <3>1, LaterDrops
  <2>4. Drifts(block)'
    BY <1>4, <2>3 DEF Drifts, DroppedIn
  <2>5. QED
    BY <2>1, <2>2, <2>4 DEF DriftInv
<1>5. CASE HandleFrame
  <2>1. UNCHANGED <<block, disk>> /\ (lost' = lost \/ lost' = lost \union {head})
    BY <1>5, HandleFrameEffect
  <2>2. QED
    BY <1>1, <1>3, <1>4, <2>1 DEF OrderInv
<1>6. CASE AppendFrame
  BY <1>6, DriftAppendFrame
<1>7. CASE Discard
  <2>1. UNCHANGED <<block, disk>> /\ ch # <<>> /\ lost' = lost \union {Head(ch).seq}
    BY <1>7 DEF Discard
  <2>2. Head(ch).seq \in SeqsOf(ch) /\ Head(ch).seq \in Int
    BY <1>1, <2>1, SeqsOfTail, SeqsOfType, SizesAssumption DEF OrderInv
  <2>3. QED
    BY <1>4, <2>1, <2>2 DEF OrderInv
<1>8. CASE IOFails
  BY <1>3, <1>8 DEF IOFails
<1>9. CASE Finalize
  <2>1. lost' = lost
    BY <1>9 DEF Finalize
  <2>2. CASE UNCHANGED <<disk, block>>
    BY <1>3, <2>1, <2>2
  <2>3. CASE AllBlocks' = AllBlocks \union Flushed(block) /\ block'.frames = <<>>
    <3>1. \A b : Drifts(b)' <=> Drifts(b)
      BY <2>1 DEF Drifts, DroppedIn
    <3>2. \A b \in AllBlocks' : Drifts(b)
      BY <2>3, WrittenDrifts DEF DriftInv, Flushed
    <3>3. DOMAIN block'.frames = {}
      BY <2>3
    <3>4. Drifts(block)'
      BY <3>3 DEF Drifts
    <3>5. QED
      BY <3>1, <3>2, <3>4 DEF DriftInv
  <2>4. QED
    BY <1>9, <2>2, <2>3, FinalizeEffect
<1>10. CASE BrokerExit \/ ShutdownStep \/ SetPaused \/ UNCHANGED jvars
  BY <1>3, <1>10, QuietEffect
<1>11. QED
  BY <1>5, <1>6, <1>7, <1>8, <1>9, <1>10 DEF JNext, Writer

\* On the boat the label FrameSeq gives a frame is behind its number by exactly
\* the frames dropped since its block was begun, whatever was dropped when.
THEOREM LabelsDriftByLoss ==
  ASSUME ~ReplicaMode
  PROVE  JSpec => []DriftIsLoss
<1>1. JInit => OrderInv /\ Accounted /\ DriftInv
  <2> SUFFICES ASSUME JInit PROVE OrderInv /\ Accounted /\ DriftInv
    OBVIOUS
  <2>1. OrderInv /\ Accounted
    BY BoatInit
  <2>2. block.frames = <<>> /\ disk = <<>>
    BY DEF JInit, EmptyBlock
  <2>3. AllBlocks = {} /\ DOMAIN block.frames = {}
    BY <2>2 DEF AllBlocks, BlocksOf
  <2>4. QED
    BY <2>1, <2>3 DEF DriftInv, Drifts
<1>2. JTypeOK /\ OrderInv /\ Accounted /\ DriftInv /\ [JNext]_jvars => (OrderInv /\ Accounted /\ DriftInv)'
  BY OrderStep, AccountedStep, DriftStep
<1>3. DriftInv => DriftIsLoss
  BY DEF DriftInv, Drifts, DroppedIn, DriftIsLoss
<1>4. QED
  BY <1>1, <1>2, <1>3, JTypeCorrect, PTL DEF JSpec
-----------------------------------------------------------------------------
(* The space appendFrame reserves for the device table *)

\* A frame that is no claim needs no entry of its own.
LEMMA NoClaimNoEntry ==
  ASSUME NEW s \in Seq(Frame), NEW f \in Frame, ~f.claim
  PROVE  ClaimsIn(Append(s, f)) = ClaimsIn(s)
<1> DEFINE t == Append(s, f)
<1>1. /\ DOMAIN t = 1..(Len(s) + 1) /\ DOMAIN s = 1..Len(s) /\ Len(s) \in Nat
      /\ t[Len(s) + 1] = f /\ \A i \in 1..Len(s) : t[i] = s[i]
  OBVIOUS
<1> HIDE DEF t
<1>2. {i \in DOMAIN t : t[i].claim} = {i \in DOMAIN s : s[i].claim}
  <2>1. ASSUME NEW i \in DOMAIN t, t[i].claim PROVE i \in DOMAIN s /\ s[i].claim
    <3>1. i # Len(s) + 1
      BY <1>1, <2>1
    <3>2. QED
      BY <1>1, <2>1, <3>1
  <2>2. ASSUME NEW i \in DOMAIN s, s[i].claim PROVE i \in DOMAIN t /\ t[i].claim
    BY <1>1, <2>2
  <2>3. QED
    BY <2>1, <2>2
<1>3. QED
  BY <1>2 DEF ClaimsIn, t

\* A block is readable: its last frame is a claim, or frames and table fit.
TableFits(b) ==
  b.frames = <<>> \/ b.frames[Len(b.frames)].claim \/ Len(b.frames) <= BlockSpace - DeviceTableSize(b)

\* Every block on disk has frames and is readable, and so is the one in memory.
ReservationInv ==
  /\ TableFits(block)
  /\ \A b \in AllBlocks : b.frames # <<>> /\ (b.frames[Len(b.frames)].claim \/ Len(b.frames) <= b.limit)

\* A flush writes a readable block.
LEMMA FlushReadable ==
  ASSUME ReservationInv, AllBlocks' = AllBlocks \union Flushed(block)
  PROVE  \A b \in AllBlocks' :
           b.frames # <<>> /\ (b.frames[Len(b.frames)].claim \/ Len(b.frames) <= b.limit)
<1>1. CASE block.frames = <<>>
  BY <1>1 DEF ReservationInv, Flushed
<1>2. CASE block.frames # <<>>
  <2> DEFINE w == Written(block)
  <2>1. w.frames = block.frames /\ w.limit = BlockSpace - DeviceTableSize(block)
    BY DEF Written
  <2>2. w.frames # <<>> /\ (w.frames[Len(w.frames)].claim \/ Len(w.frames) <= w.limit)
    BY <1>2, <2>1 DEF ReservationInv, TableFits
  <2> HIDE DEF w
  <2>3. AllBlocks' = AllBlocks \union {w}
    BY <1>2 DEF Flushed, w
  <2>4. QED
    BY <2>2, <2>3 DEF ReservationInv
<1>3. QED
  BY <1>1, <1>2

\* A block that leaves no room for its first frame beside the table of all
\* devices the registry can hold would be unreadable from the start.
TableLeavesRoom == MaxDevices * EntrySize < BlockSpace

\* appendFrame keeps every block readable.
LEMMA ReservationAppendFrame ==
  ASSUME TableLeavesRoom, JTypeOK, ReservationInv, AppendFrame
  PROVE  ReservationInv'
<1> DEFINE f == Head(ch)
<1>1. f \in Frame /\ block \in OpenBlock /\ (StartsBlock(f) \/ ContinuesBlock(f))
  BY AppendFrameEffect
<1> HIDE DEF f
<1>2. CASE StartsBlock(f)
  <2> DEFINE b == [base |-> f.seq, frames |-> <<f>>, startTable |-> devices * EntrySize]
  <2>1. block' = b /\ AllBlocks' = AllBlocks \union Flushed(block)
    BY <1>2 DEF StartsBlock
  <2>2. Len(b.frames) = 1 /\ b.frames[1] = f /\ b.frames = Append(<<>>, f) /\ <<>> \in Seq(Frame)
    BY <1>1
  <2>3. ~f.claim => ClaimsIn(b.frames) = 0
    <3>1. ClaimsIn(<<>>) = 0
      <4>1. {i \in DOMAIN <<>> : <<>>[i].claim} = {}
        OBVIOUS
      <4>2. QED
        BY <4>1, FS_EmptySet DEF ClaimsIn
    <3>2. ~f.claim => ClaimsIn(Append(<<>>, f)) = ClaimsIn(<<>>)
      BY <1>1, <2>2, NoClaimNoEntry
    <3>3. QED
      BY <2>2, <3>1, <3>2
  <2>4. devices * EntrySize <= MaxDevices * EntrySize /\ devices * EntrySize \in Nat
        /\ MaxDevices * EntrySize \in Nat
    BY SizesAssumption DEF JTypeOK
  <2>5. ~f.claim => DeviceTableSize(b) = devices * EntrySize
    BY <2>3, <2>4, SizesAssumption DEF DeviceTableSize
  <2>6. TableFits(b)
    <3> HIDE DEF b
    <3>1. CASE f.claim
      BY <2>2, <3>1 DEF TableFits
    <3>2. CASE ~f.claim
      <4>1. DeviceTableSize(b) < BlockSpace /\ DeviceTableSize(b) \in Nat
        BY <2>4, <2>5, <3>2, SizesAssumption DEF TableLeavesRoom
      <4>2. 1 <= BlockSpace - DeviceTableSize(b)
        BY <4>1, SizesAssumption
      <4>3. QED
        BY <2>2, <4>2 DEF TableFits
    <3>3. QED
      BY <3>1, <3>2
  <2>7. QED
    BY <2>1, <2>6, FlushReadable DEF ReservationInv, TableFits, DeviceTableSize
<1>3. CASE ContinuesBlock(f)
  <2>1. /\ block' = Appended(block, f) /\ AllBlocks' = AllBlocks /\ Available(block) >= 1
        /\ block.frames \in Seq(Frame)
    BY <1>1, <1>3 DEF ContinuesBlock, OpenBlock
  <2>2. /\ block'.frames = Append(block.frames, f) /\ block'.startTable = block.startTable
    BY <1>1, <2>1 DEF Appended, OpenBlock
  <2>3. Len(block'.frames) = Len(block.frames) + 1 /\ block'.frames[Len(block'.frames)] = f
        /\ Len(block.frames) \in Nat
    BY <1>1, <2>1, <2>2
  <2>4. TableFits(block)'
    <3>1. CASE f.claim
      BY <2>3, <3>1 DEF TableFits
    <3>2. CASE ~f.claim
      <4>1. ClaimsIn(block'.frames) = ClaimsIn(block.frames)
        BY <1>1, <2>1, <2>2, <3>2, NoClaimNoEntry
      <4>2. DeviceTableSize(block)' = DeviceTableSize(block)
        BY <2>2, <4>1 DEF DeviceTableSize
      <4>3. DeviceTableSize(block) \in Nat
        BY <1>1, TableSizeNat
      <4>4. Len(block'.frames) <= BlockSpace - DeviceTableSize(block)
        BY <2>1, <2>3, <4>3, SizesAssumption DEF Available
      <4>5. QED
        BY <4>2, <4>4 DEF TableFits
    <3>3. QED
      BY <3>1, <3>2
  <2>5. QED
    BY <2>1, <2>4 DEF ReservationInv
<1>4. QED
  BY <1>1, <1>2, <1>3

\* The space reserved for the device table is enough in every block written,
\* whenever claims arrive, unless the block's last frame is itself a claim.
THEOREM ReservationSuffices ==
  ASSUME TableLeavesRoom
  PROVE  JSpec => []ReservationHolds
<1>1. JInit => ReservationInv
  <2> SUFFICES ASSUME JInit PROVE ReservationInv
    OBVIOUS
  <2>1. block.frames = <<>> /\ disk = <<>>
    BY DEF JInit, EmptyBlock
  <2>2. AllBlocks = {}
    BY <2>1 DEF AllBlocks, BlocksOf
  <2>3. QED
    BY <2>1, <2>2 DEF ReservationInv, TableFits
<1>2. JTypeOK /\ ReservationInv /\ [JNext]_jvars => ReservationInv'
  <2> SUFFICES ASSUME JTypeOK, ReservationInv, [JNext]_jvars PROVE ReservationInv'
    OBVIOUS
  <2>1. CASE AppendFrame
    BY <2>1, ReservationAppendFrame
  <2>2. ASSUME UNCHANGED <<block, disk>> PROVE ReservationInv'
    BY <2>2 DEF ReservationInv, TableFits, AllBlocks, DeviceTableSize
  <2>3. CASE Finalize
    <3>1. CASE AllBlocks' = AllBlocks \union Flushed(block) /\ block'.frames = <<>>
      BY <3>1, FlushReadable DEF ReservationInv, TableFits
    <3>2. QED
      BY <2>2, <2>3, <3>1, FinalizeEffect
  <2>4. CASE HandleFrame \/ BrokerExit \/ ShutdownStep \/ SetPaused \/ Discard \/ IOFails \/ UNCHANGED jvars
    BY <2>2, <2>4
    DEF HandleFrame, HandleFrameAs, BrokerExit, ShutdownStep, SetPaused, Discard, IOFails, jvars
  <2>5. QED
    BY <2>1, <2>3, <2>4 DEF JNext, Writer
<1>3. ReservationInv => ReservationHolds
  BY DEF ReservationInv, ReservationHolds
<1>4. QED
  BY <1>1, <1>2, <1>3, JTypeCorrect, PTL DEF JSpec
-----------------------------------------------------------------------------
(* Shutdown between two files *)

\* On boat and cloud, a shutdown between a rotation and the next frame loses the
\* one frame in memory and never more.
THEOREM RotationLosesAtMostOne == JSpec => []FinalizeLosesAtMostOne
<1> USE DEF FinalizeLosesAtMostOne
<1>1. JInit => FinalizeLosesAtMostOne
  BY DEF JInit, EmptyBlock
<1>2. JTypeOK /\ FinalizeLosesAtMostOne /\ [JNext]_jvars => FinalizeLosesAtMostOne'
  <2> SUFFICES ASSUME JTypeOK, FinalizeLosesAtMostOne, [JNext]_jvars PROVE FinalizeLosesAtMostOne'
    OBVIOUS
  <2>1. CASE AppendFrame
    <3> DEFINE f == Head(ch)
    <3>1. f \in Frame /\ writer' = "running"
      BY <2>1, AppendFrameEffect DEF AppendFrame, WriterStep
    <3>2. OpenIndex # 0
      BY OpenDiskType DEF JTypeOK
    <3> HIDE DEF f
    <3>3. CASE block' = Appended(InitBlock(f), f)
      <4>1. devices \in Nat
        BY SizesAssumption DEF JTypeOK
      <4>2. InitBlock(f) \in OpenBlock /\ InitBlock(f).frames = <<>>
        BY <3>1, <4>1, InitBlockType
      <4>3. block'.frames = Append(<<>>, f)
        BY <3>1, <3>3, <4>2, AppendedType
      <4>4. Len(block'.frames) = 1
        BY <3>1, <4>3
      <4>5. QED
        BY <4>4
    <3>4. CASE file' = OpenIndex
      BY <3>1, <3>2, <3>4
    <3>5. QED
      BY <2>1, <3>3, <3>4 DEF AppendFrame, f
  <2>2. CASE Finalize
    <3>1. CASE writer' = "failed" /\ block.frames # <<>> /\ file = 0 /\ UNCHANGED <<file, block>>
      BY <3>1
    <3>2. CASE writer' = "stopped" /\ block'.frames = <<>>
      BY <3>2
    <3>3. QED
      BY <2>2, <3>1, <3>2, FinalizeEffect
  <2>3. CASE IOFails
    BY <2>3 DEF IOFails
  <2>4. CASE HandleFrame
    BY <2>4 DEF HandleFrame, HandleFrameAs
  <2>5. CASE BrokerExit \/ ShutdownStep \/ SetPaused \/ Discard \/ UNCHANGED jvars
    BY <2>5 DEF BrokerExit, ShutdownStep, SetPaused, Discard, jvars
  <2>6. QED
    BY <2>1, <2>2, <2>3, <2>4, <2>5 DEF JNext, Writer
<1>3. QED
  BY <1>1, <1>2, JTypeCorrect, PTL DEF JSpec
-----------------------------------------------------------------------------
(* What a reader of the directory may rely on *)

\* flushBlock writes no block without frames.
NoEmptyBlock == \A b \in AllBlocks : b.frames # <<>>

\* Every block in the directory has frames, on boat and cloud.
LEMMA BlocksHaveFrames == JSpec => []NoEmptyBlock
<1>1. JInit => NoEmptyBlock
  <2>1. JInit => AllBlocks = {}
    BY DEF JInit, AllBlocks, BlocksOf
  <2>2. QED
    BY <2>1 DEF NoEmptyBlock
<1>2. JTypeOK /\ NoEmptyBlock /\ [JNext]_jvars => NoEmptyBlock'
  <2> SUFFICES ASSUME JTypeOK, NoEmptyBlock, [JNext]_jvars PROVE NoEmptyBlock'
    OBVIOUS
  <2>1. \A b \in Flushed(block) : b.frames # <<>>
    BY DEF Flushed, Written
  <2>2. CASE AppendFrame
    BY <2>1, <2>2, AppendFrameEffect DEF NoEmptyBlock, StartsBlock, ContinuesBlock
  <2>3. CASE Finalize
    BY <2>1, <2>3, FinalizeEffect DEF NoEmptyBlock, AllBlocks
  <2>4. CASE disk' = disk
    BY <2>4 DEF NoEmptyBlock, AllBlocks
  <2>5. QED
    BY <2>2, <2>3, <2>4
    DEF JNext, Writer, HandleFrame, HandleFrameAs, BrokerExit, ShutdownStep, SetPaused,
        Discard, IOFails, jvars
<1>3. QED
  BY <1>1, <1>2, JTypeCorrect, PTL DEF JSpec

\* dir has the files of old, each with the blocks it had, in their places.
Extends(dir, old) ==
  /\ Len(dir) >= Len(old)
  /\ \A i \in DOMAIN old : /\ Len(dir[i]) >= Len(old[i])
                           /\ \A b \in DOMAIN old[i] : dir[i][b] = old[i][b]

\* Files and blocks are only ever added: what an open reader has seen of a file
\* stays where it is.
LEMMA DiskGrows ==
  ASSUME JTypeOK, [JNext]_jvars
  PROVE  Extends(disk', disk)
<1>1. /\ disk \in Seq(Seq(DiskBlock)) /\ file \in 0..Len(disk) /\ block \in OpenBlock
      /\ \A i \in DOMAIN disk : disk[i] \in Seq(DiskBlock)
  BY DEF JTypeOK
<1>2. Extends(disk, disk)
  BY <1>1 DEF Extends
<1>3. Extends(OpenDisk, disk)
  <2>1. CASE file = 0
    <3>1. /\ OpenDisk = Append(disk, <<>>) /\ Len(OpenDisk) = Len(disk) + 1
          /\ \A i \in DOMAIN disk : OpenDisk[i] = disk[i]
      BY <1>1, <2>1 DEF OpenDisk
    <3>2. QED
      BY <1>1, <3>1 DEF Extends
  <2>2. CASE file # 0
    BY <1>2, <2>2 DEF OpenDisk
  <2>3. QED
    BY <2>1, <2>2
<1>4. ASSUME NEW dir \in Seq(Seq(DiskBlock)), NEW i \in 1..Len(dir), Extends(dir, disk)
      PROVE  Extends(FlushBlock(dir, i, block), disk)
  <2> DEFINE new == FlushBlock(dir, i, block)
             w == Written(block)
  <2>1. CASE block.frames = <<>>
    BY <1>4, <2>1 DEF FlushBlock
  <2>2. CASE block.frames # <<>>
    <3>1. w \in DiskBlock /\ new = [dir EXCEPT ![i] = Append(@, w)]
      BY <1>1, <2>2, WrittenType DEF FlushBlock
    <3> HIDE DEF w, new
    <3>2. /\ Len(new) = Len(dir) /\ DOMAIN dir = 1..Len(dir) /\ DOMAIN disk = 1..Len(disk)
          /\ new[i] = Append(dir[i], w) /\ \A k \in 1..Len(dir) : k # i => new[k] = dir[k]
          /\ dir[i] \in Seq(DiskBlock) /\ Len(dir) \in Nat /\ Len(disk) \in Nat
      BY <1>1, <3>1
    <3>3. /\ Len(new[i]) = Len(dir[i]) + 1 /\ Len(dir[i]) \in Nat
          /\ \A b \in 1..Len(dir[i]) : new[i][b] = dir[i][b]
      BY <3>1, <3>2
    <3>4. ASSUME NEW k \in DOMAIN disk
          PROVE  /\ Len(new[k]) >= Len(disk[k])
                 /\ \A b \in DOMAIN disk[k] : new[k][b] = disk[k][b]
      <4>1. /\ k \in 1..Len(dir) /\ Len(dir[k]) >= Len(disk[k])
            /\ \A b \in DOMAIN disk[k] : dir[k][b] = disk[k][b]
        BY <1>4, <3>2 DEF Extends
      <4>2. CASE k # i
        BY <3>2, <4>1, <4>2
      <4>3. CASE k = i
        <5>1. Len(disk[k]) \in Nat /\ DOMAIN disk[k] = 1..Len(disk[k])
          BY <1>1
        <5>2. DOMAIN disk[k] \subseteq 1..Len(dir[i])
          BY <3>3, <4>1, <4>3, <5>1
        <5>3. Len(new[k]) >= Len(disk[k])
          BY <3>3, <4>1, <4>3, <5>1
        <5>4. \A b \in DOMAIN disk[k] : new[k][b] = dir[k][b]
          BY <3>3, <4>3, <5>2
        <5>5. QED
          BY <4>1, <5>3, <5>4
      <4>4. QED
        BY <4>2, <4>3
    <3>5. Len(new) >= Len(disk)
      BY <1>4, <3>2 DEF Extends
    <3>6. QED
      BY <3>4, <3>5 DEF Extends, new
  <2>3. QED
    BY <2>1, <2>2
<1>5. CASE AppendFrame
  <2>1. OpenDisk \in Seq(Seq(DiskBlock)) /\ OpenIndex \in 1..Len(OpenDisk)
    BY <1>1, OpenDiskType
  <2>2. disk' = FlushBlock(OpenDisk, OpenIndex, block) \/ disk' = OpenDisk
    BY <1>5 DEF AppendFrame
  <2>3. QED
    BY <1>3, <1>4, <2>1, <2>2
<1>6. CASE Finalize
  <2>1. disk' = disk \/ (file # 0 /\ disk' = FlushBlock(disk, file, block))
    BY <1>6 DEF Finalize
  <2>2. file # 0 => file \in 1..Len(disk)
    BY <1>1
  <2>3. QED
    BY <1>1, <1>2, <1>4, <2>1, <2>2
<1>7. CASE disk' = disk
  BY <1>2, <1>7
<1>8. QED
  BY <1>5, <1>6, <1>7
  DEF JNext, Writer, HandleFrame, HandleFrameAs, BrokerExit, ShutdownStep, SetPaused,
      Discard, IOFails, jvars
-----------------------------------------------------------------------------
(* TieredLog *)

\* Two numbers less than RingSize apart do not share a slot (ringMask).
LEMMA SlotInjective ==
  ASSUME NEW s \in Nat, NEW t \in Nat, s < t, t - s < RingSize
  PROVE  Slot(s) # Slot(t)
<1>1. RingSize \in Nat /\ RingSize > 0
  BY RingAssumption
<1> DEFINE q == s \div RingSize
           r == t \div RingSize
<1>2. /\ s = RingSize * q + (s % RingSize) /\ s % RingSize \in 0..(RingSize - 1) /\ q \in Int
      /\ t = RingSize * r + (t % RingSize) /\ t % RingSize \in 0..(RingSize - 1) /\ r \in Int
  BY <1>1
<1>3. SUFFICES ASSUME s % RingSize = t % RingSize PROVE FALSE
  BY DEF Slot
<1>a. RingSize * q \in Int /\ RingSize * r \in Int
  BY <1>1, <1>2
<1> DEFINE a == RingSize * q
           b == RingSize * r
           m == s % RingSize
           n == t % RingSize
<1>b. a \in Int /\ b \in Int /\ m \in Int /\ n \in Int /\ s = a + m /\ t = b + n /\ m = n
  BY <1>2, <1>3, <1>a
<1>4. t - s = b - a
  <2> HIDE DEF a, b, m, n
  <2> QED BY <1>b
<1> HIDE DEF q, r
<1>5. t - s = RingSize * (r - q)
  BY <1>1, <1>2, <1>4
<1>6. CASE r - q <= 0
  BY <1>1, <1>2, <1>5, <1>6
<1>7. CASE r - q >= 1
  <2>1. RingSize * (r - q) >= RingSize
    BY <1>1, <1>2, <1>7
  <2>2. QED
    BY <1>1, <1>5, <2>1
<1>8. QED
  BY <1>2, <1>6, <1>7

\* A slot is an index of the ring.
LEMMA SlotType ==
  ASSUME NEW s \in Nat
  PROVE  Slot(s) \in 0..(RingSize - 1)
BY RingAssumption DEF Slot
-----------------------------------------------------------------------------
(* The tiered log's steps are the journal writer's, or leave it alone *)

\* A step of a consumer leaves the journal writer alone.
LEMMA JournalStepOrStutter == [TNext]_tvars => [JNext]_jvars
<1>1. ASSUME THandleFrame PROVE JNext
  BY <1>1 DEF THandleFrame, HandleFrame, JNext
<1>2. ASSUME JournalStep PROVE JNext
  BY <1>2 DEF JournalStep, JNext
<1>3. ASSUME NEW c \in Consumers, NewConsumer(c) \/ Consume(c) \/ CloseConsumer(c)
      PROVE  UNCHANGED jvars
  BY <1>3 DEF NewConsumer, Consume, CloseConsumer, RingRange, ReadEntry, Select, Wake, OpenJournal,
              SwitchToRing, JournalFrame, NextFile, ConsumerStep
<1>4. QED
  BY <1>1, <1>2, <1>3 DEF TNext, tvars

\* Every behaviour of the tiered log is one of the journal writer.
THEOREM RunsTheJournal == TSpec => JSpec
<1>1. TInit => JInit
  BY DEF TInit
<1>2. QED
  BY <1>1, JournalStepOrStutter, PTL DEF TSpec, JSpec
-----------------------------------------------------------------------------
(* The ring of the boat's broker *)

\* RingExact is not inductive: it needs the ring's type and where the tail is.
RingInv ==
  /\ ring \in [0..(RingSize - 1) -> 0..MaxSeq]
  /\ tail \in 1..head
  /\ tail = 1 \/ tail = head - RingSize
  /\ RingExact

\* The empty ring satisfies it.
LEMMA RingInit == TInit => RingInv
BY RingAssumption, SizesAssumption DEF TInit, JInit, RingInv, RingExact

\* A number between tail and head is less than RingSize behind the head.
LEMMA InsideTheRing ==
  ASSUME NEW t \in Nat, NEW u \in Nat, NEW h \in Nat, NEW s \in u..h,
         t <= u, (h + 1) - u <= RingSize
  PROVE  s \in Nat /\ t <= s /\ s <= h /\ h - s < RingSize
BY RingAssumption

\* handleFrame's append and advance of the tail keep it; nothing else touches the ring.
LEMMA RingStep ==
  ASSUME ~ReplicaMode, JTypeOK, RingInv, [TNext]_tvars
  PROVE  RingInv'
<1>1. head \in 1..(MaxSeq + 1) /\ RingSize \in Nat \ {0} /\ MaxSeq \in Nat
  BY RingAssumption, SizesAssumption DEF JTypeOK
<1>2. CASE THandleFrame
  <2>1. PICK k \in Claims : /\ head \in 1..MaxSeq
                            /\ HandleFrameAs(head, k)
                            /\ ring' = [ring EXCEPT ![Slot(head)] = head]
                            /\ tail' = TailAfter(head')
    BY <1>1, <1>2 DEF THandleFrame, SeqChoices
  <2>2. head' = head + 1
    BY <1>1, <2>1 DEF HandleFrameAs, Advance
  <2>3. Slot(head) \in 0..(RingSize - 1)
    BY <1>1, SlotType
  <2>4. ring' \in [0..(RingSize - 1) -> 0..MaxSeq]
    BY <1>1, <2>1, <2>3 DEF RingInv
  <2>5. /\ tail' \in 1..head' /\ tail <= tail'
        /\ tail' = 1 \/ tail' = head' - RingSize
        /\ head' - tail' <= RingSize
    BY <1>1, <2>1, <2>2 DEF RingInv, RingExact, TailAfter
  <2>6. ASSUME NEW s \in tail'..(head' - 1) PROVE ring'[Slot(s)] = s
    <3>0. tail \in Nat /\ tail' \in Nat /\ head \in Nat /\ RingSize \in Nat
      BY <1>1, <2>2, <2>5 DEF RingInv
    <3>a. tail <= tail' /\ (head + 1) - tail' <= RingSize
      BY <2>2, <2>5
    <3>b. s \in tail'..head
      BY <2>2, <2>6, <3>0
    <3>1. s \in Nat /\ tail <= s /\ s <= head /\ head - s < RingSize
      BY <3>0, <3>a, <3>b, InsideTheRing
    <3>2. Slot(s) \in 0..(RingSize - 1)
      BY <3>1, SlotType
    <3>3. CASE s = head
      BY <2>1, <2>3, <3>3 DEF RingInv
    <3>4. CASE s < head
      <4>1. Slot(s) # Slot(head)
        BY <1>1, <3>1, <3>4, SlotInjective
      <4>2. ring[Slot(s)] = s
        BY <1>1, <3>1, <3>4 DEF RingInv, RingExact
      <4>3. QED
        BY <2>1, <2>3, <3>2, <4>1, <4>2 DEF RingInv
    <3>5. QED
      BY <1>1, <3>1, <3>3, <3>4
  <2>7. QED
    BY <2>4, <2>5, <2>6 DEF RingInv, RingExact
<1>3. ASSUME UNCHANGED <<head, ring, tail>> PROVE RingInv'
  BY <1>3 DEF RingInv, RingExact
<1>4. CASE JournalStep
  BY <1>3, <1>4 DEF JournalStep, BrokerExit, ShutdownStep, SetPaused, Writer, Discard,
                    AppendFrame, IOFails, Finalize
<1>5. ASSUME NEW c \in Consumers, NewConsumer(c) \/ Consume(c) \/ CloseConsumer(c)
      PROVE  UNCHANGED <<head, ring, tail>>
  BY <1>5 DEF NewConsumer, Consume, CloseConsumer, RingRange, ReadEntry, Select, Wake, OpenJournal,
              SwitchToRing, JournalFrame, NextFile, ConsumerStep, jvars
<1>6. CASE UNCHANGED tvars
  BY <1>3, <1>6 DEF tvars, jvars
<1>7. QED
  BY <1>2, <1>3, <1>4, <1>5, <1>6 DEF TNext

\* The boat's ring (broker.go, handleFrame) holds exactly the last numbers, for
\* every ring size.
THEOREM RingCorrect ==
  ASSUME ~ReplicaMode
  PROVE  TSpec => []RingExact
<1>1. TSpec => []JTypeOK
  BY RunsTheJournal, JTypeCorrect, PTL
<1>2. JTypeOK /\ RingInv /\ [TNext]_tvars => RingInv'
  BY RingStep
<1>3. RingInv => RingExact
  BY DEF RingInv
<1>4. QED
  BY <1>1, <1>2, <1>3, RingInit, PTL DEF TSpec

\* The inductive invariant of the ring, for the theorems that build on it.
LEMMA RingInvariant ==
  ASSUME ~ReplicaMode
  PROVE  TSpec => []RingInv
<1>1. TSpec => []JTypeOK
  BY RunsTheJournal, JTypeCorrect, PTL
<1>2. JTypeOK /\ RingInv /\ [TNext]_tvars => RingInv'
  BY RingStep
<1>3. QED
  BY <1>1, <1>2, RingInit, PTL DEF TSpec

\* Whatever the sizes, as long as ring > channel + block and nothing was dropped,
\* a frame that has left the boat's ring is on disk: a reader that falls out of the
\* ring finds it in the journal.
THEOREM NoBlindSpotBetweenTiers ==
  ASSUME ~ReplicaMode
  PROVE  TSpec => []NoBlindSpot
<1>1. TSpec => []JTypeOK
  BY RunsTheJournal, JTypeCorrect, PTL
<1>2. TSpec => []PipelineInOrder
  BY RunsTheJournal, PipelineCorrect, PTL
<1>3. JTypeOK /\ PipelineInOrder /\ RingInv => NoBlindSpot
  <2>1. SUFFICES ASSUME JTypeOK, PipelineInOrder, RingInv,
                        RingSize > ChanCap + BlockSpace,
                        writer = "running", lost = {}, broker # "panicked",
                        NEW s \in 1..(tail - 1)
                 PROVE  s \in OnDisk
    BY DEF NoBlindSpot
  <2>2. /\ ChanCap \in Nat /\ BlockSpace \in Nat /\ RingSize \in Nat
        /\ Len(ch) \in Nat /\ Len(ch) <= ChanCap
        /\ Len(block.frames) \in Nat /\ Len(block.frames) <= BlockSpace
        /\ head \in Nat /\ tail \in Nat
    <3>1. ch \in Seq(Frame) /\ block.frames \in Seq(Frame)
      BY <2>1 DEF JTypeOK, OpenBlock
    <3>2. head \in Nat /\ tail \in Nat /\ Len(ch) <= ChanCap
      BY <2>1, SizesAssumption DEF JTypeOK, RingInv
    <3>3. Len(block.frames) <= BlockSpace
      BY <2>1 DEF PipelineInOrder
    <3>4. QED
      BY <3>1, <3>2, <3>3, RingAssumption, SizesAssumption
  <2>3. s \in 1..(FirstUnwritten - 1)
    <3>1. tail = 1 \/ tail = head - RingSize
      BY <2>1 DEF RingInv
    <3>2. s \in Nat /\ 1 <= s /\ s <= tail - 1
      BY <2>1, <2>2
    <3> DEFINE m == Len(ch)
               n == Len(block.frames)
    <3>3. m \in Nat /\ n \in Nat /\ m <= ChanCap /\ n <= BlockSpace
      BY <2>2
    <3>4. RingSize > ChanCap + BlockSpace
      BY <2>1
    <3>5. FirstUnwritten = head - m - n
      BY DEF FirstUnwritten
    <3> HIDE DEF m, n
    <3>6. s <= head - m - n - 1
      BY <2>2, <3>1, <3>2, <3>3, <3>4
    <3>7. QED
      BY <2>2, <3>2, <3>3, <3>5, <3>6
  <2>4. QED
    BY <2>1, <2>3 DEF PipelineInOrder
<1>4. QED
  BY <1>1, <1>2, <1>3, RingInvariant, PTL
-----------------------------------------------------------------------------
(* The least and the greatest of a set of indices *)

\* A set of numbers has a least one.
LEMMA LeastNumber ==
  ASSUME NEW S, S \subseteq Nat, S # {}
  PROVE  \E m \in S : \A n \in S : m <= n
<1>1. \E x \in S : \A y \in S : ~(<<y, x>> \in OpToRel(<, Nat))
  BY WFMin, NatLessThanWellFounded
<1>2. PICK x \in S : \A y \in S : ~(<<y, x>> \in OpToRel(<, Nat))
  BY <1>1
<1>3. \A y \in S : ~(y < x)
  BY <1>2 DEF OpToRel
<1>4. QED
  BY <1>3

\* A bounded set of numbers has a greatest one.
LEMMA GreatestNumber ==
  ASSUME NEW k \in Nat, NEW S, S \subseteq 0..k, S # {}
  PROVE  \E m \in S : \A n \in S : n <= m
<1> DEFINE T == {k - n : n \in S}
<1>a. \A n \in S : n \in Nat /\ n <= k /\ k - n \in Nat
  OBVIOUS
<1>1. T \subseteq Nat /\ T # {}
  BY <1>a
<1>2. PICK t \in T : \A u \in T : t <= u
  BY <1>1, LeastNumber
<1>3. PICK m \in S : t = k - m
  OBVIOUS
<1>4. \A n \in S : k - n \in T /\ k - m <= k - n
  BY <1>2, <1>3
<1>5. QED
  BY <1>4, <1>a
-----------------------------------------------------------------------------
(* The consumers *)

Cons ==
  [pc: {"new", "range", "journal", "read", "caughtup", "wait", "failed", "closed"},
   cursor: Nat, notify: BOOLEAN, jFiles: Nat, jIdx: Nat, jBlocks: Nat, blk: Nat, idx: Nat,
   got: [label: Int, seq: Int]]

\* A consumer about to read the ring is behind the head, and one about to list
\* the journal is behind the ring.
Placed(r) ==
  /\ r.pc = "read" => r.cursor < head
  /\ r.pc = "journal" /\ r.jFiles = 0 => r.cursor < tail

\* An open reader points into a file of its listing, at a frame of it or behind
\* the blocks the file had when it was opened.
InFile(r) ==
  r.jFiles > 0 =>
    /\ r.jFiles <= Len(disk) /\ r.jIdx \in 1..r.jFiles /\ r.jBlocks <= Len(disk[r.jIdx])
    /\ r.blk >= 1 /\ r.idx >= 1
    /\ r.blk <= r.jBlocks => r.idx <= Len(disk[r.jIdx][r.blk].frames)

\* The last frame was given under its own number.
TrueLabel(r) == lost = {} => r.got.label = r.got.seq

ConsInv ==
  /\ cons \in [Consumers -> Cons]
  /\ \A c \in Consumers : Placed(cons[c]) /\ InFile(cons[c]) /\ TrueLabel(cons[c])

\* Before NewConsumer there is nothing to place.
LEMMA ConsInit == TInit => ConsInv
<1> SUFFICES ASSUME TInit PROVE ConsInv
  OBVIOUS
<1>1. NewCons \in Cons
  BY DEF NewCons, Cons
<1>2. Placed(NewCons) /\ InFile(NewCons) /\ TrueLabel(NewCons)
  BY DEF NewCons, Placed, InFile, TrueLabel
<1>3. QED
  BY <1>1, <1>2 DEF TInit, ConsInv

\* A step of one consumer that gives it a good record.
LEMMA ConsumerStepKeeps ==
  ASSUME ConsInv, NEW c \in Consumers, NEW r \in Cons, ConsumerStep(c, r),
         Placed(r), InFile(r), TrueLabel(r)
  PROVE  ConsInv'
<1>1. cons' = [cons EXCEPT ![c] = r] /\ UNCHANGED <<head, tail, disk, lost>>
  BY DEF ConsumerStep, jvars
<1>2. cons' \in [Consumers -> Cons]
  BY <1>1 DEF ConsInv
<1>3. ASSUME NEW d \in Consumers
      PROVE  Placed(cons'[d]) /\ InFile(cons'[d]) /\ TrueLabel(cons'[d])
  BY <1>1 DEF ConsInv
<1>4. ASSUME NEW d \in Consumers
      PROVE  (Placed(cons[d]) /\ InFile(cons[d]) /\ TrueLabel(cons[d]))'
  BY <1>1, <1>3 DEF Placed, InFile, TrueLabel
<1>5. QED
  BY <1>2, <1>4 DEF ConsInv

\* The blocks of a file are blocks of the directory, with frames, labelled as
\* they were numbered as long as nothing was lost.
LEMMA ReaderSees ==
  ASSUME JTypeOK, NoEmptyBlock, DriftIsLoss,
         NEW i \in DOMAIN disk, NEW b \in DOMAIN disk[i]
  PROVE  /\ disk[i][b] \in DiskBlock /\ Len(disk[i][b].frames) \in Nat /\ Len(disk[i][b].frames) >= 1
         /\ lost = {} => \A k \in 1..Len(disk[i][b].frames) :
                           disk[i][b].frames[k].seq = disk[i][b].base + k - 1
<1> DEFINE x == disk[i][b]
<1>1. x \in AllBlocks
  BY DEF AllBlocks, BlocksOf
<1>2. x \in DiskBlock
  BY <1>1, OnDiskType
<1> HIDE DEF x
<1>3. x.frames \in Seq(Frame) /\ x.frames # <<>> /\ x.base \in Nat
  BY <1>1, <1>2 DEF NoEmptyBlock, DiskBlock
<1>4. Len(x.frames) \in Nat /\ Len(x.frames) >= 1 /\ DOMAIN x.frames = 1..Len(x.frames)
  BY <1>3
<1>5. ASSUME lost = {}, NEW k \in 1..Len(x.frames) PROVE x.frames[k].seq = x.base + k - 1
  <2>1. Cardinality({s \in lost : x.base < s /\ s < x.frames[k].seq}) = 0
    <3>1. {s \in lost : x.base < s /\ s < x.frames[k].seq} = {}
      BY <1>5
    <3>2. QED
      BY <3>1, FS_EmptySet
  <2>2. x.frames[k].seq = x.base + (k - 1) + 0
    BY <1>1, <1>4, <2>1 DEF DriftIsLoss
  <2>3. QED
    BY <1>3, <1>4, <2>2
<1>6. QED
  BY <1>2, <1>4, <1>5 DEF x

\* findJournalFile returns a file with a readable first frame, if there is one.
LEMMA FindJournalFileType ==
  ASSUME JTypeOK, NEW s \in Nat, Candidates # {}
  PROVE  FindJournalFile(s) \in Candidates
<1>1. Candidates \subseteq 1..Len(disk) /\ Len(disk) \in Nat
  BY DEF JTypeOK, Candidates
<1> DEFINE T == {i \in Candidates : \A j \in Candidates : j <= i => disk[j][1].base <= s}
<1>2. T \subseteq Candidates
  OBVIOUS
<1> HIDE DEF T
<1>3. MinIndex(Candidates) \in Candidates
  <2>a. Candidates \subseteq Nat
    BY <1>1
  <2>1. \E m \in Candidates : \A n \in Candidates : m <= n
    BY <2>a, LeastNumber, Zenon
  <2>2. QED
    BY <2>1 DEF MinIndex
<1>4. CASE T = {}
  BY <1>3, <1>4 DEF FindJournalFile, MaxIndex, T
<1>5. CASE T # {}
  <2>a. T \subseteq 0..Len(disk)
    BY <1>1, <1>2
  <2>1. \E m \in T : \A n \in T : n <= m
    BY <1>1, <1>5, <2>a, GreatestNumber, Zenon
  <2>2. MaxIndex(T, MinIndex(Candidates)) \in T
    BY <1>5, <2>1 DEF MaxIndex
  <2>3. QED
    BY <1>2, <2>2 DEF FindJournalFile, T
<1>6. QED
  BY <1>4, <1>5

\* SeekToSeq returns a block of the file.
LEMMA SeekToSeqType ==
  ASSUME JTypeOK, NEW s \in Nat, NEW i \in DOMAIN disk, disk[i] # <<>>
  PROVE  SeekToSeq(i, s) \in DOMAIN disk[i]
<1>1. disk[i] \in Seq(DiskBlock) /\ DOMAIN disk[i] = 1..Len(disk[i]) /\ Len(disk[i]) \in Nat
      /\ 1 \in DOMAIN disk[i]
  BY DEF JTypeOK
<1> DEFINE T == {b \in DOMAIN disk[i] : disk[i][b].base <= s}
<1>2. T \subseteq DOMAIN disk[i]
  OBVIOUS
<1> HIDE DEF T
<1>3. CASE T = {}
  BY <1>1, <1>3 DEF SeekToSeq, MaxIndex, T
<1>4. CASE T # {}
  <2>a. T \subseteq 0..Len(disk[i])
    BY <1>1, <1>2
  <2>1. \E m \in T : \A n \in T : n <= m
    BY <1>1, <1>4, <2>a, GreatestNumber, Zenon
  <2>2. MaxIndex(T, 1) \in T
    BY <1>4, <2>1 DEF MaxIndex
  <2>3. QED
    BY <1>2, <2>2 DEF SeekToSeq, T
<1>5. QED
  BY <1>3, <1>4

\* The fields of a consumer that reads the journal.
LEMMA ConsFields ==
  ASSUME NEW r \in Cons
  PROVE  /\ r.cursor \in Nat /\ r.jFiles \in Nat /\ r.jIdx \in Nat /\ r.jBlocks \in Nat
         /\ r.blk \in Nat /\ r.idx \in Nat /\ r.got \in [label: Int, seq: Int]
BY DEF Cons

\* Reader.Next stays within the file.
LEMMA SkipKeeps ==
  ASSUME JTypeOK, NoEmptyBlock, DriftIsLoss, NEW r \in Cons, InFile(r), r.jFiles > 0, HasFrame(r)
  PROVE  /\ Skip(r) \in Cons /\ InFile(Skip(r))
         /\ Skip(r).pc = r.pc /\ Skip(r).cursor = r.cursor /\ Skip(r).got = r.got
         /\ Skip(r).jFiles = r.jFiles
<1>1. /\ r.jIdx \in DOMAIN disk /\ r.blk \in DOMAIN disk[r.jIdx] /\ r.blk \in Nat /\ r.idx \in Nat
      /\ r.jBlocks \in Nat /\ Len(disk[r.jIdx]) \in Nat
  <2>1. /\ disk \in Seq(Seq(DiskBlock)) /\ r.jIdx \in 1..Len(disk)
    BY ConsFields DEF JTypeOK, InFile
  <2>2. disk[r.jIdx] \in Seq(DiskBlock) /\ r.jIdx \in DOMAIN disk
    BY <2>1
  <2>3. QED
    BY <2>2, ConsFields DEF InFile, HasFrame
<1>2. CASE r.idx < Len(disk[r.jIdx][r.blk].frames)
  <2> DEFINE q == [r EXCEPT !.idx = @ + 1]
  <2>1. Skip(r) = q
    BY <1>2 DEF Skip
  <2>a. q.idx = r.idx + 1 /\ q \in Cons
    BY ConsFields DEF Cons
  <2>b. /\ q.pc = r.pc /\ q.cursor = r.cursor /\ q.got = r.got /\ q.jFiles = r.jFiles
        /\ q.jIdx = r.jIdx /\ q.jBlocks = r.jBlocks /\ q.blk = r.blk
    BY DEF Cons
  <2> HIDE DEF q
  <2>2. /\ q.pc = r.pc /\ q.cursor = r.cursor /\ q.got = r.got /\ q.jFiles = r.jFiles
        /\ q.jIdx = r.jIdx /\ q.jBlocks = r.jBlocks /\ q.blk = r.blk /\ q.idx = r.idx + 1
        /\ q \in Cons
    BY <2>a, <2>b
  <2>3. Len(disk[r.jIdx][r.blk].frames) \in Nat
    BY <1>1, ReaderSees
  <2>4. InFile(q)
    BY <1>1, <1>2, <2>2, <2>3 DEF InFile
  <2>5. QED
    BY <2>1, <2>2, <2>4
<1>3. CASE ~(r.idx < Len(disk[r.jIdx][r.blk].frames))
  <2> DEFINE q == [r EXCEPT !.blk = @ + 1, !.idx = 1]
  <2>1. Skip(r) = q
    BY <1>3 DEF Skip
  <2>2. /\ q.pc = r.pc /\ q.cursor = r.cursor /\ q.got = r.got /\ q.jFiles = r.jFiles
        /\ q.jIdx = r.jIdx /\ q.jBlocks = r.jBlocks /\ q.blk = r.blk + 1 /\ q.idx = 1
        /\ q \in Cons
    <3>1. r.blk + 1 \in Nat /\ 1 \in Nat
      BY <1>1
    <3>2. q \in Cons
      BY <3>1 DEF Cons
    <3>3. q.blk = r.blk + 1 /\ q.idx = 1
      BY DEF Cons
    <3>4. /\ q.pc = r.pc /\ q.cursor = r.cursor /\ q.got = r.got /\ q.jFiles = r.jFiles
          /\ q.jIdx = r.jIdx /\ q.jBlocks = r.jBlocks
      BY DEF Cons
    <3>5. QED
      BY <3>2, <3>3, <3>4
  <2> HIDE DEF q
  <2>3. q.blk <= q.jBlocks => Len(disk[r.jIdx][q.blk].frames) >= 1
    <3> SUFFICES ASSUME q.blk <= q.jBlocks PROVE Len(disk[r.jIdx][q.blk].frames) >= 1
      OBVIOUS
    <3>1. disk[r.jIdx] \in Seq(DiskBlock)
      BY <1>1 DEF JTypeOK
    <3>2. q.blk \in DOMAIN disk[r.jIdx]
      BY <1>1, <2>2, <3>1 DEF InFile
    <3>3. QED
      BY <1>1, <3>2, ReaderSees
  <2>4. InFile(q)
    BY <1>1, <2>2, <2>3 DEF InFile
  <2>5. QED
    BY <2>1, <2>2, <2>4
<1>4. QED
  BY <1>2, <1>3

\* A record that differs only in where it is going, pc and notify.
LEMMA Moved ==
  ASSUME NEW r \in Cons, InFile(r), TrueLabel(r),
         NEW p \in {"range", "journal", "read", "caughtup", "wait", "failed"}
  PROVE  LET q == [r EXCEPT !.pc = p] IN
           /\ q \in Cons /\ InFile(q) /\ TrueLabel(q)
           /\ q.pc = p /\ q.cursor = r.cursor /\ q.jFiles = r.jFiles
<1> DEFINE q == [r EXCEPT !.pc = p]
<1>1. q \in Cons
  BY DEF Cons
<1>2. /\ q.pc = p /\ q.cursor = r.cursor /\ q.got = r.got /\ q.jFiles = r.jFiles
      /\ q.jIdx = r.jIdx /\ q.jBlocks = r.jBlocks /\ q.blk = r.blk /\ q.idx = r.idx
  BY DEF Cons
<1> HIDE DEF q
<1>3. InFile(q) /\ TrueLabel(q)
  BY <1>2 DEF InFile, TrueLabel
<1>4. QED
  BY <1>1, <1>2, <1>3 DEF q

\* A frame delivered under its own number, or held back by the filter.
LEMMA Delivered ==
  ASSUME NEW r \in Cons, InFile(r), TrueLabel(r), NEW l \in Int, NEW s \in Int, lost = {} => l = s
  PROVE  /\ Deliver(r, l, s) \in Cons /\ InFile(Deliver(r, l, s)) /\ TrueLabel(Deliver(r, l, s))
         /\ Deliver(r, l, s).pc = r.pc /\ Deliver(r, l, s).jFiles = r.jFiles
         /\ Filtered(r) \in Cons /\ InFile(Filtered(r)) /\ TrueLabel(Filtered(r))
         /\ Filtered(r).pc = r.pc /\ Filtered(r).jFiles = r.jFiles
<1>1. r.cursor + 1 \in Nat /\ [label |-> l, seq |-> s] \in [label: Int, seq: Int]
  BY ConsFields
<1> DEFINE g == [label |-> l, seq |-> s]
           q == Deliver(r, l, s)
           p == Filtered(r)
<1>2. q \in Cons /\ p \in Cons
  BY <1>1 DEF Cons, Deliver, Filtered
<1>3. /\ q.pc = r.pc /\ q.jFiles = r.jFiles /\ q.jIdx = r.jIdx /\ q.jBlocks = r.jBlocks
      /\ q.blk = r.blk /\ q.idx = r.idx
  BY DEF Cons, Deliver
<1>4. q.got = g
  BY DEF Cons, Deliver
<1>5. /\ p.pc = r.pc /\ p.jFiles = r.jFiles /\ p.jIdx = r.jIdx /\ p.jBlocks = r.jBlocks
      /\ p.blk = r.blk /\ p.idx = r.idx /\ p.got = r.got
  BY DEF Cons, Filtered
<1> HIDE DEF q, p
<1>6. InFile(q) /\ InFile(p)
  BY <1>3, <1>5 DEF InFile
<1>7. TrueLabel(q) /\ TrueLabel(p)
  BY <1>4, <1>5 DEF TrueLabel
<1>8. QED
  BY <1>2, <1>3, <1>5, <1>6, <1>7 DEF q, p

\* NewConsumer, the choice of a tier, readEntry, the wait and Close keep the
\* consumers placed.
LEMMA RingConsumerSteps ==
  ASSUME ConsInv, JTypeOK, RingInv, NEW c \in Consumers,
         NewConsumer(c) \/ RingRange(c) \/ ReadEntry(c) \/ Select(c) \/ Wake(c) \/ CloseConsumer(c)
         \/ SwitchToRing(c)
  PROVE  ConsInv'
<1> DEFINE r == cons[c]
<1>1. r \in Cons /\ Placed(r) /\ InFile(r) /\ TrueLabel(r)
  BY DEF ConsInv
<1>2. head \in Nat /\ tail \in Nat /\ r.cursor \in Nat
  BY <1>1, ConsFields, SizesAssumption DEF JTypeOK, RingInv
<1>3. CASE NewConsumer(c)
  <2>1. PICK s \in 1..head : ConsumerStep(c, [r EXCEPT !.pc = "range", !.cursor = s])
    BY <1>3 DEF NewConsumer
  <2> DEFINE q == [r EXCEPT !.pc = "range", !.cursor = s]
  <2>2. s \in Nat
    BY <1>2
  <2>3. q \in Cons
    BY <1>1, <2>2 DEF Cons
  <2>4. /\ q.pc = "range" /\ q.got = r.got /\ q.jFiles = r.jFiles
        /\ q.jIdx = r.jIdx /\ q.jBlocks = r.jBlocks /\ q.blk = r.blk /\ q.idx = r.idx
    BY <1>1 DEF Cons
  <2> HIDE DEF q
  <2>5. Placed(q) /\ InFile(q) /\ TrueLabel(q)
    BY <1>1, <2>4 DEF Placed, InFile, TrueLabel
  <2>6. ConsumerStep(c, q)
    BY <2>1 DEF q
  <2>7. QED
    BY <2>3, <2>5, <2>6, ConsumerStepKeeps
<1>4. CASE RingRange(c)
  <2> DEFINE p == IF r.cursor < tail THEN "journal" ELSE IF r.cursor < head THEN "read" ELSE "caughtup"
             q == [r EXCEPT !.pc = p]
  <2>1. ConsumerStep(c, q)
    BY <1>4 DEF RingRange
  <2>2. p \in {"range", "journal", "read", "caughtup", "wait", "failed"}
    OBVIOUS
  <2> HIDE DEF p
  <2>3. q \in Cons /\ InFile(q) /\ TrueLabel(q) /\ q.pc = p /\ q.cursor = r.cursor
    BY <1>1, <2>2, Moved
  <2>4. (p = "journal" => r.cursor < tail) /\ (p = "read" => r.cursor < head)
    BY DEF p
  <2> HIDE DEF q
  <2>5. Placed(q)
    BY <2>3, <2>4 DEF Placed
  <2>6. QED
    BY <2>1, <2>3, <2>5, ConsumerStepKeeps
<1>5. CASE ReadEntry(c)
  <2>1. CASE Readable(r.cursor)
    <3>1. ring[Slot(r.cursor)] = r.cursor
      BY <2>1 DEF Readable
    <3>2. PICK q \in {Deliver(r, r.cursor, ring[Slot(r.cursor)]), Filtered(r)} :
            ConsumerStep(c, [q EXCEPT !.pc = "range"])
      BY <1>5, <2>1 DEF ReadEntry
    <3>3. q \in Cons /\ InFile(q) /\ TrueLabel(q)
      BY <1>1, <1>2, <3>1, <3>2, Delivered
    <3> DEFINE p == [q EXCEPT !.pc = "range"]
    <3>4. p \in Cons /\ InFile(p) /\ TrueLabel(p) /\ p.pc = "range"
      BY <3>3, Moved
    <3>5. ConsumerStep(c, p)
      BY <3>2
    <3> HIDE DEF p
    <3>6. Placed(p)
      BY <3>4 DEF Placed
    <3>7. QED
      BY <3>4, <3>5, <3>6, ConsumerStepKeeps
  <2>2. CASE ~Readable(r.cursor)
    <3> DEFINE q == [r EXCEPT !.pc = "failed"]
    <3>1. ConsumerStep(c, q)
      BY <1>5, <2>2 DEF ReadEntry
    <3>2. q \in Cons /\ InFile(q) /\ TrueLabel(q) /\ q.pc = "failed"
      BY <1>1, Moved
    <3> HIDE DEF q
    <3>3. Placed(q)
      BY <3>2 DEF Placed
    <3>4. QED
      BY <3>1, <3>2, <3>3, ConsumerStepKeeps
  <2>3. QED
    BY <2>1, <2>2
<1>6. CASE Select(c)
  <2> DEFINE q == [r EXCEPT !.pc = "wait"]
  <2>1. ConsumerStep(c, q)
    BY <1>6 DEF Select
  <2>2. q \in Cons /\ InFile(q) /\ TrueLabel(q) /\ q.pc = "wait"
    BY <1>1, Moved
  <2> HIDE DEF q
  <2>3. Placed(q)
    BY <2>2 DEF Placed
  <2>4. QED
    BY <2>1, <2>2, <2>3, ConsumerStepKeeps
<1>7. CASE Wake(c)
  <2> DEFINE q == [r EXCEPT !.pc = "range", !.notify = FALSE]
  <2>1. ConsumerStep(c, q)
    BY <1>7 DEF Wake
  <2>2. q \in Cons
    BY <1>1 DEF Cons
  <2>3. /\ q.pc = "range" /\ q.got = r.got /\ q.jFiles = r.jFiles
        /\ q.jIdx = r.jIdx /\ q.jBlocks = r.jBlocks /\ q.blk = r.blk /\ q.idx = r.idx
    BY <1>1 DEF Cons
  <2> HIDE DEF q
  <2>4. Placed(q) /\ InFile(q) /\ TrueLabel(q)
    BY <1>1, <2>3 DEF Placed, InFile, TrueLabel
  <2>5. QED
    BY <2>1, <2>2, <2>4, ConsumerStepKeeps
<1>8. CASE CloseConsumer(c)
  <2> DEFINE q == [r EXCEPT !.pc = "closed", !.notify = FALSE, !.jFiles = 0]
  <2>1. ConsumerStep(c, q)
    BY <1>8 DEF CloseConsumer
  <2>2. q \in Cons
    BY <1>1 DEF Cons
  <2>3. q.pc = "closed" /\ q.got = r.got /\ q.jFiles = 0
    BY <1>1 DEF Cons
  <2> HIDE DEF q
  <2>4. Placed(q) /\ InFile(q) /\ TrueLabel(q)
    BY <1>1, <2>3 DEF Placed, InFile, TrueLabel
  <2>5. QED
    BY <2>1, <2>2, <2>4, ConsumerStepKeeps
<1>9. CASE SwitchToRing(c)
  <2> DEFINE q == [r EXCEPT !.pc = "range", !.jFiles = 0]
  <2>1. ConsumerStep(c, q)
    BY <1>9 DEF SwitchToRing
  <2>2. q \in Cons
    BY <1>1 DEF Cons
  <2>3. q.pc = "range" /\ q.got = r.got /\ q.jFiles = 0
    BY <1>1 DEF Cons
  <2> HIDE DEF q
  <2>4. Placed(q) /\ InFile(q) /\ TrueLabel(q)
    BY <1>1, <2>3 DEF Placed, InFile, TrueLabel
  <2>5. QED
    BY <2>1, <2>2, <2>4, ConsumerStepKeeps
<1>10. QED
  BY <1>3, <1>4, <1>5, <1>6, <1>7, <1>8, <1>9

\* Order of numbers.
LEMMA Between ==
  ASSUME NEW a \in Nat, NEW b \in Nat, NEW k \in Nat, a <= b, b <= k \/ k >= b
  PROVE  a <= k
OBVIOUS

\* readFromJournal keeps the consumers placed: opening a file, each of its
\* frames, and the next file of the listing.
LEMMA JournalConsumerSteps ==
  ASSUME ConsInv, JTypeOK, RingInv, NoEmptyBlock, DriftIsLoss, NEW c \in Consumers,
         OpenJournal(c) \/ JournalFrame(c) \/ NextFile(c)
  PROVE  ConsInv'
<1> DEFINE r == cons[c]
<1>1. r \in Cons /\ Placed(r) /\ InFile(r) /\ TrueLabel(r)
  BY DEF ConsInv
<1>2. /\ head \in Nat /\ tail \in Nat /\ disk \in Seq(Seq(DiskBlock)) /\ Len(disk) \in Nat
      /\ DOMAIN disk = 1..Len(disk) /\ \A i \in DOMAIN disk : disk[i] \in Seq(DiskBlock)
  BY SizesAssumption DEF JTypeOK, RingInv
<1>3. /\ r.cursor \in Nat /\ r.jFiles \in Nat /\ r.jIdx \in Nat /\ r.jBlocks \in Nat
      /\ r.blk \in Nat /\ r.idx \in Nat
  BY <1>1, ConsFields
<1>4. ASSUME ConsumerStep(c, [r EXCEPT !.pc = "failed"]) PROVE ConsInv'
  <2> DEFINE q == [r EXCEPT !.pc = "failed"]
  <2>1. q \in Cons /\ InFile(q) /\ TrueLabel(q) /\ q.pc = "failed"
    BY <1>1, Moved
  <2>2. ConsumerStep(c, q)
    BY <1>4
  <2> HIDE DEF q
  <2>3. Placed(q)
    BY <2>1 DEF Placed
  <2>4. QED
    BY <2>1, <2>2, <2>3, ConsumerStepKeeps
<1>5. CASE OpenJournal(c)
  <2>1. CASE Candidates = {}
    BY <1>4, <1>5, <2>1 DEF OpenJournal
  <2>2. CASE Candidates # {}
    <3> DEFINE i == FindJournalFile(r.cursor)
               b == SeekToSeq(i, r.cursor)
               q == AtFile(r, i, b)
    <3>1. ConsumerStep(c, q) /\ r.pc = "journal"
      BY <1>5, <2>2 DEF OpenJournal
    <3>2. i \in Candidates
      BY <1>3, <2>2, FindJournalFileType
    <3>3. i \in DOMAIN disk /\ disk[i] # <<>>
      BY <3>2 DEF Candidates
    <3> HIDE DEF i
    <3>4. b \in DOMAIN disk[i]
      BY <1>3, <3>3, SeekToSeqType
    <3> HIDE DEF b
    <3>5. /\ i \in Nat /\ i \in 1..Len(disk) /\ Len(disk) > 0
          /\ Len(disk[i]) \in Nat /\ b \in Nat /\ b \in 1..Len(disk[i])
      BY <1>2, <3>3, <3>4
    <3>6. q \in Cons
      BY <1>1, <1>2, <3>5 DEF Cons, AtFile
    <3>7. /\ q.pc = "journal" /\ q.got = r.got /\ q.jFiles = Len(disk) /\ q.jIdx = i
          /\ q.jBlocks = Len(disk[i]) /\ q.blk = b /\ q.idx = 1
      BY <1>1, <3>1 DEF Cons, AtFile
    <3> HIDE DEF q
    <3>8. Len(disk[i][b].frames) >= 1
      BY <3>3, <3>4, ReaderSees
    <3>9. InFile(q)
      BY <3>5, <3>7, <3>8 DEF InFile
    <3>10. Placed(q) /\ TrueLabel(q)
      BY <1>1, <3>5, <3>7 DEF Placed, TrueLabel
    <3>11. QED
      BY <3>1, <3>6, <3>9, <3>10, ConsumerStepKeeps
  <2>3. QED
    BY <2>1, <2>2
<1>6. CASE JournalFrame(c)
  <2>1. r.pc = "journal" /\ r.jFiles > 0 /\ HasFrame(r) /\ r.cursor < tail
    BY <1>6 DEF JournalFrame, Behind, Reading
  <2>2. /\ Skip(r) \in Cons /\ InFile(Skip(r)) /\ Skip(r).pc = r.pc
        /\ Skip(r).got = r.got /\ Skip(r).jFiles = r.jFiles
    BY <1>1, <2>1, SkipKeeps
  <2>3. TrueLabel(Skip(r))
    BY <1>1, <2>2 DEF TrueLabel
  <2> DEFINE q == [r EXCEPT !.blk = r.jBlocks + 1]
  <2>4. q \in Cons /\ Placed(q) /\ InFile(q) /\ TrueLabel(q)
    <3>1. q \in Cons
      BY <1>1, <1>3 DEF Cons
    <3>2. /\ q.pc = r.pc /\ q.got = r.got /\ q.jFiles = r.jFiles /\ q.cursor = r.cursor
          /\ q.jIdx = r.jIdx /\ q.jBlocks = r.jBlocks /\ q.idx = r.idx /\ q.blk = r.jBlocks + 1
      BY <1>1 DEF Cons
    <3> HIDE DEF q
    <3>3. QED
      BY <1>1, <1>3, <3>1, <3>2 DEF Placed, InFile, TrueLabel
  <2>5. Placed(Skip(r))
    BY <2>1, <2>2 DEF Placed
  <2>6. Label(r) \in Int /\ SeqAt(r) \in Int /\ (lost = {} => Label(r) = SeqAt(r))
    <3>1. /\ r.jIdx \in DOMAIN disk /\ r.blk \in 1..Len(disk[r.jIdx])
      <4>1. /\ r.jFiles <= Len(disk) /\ r.jIdx \in 1..r.jFiles /\ r.jBlocks <= Len(disk[r.jIdx])
            /\ r.blk >= 1 /\ r.blk <= r.jBlocks
        BY <1>1, <2>1 DEF InFile, HasFrame
      <4> HIDE DEF r
      <4>2. r.jIdx \in DOMAIN disk
        BY <1>2, <1>3, <4>1
      <4>3. Len(disk[r.jIdx]) \in Nat
        BY <1>2, <4>2
      <4>4. r.blk \in 1..Len(disk[r.jIdx])
        BY <1>3, <4>1, <4>3, Between
      <4>5. QED
        BY <4>2, <4>4
    <3>2. r.blk \in DOMAIN disk[r.jIdx]
      BY <1>2, <3>1
    <3> DEFINE x == disk[r.jIdx][r.blk]
    <3>3. /\ x \in DiskBlock /\ Len(x.frames) \in Nat
          /\ lost = {} => \A k \in 1..Len(x.frames) : x.frames[k].seq = x.base + k - 1
      BY <3>1, <3>2, ReaderSees
    <3>4. r.idx \in 1..Len(x.frames)
      BY <1>1, <1>3, <2>1, <3>3 DEF InFile, HasFrame
    <3> HIDE DEF x
    <3>5. x.frames \in Seq(Frame) /\ x.base \in Nat
      BY <3>3 DEF DiskBlock
    <3>6. x.frames[r.idx] \in Frame
      BY <3>4, <3>5
    <3>7. x.frames[r.idx].seq \in Int
      BY <3>6, SizesAssumption DEF Frame
    <3>8. Label(r) = x.base + r.idx - 1 /\ SeqAt(r) = x.frames[r.idx].seq
      BY DEF Label, SeqAt, x
    <3>9. lost = {} => x.frames[r.idx].seq = x.base + r.idx - 1
      BY <3>3, <3>4
    <3>10. x.base + r.idx - 1 \in Int
      BY <1>3, <3>5
    <3>11. QED
      BY <3>7, <3>8, <3>9, <3>10
  <2> DEFINE d == Deliver(Skip(r), Label(r), SeqAt(r))
             p == [d EXCEPT !.pc = "range"]
             f == Filtered(Skip(r))
  <2>7. /\ d \in Cons /\ InFile(d) /\ TrueLabel(d)
        /\ f \in Cons /\ InFile(f) /\ TrueLabel(f) /\ f.pc = r.pc /\ f.jFiles = r.jFiles
    BY <2>2, <2>3, <2>6, Delivered
  <2>8. Placed(f)
    BY <2>1, <2>7 DEF Placed
  <2> HIDE DEF d
  <2>9. p \in Cons /\ InFile(p) /\ TrueLabel(p) /\ p.pc = "range"
    BY <2>7, Moved
  <2>10. Placed(p)
    <3> HIDE DEF p
    <3> QED BY <2>9 DEF Placed
  <2>11. \/ ConsumerStep(c, q) \/ ConsumerStep(c, Skip(r)) \/ ConsumerStep(c, [r EXCEPT !.pc = "failed"])
         \/ ConsumerStep(c, p) \/ ConsumerStep(c, f)
    BY <1>6 DEF JournalFrame, d
  <2> HIDE DEF q, p, f
  <2>12. QED
    BY <1>4, <2>2, <2>3, <2>4, <2>5, <2>7, <2>8, <2>9, <2>10, <2>11, ConsumerStepKeeps
<1>7. CASE NextFile(c)
  <2>1. r.pc = "journal" /\ r.jFiles > 0 /\ r.cursor < tail
    BY <1>7 DEF NextFile, Behind, Reading
  <2>2. CASE r.jIdx >= r.jFiles
    BY <1>4, <1>7, <2>2 DEF NextFile
  <2>3. CASE ~(r.jIdx >= r.jFiles)
    <3> DEFINE q == [r EXCEPT !.jIdx = @ + 1, !.jBlocks = Len(disk[r.jIdx + 1]), !.blk = 1, !.idx = 1]
    <3>1. ConsumerStep(c, q)
      BY <1>7, <2>3 DEF NextFile
    <3>2. /\ r.jIdx + 1 \in DOMAIN disk /\ r.jIdx + 1 \in 1..r.jFiles /\ r.jIdx + 1 \in Nat
          /\ r.jFiles <= Len(disk)
      <4>1. r.jFiles <= Len(disk) /\ r.jIdx \in 1..r.jFiles
        BY <1>1, <2>1 DEF InFile
      <4> DEFINE j == r.jIdx
                 n == r.jFiles
                 m == Len(disk)
      <4>2. j \in Nat /\ n \in Nat /\ m \in Nat /\ ~(j >= n) /\ n <= m /\ DOMAIN disk = 1..m
        BY <1>2, <1>3, <2>3, <4>1
      <4> HIDE DEF j, n, m
      <4>3. j + 1 \in 1..m /\ j + 1 \in 1..n /\ j + 1 \in Nat
        BY <4>2
      <4>4. QED
        BY <4>2, <4>3 DEF j, n, m
    <3>3. Len(disk[r.jIdx + 1]) \in Nat /\ DOMAIN disk[r.jIdx + 1] = 1..Len(disk[r.jIdx + 1])
      BY <1>2, <3>2
    <3>4. q \in Cons
      BY <1>1, <3>2, <3>3 DEF Cons
    <3>5. /\ q.pc = r.pc /\ q.got = r.got /\ q.jFiles = r.jFiles /\ q.cursor = r.cursor
      BY <1>1 DEF Cons
    <3>6. /\ q.jIdx = r.jIdx + 1 /\ q.jBlocks = Len(disk[r.jIdx + 1]) /\ q.blk = 1 /\ q.idx = 1
      BY <1>1 DEF Cons
    <3> HIDE DEF q
    <3>7. 1 <= Len(disk[r.jIdx + 1]) => 1 <= Len(disk[r.jIdx + 1][1].frames)
      <4>1. 1 <= Len(disk[r.jIdx + 1]) => 1 \in DOMAIN disk[r.jIdx + 1]
        BY <3>3
      <4>2. 1 \in DOMAIN disk[r.jIdx + 1] => Len(disk[r.jIdx + 1][1].frames) >= 1
        BY <3>2, ReaderSees
      <4>3. 1 \in DOMAIN disk[r.jIdx + 1] => Len(disk[r.jIdx + 1][1].frames) \in Nat
        BY <3>2, ReaderSees
      <4>4. QED
        BY <4>1, <4>2, <4>3
    <3>8. InFile(q)
      BY <3>2, <3>3, <3>5, <3>6, <3>7 DEF InFile
    <3>9. Placed(q) /\ TrueLabel(q)
      BY <1>1, <2>1, <3>5 DEF Placed, TrueLabel
    <3>10. QED
      BY <3>1, <3>4, <3>8, <3>9, ConsumerStepKeeps
  <2>4. QED
    BY <2>2, <2>3
<1>8. QED
  BY <1>5, <1>6, <1>7

\* Broker and writer move head and tail forward, add to the disk and to the
\* losses: no consumer is misplaced by them.
LEMMA ConsumersUndisturbed ==
  ASSUME ConsInv, JTypeOK, Extends(disk', disk), head' >= head, tail' >= tail,
         head \in Nat, head' \in Nat, tail \in Nat, tail' \in Nat, lost \subseteq lost',
         disk' \in Seq(Seq(DiskBlock)), cons' = cons \/ cons' = Notified(cons)
  PROVE  ConsInv'
<1>1. /\ disk \in Seq(Seq(DiskBlock)) /\ Len(disk) \in Nat /\ DOMAIN disk = 1..Len(disk)
      /\ \A i \in DOMAIN disk : disk[i] \in Seq(DiskBlock)
      /\ Len(disk') \in Nat
      /\ \A i \in 1..Len(disk') : disk'[i] \in Seq(DiskBlock)
  BY DEF JTypeOK
<1>2. ASSUME NEW r \in Cons, NEW q \in Cons, Placed(r), InFile(r), TrueLabel(r),
             \A s \in {"pc", "cursor", "got", "jFiles", "jIdx", "jBlocks", "blk", "idx"} : q[s] = r[s]
      PROVE  Placed(q)' /\ InFile(q)' /\ TrueLabel(q)'
  <2>1. /\ q.pc = r.pc /\ q.got = r.got /\ q.jFiles = r.jFiles /\ q.cursor = r.cursor
        /\ q.jIdx = r.jIdx /\ q.jBlocks = r.jBlocks /\ q.blk = r.blk /\ q.idx = r.idx
    BY <1>2
  <2>2. /\ r.cursor \in Nat /\ r.jFiles \in Nat /\ r.jIdx \in Nat /\ r.jBlocks \in Nat
        /\ r.blk \in Nat /\ r.idx \in Nat
    BY ConsFields
  <2>3. Placed(q)'
    BY <1>2, <2>1, <2>2 DEF Placed
  <2>4. TrueLabel(q)'
    BY <1>2, <2>1 DEF TrueLabel
  <2>5. InFile(q)'
    <3> SUFFICES ASSUME r.jFiles > 0
                 PROVE  /\ r.jFiles <= Len(disk') /\ r.jIdx \in 1..r.jFiles
                        /\ r.jBlocks <= Len(disk'[r.jIdx]) /\ r.blk >= 1 /\ r.idx >= 1
                        /\ r.blk <= r.jBlocks => r.idx <= Len(disk'[r.jIdx][r.blk].frames)
      BY <2>1 DEF InFile
    <3>1. /\ r.jFiles <= Len(disk) /\ r.jIdx \in 1..r.jFiles /\ r.jBlocks <= Len(disk[r.jIdx])
          /\ r.blk >= 1 /\ r.idx >= 1
          /\ r.blk <= r.jBlocks => r.idx <= Len(disk[r.jIdx][r.blk].frames)
      BY <1>2 DEF InFile
    <3>2. r.jIdx \in DOMAIN disk
      BY <1>1, <2>2, <3>1
    <3>3. /\ Len(disk') >= Len(disk) /\ Len(disk'[r.jIdx]) >= Len(disk[r.jIdx])
          /\ \A b \in DOMAIN disk[r.jIdx] : disk'[r.jIdx][b] = disk[r.jIdx][b]
      BY <3>2 DEF Extends
    <3>4. /\ Len(disk[r.jIdx]) \in Nat /\ DOMAIN disk[r.jIdx] = 1..Len(disk[r.jIdx])
          /\ r.jIdx \in 1..Len(disk') /\ Len(disk'[r.jIdx]) \in Nat
      <4>1. Len(disk[r.jIdx]) \in Nat /\ DOMAIN disk[r.jIdx] = 1..Len(disk[r.jIdx])
        BY <1>1, <3>2
      <4>2. r.jIdx \in 1..Len(disk')
        BY <1>1, <3>2, <3>3
      <4>3. Len(disk'[r.jIdx]) \in Nat
        BY <1>1, <4>2
      <4>4. QED
        BY <4>1, <4>2, <4>3
    <3>a. r.jFiles <= Len(disk) /\ Len(disk') >= Len(disk)
      BY <3>1, <3>3
    <3>b. r.jBlocks <= Len(disk[r.jIdx]) /\ Len(disk'[r.jIdx]) >= Len(disk[r.jIdx])
      BY <3>1, <3>3
    <3>5. r.blk <= r.jBlocks => disk'[r.jIdx][r.blk] = disk[r.jIdx][r.blk]
      <4> SUFFICES ASSUME r.blk <= r.jBlocks PROVE r.blk \in DOMAIN disk[r.jIdx]
        BY <3>3
      <4>1. r.blk >= 1 /\ r.blk <= Len(disk[r.jIdx])
        BY <2>2, <3>1, <3>4, <3>b, Between
      <4>2. QED
        BY <2>2, <3>4, <4>1
    <3>6. r.jFiles <= Len(disk') /\ r.jBlocks <= Len(disk'[r.jIdx])
      <4>1. r.jFiles <= Len(disk')
        BY <1>1, <2>2, <3>a, Between
      <4>2. r.jBlocks <= Len(disk'[r.jIdx])
        BY <2>2, <3>4, <3>b, Between
      <4>3. QED
        BY <4>1, <4>2
    <3>7. QED
      BY <3>1, <3>5, <3>6
  <2>6. QED
    BY <2>3, <2>4, <2>5
<1>3. ASSUME NEW c \in Consumers
      PROVE  /\ cons'[c] \in Cons
             /\ \A s \in {"pc", "cursor", "got", "jFiles", "jIdx", "jBlocks", "blk", "idx"} :
                  cons'[c][s] = cons[c][s]
  <2>1. cons[c] \in Cons
    BY DEF ConsInv
  <2>2. CASE cons' = cons
    BY <2>1, <2>2
  <2>3. CASE cons' = Notified(cons)
    <3> DEFINE n == (cons[c].notify \/ cons[c].pc # "new")
    <3>1. cons'[c] = [cons[c] EXCEPT !.notify = n] /\ n \in BOOLEAN
      BY <2>3 DEF Notified
    <3> HIDE DEF n
    <3>2. QED
      BY <2>1, <3>1 DEF Cons
  <2>4. QED
    BY <2>2, <2>3
<1>4. ASSUME NEW c \in Consumers PROVE (Placed(cons[c]) /\ InFile(cons[c]) /\ TrueLabel(cons[c]))'
  <2>1. cons[c] \in Cons /\ Placed(cons[c]) /\ InFile(cons[c]) /\ TrueLabel(cons[c])
    BY DEF ConsInv
  <2>2. \A q \in Cons : q = cons'[c] => Placed(q)' /\ InFile(q)' /\ TrueLabel(q)'
    BY <1>2, <1>3, <2>1
  <2>3. QED
    BY <1>3, <2>2 DEF Placed, InFile, TrueLabel
<1>5. cons' \in [Consumers -> Cons]
  <2>1. DOMAIN cons' = Consumers /\ cons' = [c \in Consumers |-> cons'[c]]
    BY DEF Notified, ConsInv
  <2>2. QED
    BY <1>3, <2>1
<1>6. QED
  BY <1>4, <1>5 DEF ConsInv

\* Every step of the boat's tiered log keeps the consumers placed.
LEMMA ConsStep ==
  ASSUME ~ReplicaMode, JTypeOK, JTypeOK', RingInv, RingInv', NoEmptyBlock, DriftIsLoss, ConsInv,
         [TNext]_tvars
  PROVE  ConsInv'
<1>1. /\ head \in Nat /\ head' \in Nat /\ tail \in Nat /\ tail' \in Nat
      /\ disk' \in Seq(Seq(DiskBlock))
  BY SizesAssumption DEF JTypeOK, RingInv
<1>2. Extends(disk', disk)
  BY DiskGrows, JournalStepOrStutter
<1>3. CASE THandleFrame
  <2>1. HandleFrame /\ tail' = TailAfter(head') /\ cons' = Notified(cons)
    BY <1>3 DEF THandleFrame, HandleFrame
  <2>2. head' = head + 1 /\ lost \subseteq lost'
    BY <2>1, HandleFrameEffect
  <2>3. head' >= head /\ tail' >= tail
    BY <1>1, <2>1, <2>2, RingAssumption DEF TailAfter
  <2>4. QED
    BY <1>1, <1>2, <2>1, <2>2, <2>3, ConsumersUndisturbed
<1>4. CASE JournalStep \/ UNCHANGED tvars
  <2>1. UNCHANGED <<head, tail, cons>> /\ lost \subseteq lost'
    BY <1>4 DEF JournalStep, BrokerExit, ShutdownStep, SetPaused, Writer, Discard,
                AppendFrame, IOFails, Finalize, tvars, jvars
  <2>2. head' >= head /\ tail' >= tail
    BY <1>1, <2>1
  <2>3. QED
    BY <1>1, <1>2, <2>1, <2>2, ConsumersUndisturbed
<1>5. ASSUME NEW c \in Consumers, NewConsumer(c) \/ Consume(c) \/ CloseConsumer(c)
      PROVE  ConsInv'
  BY <1>5, RingConsumerSteps, JournalConsumerSteps DEF Consume
<1>6. QED
  BY <1>3, <1>4, <1>5 DEF TNext

\* The invariants the consumers' theorems rest on, together.
LEMMA ConsInvariant ==
  ASSUME ~ReplicaMode
  PROVE  TSpec => [](JTypeOK /\ RingInv /\ ConsInv)
<1>1. TSpec => []JTypeOK
  BY RunsTheJournal, JTypeCorrect, PTL
<1>2. TSpec => []NoEmptyBlock
  BY RunsTheJournal, BlocksHaveFrames, PTL
<1>3. TSpec => []DriftIsLoss
  BY RunsTheJournal, LabelsDriftByLoss, PTL
<1>4. TSpec => []RingInv
  BY RingInvariant
<1>5. /\ JTypeOK /\ JTypeOK' /\ RingInv /\ RingInv' /\ NoEmptyBlock /\ DriftIsLoss
      /\ ConsInv /\ [TNext]_tvars
      => ConsInv'
  BY ConsStep
<1>6. QED
  BY <1>1, <1>2, <1>3, <1>4, <1>5, ConsInit, PTL DEF TSpec

\* On the boat, while the journal has lost nothing, a consumer is given every
\* frame under its own number, out of ring or journal, whatever broker and
\* writer do while it reads, for every ring, channel and block size.
THEOREM ConsumersSeeTrueNumbers ==
  ASSUME ~ReplicaMode
  PROVE  TSpec => []DeliveredTrue
<1>1. ConsInv => DeliveredTrue
  BY DEF ConsInv, TrueLabel, DeliveredTrue
<1>2. QED
  BY <1>1, ConsInvariant, PTL

\* On the boat, Next returns ErrFallenBehind only for a frame that has left the
\* ring: the re-check in readEntry and the loop of readFromJournal refuse none
\* that the ring holds.
THEOREM FallsBehindOnlyTheRing ==
  ASSUME ~ReplicaMode
  PROVE  TSpec => GivesUpOnlyBehindRing
<1>1. JTypeOK /\ RingInv /\ ConsInv /\ [TNext]_tvars =>
        [\A c \in Consumers :
           (cons[c].pc # "failed" /\ cons'[c].pc = "failed") => cons[c].cursor < tail]_tvars
  <2> SUFFICES ASSUME JTypeOK, RingInv, ConsInv, TNext, NEW c \in Consumers,
                      cons[c].pc # "failed", cons'[c].pc = "failed"
               PROVE  cons[c].cursor < tail
    OBVIOUS
  <2> DEFINE r == cons[c]
  <2>1. r \in Cons /\ Placed(r) /\ r.cursor \in Nat
    BY ConsFields DEF ConsInv
  <2>2. CASE THandleFrame
    <3>1. cons' = Notified(cons)
      BY <2>2 DEF THandleFrame
    <3>2. cons'[c].pc = r.pc
      BY <2>1, <3>1 DEF Notified, Cons
    <3>3. QED
      BY <3>2
  <2>3. CASE JournalStep
    BY <2>3 DEF JournalStep
  <2>4. ASSUME NEW d \in Consumers, NewConsumer(d) \/ Consume(d) \/ CloseConsumer(d)
        PROVE  r.cursor < tail
    <3>1. ASSUME NEW q, ConsumerStep(d, q) PROVE c = d /\ q.pc = "failed"
      BY <3>1 DEF ConsumerStep, ConsInv
    <3>2. CASE NewConsumer(d)
      <4>1. PICK s \in 1..head : ConsumerStep(d, [cons[d] EXCEPT !.pc = "range", !.cursor = s])
        BY <3>2 DEF NewConsumer
      <4>2. c = d /\ [r EXCEPT !.pc = "range", !.cursor = s].pc = "failed"
        BY <3>1, <4>1
      <4>3. QED
        BY <2>1, <4>2 DEF Cons
    <3>3. CASE RingRange(d) \/ Select(d) \/ Wake(d) \/ CloseConsumer(d) \/ SwitchToRing(d)
      <4>1. PICK q \in {[cons[d] EXCEPT !.pc = p] : p \in {"journal", "read", "caughtup", "wait"}}
                 \union {[cons[d] EXCEPT !.pc = "range", !.notify = FALSE],
                         [cons[d] EXCEPT !.pc = "closed", !.notify = FALSE, !.jFiles = 0],
                         [cons[d] EXCEPT !.pc = "range", !.jFiles = 0]} :
                 ConsumerStep(d, q)
        BY <3>3 DEF RingRange, Select, Wake, CloseConsumer, SwitchToRing
      <4>2. c = d /\ q.pc = "failed"
        BY <3>1, <4>1
      <4>3. /\ \A p : [r EXCEPT !.pc = p].pc = p
            /\ [r EXCEPT !.pc = "range", !.notify = FALSE].pc = "range"
            /\ [r EXCEPT !.pc = "closed", !.notify = FALSE, !.jFiles = 0].pc = "closed"
            /\ [r EXCEPT !.pc = "range", !.jFiles = 0].pc = "range"
        <5> HIDE DEF r
        <5>1. "pc" \in DOMAIN r
          BY <2>1 DEF Cons
        <5>2. QED
          BY <5>1
      <4>4. CASE q \in {[cons[d] EXCEPT !.pc = p] : p \in {"journal", "read", "caughtup", "wait"}}
        <5>1. PICK p \in {"journal", "read", "caughtup", "wait"} : q = [r EXCEPT !.pc = p]
          BY <4>2, <4>4
        <5>2. q.pc = p
          BY <4>3, <5>1
        <5>3. QED
          BY <4>2, <5>2
      <4>5. CASE q \in {[cons[d] EXCEPT !.pc = "range", !.notify = FALSE],
                       [cons[d] EXCEPT !.pc = "closed", !.notify = FALSE, !.jFiles = 0],
                       [cons[d] EXCEPT !.pc = "range", !.jFiles = 0]}
        <5>1. q.pc = "range" \/ q.pc = "closed"
          BY <4>2, <4>3, <4>5
        <5>2. QED
          BY <4>2, <5>1
      <4>6. QED
        BY <4>1, <4>4, <4>5
    <3>4. CASE ReadEntry(d)
      <4>1. c = d
        BY <3>1, <3>4 DEF ReadEntry
      <4>2. r.pc = "read" /\ r.cursor < head
        BY <2>1, <3>4, <4>1 DEF ReadEntry, Placed
      <4>3. CASE Readable(r.cursor)
        <5>1. PICK q \in {Deliver(r, r.cursor, ring[Slot(r.cursor)]), Filtered(r)} :
                ConsumerStep(c, [q EXCEPT !.pc = "range"])
          BY <3>4, <4>1, <4>3 DEF ReadEntry
        <5>2. [q EXCEPT !.pc = "range"].pc = "failed"
          BY <3>1, <4>1, <5>1
        <5>3. q.pc = r.pc /\ "pc" \in DOMAIN q
          BY <2>1, <5>1 DEF Deliver, Filtered, Cons
        <5>4. QED
          BY <5>2, <5>3
      <4>4. CASE ~Readable(r.cursor)
        <5> SUFFICES ASSUME ~(r.cursor < tail) PROVE FALSE
          OBVIOUS
        <5>1. tail \in Nat /\ head \in Nat
          BY SizesAssumption DEF JTypeOK, RingInv
        <5>2. r.cursor \in tail..(head - 1)
          BY <2>1, <4>2, <5>1
        <5>3. ring[Slot(r.cursor)] = r.cursor
          BY <5>2 DEF RingInv, RingExact
        <5>4. QED
          BY <2>1, <4>2, <4>4, <5>1, <5>2, <5>3 DEF Readable
      <4>5. QED
        BY <4>3, <4>4
    <3>5. CASE OpenJournal(d)
      BY <2>1, <3>1, <3>5 DEF OpenJournal, Placed
    <3>6. CASE JournalFrame(d) \/ NextFile(d)
      BY <3>1, <3>6 DEF JournalFrame, NextFile, Behind
    <3>7. QED
      BY <2>4, <3>2, <3>3, <3>4, <3>5, <3>6 DEF Consume
  <2>5. QED
    BY <2>2, <2>3, <2>4 DEF TNext
<1>2. QED
  BY <1>1, ConsInvariant, PTL DEF TSpec, GivesUpOnlyBehindRing
=============================================================================
