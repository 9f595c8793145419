----------------------------- MODULE JournalFile -----------------------------
(***************************************************************************)
(* A journal file in bytes: what JournalWriter and BlockWriter leave on    *)
(* disk (journal_writer.go, block_writer.go), whole or cut short by a      *)
(* crash or a failed write, and what journal.Reader finds in it            *)
(* (journal/reader.go): through the block index or by scanning, from the   *)
(* start or after a seek, with or without read-ahead, while the writer may *)
(* still append.                                                           *)
(*                                                                         *)
(* A file is a sequence of cells.  The file header, a block header, a      *)
(* dictionary, an entry of the index and its tail are a cell each, a       *)
(* block's payload is Size cells; a payload decodes if all its cells are   *)
(* the block's, which is what decompression and checksum see to.  A        *)
(* BlockWriter is given blocks of one compression, none or zstd.           *)
(***************************************************************************)
EXTENDS Integers, Sequences

CONSTANTS
  Size,       \* cells of a block's payload, at least 2
  Lens        \* bound: the blocks of a file, by the number of their frames

JournalFileAssumption == Size \in Nat \ {0} /\ Lens \in Seq(Nat \ {0})
ASSUME JournalFileAssumption

VARIABLES
  kind,     \* the writer: "journal" or "block"
  comp,     \* compression: "none", "zstd" or "dict"
  cells,    \* the file
  bytes,    \* writer: fileBytes
  offsets,  \* writer: blockOffsets
  writer,   \* "open", "closed" or "dead"
  given,    \* history: the blocks given to the writer
  stored,   \* history: how many were written before a write failed
  failed,   \* history: a write failed
  reader    \* the Reader, or NoReader

writerVars == <<kind, comp, cells, bytes, offsets, writer, given, stored, failed>>
jvars == <<writerVars, reader>>

\* A block: its first number, its frames' times and whether it has a dictionary.
Block(s, ts, d) == [seq |-> s, times |-> ts, dict |-> d]
EndSeq(b) == b.seq + Len(b.times)
NextSeq == IF given = <<>> THEN 1 ELSE EndSeq(given[Len(given)])
LastTime == IF given = <<>> THEN 0 ELSE LET b == given[Len(given)] IN b.times[Len(b.times)]

NoBlock == Block(0, <<>>, FALSE)
NoReader == [blocks |-> <<>>, cur |-> 0, idx |-> 0, data |-> NoBlock, ahead |-> FALSE,
             pf |-> 0, buf |-> NoBlock, known |-> 0, from |-> [by |-> "none", at |-> 0],
             out |-> <<>>, state |-> "none"]

FileHeader == [cell |-> "file"]
Header(b) == [cell |-> "header", b |-> b]
Dict(b) == [cell |-> "dict", b |-> b]
Data(b, j) == [cell |-> "data", b |-> b, j |-> j]
Offset(o) == [cell |-> "offset", at |-> o]
Tail4(n) == [cell |-> "tail", count |-> n]

JFInit ==
  /\ kind \in {"journal", "block"}
  /\ comp \in IF kind = "journal" THEN {"none", "zstd", "dict"} ELSE {"none", "zstd"}
  /\ cells = <<FileHeader>> /\ bytes = 1 /\ offsets = <<>> /\ writer = "open"
  /\ given = <<>> /\ stored = 0 /\ failed = FALSE /\ reader = NoReader
-----------------------------------------------------------------------------
(* Writing *)

HeaderLen(c, d) == IF c = "none" THEN 0 ELSE IF d THEN 2 ELSE 1

\* What is written of a block: header, dictionary, payload, a write call each.
BlockCells(b) ==
  (IF comp = "none" THEN <<>> ELSE IF b.dict THEN <<Header(b), Dict(b)>> ELSE <<Header(b)>>)
    \o [j \in 1..Size |-> Data(b, j)]
BlockLen(b) == HeaderLen(comp, b.dict) + Size

\* The offset is noted before anything is written.
Noted == IF comp = "none" THEN offsets ELSE Append(offsets, bytes)

\* The next block: its frames follow on the last; the clock does not go back.
NewBlock(gap, d) == Block(NextSeq, [i \in 1..Lens[Len(given) + 1] |-> LastTime + gap + i - 1], d)
Dicts == IF comp = "dict" THEN BOOLEAN ELSE {FALSE}
NewBlocks == {NewBlock(gap, d) : gap \in 0..1, d \in Dicts}

AppendBlock ==
  /\ writer = "open" /\ Len(given) < Len(Lens)
  /\ \E b \in NewBlocks :
       /\ given' = Append(given, b)
       /\ cells' = cells \o BlockCells(b)
       /\ bytes' = bytes + BlockLen(b)
  /\ offsets' = Noted
  /\ stored' = IF failed THEN stored ELSE stored + 1
  /\ UNCHANGED <<kind, comp, writer, failed, reader>>

\* One of the write calls fails part of the way: fileBytes counts the calls
\* before it.  The journal writer's Run returns; the block writer is given the
\* next block all the same.  A crash looks like the former.
AppendFails ==
  /\ writer = "open" /\ Len(given) < Len(Lens)
  /\ \E b \in NewBlocks : \E k \in 0..(BlockLen(b) - 1) :
       /\ given' = Append(given, b)
       /\ cells' = cells \o SubSeq(BlockCells(b), 1, k)
       /\ bytes' = bytes + (IF k < HeaderLen(comp, b.dict) THEN k ELSE HeaderLen(comp, b.dict))
  /\ offsets' = Noted
  /\ writer' = IF kind = "journal" THEN "dead" ELSE "open"
  /\ failed' = TRUE
  /\ UNCHANGED <<kind, comp, stored, reader>>

Index == [i \in 1..Len(offsets) |-> Offset(offsets[i])] \o <<Tail4(Len(offsets))>>

\* A compressed file with a block gets an index.
Indexed == comp # "none" /\ offsets # <<>>

\* Rotation and close: the index is written, or a part of it.
CloseFile ==
  /\ writer = "open"
  /\ \/ /\ cells' = IF Indexed THEN cells \o Index ELSE cells
        /\ writer' = "closed"
     \/ /\ Indexed
        /\ \E k \in 0..Len(offsets) : cells' = cells \o SubSeq(Index, 1, k)
        /\ writer' = "dead"
  /\ UNCHANGED <<kind, comp, bytes, offsets, given, stored, failed, reader>>
-----------------------------------------------------------------------------
(* Opening *)

Cell(o) == IF o < Len(cells) THEN cells[o + 1] ELSE [cell |-> "eof"]

\* A block's header as the reader takes it: from the index, the scan or a load.
Info(o) == [off |-> o, time |-> Cell(o).b.times[1], seq |-> Cell(o).b.seq]

\* readBlockIndex: the tail's magic, then every offset checked.
HasIndex ==
  LET n == Len(cells)
  IN  /\ cells[n].cell = "tail"
      /\ LET c == cells[n].count
             first == n - c       \* position of the table
         IN  /\ first > 1
             /\ \A i \in 1..c :
                  /\ cells[first + i - 1].at >= 1 /\ cells[first + i - 1].at < first - 1
                  /\ i > 1 => cells[first + i - 1].at > cells[first + i - 2].at
IndexBlocks ==
  LET n == Len(cells)
      c == cells[n].count
  IN  [i \in 1..c |-> LET o == cells[n - c + i - 1].at
                      IN  IF Cell(o).cell = "header" THEN Info(o) ELSE [off |-> o, time |-> 0, seq |-> 0]]

\* Mutant: a block that runs into the end of the file is taken too.
FitsFile_Header(o) == o < Len(cells)
FitsFile(o) == o + HeaderLen(comp, Cell(o).b.dict) + Size <= Len(cells)

\* scanBlocks: header by header, as long as the block ends within the file.  A
\* piece of an index read as a header has no such end.
ScanRound(s) ==
  IF Cell(s.off).cell = "header" /\ FitsFile(s.off)
    THEN [off    |-> s.off + HeaderLen(comp, Cell(s.off).b.dict) + Size,
          blocks |-> Append(s.blocks, Info(s.off))]
    ELSE s
ScanBlocks ==
  LET scan[k \in 0..Len(cells)] ==      \* after k rounds
        IF k = 0 THEN [off |-> 1, blocks |-> <<>>] ELSE ScanRound(scan[k - 1])
  IN  scan[Len(cells)].blocks

FixedBlocks == [i \in 1..((Len(cells) - 1) \div Size) |->
                  LET o == 1 + (i - 1) * Size
                  IN  [off |-> o, time |-> Cell(o).b.times[1], seq |-> Cell(o).b.seq]]

BlocksOf == IF comp = "none" THEN FixedBlocks
            ELSE IF HasIndex THEN IndexBlocks ELSE ScanBlocks

\* NewReader, with or without EnablePrefetch.
NewReader ==
  /\ reader.state = "none"
  /\ \E ahead \in BOOLEAN :
       reader' = [NoReader EXCEPT !.blocks = BlocksOf, !.ahead = ahead, !.state = "open", !.known = stored]
  /\ UNCHANGED writerVars
-----------------------------------------------------------------------------
(* Loading a block *)

Bad == [ok |-> FALSE, b |-> NoBlock]

\* blockPayloadLimit: up to the next block, or to the end of the file as it is.
Limit(r, n) == IF n < Len(r.blocks) THEN r.blocks[n + 1].off ELSE Len(cells)

Decoded(o) ==
  LET b == Cell(o).b
  IN  IF \A j \in 1..Size : Cell(o + j - 1) = Data(b, j)
        THEN [ok |-> TRUE, b |-> b] ELSE Bad

\* loadUncompressedBlock, loadCompressedBlock, loadDictCompressedBlock.
ReadBlock(r, n) ==
  LET o == r.blocks[n].off
      h == HeaderLen(comp, Cell(o).b.dict)
  IN  IF comp = "none" THEN (IF Cell(o).cell = "data" THEN Decoded(o) ELSE Bad)
      ELSE IF Cell(o).cell # "header" THEN Bad
      ELSE IF o + h + Size > Limit(r, n) \/ Cell(o + h).cell # "data" THEN Bad
      ELSE Decoded(o + h)

\* startPrefetch: a block that cannot be read is left to the next load.
Prefetched(r, n) ==
  IF r.ahead /\ n <= Len(r.blocks) /\ ReadBlock(r, n).ok
    THEN [r EXCEPT !.pf = n, !.buf = ReadBlock(r, n).b]
    ELSE [r EXCEPT !.pf = 0]

IsAhead(r, n) == r.pf = n

\* loadBlock: the block read ahead if it is the one, then the next is begun.
LoadBlock(r, n) ==
  LET got == IF IsAhead(r, n) THEN [ok |-> TRUE, b |-> r.buf] ELSE ReadBlock(r, n)
  IN  IF got.ok THEN Prefetched([r EXCEPT !.cur = n, !.idx = 0, !.data = got.b], n + 1)
      ELSE [r EXCEPT !.state = "failed", !.pf = 0]

CancelPrefetch(r) == [r EXCEPT !.pf = 0]
-----------------------------------------------------------------------------
(* Reading *)

\* The last block that does not begin after x, by binary search; or the first.
SearchRound(s, key, x) ==
  LET mid == s.lo + ((s.hi - s.lo) \div 2)
  IN  IF s.lo > s.hi THEN s
      ELSE IF key[mid] <= x THEN [lo |-> mid + 1, hi |-> s.hi]
      ELSE [lo |-> s.lo, hi |-> mid - 1]
Search(key, n, x) ==
  LET range[k \in 0..n] ==      \* after k rounds
        IF k = 0 THEN [lo |-> 1, hi |-> n] ELSE SearchRound(range[k - 1], key, x)
      found == range[n].lo
  IN  IF found > 1 THEN found - 1 ELSE 1

Keys(r, by) == [i \in 1..Len(r.blocks) |-> IF by = "seq" THEN r.blocks[i].seq ELSE r.blocks[i].time]

\* SeekToSeq and SeekToTime, at any time.
Seek(by, x) ==
  /\ reader.state = "open" /\ reader.blocks # <<>> /\ reader.from.by = "none"
  /\ LET r == [CancelPrefetch(reader) EXCEPT !.from = [by |-> by, at |-> x], !.out = <<>>]
     IN  reader' = LoadBlock(r, Search(Keys(r, by), Len(r.blocks), x))
  /\ UNCHANGED writerVars

SeekToSeq == \E x \in 1..NextSeq : Seek("seq", x)
SeekToTime == \E x \in 0..LastTime : Seek("time", x)

\* Next: the next frame of the block, or the next block.
ReadNext ==
  /\ reader.state = "open"
  /\ LET r == reader
     IN  reader' =
           IF r.cur > 0 /\ r.idx < Len(r.data.times)
             THEN [r EXCEPT !.idx = r.idx + 1,
                            !.out = Append(@, [seq |-> r.data.seq + r.idx, time |-> r.data.times[r.idx + 1]])]
           ELSE IF r.cur < Len(r.blocks) THEN LoadBlock(r, r.cur + 1)
           ELSE [r EXCEPT !.state = "end"]
  /\ UNCHANGED writerVars

-----------------------------------------------------------------------------
(* GET /history over the file *)

\* handleHistory: from and to, a limit, a downsampling interval or none (0).
Queries == {q \in [from : 0..LastTime, to : 0..LastTime, limit : {1, 10}, interval : {0, 2}] :
              q.from <= q.to}

\* A block's frames, as Next gives them.
FrameSeq(b) == [i \in 1..Len(b.times) |-> [seq |-> b.seq + i - 1, time |-> b.times[i]]]

\* What Next gives after SeekToTime found block n, up to one that cannot be loaded.
ReadRound(s, got) ==
  IF s.ok /\ got.ok THEN [out |-> s.out \o FrameSeq(got.b), ok |-> TRUE]
  ELSE [out |-> s.out, ok |-> FALSE]
FramesFrom(r, n) ==
  LET read[k \in 0..(Len(r.blocks) - n + 1)] ==      \* after k blocks
        IF k = 0 THEN [out |-> <<>>, ok |-> TRUE]
        ELSE ReadRound(read[k - 1], ReadBlock(r, n + k - 1))
  IN  read[Len(r.blocks) - n + 1].out

\* Mutant: the loop ends at a frame of the end time.
Past_Inclusive(f, q) == f.time >= q.to
Past(f, q) == f.time > q.to

\* The frame is one more of a bucket that has been answered.
SameBucket(out, f, q) ==
  q.interval > 0 /\ out # <<>> /\ out[Len(out)].time \div q.interval = f.time \div q.interval

\* The frames a new reader gives after SeekToTime.
FramesSince(t) ==
  LET r == [NoReader EXCEPT !.blocks = BlocksOf]
  IN  IF r.blocks = <<>> THEN <<>> ELSE FramesFrom(r, Search(Keys(r, "time"), Len(r.blocks), t))

\* runReplay: lplex dump of the file, from a time on; frames are neither left out
\* nor renumbered.
Replay(t) == FramesSince(t)

\* queryOneFile, for one source and PGN: the loop ends past the end or at the limit.
QueryRound(st, f, q) ==
  IF st.ended \/ Len(st.out) >= q.limit \/ Past(f, q) THEN [st EXCEPT !.ended = TRUE]
  ELSE IF f.time < q.from \/ SameBucket(st.out, f, q) THEN st
  ELSE [st EXCEPT !.out = Append(@, f)]
QueryOneFile(q) ==
  LET fs == FramesSince(q.from)
      loop[i \in 0..Len(fs)] ==      \* what is answered after i frames
        IF i = 0 THEN [out |-> <<>>, ended |-> FALSE] ELSE QueryRound(loop[i - 1], fs[i], q)
  IN  loop[Len(fs)].out

JFNext == AppendBlock \/ AppendFails \/ CloseFile \/ NewReader \/ SeekToSeq \/ SeekToTime \/ ReadNext
JFSpec == JFInit /\ [][JFNext]_jvars
-----------------------------------------------------------------------------
(* Properties *)

FramesOf(b) == {FrameSeq(b)[i] : i \in 1..Len(b.times)}
Sought(f) == CASE reader.from.by = "none" -> TRUE
               [] reader.from.by = "seq"  -> f.seq >= reader.from.at
               [] reader.from.by = "time" -> f.time > reader.from.at
Readable == UNION {FramesOf(given[i]) : i \in 1..reader.known}

\* A reader that comes to its end has given every frame, from where it was sent
\* on, of the blocks that were in the file before a crash, a failed write or its
\* opening, and gives nothing twice, out of order, or under another number or
\* time, however the file was found and read.  What a block writer appends after
\* a failed write may be out of reach, and a block that begins at the very time
\* sought hides frames of that time before it.
ReadComplete ==
  /\ \A i, j \in DOMAIN reader.out : i < j => reader.out[i].seq < reader.out[j].seq
  /\ \A i \in DOMAIN reader.out : \E k \in DOMAIN given : reader.out[i] \in FramesOf(given[k])
  /\ (reader.state = "end" \/ (reader.state = "failed" /\ reader.from.by = "none")) =>
       \A f \in Readable : Sought(f) => \E i \in DOMAIN reader.out : reader.out[i] = f
  /\ (kind = "journal" \/ ~failed) => reader.state # "failed"

InWindow(q) == {f \in UNION {FramesOf(given[i]) : i \in 1..stored} : q.from < f.time /\ f.time <= q.to}

\* A history query, without a limit that cuts it short, answers with every frame
\* of the window that is in the file, or with an interval with one frame of every
\* bucket that has any; never with a frame outside the window, and with none that
\* a replay of the file from the same time on does not give.
HistoryExact ==
  (reader.state = "none" /\ (kind = "journal" \/ ~failed)) =>
    \A q \in Queries :
      LET out == QueryOneFile(q)
      IN  /\ \A i \in DOMAIN out : q.from <= out[i].time /\ out[i].time <= q.to
          /\ \A i, j \in DOMAIN out : i < j => out[i].seq < out[j].seq
          /\ \A i \in DOMAIN out : \E k \in DOMAIN Replay(q.from) : Replay(q.from)[k] = out[i]
          /\ Len(out) <= q.limit
          /\ \A f \in InWindow(q) :
               \/ Len(out) = q.limit
               \/ \E i \in DOMAIN out : out[i] = f
               \/ q.interval > 0 /\ \E i \in DOMAIN out : out[i].time \div q.interval = f.time \div q.interval
=============================================================================
