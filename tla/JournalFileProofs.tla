-------------------------- MODULE JournalFileProofs --------------------------
(***************************************************************************)
(* What is read from a journal file (journal/reader.go, history.go),       *)
(* for any blocks of any length, any payload size, and any crash or failed *)
(* write: the layout of the file is an invariant of its writers; from it a *)
(* reader that comes to its end has given every frame it was to give, and  *)
(* a history query answers for exactly its window.                         *)
(***************************************************************************)
EXTENDS JournalFile, HoleRangesProofs, SequenceTheorems
-----------------------------------------------------------------------------
(* Journal files: what is on disk *)

Blocks == [seq : Nat, times : Seq(Nat), dict : BOOLEAN]

\* A block has a frame, its times do not go back, and only the dictionary
\* compression knows dictionaries.
GoodBlock(b) ==
  /\ Len(b.times) >= 1
  /\ \A i, j \in 1..Len(b.times) : i < j => b.times[i] <= b.times[j]
  /\ b.dict => comp = "dict"

\* Every frame of b comes before every frame of c.
Earlier(b, c) == EndSeq(b) <= c.seq /\ b.times[Len(b.times)] <= c.times[1]

AllCells ==
  [cell : {"file"}] \union [cell : {"header", "dict"}, b : Blocks] \union [cell : {"data"}, b : Blocks, j : 1..Size]
    \union [cell : {"offset"}, at : Nat] \union [cell : {"tail"}, count : Nat]

OfBlock(c) == c.cell \in {"header", "dict", "data"}

\* The cell a block begins with.
Anchor(c) == IF comp = "none" THEN c.cell = "data" /\ c.j = 1 ELSE c.cell = "header"

\* The block is in the file, from offset o on.
Holds(o, b) == o + BlockLen(b) <= Len(cells) /\ \A j \in 1..BlockLen(b) : cells[o + j] = BlockCells(b)[j]

\* Where the i-th block that was stored begins, and what comes after the last.
StartOf(i) == IF comp = "none" THEN 1 + (i - 1) * Size
              ELSE IF i <= Len(offsets) THEN offsets[i] ELSE bytes

FileTypes ==
  /\ kind \in {"journal", "block"} /\ comp \in {"none", "zstd", "dict"}
  /\ kind = "block" => comp # "dict"
  /\ given \in Seq(Blocks) /\ cells \in Seq(AllCells) /\ offsets \in Seq(Nat) /\ bytes \in Nat
  /\ stored \in 0..Len(given) /\ failed \in BOOLEAN /\ writer \in {"open", "closed", "dead"}
  /\ Len(cells) >= 1 /\ cells[1] = FileHeader

\* The blocks given follow one another.
GivenInOrder ==
  /\ \A k \in 1..Len(given) : GoodBlock(given[k])
  /\ \A i, k \in 1..Len(given) : i < k => Earlier(given[i], given[k])

\* Every cell of a block is of one that was given, and the blocks begin in order.
CellsInOrder ==
  /\ \A x \in 1..Len(cells) : OfBlock(cells[x]) => \E k \in 1..Len(given) : cells[x].b = given[k]
  /\ \A x, y \in 1..Len(cells) : x < y /\ Anchor(cells[x]) /\ Anchor(cells[y]) => Earlier(cells[x].b, cells[y].b)

\* After a header comes its own payload or another kind of cell.
HeadersFollowed ==
  \A x \in 1..Len(cells) : cells[x].cell = "header" =>
    LET y == x + HeaderLen(comp, cells[x].b.dict)
    IN  /\ y <= Len(cells) /\ cells[y].cell = "data" => cells[y] = Data(cells[x].b, 1)
        /\ ~failed => y <= Len(cells)

\* An uncompressed file has payloads only.
OnlyPayload == comp = "none" => \A x \in 2..Len(cells) : cells[x].cell = "data"

\* The blocks stored before a failure are at the beginning of the file, one behind
\* the other; behind them no whole block begins unless a block writer went on.
StoredInPlace ==
  /\ StartOf(1) = 1 /\ StartOf(stored + 1) <= Len(cells)
  /\ \A i \in 1..stored : Holds(StartOf(i), given[i]) /\ StartOf(i + 1) = StartOf(i) + BlockLen(given[i])
  /\ comp # "none" => IF failed THEN Len(offsets) > stored ELSE Len(offsets) = stored
  /\ ~failed => stored = Len(given)
  /\ ~failed /\ writer = "open" => bytes = Len(cells) /\ StartOf(stored + 1) = Len(cells)
  /\ failed /\ kind = "journal" => writer = "dead"

NothingBehind ==
  kind = "journal" \/ ~failed =>
    LET o == StartOf(stored + 1)
    IN  IF comp = "none" THEN o + Size > Len(cells)
        ELSE ~(Cell(o).cell = "header" /\ FitsFile(o))

\* The tail of an index is the last cell, behind all offsets.
IndexAtEnd ==
  \A x \in 1..Len(cells) : cells[x].cell = "tail" =>
    LET m == x - 1 - Len(offsets)
    IN  /\ x = Len(cells) /\ writer = "closed" /\ comp # "none"
        /\ cells[x].count = Len(offsets) /\ m >= 1
        /\ \A i \in 1..Len(offsets) : cells[m + i] = Offset(offsets[i])

Layout == /\ FileTypes /\ GivenInOrder /\ CellsInOrder /\ HeadersFollowed /\ OnlyPayload
          /\ StoredInPlace /\ NothingBehind /\ IndexAtEnd
-----------------------------------------------------------------------------
(* Journal files: cells *)

\* What follows what, after one sequence is put behind another.
LEMMA Joined ==
  ASSUME NEW S, NEW c \in Seq(S), NEW e \in Seq(S)
  PROVE  /\ c \o e \in Seq(S) /\ Len(c \o e) = Len(c) + Len(e)
         /\ \A x \in 1..Len(c) : (c \o e)[x] = c[x]
         /\ \A j \in 1..Len(e) : (c \o e)[Len(c) + j] = e[j]
<1>1. Len(c) \in Nat /\ Len(e) \in Nat
  OBVIOUS
<1> QED BY <1>1, ConcatProperties

\* The cells of a block and of its header.
LEMMA BlockShape ==
  ASSUME comp \in {"none", "zstd", "dict"}, NEW b \in Blocks, NEW h, h = HeaderLen(comp, b.dict)
  PROVE  /\ h \in 0..2 /\ (h = 0 <=> comp = "none") /\ (h = 2 <=> comp # "none" /\ b.dict)
         /\ Size \in Nat \ {0} /\ BlockLen(b) = h + Size /\ BlockLen(b) \in Nat
         /\ BlockCells(b) \in Seq(AllCells) /\ Len(BlockCells(b)) = BlockLen(b)
         /\ comp # "none" => BlockCells(b)[1] = Header(b)
         /\ h = 2 => BlockCells(b)[2] = Dict(b)
         /\ \A j \in 1..Size : BlockCells(b)[h + j] = Data(b, j)
<1>0. b.dict \in BOOLEAN
  BY DEF Blocks
<1>1. h \in 0..2 /\ (h = 0 <=> comp = "none") /\ (h = 2 <=> comp # "none" /\ b.dict)
  BY <1>0 DEF HeaderLen
<1>2. Size \in Nat \ {0} /\ BlockLen(b) = h + Size
  BY JournalFileAssumption DEF JournalFileAssumption, BlockLen
<1> DEFINE A == IF comp = "none" THEN <<>> ELSE IF b.dict THEN <<Header(b), Dict(b)>> ELSE <<Header(b)>>
           P == [j \in 1..Size |-> Data(b, j)]
<1>3. Header(b) \in AllCells /\ Dict(b) \in AllCells
  BY DEF Header, Dict, AllCells
<1>4. \A j \in 1..Size : Data(b, j) \in AllCells
  BY DEF Data, AllCells
<1>5. P \in Seq(AllCells) /\ Len(P) = Size /\ \A j \in 1..Size : P[j] = Data(b, j)
  BY <1>2, <1>4
<1>6. /\ A \in Seq(AllCells) /\ Len(A) = h
      /\ comp # "none" => A[1] = Header(b)
      /\ h = 2 => A[2] = Dict(b)
  <2>1. CASE comp = "none"
    BY <2>1, <1>1
  <2>2. CASE comp # "none" /\ b.dict
    <3>1. A = <<Header(b), Dict(b)>> /\ h = 2
      BY <2>2, <1>1
    <3> HIDE DEF A
    <3> QED BY <3>1, <1>3
  <2>3. CASE comp # "none" /\ ~b.dict
    <3>1. A = <<Header(b)>> /\ h = 1
      BY <2>3, <1>1
    <3> HIDE DEF A
    <3> QED BY <3>1, <1>3
  <2> QED BY <2>1, <2>2, <2>3, Zenon
<1>7. BlockCells(b) = A \o P
  BY DEF BlockCells
<1> HIDE DEF A, P
<1>8. /\ BlockCells(b) \in Seq(AllCells) /\ Len(BlockCells(b)) = h + Size
      /\ \A x \in 1..h : BlockCells(b)[x] = A[x]
      /\ \A j \in 1..Size : BlockCells(b)[h + j] = P[j]
  BY <1>5, <1>6, <1>7, Joined, SMTT(30)
<1>9. comp # "none" => BlockCells(b)[1] = Header(b)
  BY <1>1, <1>6, <1>8
<1>10. h = 2 => BlockCells(b)[2] = Dict(b)
  BY <1>6, <1>8
<1> QED BY <1>1, <1>2, <1>5, <1>8, <1>9, <1>10

\* Numbers of a block: its ends.
LEMMA BlockEnds ==
  ASSUME NEW b \in Blocks, GoodBlock(b)
  PROVE  /\ b.seq \in Nat /\ Len(b.times) \in Nat \ {0} /\ EndSeq(b) \in Nat /\ b.seq < EndSeq(b)
         /\ \A i \in 1..Len(b.times) : b.times[i] \in Nat
         /\ \A i \in 1..Len(b.times) : b.times[1] <= b.times[i] /\ b.times[i] <= b.times[Len(b.times)]
<1>1. b.seq \in Nat /\ b.times \in Seq(Nat)
  BY DEF Blocks
<1>2. Len(b.times) \in Nat \ {0} /\ \A i \in 1..Len(b.times) : b.times[i] \in Nat
  BY <1>1 DEF GoodBlock
<1>3. ASSUME NEW i \in 1..Len(b.times) PROVE b.times[1] <= b.times[i] /\ b.times[i] <= b.times[Len(b.times)]
  <2>1. 1 \in 1..Len(b.times) /\ Len(b.times) \in 1..Len(b.times)
    BY <1>2
  <2>2. i = 1 \/ 1 < i
    OBVIOUS
  <2>3. i = Len(b.times) \/ i < Len(b.times)
    BY <1>2
  <2> QED BY <1>2, <2>1, <2>2, <2>3 DEF GoodBlock
<1> QED BY <1>1, <1>2, <1>3 DEF EndSeq

\* The blocks given are good blocks.
LEMMA GivenBlocks ==
  ASSUME FileTypes, GivenInOrder
  PROVE  /\ Len(given) \in Nat
         /\ \A k \in 1..Len(given) : given[k] \in Blocks /\ GoodBlock(given[k])
BY DEF FileTypes, GivenInOrder

\* A new block comes after all that were given.
LEMMA NewBlockFits ==
  ASSUME FileTypes, GivenInOrder, Len(given) < Len(Lens), NEW b \in NewBlocks
  PROVE  /\ b \in Blocks /\ GoodBlock(b)
         /\ \A k \in 1..Len(given) : Earlier(given[k], b)
<1>1. PICK gap \in 0..1, d \in Dicts : b = NewBlock(gap, d)
  BY DEF NewBlocks
<1>2. PICK m : m = Lens[Len(given) + 1]
  OBVIOUS
<1>3. m \in Nat \ {0} /\ Len(given) \in Nat
  BY <1>2, GivenBlocks, JournalFileAssumption DEF JournalFileAssumption
<1>4. PICK n : n = NextSeq
  OBVIOUS
<1>5. PICK t : t = LastTime
  OBVIOUS
<1>6. n \in Nat /\ t \in Nat /\ \A k \in 1..Len(given) :
        EndSeq(given[k]) <= n /\ given[k].times[Len(given[k].times)] <= t
  <2>1. CASE given = <<>>
    BY <2>1, <1>4, <1>5 DEF NextSeq, LastTime
  <2>2. CASE given # <<>>
    <3>1. PICK l : l = given[Len(given)]
      OBVIOUS
    <3>2. Len(given) \in 1..Len(given) /\ l \in Blocks /\ GoodBlock(l)
      BY <2>2, <3>1, <1>3, GivenBlocks DEF FileTypes
    <3>3. n = EndSeq(l) /\ t = l.times[Len(l.times)]
      BY <2>2, <3>1, <1>4, <1>5 DEF NextSeq, LastTime
    <3>4. n \in Nat /\ t \in Nat /\ l.seq \in Nat /\ l.seq < n /\ l.times[1] \in Nat /\ l.times[1] <= t
      BY <3>2, <3>3, BlockEnds
    <3>5. ASSUME NEW k \in 1..Len(given)
          PROVE  EndSeq(given[k]) <= n /\ given[k].times[Len(given[k].times)] <= t
      <4>1. CASE k = Len(given)
        BY <4>1, <3>1, <3>3, <3>4
      <4>2. CASE k < Len(given)
        <5>1. Earlier(given[k], l)
          BY <4>2, <3>1, <3>2 DEF GivenInOrder
        <5>2. PICK c : c = given[k]
          OBVIOUS
        <5>3. c \in Blocks /\ GoodBlock(c)
          BY <5>2, GivenBlocks
        <5>4. EndSeq(c) \in Nat /\ c.times[Len(c.times)] \in Nat
          BY <5>3, BlockEnds
        <5>5. EndSeq(c) <= l.seq /\ c.times[Len(c.times)] <= l.times[1]
          BY <5>1, <5>2 DEF Earlier
        <5>6. PICK w : w = c.times[Len(c.times)]
          OBVIOUS
        <5>7. PICK z : z = l.times[1]
          OBVIOUS
        <5>8. w \in Nat /\ z \in Nat /\ w <= z /\ z <= t
          BY <3>4, <5>4, <5>5, <5>6, <5>7
        <5>9. w <= t
          BY <3>4, <5>8
        <5>10. EndSeq(c) <= n
          BY <3>4, <5>4, <5>5
        <5> QED BY <5>2, <5>6, <5>9, <5>10
      <4> QED BY <1>3, <4>1, <4>2
    <3> QED BY <3>4, <3>5
  <2> QED BY <2>1, <2>2
<1>7. b = [seq |-> n, times |-> [i \in 1..m |-> t + gap + i - 1], dict |-> d]
  BY <1>1, <1>2, <1>4, <1>5 DEF NewBlock, Block
<1>8. d \in BOOLEAN /\ (d => comp = "dict") /\ gap \in Nat
  <2>1. CASE comp = "dict"
    BY <2>1 DEF Dicts
  <2>2. CASE comp # "dict"
    BY <2>2 DEF Dicts
  <2> QED BY <2>1, <2>2
<1>9. /\ b.times \in Seq(Nat) /\ Len(b.times) = m /\ b.seq = n /\ b.dict = d
      /\ \A i \in 1..m : b.times[i] = t + gap + i - 1
  BY <1>3, <1>6, <1>7, <1>8
<1>10. b \in Blocks
  BY <1>6, <1>7, <1>8, <1>9 DEF Blocks
<1>11. GoodBlock(b)
  <2>1. ASSUME NEW i \in 1..m, NEW j \in 1..m, i < j PROVE b.times[i] <= b.times[j]
    BY <2>1, <1>3, <1>6, <1>8, <1>9
  <2>2. Len(b.times) >= 1
    BY <1>3, <1>9
  <2>3. b.dict => comp = "dict"
    BY <1>8, <1>9
  <2> QED BY <2>1, <2>2, <2>3, <1>9 DEF GoodBlock
<1>12. t <= b.times[1] /\ b.times[1] \in Nat
  <2>1. 1 \in 1..m
    BY <1>3
  <2> QED BY <2>1, <1>6, <1>8, <1>9
<1>13. ASSUME NEW k \in 1..Len(given) PROVE Earlier(given[k], b)
  <2>1. PICK c : c = given[k]
    OBVIOUS
  <2>2. c \in Blocks /\ GoodBlock(c)
    BY <2>1, GivenBlocks
  <2>3. EndSeq(c) \in Nat /\ c.times[Len(c.times)] \in Nat
    BY <2>2, BlockEnds
  <2>4. c.times[Len(c.times)] <= t /\ EndSeq(c) <= b.seq
    BY <2>1, <1>6, <1>9
  <2> QED BY <2>1, <2>3, <2>4, <1>6, <1>12 DEF Earlier
<1> QED BY <1>10, <1>11, <1>13
-----------------------------------------------------------------------------
(* Journal files: a block is appended, whole or in part *)

\* The first k cells of the block b are appended.
Grown(b, k) ==
  /\ given' = Append(given, b) /\ cells' = cells \o SubSeq(BlockCells(b), 1, k)
  /\ kind' = kind /\ comp' = comp

\* The cells of a block, each by its place.
LEMMA BlockCellAt ==
  ASSUME comp \in {"none", "zstd", "dict"}, NEW b \in Blocks, NEW j \in 1..BlockLen(b),
         NEW e, e = BlockCells(b)[j]
  PROVE  /\ e \in AllCells /\ OfBlock(e) /\ e.b = b
         /\ e.cell = "header" <=> (j = 1 /\ comp # "none")
         /\ Anchor(e) <=> j = 1
         /\ e.cell \notin {"offset", "tail"}
         /\ comp = "none" => e.cell = "data"
<1>1. PICK h : h = HeaderLen(comp, b.dict)
  OBVIOUS
<1>2. /\ h \in 0..2 /\ (h = 0 <=> comp = "none")
      /\ Size \in Nat \ {0} /\ BlockLen(b) = h + Size
      /\ BlockCells(b) \in Seq(AllCells) /\ Len(BlockCells(b)) = BlockLen(b)
      /\ comp # "none" => BlockCells(b)[1] = Header(b)
      /\ h = 2 => BlockCells(b)[2] = Dict(b)
      /\ \A i \in 1..Size : BlockCells(b)[h + i] = Data(b, i)
  BY <1>1, BlockShape
<1>3. e \in AllCells
  BY <1>2
<1>4. CASE h >= 1 /\ j = 1
  BY <1>2, <1>3, <1>4 DEF Header, OfBlock, Anchor
<1>5. CASE h = 2 /\ j = 2
  BY <1>2, <1>3, <1>5 DEF Dict, OfBlock, Anchor
<1>6. CASE j > h
  <2>1. PICK i \in 1..Size : j = h + i
    <3>1. j - h \in 1..Size /\ j = h + (j - h)
      BY <1>2, <1>6
    <3> QED BY <3>1
  <2>2. e = [cell |-> "data", b |-> b, j |-> i]
    BY <2>1, <1>2 DEF Data
  <2>3. e.cell = "data" /\ e.b = b /\ e.j = i
    BY <2>2
  <2>4. j = 1 <=> (h = 0 /\ i = 1)
    BY <2>1, <1>2, SMTT(30)
  <2> QED BY <2>3, <2>4, <1>2, <1>3 DEF OfBlock, Anchor
<1> QED BY <1>2, <1>4, <1>5, <1>6

\* Where the cells and blocks are afterwards.
LEMMA GrownCells ==
  ASSUME FileTypes, NEW b \in Blocks, NEW k \in 0..BlockLen(b), Grown(b, k)
  PROVE  /\ cells' \in Seq(AllCells) /\ Len(cells) \in Nat /\ Len(cells') = Len(cells) + k
         /\ \A x \in 1..Len(cells) : cells'[x] = cells[x]
         /\ \A j \in 1..k : cells'[Len(cells) + j] = BlockCells(b)[j]
         /\ given' \in Seq(Blocks) /\ Len(given) \in Nat /\ Len(given') = Len(given) + 1
         /\ given'[Len(given) + 1] = b /\ \A i \in 1..Len(given) : given'[i] = given[i]
<1>1. PICK e : e = SubSeq(BlockCells(b), 1, k)
  OBVIOUS
<1>2. /\ BlockLen(b) \in Nat /\ BlockCells(b) \in Seq(AllCells) /\ Len(BlockCells(b)) = BlockLen(b)
  BY BlockShape DEF FileTypes
<1>3. e \in Seq(AllCells) /\ Len(e) = k /\ \A j \in 1..k : e[j] = BlockCells(b)[j]
  <2>1. k \in Nat /\ k <= Len(BlockCells(b))
    BY <1>2
  <2> HIDE DEF Grown
  <2>2. PICK q : q = BlockCells(b)
    OBVIOUS
  <2>3. q \in Seq(AllCells) /\ e = SubSeq(q, 1, k) /\ k <= Len(q)
    BY <2>1, <2>2, <1>1, <1>2
  <2> QED BY <2>1, <2>2, <2>3, SubSeqProperties
<1>4. cells' = cells \o e /\ cells \in Seq(AllCells) /\ given \in Seq(Blocks) /\ given' = Append(given, b)
  BY <1>1 DEF Grown, FileTypes
<1>5. /\ cells \o e \in Seq(AllCells) /\ Len(cells \o e) = Len(cells) + Len(e)
      /\ \A x \in 1..Len(cells) : (cells \o e)[x] = cells[x]
      /\ \A j \in 1..Len(e) : (cells \o e)[Len(cells) + j] = e[j]
  BY <1>3, <1>4, Joined
<1>6. Len(cells) \in Nat /\ Len(given) \in Nat
  BY <1>4
<1> QED BY <1>3, <1>4, <1>5, <1>6

\* The blocks given stay in order.
LEMMA GrownGiven ==
  ASSUME FileTypes, GivenInOrder, NEW b \in Blocks, NEW k \in 0..BlockLen(b), Grown(b, k),
         GoodBlock(b), \A i \in 1..Len(given) : Earlier(given[i], b)
  PROVE  GivenInOrder'
<1>1. /\ given' \in Seq(Blocks) /\ Len(given) \in Nat /\ Len(given') = Len(given) + 1
      /\ given'[Len(given) + 1] = b /\ \A i \in 1..Len(given) : given'[i] = given[i]
  BY GrownCells
<1>2. ASSUME NEW i \in 1..Len(given') PROVE GoodBlock(given[i])'
  <2>1. given'[i] = b \/ (i \in 1..Len(given) /\ given'[i] = given[i])
    BY <1>1
  <2>2. GoodBlock(given'[i])
    BY <2>1 DEF GivenInOrder
  <2> QED BY <2>2 DEF GoodBlock, Grown
<1>3. ASSUME NEW i \in 1..Len(given'), NEW m \in 1..Len(given'), i < m PROVE Earlier(given'[i], given'[m])
  <2>1. i \in 1..Len(given) /\ given'[i] = given[i]
    BY <1>1, <1>3
  <2>2. CASE m = Len(given) + 1
    BY <2>1, <2>2, <1>1
  <2>3. CASE m \in 1..Len(given)
    BY <2>1, <2>3, <1>1, <1>3 DEF GivenInOrder
  <2> QED BY <2>2, <2>3, <1>1
<1> QED BY <1>2, <1>3 DEF GivenInOrder, Earlier, EndSeq

\* A cell of the file afterwards is an old one or a new one.
LEMMA GrownCell ==
  ASSUME FileTypes, NEW b \in Blocks, NEW k \in 0..BlockLen(b), Grown(b, k), NEW x \in 1..Len(cells')
  PROVE  \/ x \in 1..Len(cells) /\ cells'[x] = cells[x]
         \/ \E j \in 1..k : /\ x = Len(cells) + j /\ cells'[x] = BlockCells(b)[j] /\ j \in 1..BlockLen(b)
<1>1. /\ Len(cells) \in Nat /\ Len(cells') = Len(cells) + k
      /\ \A y \in 1..Len(cells) : cells'[y] = cells[y]
      /\ \A j \in 1..k : cells'[Len(cells) + j] = BlockCells(b)[j]
  BY GrownCells
<1>2. BlockLen(b) \in Nat
  BY BlockShape DEF FileTypes
<1>3. CASE x > Len(cells)
  <2>1. x - Len(cells) \in 1..k /\ x = Len(cells) + (x - Len(cells)) /\ x - Len(cells) \in 1..BlockLen(b)
    BY <1>1, <1>2, <1>3
  <2> QED BY <1>1, <2>1
<1> QED BY <1>1, <1>3

\* Cells and blocks stay in order.
LEMMA GrownInOrder ==
  ASSUME FileTypes, CellsInOrder, NEW b \in Blocks, NEW k \in 0..BlockLen(b), Grown(b, k),
         \A i \in 1..Len(given) : Earlier(given[i], b)
  PROVE  CellsInOrder'
<1>1. /\ Len(given) \in Nat /\ Len(given') = Len(given) + 1
      /\ given'[Len(given) + 1] = b /\ \A i \in 1..Len(given) : given'[i] = given[i]
  BY GrownCells
<1>2. ASSUME NEW x \in 1..Len(cells'), OfBlock(cells'[x])
      PROVE  \E i \in 1..Len(given') : cells'[x].b = given'[i]
  <2>1. CASE x \in 1..Len(cells) /\ cells'[x] = cells[x]
    <3>1. PICK i \in 1..Len(given) : cells[x].b = given[i]
      BY <1>2, <2>1 DEF CellsInOrder
    <3> QED BY <2>1, <3>1, <1>1
  <2>2. ASSUME NEW j \in 1..BlockLen(b), cells'[x] = BlockCells(b)[j]
        PROVE  \E i \in 1..Len(given') : cells'[x].b = given'[i]
    <3>1. cells'[x].b = b
      BY <2>2, BlockCellAt DEF FileTypes
    <3>2. Len(given) + 1 \in 1..Len(given')
      BY <1>1
    <3> QED BY <3>1, <3>2, <1>1
  <2> QED BY <2>1, <2>2, GrownCell
<1>3. ASSUME NEW x \in 1..Len(cells'), NEW y \in 1..Len(cells'), x < y, Anchor(cells'[x]), Anchor(cells'[y])
      PROVE  Earlier(cells'[x].b, cells'[y].b)
  <2>1. Len(cells) \in Nat
    BY GrownCells
  <2>2. CASE y \in 1..Len(cells) /\ cells'[y] = cells[y]
    <3>1. x \in 1..Len(cells)
      BY <1>3, <2>1, <2>2
    <3>2. cells'[x] = cells[x]
      BY <3>1, GrownCells
    <3> QED BY <1>3, <2>2, <3>1, <3>2 DEF CellsInOrder
  <2>3. ASSUME NEW j \in 1..k, y = Len(cells) + j, j \in 1..BlockLen(b), cells'[y] = BlockCells(b)[j]
        PROVE  Earlier(cells'[x].b, cells'[y].b)
    <3>1. cells'[y].b = b /\ j = 1
      BY <1>3, <2>3, BlockCellAt DEF FileTypes
    <3>2. x \in 1..Len(cells)
      BY <1>3, <2>1, <2>3, <3>1
    <3>3. cells'[x] = cells[x]
      BY <3>2, GrownCells
    <3>4. OfBlock(cells[x])
      BY <1>3, <3>3 DEF Anchor, OfBlock
    <3>5. PICK i \in 1..Len(given) : cells[x].b = given[i]
      BY <3>2, <3>4 DEF CellsInOrder
    <3> QED BY <3>1, <3>3, <3>5
  <2> QED BY <2>2, <2>3, GrownCell
<1>4. (\A x \in 1..Len(cells) : OfBlock(cells[x]) => \E i \in 1..Len(given) : cells[x].b = given[i])'
  BY <1>2 DEF OfBlock
<1>5. comp' = comp
  BY DEF Grown
<1>6. (\A x, y \in 1..Len(cells) : x < y /\ Anchor(cells[x]) /\ Anchor(cells[y]) => Earlier(cells[x].b, cells[y].b))'
  BY <1>3, <1>5, Zenon DEF Anchor, Earlier, EndSeq
<1> QED BY <1>4, <1>6 DEF CellsInOrder

\* Headers are still followed by their own payload.
LEMMA GrownFollowed ==
  ASSUME FileTypes, GivenInOrder, CellsInOrder, HeadersFollowed,
         NEW b \in Blocks, NEW k \in 0..BlockLen(b), Grown(b, k),
         failed => kind = "block", failed' \in BOOLEAN, ~failed' => ~failed /\ k = BlockLen(b)
  PROVE  HeadersFollowed'
<1> SUFFICES ASSUME NEW x \in 1..Len(cells'), cells'[x].cell = "header",
                    NEW y, y = x + HeaderLen(comp, cells'[x].b.dict)
             PROVE  /\ y <= Len(cells') /\ cells'[y].cell = "data" => cells'[y] = Data(cells'[x].b, 1)
                    /\ ~failed' => y <= Len(cells')
  BY DEF HeadersFollowed, Grown, Data
<1>1. /\ Len(cells) \in Nat /\ Len(cells') = Len(cells) + k
      /\ \A z \in 1..Len(cells) : cells'[z] = cells[z]
      /\ \A j \in 1..k : cells'[Len(cells) + j] = BlockCells(b)[j]
  BY GrownCells
<1>2. BlockLen(b) \in Nat /\ comp \in {"none", "zstd", "dict"}
  BY BlockShape DEF FileTypes
<1>3. CASE x \in 1..Len(cells) /\ cells'[x] = cells[x]
  <2>1. PICK i \in 1..Len(given) : cells[x].b = given[i]
    BY <1>3 DEF CellsInOrder, OfBlock
  <2>2. cells[x].b \in Blocks /\ GoodBlock(cells[x].b)
    BY <2>1, GivenBlocks
  <2>3. PICK h : h = HeaderLen(comp, cells[x].b.dict)
    OBVIOUS
  <2>4. h \in 0..2 /\ y = x + h /\ y \in Nat
    <3>1. h \in 0..2
      BY <1>2, <2>2, <2>3, BlockShape
    <3>2. y = x + h
      BY <1>3, <2>3
    <3> QED BY <3>1, <3>2, <1>3
  <2>5. CASE y <= Len(cells)
    <3>1. y \in 1..Len(cells) /\ cells'[y] = cells[y]
      BY <1>1, <1>3, <2>4, <2>5
    <3>2. cells[y].cell = "data" => cells[y] = Data(cells[x].b, 1)
      BY <1>3, <2>3, <2>4, <2>5 DEF HeadersFollowed
    <3>3. y <= Len(cells')
      BY <1>1, <2>4, <2>5
    <3> QED BY <1>3, <3>1, <3>2, <3>3
  <2>6. CASE y > Len(cells)
    <3>1. failed /\ failed'
      BY <1>1, <1>3, <2>3, <2>4, <2>6 DEF HeadersFollowed, FileTypes
    <3>2. ~cells[x].b.dict /\ kind = "block"
      BY <2>2, <3>1 DEF GoodBlock, FileTypes
    <3>3. h = 1 \/ h = 0
      BY <2>3, <3>2 DEF HeaderLen
    <3>4. y = Len(cells) + 1 /\ h = 1
      BY <1>1, <1>3, <2>4, <2>6, <3>3
    <3>5. comp # "none"
      BY <2>3, <3>4 DEF HeaderLen
    <3>6. ASSUME y <= Len(cells'), cells'[y].cell = "data" PROVE FALSE
      <4>1. 1 \in 1..k /\ 1 \in 1..BlockLen(b)
        BY <1>1, <1>2, <3>4, <3>6
      <4>2. cells'[y] = BlockCells(b)[1]
        BY <1>1, <3>4, <4>1
      <4>3. cells'[y].cell = "header"
        BY <1>2, <3>5, <4>1, <4>2, BlockCellAt
      <4> QED BY <3>6, <4>3
    <3> QED BY <3>1, <3>6
  <2> QED BY <1>1, <2>4, <2>5, <2>6
<1>4. ASSUME NEW j \in 1..k, x = Len(cells) + j, j \in 1..BlockLen(b), cells'[x] = BlockCells(b)[j]
      PROVE  /\ y <= Len(cells') /\ cells'[y].cell = "data" => cells'[y] = Data(cells'[x].b, 1)
             /\ ~failed' => y <= Len(cells')
  <2>1. j = 1 /\ comp # "none" /\ cells'[x].b = b
    BY <1>2, <1>4, BlockCellAt
  <2>2. PICK h : h = HeaderLen(comp, b.dict)
    OBVIOUS
  <2>3. /\ h \in 1..2 /\ BlockLen(b) = h + Size /\ Size \in Nat \ {0}
        /\ BlockCells(b)[h + 1] = Data(b, 1)
    <3>1. 1 \in 1..Size
      BY JournalFileAssumption DEF JournalFileAssumption
    <3> QED BY <1>2, <2>1, <2>2, <3>1, BlockShape
  <2>4. y = Len(cells) + (h + 1)
    BY <1>1, <1>4, <2>1, <2>2, <2>3, SMTT(30)
  <2>5. y <= Len(cells') => h + 1 \in 1..k
    BY <1>1, <2>3, <2>4
  <2>6. k = BlockLen(b) => y <= Len(cells')
    BY <1>1, <2>3, <2>4
  <2> QED BY <1>1, <2>1, <2>3, <2>4, <2>5, <2>6
<1> QED BY <1>3, <1>4, GrownCell

\* An uncompressed file still has payloads only.
LEMMA GrownOnlyPayload ==
  ASSUME FileTypes, OnlyPayload, NEW b \in Blocks, NEW k \in 0..BlockLen(b), Grown(b, k)
  PROVE  OnlyPayload'
<1> SUFFICES ASSUME comp = "none", NEW x \in 2..Len(cells') PROVE cells'[x].cell = "data"
  BY DEF OnlyPayload, Grown
<1>1. x \in 1..Len(cells')
  BY GrownCells
<1>2. CASE x \in 1..Len(cells) /\ cells'[x] = cells[x]
  <2>1. x \in 2..Len(cells)
    BY <1>2
  <2> QED BY <1>2, <2>1 DEF OnlyPayload
<1>3. ASSUME NEW j \in 1..BlockLen(b), cells'[x] = BlockCells(b)[j] PROVE cells'[x].cell = "data"
  <2>1. PICK e : e = BlockCells(b)[j]
    OBVIOUS
  <2>2. comp = "none" => e.cell = "data"
    BY <2>1, BlockCellAt DEF FileTypes
  <2> QED BY <1>3, <2>1, <2>2
<1>4. \/ x \in 1..Len(cells) /\ cells'[x] = cells[x]
      \/ \E j \in 1..k : cells'[x] = BlockCells(b)[j] /\ j \in 1..BlockLen(b)
  BY <1>1, GrownCell
<1> QED BY <1>2, <1>3, <1>4
-----------------------------------------------------------------------------
(* Journal files: the layout is kept *)

\* Cells are only added.
Longer == Len(cells) <= Len(cells') /\ \A x \in 1..Len(cells) : cells'[x] = cells[x]

\* A block in the file stays there.
LEMMA HoldsOn ==
  ASSUME FileTypes, Longer, comp' = comp, Len(cells') \in Nat, NEW c \in Blocks, NEW o \in Nat, Holds(o, c)
  PROVE  Holds(o, c)'
<1>1. BlockLen(c)' = BlockLen(c) /\ BlockCells(c)' = BlockCells(c)
  BY DEF BlockLen, BlockCells
<1>2. BlockLen(c) \in Nat /\ Len(cells) \in Nat
  BY BlockShape DEF FileTypes
<1>3. o + BlockLen(c) <= Len(cells')
  BY <1>2 DEF Holds, Longer
<1>4. ASSUME NEW j \in 1..BlockLen(c) PROVE cells'[o + j] = BlockCells(c)[j]
  <2>1. o + j \in 1..Len(cells)
    BY <1>2 DEF Holds
  <2> QED BY <2>1 DEF Holds, Longer
<1> QED BY <1>1, <1>3, <1>4 DEF Holds

\* The stored blocks keep their places.
LEMMA StoredOn ==
  ASSUME FileTypes, GivenInOrder, StoredInPlace, FileTypes', Longer, comp' = comp,
         \A i \in 1..stored : given'[i] = given[i],
         \A i \in 1..(stored + 1) : StartOf(i)' = StartOf(i)
  PROVE  /\ \A i \in 1..stored : Holds(StartOf(i), given[i])' /\ StartOf(i + 1)' = StartOf(i)' + BlockLen(given[i])'
         /\ StartOf(1)' = 1 /\ StartOf(stored + 1) <= Len(cells')
         /\ \A i \in 1..(stored + 1) : StartOf(i) \in Nat
<1>1. stored \in Nat /\ stored <= Len(given) /\ Len(given) \in Nat /\ Size \in Nat /\ bytes \in Nat
      /\ offsets \in Seq(Nat) /\ Len(cells) \in Nat /\ Len(cells') \in Nat
  BY JournalFileAssumption DEF FileTypes, JournalFileAssumption
<1>2. ASSUME NEW i \in 1..(stored + 1) PROVE StartOf(i) \in Nat
  <2>1. i - 1 \in Nat
    BY <1>1
  <2>2. 1 + (i - 1) * Size \in Nat
    BY <1>1, <2>1
  <2>3. i <= Len(offsets) => offsets[i] \in Nat
    BY <1>1
  <2> QED BY <1>1, <2>2, <2>3, Zenon DEF StartOf
<1>3. ASSUME NEW i \in 1..stored
      PROVE  Holds(StartOf(i), given[i])' /\ StartOf(i + 1)' = StartOf(i)' + BlockLen(given[i])'
  <2>1. i \in 1..(stored + 1) /\ i + 1 \in 1..(stored + 1) /\ i \in 1..Len(given)
    BY <1>1
  <2>2. PICK c : c = given[i]
    OBVIOUS
  <2>3. PICK o : o = StartOf(i)
    OBVIOUS
  <2>4. c \in Blocks /\ o \in Nat /\ given'[i] = c /\ StartOf(i)' = o
    BY <1>2, <2>1, <2>2, <2>3, GivenBlocks
  <2>5. Holds(o, c) /\ StartOf(i + 1) = o + BlockLen(c)
    BY <2>2, <2>3 DEF StoredInPlace
  <2>6. Holds(o, c)'
    BY <1>1, <2>4, <2>5, HoldsOn
  <2>7. BlockLen(c)' = BlockLen(c)
    BY DEF BlockLen
  <2>8. StartOf(i + 1)' = o + BlockLen(c)
    BY <2>1, <2>5
  <2> QED BY <2>4, <2>6, <2>7, <2>8
<1>4. 1 \in 1..(stored + 1) /\ stored + 1 \in 1..(stored + 1)
  BY <1>1
<1>5. StartOf(1)' = 1 /\ StartOf(stored + 1) <= Len(cells')
  BY <1>1, <1>2, <1>4 DEF StoredInPlace, Longer
<1> QED BY <1>2, <1>3, <1>5

\* A block is written in whole, or the write fails after k cells.
Whole(b, k) == /\ k = BlockLen(b) /\ bytes' = bytes + BlockLen(b)
               /\ stored' = (IF failed THEN stored ELSE stored + 1)
               /\ writer' = writer /\ failed' = failed
Torn(b, k) == /\ k < BlockLen(b) /\ bytes' \in Nat /\ stored' = stored /\ failed' = TRUE
              /\ writer' = (IF kind = "journal" THEN "dead" ELSE "open")

\* The starts of the stored blocks stay, and the new one's is the end of what was stored.
LEMMA StartsStay ==
  ASSUME FileTypes, StoredInPlace, writer = "open", offsets' = Noted, comp' = comp,
         NEW b \in Blocks, NEW k, Whole(b, k) \/ Torn(b, k), NEW n, n = stored + 1
  PROVE  /\ offsets' \in Seq(Nat)
         /\ \A i \in 1..n : StartOf(i)' = StartOf(i)
         /\ comp # "none" => IF failed' THEN Len(offsets') > stored' ELSE Len(offsets') = stored'
         /\ ~failed' => StartOf(n + 1)' = StartOf(n) + BlockLen(b)
<1>1. /\ stored \in Nat /\ bytes \in Nat /\ offsets \in Seq(Nat) /\ Size \in Nat /\ failed \in BOOLEAN
      /\ Len(offsets) \in Nat /\ n \in Nat
  BY JournalFileAssumption DEF FileTypes, JournalFileAssumption
<1>2. CASE comp = "none"
  <2>1. offsets' = offsets
    BY <1>2 DEF Noted
  <2>2. \A i : StartOf(i)' = StartOf(i) /\ StartOf(i) = 1 + (i - 1) * Size
    BY <1>2 DEF StartOf
  <2>3. BlockLen(b) = Size
    BY <1>1, <1>2 DEF BlockLen, HeaderLen
  <2>4. 1 + (n + 1 - 1) * Size = 1 + (n - 1) * Size + Size
    BY <1>1
  <2>5. StartOf(n + 1)' = StartOf(n) + BlockLen(b)
    BY <2>2, <2>3, <2>4
  <2> QED BY <1>1, <1>2, <2>1, <2>2, <2>5
<1>3. CASE comp # "none"
  <2>1. offsets' = Append(offsets, bytes)
    BY <1>3 DEF Noted
  <2>2. /\ offsets' \in Seq(Nat) /\ Len(offsets') = Len(offsets) + 1 /\ offsets'[Len(offsets) + 1] = bytes
        /\ \A i \in 1..Len(offsets) : offsets'[i] = offsets[i]
    BY <1>1, <2>1
  <2>3. IF failed THEN Len(offsets) > stored ELSE Len(offsets) = stored
    BY <1>3 DEF StoredInPlace
  <2>4. ASSUME NEW i \in 1..n PROVE StartOf(i)' = StartOf(i)
    <3>1. CASE i <= Len(offsets)
      <4>1. i \in 1..Len(offsets) /\ i <= Len(offsets')
        BY <1>1, <2>2, <3>1
      <4> QED BY <1>3, <2>2, <3>1, <4>1 DEF StartOf
    <3>2. CASE i > Len(offsets)
      <4>1. i = Len(offsets) + 1 /\ i <= Len(offsets')
        BY <1>1, <2>2, <2>3, <3>2
      <4>2. StartOf(i)' = bytes
        BY <1>3, <2>2, <4>1 DEF StartOf
      <4>3. StartOf(i) = bytes
        BY <1>1, <1>3, <3>2 DEF StartOf
      <4> QED BY <4>2, <4>3
    <3> QED BY <1>1, <3>1, <3>2
  <2>5. IF failed' THEN Len(offsets') > stored' ELSE Len(offsets') = stored'
    BY <1>1, <2>2, <2>3 DEF Whole, Torn
  <2>6. ASSUME ~failed' PROVE StartOf(n + 1)' = StartOf(n) + BlockLen(b)
    <3>1. ~failed /\ bytes' = bytes + BlockLen(b) /\ stored = Len(offsets)
      BY <2>3, <2>6 DEF Whole, Torn
    <3>2. StartOf(n) = bytes
      BY <1>1, <1>3, <3>1 DEF StartOf
    <3>3. StartOf(n + 1)' = bytes'
      BY <1>1, <1>3, <2>2, <3>1 DEF StartOf
    <3> QED BY <3>1, <3>2, <3>3
  <2> QED BY <2>2, <2>4, <2>5, <2>6
<1> QED BY <1>2, <1>3

\* Appending keeps the layout.
LEMMA AppendKeepsLayout ==
  ASSUME Layout, writer = "open", Len(given) < Len(Lens), NEW b \in NewBlocks,
         NEW k \in 0..BlockLen(b), Grown(b, k), offsets' = Noted, Whole(b, k) \/ Torn(b, k)
  PROVE  Layout'
<1>1. FileTypes /\ GivenInOrder /\ CellsInOrder /\ HeadersFollowed /\ OnlyPayload
      /\ StoredInPlace /\ NothingBehind /\ IndexAtEnd
  BY DEF Layout
<1>2. b \in Blocks /\ GoodBlock(b) /\ \A i \in 1..Len(given) : Earlier(given[i], b)
  BY <1>1, NewBlockFits
<1>3. /\ cells' \in Seq(AllCells) /\ Len(cells) \in Nat /\ Len(cells') = Len(cells) + k
      /\ \A x \in 1..Len(cells) : cells'[x] = cells[x]
      /\ \A j \in 1..k : cells'[Len(cells) + j] = BlockCells(b)[j]
  BY <1>1, <1>2, GrownCells
<1>4. /\ given' \in Seq(Blocks) /\ Len(given) \in Nat /\ Len(given') = Len(given) + 1
      /\ given'[Len(given) + 1] = b /\ \A i \in 1..Len(given) : given'[i] = given[i]
  BY <1>1, <1>2, GrownCells
<1> PICK n : n = stored + 1
  OBVIOUS
<1>5. /\ offsets' \in Seq(Nat)
      /\ \A i \in 1..n : StartOf(i)' = StartOf(i)
      /\ comp # "none" => IF failed' THEN Len(offsets') > stored' ELSE Len(offsets') = stored'
      /\ ~failed' => StartOf(n + 1)' = StartOf(n) + BlockLen(b)
  BY <1>1, <1>2, StartsStay DEF Grown
<1>6. /\ stored \in 0..Len(given) /\ failed \in BOOLEAN /\ bytes \in Nat
      /\ comp' = comp /\ kind' = kind /\ comp \in {"none", "zstd", "dict"} /\ kind \in {"journal", "block"}
      /\ BlockLen(b) \in Nat /\ Size \in Nat \ {0} /\ k \in Nat
  BY <1>1, <1>2, BlockShape DEF FileTypes, Grown
<1>7. FileTypes'
  <2>1. stored' \in 0..Len(given') /\ bytes' \in Nat
    BY <1>4, <1>6 DEF Whole, Torn
  <2>3. failed' \in BOOLEAN /\ writer' \in {"open", "closed", "dead"}
    <3>1. CASE Whole(b, k)
      BY <1>1, <3>1 DEF Whole, FileTypes
    <3>2. CASE Torn(b, k)
      BY <1>6, <3>2 DEF Torn
    <3> QED BY <3>1, <3>2
  <2>2. Len(cells') >= 1 /\ cells'[1] = FileHeader
    <3>1. Len(cells) >= 1 /\ cells[1] = FileHeader
      BY <1>1 DEF FileTypes
    <3>2. 1 \in 1..Len(cells)
      BY <1>3, <3>1
    <3> QED BY <1>3, <1>6, <3>1, <3>2
  <2> QED BY <1>1, <1>3, <1>4, <1>5, <1>6, <2>1, <2>2, <2>3 DEF FileTypes, FileHeader
<1>8. GivenInOrder' /\ CellsInOrder' /\ OnlyPayload'
  BY <1>1, <1>2, GrownGiven, GrownInOrder, GrownOnlyPayload
<1>9. failed => kind = "block"
  BY <1>1, <1>6 DEF StoredInPlace
<1>10. HeadersFollowed'
  <2>1. failed' \in BOOLEAN /\ (~failed' => ~failed /\ k = BlockLen(b))
    BY <1>6 DEF Whole, Torn
  <2> QED BY <1>1, <1>2, <1>9, <2>1, GrownFollowed
<1>11. Longer
  BY <1>3, <1>6 DEF Longer
<1>12. /\ \A i \in 1..stored : Holds(StartOf(i), given[i])' /\ StartOf(i + 1)' = StartOf(i)' + BlockLen(given[i])'
       /\ StartOf(1)' = 1 /\ StartOf(stored + 1) <= Len(cells')
       /\ \A i \in 1..(stored + 1) : StartOf(i) \in Nat
  <2>1. \A i \in 1..stored : given'[i] = given[i]
    BY <1>4, <1>6
  <2> QED BY <1>1, <1>5, <1>6, <1>7, <1>11, <2>1, StoredOn
<1>13. ASSUME ~failed PROVE StartOf(stored + 1) = Len(cells) /\ bytes = Len(cells) /\ stored = Len(given)
  BY <1>1, <1>13 DEF StoredInPlace
<1>14. StoredInPlace'
  <2>1. CASE ~failed'
    <3>1. ~failed /\ stored' = stored + 1 /\ k = BlockLen(b) /\ bytes' = bytes + BlockLen(b) /\ writer' = writer
      BY <2>1 DEF Whole, Torn
    <3>2. PICK o : o = StartOf(n)
      OBVIOUS
    <3>3. o = Len(cells) /\ stored = Len(given) /\ StartOf(n)' = o /\ StartOf(n + 1)' = o + BlockLen(b)
      <4>1. n \in 1..n
        BY <1>6
      <4> QED BY <1>5, <1>13, <2>1, <3>1, <3>2, <4>1
    <3>4. Holds(o, b)'
      <4>1. BlockLen(b)' = BlockLen(b) /\ BlockCells(b)' = BlockCells(b)
        BY <1>6 DEF BlockLen, BlockCells
      <4> QED BY <1>3, <1>6, <3>1, <3>3, <4>1 DEF Holds
    <3>5. ASSUME NEW i \in 1..stored' PROVE Holds(StartOf(i), given[i])' /\ StartOf(i + 1)' = StartOf(i)' + BlockLen(given[i])'
      <4>1. CASE i \in 1..stored
        BY <1>12, <4>1
      <4>2. CASE i = n
        <5>1. given'[i] = b /\ StartOf(i)' = o /\ StartOf(i + 1)' = o + BlockLen(b)
          BY <1>4, <1>6, <3>3, <4>2
        <5>2. BlockLen(b)' = BlockLen(b)
          BY <1>6 DEF BlockLen
        <5> QED BY <3>4, <5>1, <5>2
      <4> QED BY <1>6, <3>1, <4>1, <4>2
    <3>6. StartOf(n)' = o
      BY <3>3
    <3>7. StartOf(n + 1)' = o + BlockLen(b) /\ Len(cells') = o + BlockLen(b) /\ bytes' = Len(cells')
      BY <1>3, <1>6, <1>13, <3>1, <3>3
    <3>8. o + BlockLen(b) <= Len(cells')
      BY <1>3, <3>7
    <3>9. stored' = Len(given')
      BY <1>4, <3>1, <3>3
    <3>11. n = stored'
      BY <3>1
    <3>10. StartOf(1)' = 1 /\ (comp' # "none" => Len(offsets') = stored')
      BY <1>5, <1>6, <1>12, <2>1
    <3> QED BY <2>1, <3>5, <3>7, <3>8, <3>9, <3>10, <3>11 DEF StoredInPlace
  <2>2. CASE failed'
    <3>1. stored' = stored /\ (kind = "journal" => writer' = "dead")
      BY <1>9, <2>2 DEF Whole, Torn
    <3>2. StartOf(n)' = StartOf(stored + 1) /\ n = stored' + 1
      <4>1. n \in 1..n
        BY <1>6
      <4> QED BY <1>5, <3>1, <4>1
    <3> QED BY <1>5, <1>6, <1>12, <2>2, <3>1, <3>2 DEF StoredInPlace
  <2> QED BY <1>7, <2>1, <2>2 DEF FileTypes
<1>15. NothingBehind'
  <2>1. PICK o : o = StartOf(stored + 1)'
    BY Zenon
  <2>2. ASSUME o = Len(cells') PROVE Cell(o)' = [cell |-> "eof"] /\ o + Size > Len(cells')
    BY <2>2, <1>3, <1>6 DEF Cell
  <2>3. ASSUME ~failed' PROVE o = Len(cells')
    <3>1. writer' = "open"
      BY <2>3 DEF Whole, Torn
    <3> QED BY <2>1, <2>3, <3>1, <1>14 DEF StoredInPlace
  <2>4. ASSUME failed', kind = "journal"
        PROVE  o = Len(cells) /\ k < BlockLen(b)
    <3>1. ~failed
      BY <1>9, <2>4
    <3>2. Torn(b, k) /\ stored' = stored
      BY <2>4, <3>1 DEF Whole, Torn
    <3>3. n \in 1..n /\ n = stored' + 1
      BY <1>6, <3>2
    <3>4. o = StartOf(stored + 1)
      BY <1>5, <2>1, <3>2, <3>3
    <3> QED BY <3>1, <3>2, <3>4, <1>13 DEF Torn
  <2>5. CASE o = Len(cells')
    <3>1. Cell(o)'.cell # "header"
      BY <2>2, <2>5
    <3> QED BY <2>1, <2>2, <2>5, <3>1 DEF NothingBehind
  <2>6. CASE o # Len(cells') /\ kind = "journal"
    <3>1. o = Len(cells) /\ k < BlockLen(b) /\ k >= 1
      BY <2>3, <2>4, <2>6, <1>3, <1>6, <1>14 DEF StoredInPlace, Whole, Torn
    <3>2. BlockLen(b) = HeaderLen(comp, b.dict) + Size
      BY DEF BlockLen
    <3>3. CASE comp = "none"
      <4>1. BlockLen(b) = Size
        BY <3>2, <3>3, <1>6 DEF HeaderLen
      <4>2. o + Size > Len(cells')
        BY <1>3, <1>6, <3>1, <4>1
      <4> QED BY <2>1, <1>6, <3>3, <4>2 DEF NothingBehind
    <3>4. CASE comp # "none"
      <4>1. Cell(o)' = cells'[Len(cells) + 1]
        BY <1>3, <1>6, <3>1 DEF Cell
      <4>2. 1 \in 1..k /\ 1 \in 1..BlockLen(b)
        BY <1>6, <3>1
      <4>3. Cell(o)'.b = b
        <5>1. Cell(o)' = BlockCells(b)[1]
          BY <1>3, <4>1, <4>2
        <5> QED BY <1>2, <1>6, <4>2, <5>1, BlockCellAt
      <4>4. FitsFile(o)' => o' + HeaderLen(comp, b.dict) + Size <= Len(cells')
        BY <4>3, <1>6 DEF FitsFile, HeaderLen
      <4>5. PICK h : h = HeaderLen(comp, b.dict)
        OBVIOUS
      <4>6. h \in 0..2
        BY <1>2, <1>6, <4>5, BlockShape
      <4>7. ~(o + h + Size <= Len(cells'))
        BY <1>3, <1>6, <3>1, <3>2, <4>5, <4>6
      <4>8. ~FitsFile(o)'
        BY <4>4, <4>5, <4>7
      <4> QED BY <2>1, <1>6, <3>4, <4>8 DEF NothingBehind
    <3> QED BY <3>3, <3>4
  <2> QED BY <2>3, <2>5, <2>6, <1>6 DEF NothingBehind
<1>16. IndexAtEnd'
  <2>1. ASSUME NEW x \in 1..Len(cells') PROVE cells'[x].cell # "tail"
    <3>1. CASE x \in 1..Len(cells) /\ cells'[x] = cells[x]
      <4>1. cells[x].cell # "tail"
        BY <1>1, <3>1 DEF IndexAtEnd
      <4> QED BY <3>1, <4>1
    <3>2. ASSUME NEW j \in 1..BlockLen(b), cells'[x] = BlockCells(b)[j] PROVE cells'[x].cell # "tail"
      BY <1>2, <1>6, <3>2, BlockCellAt
    <3> QED BY <1>1, <1>2, <3>1, <3>2, GrownCell
  <2> QED BY <2>1 DEF IndexAtEnd
<1> QED BY <1>7, <1>8, <1>10, <1>14, <1>15, <1>16 DEF Layout

\* A piece of the index.
IndexPart(e) ==
  /\ e \in Seq(AllCells) /\ (e # <<>> => comp # "none")
  /\ \A j \in 1..Len(e) : IF j <= Len(offsets) THEN e[j] = Offset(offsets[j])
                          ELSE /\ j = Len(offsets) + 1 /\ Len(e) = j
                               /\ e[j] = Tail4(Len(offsets)) /\ writer' = "closed"

\* The file is closed with it.
ClosedWith(e) ==
  /\ cells' = cells \o e /\ writer' \in {"closed", "dead"}
  /\ kind' = kind /\ comp' = comp /\ bytes' = bytes /\ offsets' = offsets /\ given' = given
  /\ stored' = stored /\ failed' = failed

\* Closing a file, wholly or in part, keeps its layout.
LEMMA CloseKeepsLayout ==
  ASSUME Layout, writer = "open", NEW e, IndexPart(e), ClosedWith(e)
  PROVE  Layout'
<1>1. FileTypes /\ GivenInOrder /\ CellsInOrder /\ HeadersFollowed /\ OnlyPayload
      /\ StoredInPlace /\ NothingBehind /\ IndexAtEnd
  BY DEF Layout
<1>2. e \in Seq(AllCells) /\ Len(e) \in Nat /\ cells \in Seq(AllCells) /\ Len(cells) \in Nat
  BY <1>1 DEF IndexPart, FileTypes
<1>3. /\ cells' \in Seq(AllCells) /\ Len(cells') = Len(cells) + Len(e) /\ Len(cells') \in Nat
      /\ \A x \in 1..Len(cells) : cells'[x] = cells[x]
      /\ \A j \in 1..Len(e) : cells'[Len(cells) + j] = e[j]
  BY <1>2, Joined DEF ClosedWith
<1>4. /\ kind' = kind /\ comp' = comp /\ bytes' = bytes /\ offsets' = offsets /\ given' = given
      /\ stored' = stored /\ failed' = failed
  BY DEF ClosedWith
<1>5. /\ stored \in Nat /\ failed \in BOOLEAN /\ offsets \in Seq(Nat) /\ Len(offsets) \in Nat
      /\ Size \in Nat \ {0} /\ stored \in 0..Len(given) /\ Len(given) \in Nat
  BY <1>1, JournalFileAssumption DEF FileTypes, JournalFileAssumption
<1>6. ASSUME NEW j \in 1..Len(e)
      PROVE  /\ e[j].cell \in {"offset", "tail"} /\ ~OfBlock(e[j]) /\ ~Anchor(e[j]) /\ comp # "none"
             /\ e[j].cell = "tail" => /\ j = Len(offsets) + 1 /\ Len(e) = j
                                      /\ e[j].count = Len(offsets) /\ writer' = "closed"
  <2>1. \/ e[j] = Offset(offsets[j])
        \/ /\ j = Len(offsets) + 1 /\ Len(e) = j
           /\ e[j] = Tail4(Len(offsets)) /\ writer' = "closed"
    BY DEF IndexPart
  <2>2. comp # "none"
    <3>1. e # <<>>
      BY <1>2
    <3> QED BY <3>1 DEF IndexPart
  <2>3. CASE e[j] = Offset(offsets[j])
    BY <2>2, <2>3 DEF Offset, OfBlock, Anchor
  <2>4. CASE j = Len(offsets) + 1 /\ Len(e) = j /\ e[j] = Tail4(Len(offsets)) /\ writer' = "closed"
    BY <2>2, <2>4 DEF Tail4, OfBlock, Anchor
  <2> QED BY <2>1, <2>3, <2>4
<1>7. ASSUME NEW x \in 1..Len(cells')
      PROVE  \/ x \in 1..Len(cells) /\ cells'[x] = cells[x]
             \/ \E j \in 1..Len(e) : x = Len(cells) + j /\ cells'[x] = e[j]
  <2>1. CASE x > Len(cells)
    <3>1. x - Len(cells) \in 1..Len(e) /\ x = Len(cells) + (x - Len(cells))
      BY <1>2, <1>3, <2>1
    <3> QED BY <1>3, <3>1
  <2> QED BY <1>2, <1>3, <2>1
<1>8. ASSUME NEW x \in 1..Len(cells'), OfBlock(cells'[x])
      PROVE  x \in 1..Len(cells) /\ cells'[x] = cells[x]
  BY <1>6, <1>7, <1>8
<1>9. FileTypes'
  <2>1. Len(cells') >= 1 /\ cells'[1] = FileHeader
    <3>1. Len(cells) >= 1 /\ cells[1] = FileHeader
      BY <1>1 DEF FileTypes
    <3>2. 1 \in 1..Len(cells)
      BY <1>2, <3>1
    <3> QED BY <1>2, <1>3, <3>1, <3>2
  <2>2. writer' \in {"open", "closed", "dead"}
    BY DEF ClosedWith
  <2> QED BY <1>1, <1>3, <1>4, <2>1, <2>2 DEF FileTypes, FileHeader
<1>10. GivenInOrder'
  BY <1>1, <1>4 DEF GivenInOrder, GoodBlock, Earlier, EndSeq
<1>11. CellsInOrder'
  <2>1. ASSUME NEW x \in 1..Len(cells'), OfBlock(cells'[x])
        PROVE  \E i \in 1..Len(given) : cells'[x].b = given[i]
    BY <1>1, <1>8, <2>1 DEF CellsInOrder
  <2>2. ASSUME NEW x \in 1..Len(cells'), NEW y \in 1..Len(cells'), x < y, Anchor(cells'[x]), Anchor(cells'[y])
        PROVE  Earlier(cells'[x].b, cells'[y].b)
    <3>1. OfBlock(cells'[x]) /\ OfBlock(cells'[y])
      BY <2>2 DEF Anchor, OfBlock
    <3>2. x \in 1..Len(cells) /\ cells'[x] = cells[x] /\ y \in 1..Len(cells) /\ cells'[y] = cells[y]
      BY <1>8, <3>1
    <3> QED BY <1>1, <2>2, <3>2 DEF CellsInOrder
  <2> QED BY <1>4, <2>1, <2>2 DEF CellsInOrder, OfBlock, Earlier, EndSeq, Anchor
<1>12. HeadersFollowed'
  <2> SUFFICES ASSUME NEW x \in 1..Len(cells'), cells'[x].cell = "header",
                      NEW y, y = x + HeaderLen(comp, cells'[x].b.dict)
               PROVE  /\ y <= Len(cells') /\ cells'[y].cell = "data" => cells'[y] = Data(cells'[x].b, 1)
                      /\ ~failed => y <= Len(cells')
    BY <1>4 DEF HeadersFollowed, Data
  <2>1. x \in 1..Len(cells) /\ cells'[x] = cells[x]
    BY <1>8 DEF OfBlock
  <2>2. PICK h : h = HeaderLen(comp, cells[x].b.dict)
    OBVIOUS
  <2>3. h \in 0..2 /\ y = x + h /\ y \in Nat
    <3>1. h \in 0..2
      BY <2>2 DEF HeaderLen
    <3> QED BY <2>1, <2>2, <3>1
  <2>4. /\ y <= Len(cells) /\ cells[y].cell = "data" => cells[y] = Data(cells[x].b, 1)
        /\ ~failed => y <= Len(cells)
    BY <1>1, <2>1, <2>2, <2>3 DEF HeadersFollowed
  <2>5. ASSUME y <= Len(cells'), cells'[y].cell = "data"
        PROVE  y <= Len(cells) /\ cells'[y] = cells[y]
    <3>1. y \in 1..Len(cells') /\ OfBlock(cells'[y])
      BY <2>1, <2>3, <2>5 DEF OfBlock
    <3> QED BY <1>2, <1>8, <3>1
  <2>6. y <= Len(cells) => y <= Len(cells')
    BY <1>2, <1>3, <2>3
  <2> QED BY <2>1, <2>4, <2>5, <2>6
<1>13. OnlyPayload'
  <2> SUFFICES ASSUME comp = "none", NEW x \in 2..Len(cells') PROVE cells'[x].cell = "data"
    BY <1>4 DEF OnlyPayload
  <2>1. x \in 1..Len(cells')
    BY <1>3
  <2>2. x \in 1..Len(cells) /\ cells'[x] = cells[x]
    BY <1>6, <1>7, <2>1
  <2>3. x \in 2..Len(cells)
    BY <2>2
  <2> QED BY <1>1, <2>2, <2>3 DEF OnlyPayload
<1>14. Longer
  BY <1>2, <1>3 DEF Longer
<1>15. \A i : StartOf(i)' = StartOf(i)
  BY <1>4 DEF StartOf
<1>16. ~(failed /\ kind = "journal")
  BY <1>1 DEF StoredInPlace
<1>17. StoredInPlace'
  <2>1. /\ \A i \in 1..stored : Holds(StartOf(i), given[i])' /\ StartOf(i + 1)' = StartOf(i)' + BlockLen(given[i])'
        /\ StartOf(1)' = 1 /\ StartOf(stored + 1) <= Len(cells')
    BY <1>1, <1>4, <1>9, <1>14, <1>15, StoredOn
  <2>2. StartOf(stored + 1)' = StartOf(stored + 1)
    <3>1. PICK n : n = stored + 1
      OBVIOUS
    <3>2. StartOf(n)' = StartOf(n) /\ n = stored' + 1
      BY <1>4, <1>15, <3>1
    <3> QED BY <3>1, <3>2
  <2>3. writer' # "open"
    BY DEF ClosedWith
  <2>4. comp # "none" => IF failed THEN Len(offsets) > stored ELSE Len(offsets) = stored
    BY <1>1 DEF StoredInPlace
  <2>5. ~failed => stored = Len(given)
    BY <1>1 DEF StoredInPlace
  <2> QED BY <1>4, <1>16, <2>1, <2>2, <2>3, <2>4, <2>5 DEF StoredInPlace
<1>18. NothingBehind'
  <2>1. PICK o : o = StartOf(stored + 1)'
    BY Zenon
  <2>2. o = StartOf(stored + 1)
    <3>1. PICK n : n = stored + 1
      OBVIOUS
    <3>2. StartOf(n)' = StartOf(n) /\ n = stored' + 1
      BY <1>4, <1>15, <3>1
    <3> QED BY <2>1, <3>1, <3>2
  <2>3. CASE failed
    BY <1>4, <1>5, <1>16, <2>3 DEF NothingBehind
  <2>4. CASE ~failed
    <3>1. o = Len(cells)
      BY <1>1, <2>2, <2>4 DEF StoredInPlace
    <3>2. Cell(o)' = IF Len(e) = 0 THEN [cell |-> "eof"] ELSE e[1]
      BY <1>2, <1>3, <3>1 DEF Cell
    <3>3. Cell(o)'.cell # "header"
      <4>1. CASE Len(e) = 0
        BY <3>2, <4>1
      <4>2. CASE Len(e) # 0
        <5>1. 1 \in 1..Len(e)
          BY <1>2, <4>2
        <5> QED BY <1>6, <3>2, <4>2, <5>1
      <4> QED BY <4>1, <4>2
    <3>4. comp = "none" => o + Size > Len(cells')
      <4>1. comp = "none" => Len(e) = 0
        <5>1. Len(e) # 0 => 1 \in 1..Len(e)
          BY <1>2
        <5> QED BY <1>6, <5>1
      <4> QED BY <1>2, <1>3, <1>5, <3>1, <4>1
    <3> QED BY <1>4, <2>1, <3>3, <3>4 DEF NothingBehind
  <2> QED BY <1>5, <2>3, <2>4
<1>19. IndexAtEnd'
  <2> SUFFICES ASSUME NEW x \in 1..Len(cells'), cells'[x].cell = "tail", NEW m, m = x - 1 - Len(offsets)
               PROVE  /\ x = Len(cells') /\ writer' = "closed" /\ comp # "none"
                      /\ cells'[x].count = Len(offsets) /\ m >= 1
                      /\ \A i \in 1..Len(offsets) : cells'[m + i] = Offset(offsets[i])
    BY <1>4 DEF IndexAtEnd, Offset
  <2>1. ~(x \in 1..Len(cells) /\ cells'[x] = cells[x])
    BY <1>1 DEF IndexAtEnd
  <2>2. PICK j \in 1..Len(e) : x = Len(cells) + j /\ cells'[x] = e[j]
    BY <1>7, <2>1
  <2>3. j = Len(offsets) + 1 /\ Len(e) = j /\ e[j].count = Len(offsets) /\ writer' = "closed" /\ comp # "none"
    BY <1>6, <2>2
  <2>4. m = Len(cells) /\ x = Len(cells') /\ m >= 1
    BY <1>1, <1>2, <1>3, <1>5, <2>2, <2>3 DEF FileTypes
  <2>5. ASSUME NEW i \in 1..Len(offsets) PROVE cells'[m + i] = Offset(offsets[i])
    <3>1. i \in 1..Len(e) /\ i <= Len(offsets)
      BY <1>2, <1>5, <2>3
    <3>2. e[i] = Offset(offsets[i])
      BY <3>1 DEF IndexPart
    <3> QED BY <1>3, <2>4, <3>1, <3>2
  <2> QED BY <2>2, <2>3, <2>4, <2>5
<1> QED BY <1>9, <1>10, <1>11, <1>12, <1>13, <1>17, <1>18, <1>19 DEF Layout

\* A new file.
LEMMA FileStarts == JFInit => Layout
<1> SUFFICES ASSUME JFInit PROVE Layout
  OBVIOUS
<1>1. /\ cells = <<FileHeader>> /\ bytes = 1 /\ offsets = <<>> /\ writer = "open"
      /\ given = <<>> /\ stored = 0 /\ failed = FALSE
      /\ kind \in {"journal", "block"} /\ comp \in {"none", "zstd", "dict"} /\ (kind = "block" => comp # "dict")
  BY DEF JFInit
<1>2. FileHeader \in AllCells /\ FileHeader.cell = "file"
  BY DEF FileHeader, AllCells
<1>3. /\ Len(cells) = 1 /\ cells[1] = FileHeader /\ cells \in Seq(AllCells)
      /\ Len(given) = 0 /\ Len(offsets) = 0 /\ given \in Seq(Blocks) /\ offsets \in Seq(Nat)
  BY <1>1, <1>2
<1>4. Size \in Nat \ {0}
  BY JournalFileAssumption DEF JournalFileAssumption
<1>5. FileTypes
  <2>1. stored \in 0..Len(given) /\ Len(cells) >= 1 /\ bytes \in Nat
    BY <1>1, <1>3
  <2>2. failed \in BOOLEAN /\ writer \in {"open", "closed", "dead"} /\ kind \in {"journal", "block"}
        /\ comp \in {"none", "zstd", "dict"} /\ (kind = "block" => comp # "dict")
    BY <1>1
  <2> QED BY <1>3, <2>1, <2>2, Zenon DEF FileTypes
<1>6. GivenInOrder /\ CellsInOrder
  <2>1. ~OfBlock(cells[1])
    BY <1>2, <1>3 DEF OfBlock
  <2>2. \A x \in 1..Len(cells) : x = 1
    BY <1>3
  <2>3. \A k \in 1..Len(given) : FALSE
    BY <1>3
  <2>4. \A x, y \in 1..Len(cells) : ~(x < y)
    BY <1>3
  <2> QED BY <2>1, <2>2, <2>3, <2>4 DEF GivenInOrder, CellsInOrder
<1>7. HeadersFollowed /\ OnlyPayload /\ IndexAtEnd
  <2>1. \A x \in 1..Len(cells) : cells[x].cell = "file"
    BY <1>2, <1>3
  <2>2. \A x \in 2..Len(cells) : FALSE
    BY <1>3
  <2> QED BY <2>1, <2>2 DEF HeadersFollowed, OnlyPayload, IndexAtEnd
<1>8. StartOf(1) = 1 /\ StartOf(stored + 1) = 1
  BY <1>1, <1>3, <1>4 DEF StartOf
<1>9. StoredInPlace
  <2>1. \A i \in 1..stored : FALSE
    BY <1>1
  <2> QED BY <1>1, <1>3, <1>8, <2>1 DEF StoredInPlace
<1>10. NothingBehind
  <2>1. Cell(1).cell # "header" /\ 1 + Size > Len(cells)
    BY <1>3, <1>4 DEF Cell
  <2> QED BY <1>8, <2>1 DEF NothingBehind
<1> QED BY <1>5, <1>6, <1>7, <1>9, <1>10 DEF Layout

\* Closing the file keeps the layout.
LEMMA CloseFileKeeps ==
  ASSUME Layout, CloseFile
  PROVE  Layout'
<1>1. /\ writer = "open" /\ kind' = kind /\ comp' = comp /\ bytes' = bytes /\ offsets' = offsets /\ given' = given
      /\ stored' = stored /\ failed' = failed /\ writer' \in {"closed", "dead"}
  BY DEF CloseFile
<1>2. offsets \in Seq(Nat) /\ Len(offsets) \in Nat /\ cells \in Seq(AllCells)
  BY DEF Layout, FileTypes
<1>3. PICK n : n = Len(offsets)
  OBVIOUS
<1>4. /\ Index \in Seq(AllCells) /\ Len(Index) = n + 1 /\ Index[n + 1] = Tail4(n)
      /\ \A j \in 1..n : Index[j] = Offset(offsets[j])
  <2>1. PICK A : A = [i \in 1..n |-> Offset(offsets[i])]
    OBVIOUS
  <2>2. PICK B : B = <<Tail4(n)>>
    OBVIOUS
  <2>3. \A i \in 1..n : Offset(offsets[i]) \in AllCells
    BY <1>2, <1>3 DEF Offset, AllCells
  <2>4. Tail4(n) \in AllCells
    BY <1>2, <1>3 DEF Tail4, AllCells
  <2>5. A \in Seq(AllCells) /\ Len(A) = n /\ \A i \in 1..n : A[i] = Offset(offsets[i])
    BY <1>2, <1>3, <2>1, <2>3
  <2>6. B \in Seq(AllCells) /\ Len(B) = 1 /\ B[1] = Tail4(n) /\ 1 \in 1..Len(B)
    BY <2>2, <2>4
  <2>7. Index = A \o B
    BY <1>3, <2>1, <2>2 DEF Index
  <2>8. /\ Index \in Seq(AllCells) /\ Len(Index) = n + 1 /\ \A x \in 1..n : Index[x] = A[x]
        /\ Index[n + 1] = B[1]
    BY <2>5, <2>6, <2>7, Joined
  <2> QED BY <2>5, <2>6, <2>8
<1>5. ASSUME NEW k \in 0..n
      PROVE  SubSeq(Index, 1, k) \in Seq(AllCells) /\ Len(SubSeq(Index, 1, k)) = k
             /\ \A j \in 1..k : SubSeq(Index, 1, k)[j] = Index[j]
  <2>1. PICK q : q = Index
    OBVIOUS
  <2>2. q \in Seq(AllCells) /\ k <= Len(q) /\ k \in Nat
    BY <1>2, <1>3, <1>4, <2>1
  <2> QED BY <2>1, <2>2, SubSeqProperties
<1>6. CASE cells' = cells \o Index /\ Indexed /\ writer' = "closed"
  <2>1. ASSUME NEW j \in 1..Len(Index)
        PROVE  IF j <= Len(offsets) THEN Index[j] = Offset(offsets[j])
               ELSE /\ j = Len(offsets) + 1 /\ Len(Index) = j
                    /\ Index[j] = Tail4(Len(offsets)) /\ writer' = "closed"
    <3>1. j \in 1..n \/ j = n + 1
      BY <1>2, <1>3, <1>4
    <3>2. CASE j \in 1..n
      BY <1>3, <1>4, <3>2
    <3>3. CASE j = n + 1
      <4>1. ~(j <= Len(offsets))
        BY <1>2, <1>3, <3>3
      <4>2. j = Len(offsets) + 1 /\ Len(Index) = j
        BY <1>3, <1>4, <3>3
      <4>3. Index[j] = Tail4(Len(offsets))
        BY <1>3, <1>4, <3>3, Zenon
      <4>4. writer' = "closed"
        BY <1>6
      <4> QED BY <4>1, <4>2, <4>3, <4>4, Zenon
    <3> QED BY <3>1, <3>2, <3>3
  <2>2. comp # "none"
    BY <1>6 DEF Indexed
  <2>3. IndexPart(Index)
    BY <1>4, <2>1, <2>2 DEF IndexPart
  <2>4. ClosedWith(Index)
    BY <1>1, <1>6 DEF ClosedWith
  <2> QED BY <1>1, <2>3, <2>4, CloseKeepsLayout
<1>7. ASSUME NEW k \in 0..n, cells' = cells \o SubSeq(Index, 1, k), Indexed PROVE Layout'
  <2>1. PICK e : e = SubSeq(Index, 1, k)
    OBVIOUS
  <2>2. e \in Seq(AllCells) /\ Len(e) = k /\ \A j \in 1..k : e[j] = Index[j]
    BY <1>5, <2>1
  <2>3. ASSUME NEW j \in 1..Len(e) PROVE j <= Len(offsets) /\ e[j] = Offset(offsets[j])
    BY <1>2, <1>3, <1>4, <2>2
  <2>4. comp # "none"
    BY <1>7 DEF Indexed
  <2>5. IndexPart(e)
    BY <2>2, <2>3, <2>4 DEF IndexPart
  <2>6. ClosedWith(e)
    BY <1>1, <1>7, <2>1 DEF ClosedWith
  <2> QED BY <1>1, <2>5, <2>6, CloseKeepsLayout
<1>8. CASE cells' = cells
  <2>1. PICK e : e = <<>>
    OBVIOUS
  <2>2. cells' = cells \o e
    BY <1>2, <1>8, <2>1
  <2>3. IndexPart(e)
    BY <2>1 DEF IndexPart
  <2>4. ClosedWith(e)
    BY <1>1, <2>2 DEF ClosedWith
  <2> QED BY <1>1, <2>3, <2>4, CloseKeepsLayout
<1>9. \/ cells' = cells \o Index /\ Indexed /\ writer' = "closed"
      \/ cells' = cells
      \/ Indexed /\ \E k \in 0..n : cells' = cells \o SubSeq(Index, 1, k)
  BY <1>3, Zenon DEF CloseFile
<1> QED BY <1>6, <1>7, <1>8, <1>9

\* What appending does, whether it fails or not.
Appended(b, k) == /\ writer = "open" /\ Len(given) < Len(Lens)
                  /\ Grown(b, k) /\ offsets' = Noted /\ (Whole(b, k) \/ Torn(b, k))

\* AppendBlock and AppendFails append a whole block or the beginning of one.
LEMMA AppendSteps ==
  ASSUME Layout, AppendBlock \/ AppendFails
  PROVE  \E b \in NewBlocks : \E k \in 0..BlockLen(b) : Appended(b, k)
<1>2. ASSUME AppendBlock PROVE \E b \in NewBlocks : \E k \in 0..BlockLen(b) : Appended(b, k)
  <2>1. PICK b \in NewBlocks : /\ given' = Append(given, b)
                               /\ cells' = cells \o BlockCells(b)
                               /\ bytes' = bytes + BlockLen(b)
    BY <1>2 DEF AppendBlock
  <2>2. /\ writer = "open" /\ Len(given) < Len(Lens) /\ offsets' = Noted
        /\ stored' = (IF failed THEN stored ELSE stored + 1)
        /\ kind' = kind /\ comp' = comp /\ writer' = writer /\ failed' = failed
    BY <1>2 DEF AppendBlock
  <2>3. b \in Blocks /\ comp \in {"none", "zstd", "dict"}
    BY <2>2, NewBlockFits DEF Layout, FileTypes
  <2>4. PICK k : k = BlockLen(b)
    OBVIOUS
  <2>5. BlockCells(b) \in Seq(AllCells) /\ Len(BlockCells(b)) = k /\ k \in Nat
    BY <2>3, <2>4, BlockShape
  <2>6. SubSeq(BlockCells(b), 1, k) = BlockCells(b)
    <3>1. PICK q : q = BlockCells(b)
      OBVIOUS
    <3>2. q \in Seq(AllCells) /\ k = Len(q)
      BY <2>5, <3>1
    <3> QED BY <3>1, <3>2, SubSeqFull
  <2>7. Grown(b, k)
    BY <2>1, <2>2, <2>6 DEF Grown
  <2>8. Whole(b, k) /\ k \in 0..BlockLen(b)
    BY <2>1, <2>2, <2>4, <2>5 DEF Whole
  <2> QED BY <2>2, <2>7, <2>8 DEF Appended
<1>3. ASSUME AppendFails PROVE \E b \in NewBlocks : \E k \in 0..BlockLen(b) : Appended(b, k)
  <2>0. PICK b \in NewBlocks : \E k \in 0..(BlockLen(b) - 1) :
          /\ given' = Append(given, b)
          /\ cells' = cells \o SubSeq(BlockCells(b), 1, k)
          /\ bytes' = bytes + (IF k < HeaderLen(comp, b.dict) THEN k ELSE HeaderLen(comp, b.dict))
    BY <1>3, Zenon DEF AppendFails
  <2>1. PICK k \in 0..(BlockLen(b) - 1) :
          /\ given' = Append(given, b)
          /\ cells' = cells \o SubSeq(BlockCells(b), 1, k)
          /\ bytes' = bytes + (IF k < HeaderLen(comp, b.dict) THEN k ELSE HeaderLen(comp, b.dict))
    BY <2>0
  <2>2. /\ writer = "open" /\ Len(given) < Len(Lens) /\ offsets' = Noted /\ stored' = stored
        /\ kind' = kind /\ comp' = comp /\ writer' = (IF kind = "journal" THEN "dead" ELSE "open") /\ failed' = TRUE
    BY <1>3 DEF AppendFails
  <2>3. b \in Blocks /\ comp \in {"none", "zstd", "dict"} /\ bytes \in Nat
    BY <2>2, NewBlockFits DEF Layout, FileTypes
  <2>4. BlockLen(b) \in Nat /\ HeaderLen(comp, b.dict) \in 0..2
    BY <2>3, BlockShape
  <2>5. k \in 0..BlockLen(b) /\ k < BlockLen(b) /\ k \in Nat
    BY <2>4
  <2>6. Grown(b, k)
    BY <2>1, <2>2 DEF Grown
  <2>7. bytes' \in Nat
    BY <2>1, <2>3, <2>4, <2>5
  <2>8. Torn(b, k)
    BY <2>2, <2>5, <2>7 DEF Torn
  <2> QED BY <2>2, <2>5, <2>6, <2>8 DEF Appended
<1> QED BY <1>2, <1>3

\* Every step keeps the layout.
LEMMA LayoutKept ==
  ASSUME Layout, [JFNext]_jvars
  PROVE  Layout'
<1>1. CASE UNCHANGED writerVars
  <2>1. /\ kind' = kind /\ comp' = comp /\ cells' = cells /\ bytes' = bytes /\ offsets' = offsets
        /\ writer' = writer /\ given' = given /\ stored' = stored /\ failed' = failed
    BY <1>1 DEF writerVars
  <2>2. FileTypes' <=> FileTypes
    BY <2>1 DEF FileTypes, FileHeader
  <2>3. GivenInOrder' <=> GivenInOrder
    BY <2>1 DEF GivenInOrder, GoodBlock, Earlier, EndSeq
  <2>4. CellsInOrder' <=> CellsInOrder
    BY <2>1 DEF CellsInOrder, Earlier, EndSeq, OfBlock, Anchor
  <2>5. HeadersFollowed' <=> HeadersFollowed
    BY <2>1 DEF HeadersFollowed, Data
  <2>6. OnlyPayload' <=> OnlyPayload
    BY <2>1 DEF OnlyPayload
  <2>7. \A i : StartOf(i)' = StartOf(i)
    BY <2>1 DEF StartOf
  <2>8. ASSUME NEW o, NEW c PROVE (Holds(o, c)' <=> Holds(o, c)) /\ BlockLen(c)' = BlockLen(c)
    BY <2>1 DEF Holds, BlockLen, BlockCells
  <2>9. StoredInPlace' <=> StoredInPlace
    BY <2>1, <2>7, <2>8 DEF StoredInPlace
  <2>10. NothingBehind' <=> NothingBehind
    BY <2>1 DEF NothingBehind, StartOf, Cell, FitsFile
  <2>11. IndexAtEnd' <=> IndexAtEnd
    BY <2>1 DEF IndexAtEnd, Offset
  <2> QED BY <2>2, <2>3, <2>4, <2>5, <2>6, <2>9, <2>10, <2>11 DEF Layout
<1>2. ASSUME AppendBlock \/ AppendFails PROVE Layout'
  <2>1. PICK b \in NewBlocks : \E k \in 0..BlockLen(b) : Appended(b, k)
    BY <1>2, AppendSteps
  <2>2. PICK k \in 0..BlockLen(b) : Appended(b, k)
    BY <2>1
  <2> QED BY <2>2, AppendKeepsLayout DEF Appended
<1>4. ASSUME CloseFile PROVE Layout'
  BY <1>4, CloseFileKeeps
<1>5. ASSUME NewReader \/ SeekToSeq \/ SeekToTime \/ ReadNext \/ UNCHANGED jvars PROVE UNCHANGED writerVars
  BY <1>5, Zenon DEF NewReader, SeekToSeq, SeekToTime, Seek, ReadNext, jvars
<1> QED BY <1>1, <1>2, <1>4, <1>5, Zenon DEF JFNext
-----------------------------------------------------------------------------
(* Journal files: what a reader finds *)

Infos == [off : Nat, time : Nat, seq : Nat]

\* bs is a list of the file's blocks that is right for the first n.
Found(bs, n) ==
  /\ bs \in Seq(Infos) /\ n \in Nat /\ n <= Len(bs) /\ n <= stored
  /\ \A i \in 1..Len(bs) : bs[i].off + 1 \in 1..Len(cells)
  /\ \A i, k \in 1..Len(bs) : i < k => bs[i].off < bs[k].off
  /\ \A i \in 1..Len(bs) : Anchor(Cell(bs[i].off)) =>
       bs[i].seq = Cell(bs[i].off).b.seq /\ bs[i].time = Cell(bs[i].off).b.times[1]
  /\ \A i \in 1..n : /\ Holds(bs[i].off, given[i])
                     /\ i < Len(bs) => bs[i].off + BlockLen(given[i]) <= bs[i + 1].off
  /\ kind = "journal" \/ ~failed => Len(bs) = n

\* A cell of a block carries one that was given.
LEMMA CellBlock ==
  ASSUME FileTypes, GivenInOrder, CellsInOrder, NEW o \in Nat, o + 1 \in 1..Len(cells), OfBlock(Cell(o))
  PROVE  /\ Cell(o) = cells[o + 1] /\ Cell(o).b \in Blocks /\ GoodBlock(Cell(o).b)
         /\ Cell(o).b.seq \in Nat /\ Cell(o).b.times[1] \in Nat
         /\ \E k \in 1..Len(given) : Cell(o).b = given[k]
<1>1. Cell(o) = cells[o + 1]
  BY DEF Cell, FileTypes
<1>2. PICK k \in 1..Len(given) : Cell(o).b = given[k]
  BY <1>1 DEF CellsInOrder
<1>3. PICK c : c = Cell(o).b
  OBVIOUS
<1>4. c \in Blocks /\ GoodBlock(c)
  BY <1>2, <1>3, GivenBlocks
<1>5. c.seq \in Nat /\ c.times[1] \in Nat
  BY <1>4, BlockEnds
<1> QED BY <1>1, <1>2, <1>3, <1>4, <1>5

\* The first cell of a block in the file.
LEMMA HoldsFirst ==
  ASSUME FileTypes, NEW c \in Blocks, NEW o \in Nat, Holds(o, c)
  PROVE  /\ o + 1 \in 1..Len(cells) /\ Cell(o) = cells[o + 1] /\ Anchor(Cell(o)) /\ Cell(o).b = c
         /\ comp # "none" => Cell(o).cell = "header"
         /\ comp = "none" => Cell(o).cell = "data"
<1>1. comp \in {"none", "zstd", "dict"} /\ Len(cells) \in Nat
  BY DEF FileTypes
<1>2. BlockLen(c) \in Nat /\ 1 \in 1..BlockLen(c)
  <2>1. PICK h : h = HeaderLen(comp, c.dict)
    OBVIOUS
  <2>2. h \in 0..2 /\ Size \in Nat \ {0} /\ BlockLen(c) = h + Size
    BY <1>1, <2>1, BlockShape
  <2> QED BY <2>2
<1>3. o + 1 \in 1..Len(cells) /\ cells[o + 1] = BlockCells(c)[1]
  BY <1>1, <1>2 DEF Holds
<1>4. Cell(o) = cells[o + 1]
  BY <1>1, <1>3 DEF Cell
<1>5. PICK e : e = BlockCells(c)[1]
  OBVIOUS
<1>6. Anchor(e) /\ e.b = c /\ (comp # "none" => e.cell = "header") /\ (comp = "none" => e.cell = "data")
  BY <1>1, <1>2, <1>5, BlockCellAt
<1> QED BY <1>3, <1>4, <1>5, <1>6

\* A sequence that grows from one entry to the next grows throughout.
LEMMA Increasing ==
  ASSUME NEW n \in Nat, NEW f, \A i \in 1..n : f[i] \in Nat, \A i \in 2..n : f[i - 1] < f[i]
  PROVE  \A i, k \in 1..n : i < k => f[i] < f[k]
<1> DEFINE G == {d \in 0..n : \A i \in 1..n : i + d \in 1..n => f[i] <= f[i + d] /\ (d > 0 => f[i] < f[i + d])}
<1>1. 0 \in G
  <2>1. \A i \in 1..n : i + 0 = i
    OBVIOUS
  <2> QED BY <2>1
<1>2. ASSUME NEW d \in 1..n, d - 1 \in G PROVE d \in G
  <2> SUFFICES ASSUME NEW i \in 1..n, i + d \in 1..n PROVE f[i] <= f[i + d] /\ f[i] < f[i + d]
    OBVIOUS
  <2>1. i + (d - 1) \in 1..n /\ i + d \in 2..n /\ (i + d) - 1 = i + (d - 1)
    OBVIOUS
  <2>2. f[i] <= f[i + (d - 1)]
    BY <1>2, <2>1
  <2>3. f[i + (d - 1)] < f[i + d]
    BY <2>1
  <2>4. f[i] \in Nat /\ f[i + d] \in Nat /\ f[i + (d - 1)] \in Nat
    BY <2>1
  <2> QED BY <2>2, <2>3, <2>4
<1> HIDE DEF G
<1>3. 0..n \subseteq G
  BY <1>1, <1>2, AllRounds
<1> SUFFICES ASSUME NEW i \in 1..n, NEW k \in 1..n, i < k PROVE f[i] < f[k]
  OBVIOUS
<1>4. k - i \in 0..n /\ k - i > 0 /\ i + (k - i) = k
  OBVIOUS
<1>5. k - i \in G
  BY <1>3, <1>4
<1>6. i + (k - i) \in 1..n => f[i] < f[i + (k - i)]
  BY <1>4, <1>5 DEF G
<1> QED BY <1>4, <1>6

\* Where the stored blocks are, by number.
LEMMA StoredAt ==
  ASSUME FileTypes, GivenInOrder, StoredInPlace
  PROVE  /\ stored \in Nat /\ stored <= Len(given)
         /\ \A i \in 1..stored : /\ given[i] \in Blocks /\ StartOf(i) \in Nat /\ Holds(StartOf(i), given[i])
                                 /\ StartOf(i + 1) = StartOf(i) + BlockLen(given[i])
                                 /\ StartOf(i) + 1 \in 1..Len(cells) /\ Cell(StartOf(i)) = cells[StartOf(i) + 1]
                                 /\ Cell(StartOf(i)).b = given[i] /\ BlockLen(given[i]) \in Nat
                                 /\ Anchor(Cell(StartOf(i))) /\ (comp # "none" => Cell(StartOf(i)).cell = "header")
                                 /\ GoodBlock(given[i])
<1>1. stored \in Nat /\ stored <= Len(given) /\ Len(given) \in Nat /\ Size \in Nat /\ bytes \in Nat
      /\ offsets \in Seq(Nat) /\ Len(cells) \in Nat /\ comp \in {"none", "zstd", "dict"}
  BY JournalFileAssumption DEF FileTypes, JournalFileAssumption
<1> SUFFICES ASSUME NEW i \in 1..stored
             PROVE  /\ given[i] \in Blocks /\ StartOf(i) \in Nat /\ Holds(StartOf(i), given[i])
                    /\ StartOf(i + 1) = StartOf(i) + BlockLen(given[i])
                    /\ StartOf(i) + 1 \in 1..Len(cells) /\ Cell(StartOf(i)) = cells[StartOf(i) + 1]
                    /\ Cell(StartOf(i)).b = given[i] /\ BlockLen(given[i]) \in Nat
                    /\ Anchor(Cell(StartOf(i))) /\ (comp # "none" => Cell(StartOf(i)).cell = "header")
                    /\ GoodBlock(given[i])
  BY <1>1, Zenon
<1>2. i - 1 \in Nat /\ 1 + (i - 1) * Size \in Nat
  BY <1>1
<1>3. i <= Len(offsets) => offsets[i] \in Nat
  BY <1>1
<1>4. StartOf(i) \in Nat
  BY <1>1, <1>2, <1>3, Zenon DEF StartOf
<1>5. i \in 1..Len(given)
  BY <1>1
<1>6. PICK c : c = given[i]
  OBVIOUS
<1>7. PICK o : o = StartOf(i)
  OBVIOUS
<1>8. c \in Blocks /\ GoodBlock(c)
  BY <1>5, <1>6, GivenBlocks
<1>9. Holds(o, c) /\ StartOf(i + 1) = o + BlockLen(c)
  BY <1>6, <1>7 DEF StoredInPlace
<1>10. o + 1 \in 1..Len(cells) /\ Cell(o) = cells[o + 1] /\ Anchor(Cell(o)) /\ Cell(o).b = c
       /\ (comp # "none" => Cell(o).cell = "header")
  BY <1>4, <1>7, <1>8, <1>9, HoldsFirst
<1>11. BlockLen(c) \in Nat
  BY <1>1, <1>8, BlockShape
<1> QED BY <1>4, <1>6, <1>7, <1>8, <1>9, <1>10, <1>11

\* How often s goes into a.
LEMMA Division ==
  ASSUME NEW a \in Nat, NEW s \in Nat \ {0}, NEW q, q = a \div s
  PROVE  /\ q \in Nat /\ q * s <= a /\ a < (q + 1) * s
         /\ \A i \in 1..q : (i - 1) * s + s <= a /\ (i - 1) * s \in Nat
         /\ \A i \in Nat : i * s <= a => i <= q
         /\ \A i, k \in Nat : i < k => i * s < k * s
<1>1. q \in Nat /\ q * s <= a /\ a < (q + 1) * s
  BY SMT
<1>2. \A i, k \in Nat : i <= k => i * s <= k * s
  BY SMT
<1>3. \A i, k \in Nat : i < k => i * s < k * s
  BY SMT
<1>4. ASSUME NEW i \in 1..q PROVE (i - 1) * s + s <= a /\ (i - 1) * s \in Nat
  <2>1. i \in Nat /\ i - 1 \in Nat
    BY <1>1
  <2>2. i * s <= q * s
    BY <1>1, <1>2, <2>1
  <2>3. (i - 1) * s + s = i * s /\ (i - 1) * s \in Nat /\ i * s \in Nat /\ q * s \in Nat
    BY <1>1, <2>1
  <2> QED BY <1>1, <2>2, <2>3
<1>5. ASSUME NEW i \in Nat, i * s <= a PROVE i <= q
  <2>1. i > q => q + 1 <= i
    BY <1>1
  <2>2. i > q => (q + 1) * s <= i * s
    BY <1>1, <1>2, <2>1
  <2>3. (q + 1) * s \in Nat /\ i * s \in Nat
    BY <1>1
  <2> QED BY <1>1, <1>5, <2>2, <2>3
<1> QED BY <1>1, <1>3, <1>4, <1>5

\* An uncompressed file is cut into blocks of one size.
LEMMA FixedFound ==
  ASSUME Layout, comp = "none"
  PROVE  Found(FixedBlocks, stored)
<1>1. FileTypes /\ GivenInOrder /\ CellsInOrder /\ OnlyPayload /\ StoredInPlace /\ NothingBehind
  BY DEF Layout
<1>2. Size \in Nat \ {0} /\ Len(cells) \in Nat /\ Len(cells) >= 1 /\ stored \in Nat
  BY <1>1, JournalFileAssumption DEF FileTypes, JournalFileAssumption
<1>3. PICK a : a = Len(cells) - 1
  OBVIOUS
<1>4. PICK q : q = a \div Size
  OBVIOUS
<1>5. a \in Nat
  BY <1>2, <1>3
<1>6. /\ q \in Nat /\ q * Size <= a /\ a < (q + 1) * Size
      /\ \A i \in 1..q : (i - 1) * Size + Size <= a /\ (i - 1) * Size \in Nat
      /\ \A i \in Nat : i * Size <= a => i <= q
      /\ \A i, k \in Nat : i < k => i * Size < k * Size
  BY <1>2, <1>4, <1>5, Division
<1>7. PICK bs : bs = FixedBlocks
  OBVIOUS
<1>8. ASSUME NEW i \in 1..q, NEW o, o = 1 + (i - 1) * Size
      PROVE  o \in Nat /\ o + 1 \in 1..Len(cells) /\ Cell(o).b.times[1] \in Nat /\ Cell(o).b.seq \in Nat
  <2>1. (i - 1) * Size + Size <= a /\ (i - 1) * Size \in Nat
    BY <1>6
  <2>2. o \in Nat /\ o + 1 \in 2..Len(cells)
    BY <1>2, <1>3, <1>8, <2>1
  <2>3. OfBlock(Cell(o))
    <3>1. Cell(o) = cells[o + 1]
      BY <1>2, <2>2 DEF Cell
    <3> QED BY <1>1, <2>2, <3>1 DEF OnlyPayload, OfBlock
  <2>4. o + 1 \in 1..Len(cells)
    BY <2>2
  <2> QED BY <1>1, <2>2, <2>3, <2>4, CellBlock
<1>9. /\ bs \in Seq(Infos) /\ Len(bs) = q
      /\ \A i \in 1..q : /\ bs[i].off = 1 + (i - 1) * Size
                         /\ bs[i].time = Cell(1 + (i - 1) * Size).b.times[1]
                         /\ bs[i].seq = Cell(1 + (i - 1) * Size).b.seq
  <2> DEFINE E(i) == [off |-> 1 + (i - 1) * Size, time |-> Cell(1 + (i - 1) * Size).b.times[1],
                      seq |-> Cell(1 + (i - 1) * Size).b.seq]
  <2>1. bs = [i \in 1..q |-> E(i)]
    BY <1>3, <1>4, <1>7 DEF FixedBlocks
  <2>2. \A i \in 1..q : E(i) \in Infos
    BY <1>8 DEF Infos
  <2>3. \A i : E(i).off = 1 + (i - 1) * Size /\ E(i).time = Cell(1 + (i - 1) * Size).b.times[1]
               /\ E(i).seq = Cell(1 + (i - 1) * Size).b.seq
    OBVIOUS
  <2> HIDE DEF E
  <2>4. bs \in Seq(Infos) /\ Len(bs) = q /\ \A i \in 1..q : bs[i] = E(i)
    BY <1>6, <2>1, <2>2
  <2> QED BY <2>3, <2>4
<1>10. \A i \in 1..q : bs[i].off = StartOf(i)
  BY <1>9 DEF StartOf
<1>20. StartOf(stored + 1) = 1 + stored * Size
  <2>1. PICK n : n = stored + 1
    OBVIOUS
  <2>2. StartOf(n) = 1 + (n - 1) * Size
    BY DEF StartOf
  <2>3. n - 1 = stored
    BY <1>2, <2>1
  <2> QED BY <2>1, <2>2, <2>3
<1>11. stored <= q
  <2>1. StartOf(stored + 1) <= Len(cells)
    BY <1>1 DEF StoredInPlace
  <2>3. stored * Size <= a
    BY <1>2, <1>3, <1>20, <2>1
  <2> QED BY <1>2, <1>6, <2>3
<1>12. kind = "journal" \/ ~failed => q = stored
  <2>1. SUFFICES ASSUME kind = "journal" \/ ~failed PROVE q <= stored
    BY <1>2, <1>6, <1>11
  <2>2. StartOf(stored + 1) + Size > Len(cells)
    BY <1>1, <2>1 DEF NothingBehind
  <2>4. a < (stored + 1) * Size
    BY <1>2, <1>3, <1>20, <2>2
  <2>5. q > stored => q = stored + 1 \/ stored + 1 < q
    BY <1>2, <1>6
  <2>6. q > stored => (stored + 1) * Size <= q * Size
    BY <1>2, <1>6, <2>5
  <2>7. (stored + 1) * Size \in Nat /\ q * Size \in Nat
    BY <1>2, <1>6
  <2> QED BY <1>2, <1>5, <1>6, <2>4, <2>6, <2>7
<1>13. ASSUME NEW i \in 1..stored
       PROVE  /\ Holds(bs[i].off, given[i])
              /\ i < Len(bs) => bs[i].off + BlockLen(given[i]) <= bs[i + 1].off
  <2>1. i \in 1..q /\ bs[i].off = StartOf(i)
    BY <1>2, <1>6, <1>10, <1>11
  <2>2. /\ StartOf(i) \in Nat /\ Holds(StartOf(i), given[i]) /\ BlockLen(given[i]) \in Nat
        /\ StartOf(i + 1) = StartOf(i) + BlockLen(given[i])
    BY <1>1, StoredAt
  <2>3. i < Len(bs) => bs[i + 1].off = StartOf(i + 1)
    <3>1. i < Len(bs) => i + 1 \in 1..q
      BY <1>2, <1>6, <1>9
    <3> QED BY <1>10, <3>1
  <2> QED BY <2>1, <2>2, <2>3
<1>14. ASSUME NEW i \in 1..q, NEW k \in 1..q, i < k PROVE bs[i].off < bs[k].off
  <2>1. i - 1 \in Nat /\ k - 1 \in Nat /\ i - 1 < k - 1
    BY <1>6, <1>14
  <2>2. (i - 1) * Size < (k - 1) * Size
    BY <1>6, <2>1
  <2>3. (i - 1) * Size \in Nat /\ (k - 1) * Size \in Nat
    BY <1>6
  <2> QED BY <1>9, <2>2, <2>3
<1>15. \A i \in 1..q : bs[i].off + 1 \in 1..Len(cells)
  BY <1>8, <1>9
<1>16. \A i \in 1..q : bs[i].seq = Cell(bs[i].off).b.seq /\ bs[i].time = Cell(bs[i].off).b.times[1]
  BY <1>9, Zenon
<1>17. Found(bs, stored)
  BY <1>2, <1>9, <1>11, <1>12, <1>13, <1>14, <1>15, <1>16 DEF Found
<1> QED BY <1>7, <1>17

\* An index lists the offsets noted.
LEMMA IndexFound ==
  ASSUME Layout, comp # "none", HasIndex
  PROVE  Found(IndexBlocks, stored)
<1>1. FileTypes /\ GivenInOrder /\ CellsInOrder /\ StoredInPlace /\ IndexAtEnd
  BY DEF Layout
<1>2. Len(cells) \in Nat /\ Len(cells) >= 1 /\ stored \in Nat /\ offsets \in Seq(Nat) /\ Len(offsets) \in Nat
  BY <1>1 DEF FileTypes
<1>3. PICK n : n = Len(cells)
  OBVIOUS
<1>4. PICK c : c = Len(offsets)
  OBVIOUS
<1>5. PICK m : m = n - 1 - c
  OBVIOUS
<1>6. n \in 1..Len(cells) /\ cells[n].cell = "tail"
  BY <1>2, <1>3 DEF HasIndex
<1>7. /\ writer = "closed" /\ cells[n].count = c /\ m >= 1
      /\ \A i \in 1..c : cells[m + i] = Offset(offsets[i])
  BY <1>1, <1>3, <1>4, <1>5, <1>6 DEF IndexAtEnd
<1>8. n \in Nat /\ c \in Nat /\ m \in Nat /\ \A i \in 1..c : offsets[i] \in Nat
  BY <1>2, <1>3, <1>4, <1>5, <1>7
<1>9. \A i \in 1..c : cells[m + i].at = offsets[i]
  <2>1. \A o : Offset(o).at = o
    BY DEF Offset
  <2> QED BY <1>7, <2>1
<1>10. \A i \in 1..c : n - c + i - 1 = m + i
  BY <1>5, <1>8
<1>11. /\ \A i \in 1..c : cells[n - c + i - 1].at < n - c - 1
       /\ \A i \in 1..c : i > 1 => cells[n - c + i - 1].at > cells[n - c + i - 2].at
  BY <1>3, <1>7 DEF HasIndex
<1>12. \A i \in 1..c : offsets[i] + 1 \in 1..Len(cells)
  <2> TAKE i \in 1..c
  <2>1. offsets[i] < n - c - 1
    BY <1>9, <1>10, <1>11
  <2> QED BY <1>3, <1>8, <2>1
<1>13. \A i, k \in 1..c : i < k => offsets[i] < offsets[k]
  <2>1. ASSUME NEW i \in 2..c PROVE offsets[i - 1] < offsets[i]
    <3>1. i \in 1..c /\ i - 1 \in 1..c /\ i > 1 /\ n - c + i - 2 = m + (i - 1)
      BY <1>5, <1>8
    <3>2. cells[m + i].at > cells[m + (i - 1)].at
      BY <1>10, <1>11, <3>1
    <3>3. offsets[i] > offsets[i - 1]
      BY <1>9, <3>1, <3>2
    <3> QED BY <1>8, <3>1, <3>3
  <2> QED BY <1>8, <2>1, Increasing
<1>14. PICK bs : bs = IndexBlocks
  OBVIOUS
<1> DEFINE E(o) == IF Cell(o).cell = "header" THEN Info(o) ELSE [off |-> o, time |-> 0, seq |-> 0]
<1>15. bs = [i \in 1..c |-> E(offsets[i])]
  <2>1. bs = [i \in 1..c |-> E(cells[n - c + i - 1].at)]
    BY <1>3, <1>7, <1>14 DEF IndexBlocks
  <2>2. \A i \in 1..c : cells[n - c + i - 1].at = offsets[i]
    BY <1>9, <1>10
  <2> HIDE DEF E
  <2> QED BY <2>1, <2>2
<1>16. ASSUME NEW i \in 1..c, NEW o, o = offsets[i]
       PROVE  /\ E(o) \in Infos /\ E(o).off = o
              /\ Anchor(Cell(o)) => E(o).seq = Cell(o).b.seq /\ E(o).time = Cell(o).b.times[1]
  <2>1. o \in Nat /\ o + 1 \in 1..Len(cells)
    BY <1>8, <1>12, <1>16
  <2>2. CASE Cell(o).cell = "header"
    <3>1. Cell(o).b.seq \in Nat /\ Cell(o).b.times[1] \in Nat
      <4>1. OfBlock(Cell(o))
        BY <2>2 DEF OfBlock
      <4> QED BY <1>1, <2>1, <4>1, CellBlock
    <3>2. E(o) = [off |-> o, time |-> Cell(o).b.times[1], seq |-> Cell(o).b.seq]
      BY <2>2 DEF Info
    <3> HIDE DEF E
    <3> QED BY <2>1, <3>1, <3>2 DEF Infos
  <2>3. CASE Cell(o).cell # "header"
    <3>1. E(o) = [off |-> o, time |-> 0, seq |-> 0]
      BY <2>3
    <3> HIDE DEF E
    <3> QED BY <2>1, <2>3, <3>1 DEF Infos, Anchor
  <2> QED BY <2>2, <2>3
<1> HIDE DEF E
<1>17. /\ bs \in Seq(Infos) /\ Len(bs) = c
       /\ \A i \in 1..c : bs[i].off = offsets[i]
       /\ \A i \in 1..c : Anchor(Cell(bs[i].off)) =>
            bs[i].seq = Cell(bs[i].off).b.seq /\ bs[i].time = Cell(bs[i].off).b.times[1]
  <2>1. bs \in Seq(Infos) /\ Len(bs) = c /\ \A i \in 1..c : bs[i] = E(offsets[i])
    BY <1>8, <1>15, <1>16
  <2>2. \A i \in 1..c : bs[i].off = offsets[i]
    BY <1>16, <2>1
  <2>3. ASSUME NEW i \in 1..c, Anchor(Cell(bs[i].off))
        PROVE  bs[i].seq = Cell(bs[i].off).b.seq /\ bs[i].time = Cell(bs[i].off).b.times[1]
    BY <1>16, <2>1, <2>2, <2>3
  <2> QED BY <2>1, <2>2, <2>3
<1>18. IF failed THEN c > stored ELSE c = stored
  BY <1>1, <1>4 DEF StoredInPlace
<1>19. kind = "journal" \/ ~failed => c = stored
  BY <1>1, <1>7, <1>18 DEF StoredInPlace
<1>20. stored <= c
  BY <1>2, <1>8, <1>18
<1>21. ASSUME NEW i \in 1..stored
       PROVE  /\ Holds(bs[i].off, given[i])
              /\ i < Len(bs) => bs[i].off + BlockLen(given[i]) <= bs[i + 1].off
  <2>1. i \in 1..c /\ i <= Len(offsets)
    BY <1>2, <1>4, <1>8, <1>20
  <2>2. bs[i].off = StartOf(i)
    BY <1>17, <2>1 DEF StartOf
  <2>3. i < Len(bs) => bs[i + 1].off = StartOf(i + 1)
    <3>1. i < Len(bs) => i + 1 \in 1..c /\ i + 1 <= Len(offsets)
      BY <1>4, <1>8, <1>17, <2>1
    <3> QED BY <1>17, <3>1 DEF StartOf
  <2>4. /\ StartOf(i) \in Nat /\ Holds(StartOf(i), given[i]) /\ BlockLen(given[i]) \in Nat
        /\ StartOf(i + 1) = StartOf(i) + BlockLen(given[i])
    BY <1>1, StoredAt
  <2> QED BY <2>2, <2>3, <2>4
<1>22. \A i, k \in 1..c : i < k => bs[i].off < bs[k].off
  BY <1>13, <1>17
<1>23. \A i \in 1..c : bs[i].off + 1 \in 1..Len(cells)
  BY <1>12, <1>17
<1>24. Found(bs, stored)
  BY <1>2, <1>17, <1>19, <1>20, <1>21, <1>22, <1>23 DEF Found
<1> QED BY <1>14, <1>24
-----------------------------------------------------------------------------
(* Journal files: scanning *)

Scans == [off : Nat, blocks : Seq(Infos)]

ScanLoop == CHOOSE f : f = [k \in 0..Len(cells) |->
              IF k = 0 THEN [off |-> 1, blocks |-> <<>>] ELSE ScanRound(f[k - 1])]

\* A round takes one block or leaves everything as it is.
LEMMA ScanCases ==
  ASSUME FileTypes, GivenInOrder, CellsInOrder, NEW s \in Scans
  PROVE  /\ ScanRound(s) \in Scans
         /\ \/ ~(Cell(s.off).cell = "header" /\ FitsFile(s.off)) /\ ScanRound(s) = s
            \/ /\ Cell(s.off).cell = "header" /\ FitsFile(s.off)
               /\ s.off + 1 \in 1..Len(cells) /\ Cell(s.off).b \in Blocks /\ BlockLen(Cell(s.off).b) \in Nat \ {0}
               /\ ScanRound(s).off = s.off + BlockLen(Cell(s.off).b) /\ ScanRound(s).off <= Len(cells)
               /\ Len(ScanRound(s).blocks) = Len(s.blocks) + 1
               /\ \A i \in 1..Len(s.blocks) : ScanRound(s).blocks[i] = s.blocks[i]
               /\ ScanRound(s).blocks[Len(s.blocks) + 1] = Info(s.off)
<1>1. s.off \in Nat /\ s.blocks \in Seq(Infos) /\ Len(s.blocks) \in Nat
  BY DEF Scans
<1>2. CASE ~(Cell(s.off).cell = "header" /\ FitsFile(s.off))
  BY <1>2 DEF ScanRound
<1>3. CASE Cell(s.off).cell = "header" /\ FitsFile(s.off)
  <2>1. PICK o : o = s.off
    OBVIOUS
  <2>2. o \in Nat /\ o + 1 \in 1..Len(cells)
    <3>1. Len(cells) \in Nat
      BY DEF FileTypes
    <3>2. o < Len(cells)
      BY <1>3, <2>1 DEF Cell
    <3> QED BY <1>1, <2>1, <3>1, <3>2
  <2>3. PICK c : c = Cell(o).b
    OBVIOUS
  <2>4. c \in Blocks /\ c.seq \in Nat /\ c.times[1] \in Nat
    <3>1. OfBlock(Cell(o))
      BY <1>3, <2>1 DEF OfBlock
    <3> QED BY <2>2, <2>3, <3>1, CellBlock
  <2>5. PICK h : h = HeaderLen(comp, c.dict)
    OBVIOUS
  <2>6. h \in 0..2 /\ BlockLen(c) = h + Size /\ Size \in Nat \ {0}
    BY <2>4, <2>5, BlockShape DEF FileTypes
  <2>7. PICK t : t = Info(o)
    OBVIOUS
  <2>8. t \in Infos
    BY <2>2, <2>3, <2>4, <2>7 DEF Info, Infos
  <2>9. ScanRound(s) = [off |-> o + h + Size, blocks |-> Append(s.blocks, t)]
    BY <1>3, <2>1, <2>3, <2>5, <2>7 DEF ScanRound
  <2>10. o + h + Size <= Len(cells)
    BY <1>3, <2>1, <2>3, <2>5 DEF FitsFile
  <2>11. PICK u : u = Append(s.blocks, t)
    OBVIOUS
  <2>12. /\ u \in Seq(Infos) /\ Len(u) = Len(s.blocks) + 1 /\ u[Len(s.blocks) + 1] = t
         /\ \A i \in 1..Len(s.blocks) : u[i] = s.blocks[i]
    BY <1>1, <2>8, <2>11
  <2>13. ScanRound(s) = [off |-> o + h + Size, blocks |-> u]
    BY <2>9, <2>11
  <2>14. o + h + Size \in Nat /\ o + h + Size = o + BlockLen(c)
    BY <2>2, <2>6
  <2>15. ScanRound(s) \in Scans /\ ScanRound(s).off = o + BlockLen(c) /\ ScanRound(s).blocks = u
    BY <2>12, <2>13, <2>14 DEF Scans
  <2>16. BlockLen(c) \in Nat \ {0}
    BY <2>6
  <2> QED BY <1>3, <2>1, <2>2, <2>3, <2>4, <2>7, <2>10, <2>12, <2>14, <2>15, <2>16
<1> QED BY <1>2, <1>3

\* The rounds of the scan.
LEMMA ScanRounds ==
  ASSUME FileTypes, GivenInOrder, CellsInOrder
  PROVE  /\ ScanLoop[0] = [off |-> 1, blocks |-> <<>>]
         /\ \A i \in 1..Len(cells) : ScanLoop[i - 1] \in Scans /\ ScanLoop[i] = ScanRound(ScanLoop[i - 1])
         /\ ScanLoop[Len(cells)] \in Scans
         /\ ScanBlocks = ScanLoop[Len(cells)].blocks
<1> DEFINE n == Len(cells)
           x == [off |-> 1, blocks |-> <<>>]
           F == [i \in 1..n |-> [s \in Scans |-> ScanRound(s)]]
           Body(g, i) == IF i = 0 THEN x ELSE ScanRound(g[i - 1])
<1>1. n \in Nat
  BY DEF FileTypes
<1>2. x \in Scans
  BY DEF Scans
<1>8. ScanLoop = CHOOSE f : f = [i \in 0..n |-> Body(f, i)]
  BY DEF ScanLoop
<1>14. ScanBlocks = ScanLoop[n].blocks
  BY DEF ScanBlocks, ScanLoop
<1> HIDE DEF n, x
<1>3. F \in [1..n -> [Scans -> Scans]]
  BY <1>1, ScanCases
<1>a. PICK g : IsRun(g, Scans, F, x, n)
  <2> HIDE DEF F, Body
  <2> QED BY <1>1, <1>2, <1>3, LoopExists
<1>4. g \in [0..n -> Scans] /\ g[0] = x /\ \A i \in 1..n : g[i] = F[i][g[i - 1]]
  BY <1>a DEF IsRun
<1>5. ASSUME NEW i \in 1..n PROVE g[i] = ScanRound(g[i - 1])
  <2>1. i - 1 \in 0..n
    BY <1>1
  <2>2. g[i - 1] \in Scans
    BY <1>4, <2>1
  <2> QED BY <1>4, <2>2
<1>6. \A i \in 0..n : g[i] = Body(g, i)
  BY <1>1, <1>4, <1>5
<1> HIDE DEF Body
<1>7. g = [i \in 0..n |-> Body(g, i)]
  BY <1>4, <1>6
<1> DEFINE L == ScanLoop
<1>9. L = [i \in 0..n |-> Body(L, i)]
  BY <1>7, <1>8
<1> HIDE DEF L
<1>10. \A i \in 0..n : L[i] = Body(L, i)
  BY <1>9
<1>11. L[0] = x
  BY <1>1, <1>10 DEF Body
<1>12. \A i \in 1..n : L[i] = ScanRound(L[i - 1])
  BY <1>1, <1>10 DEF Body
<1>13. \A i \in 0..n : L[i] \in Scans
  <2> DEFINE G == {i \in 0..n : L[i] \in Scans}
  <2>1. 0 \in G
    BY <1>1, <1>2, <1>11
  <2>2. ASSUME NEW i \in 1..n, i - 1 \in G PROVE i \in G
    <3>1. L[i - 1] \in Scans /\ i \in 0..n
      BY <1>1, <2>2
    <3>2. ScanRound(L[i - 1]) \in Scans
      BY <3>1, ScanCases, Zenon
    <3> QED BY <1>12, <3>1, <3>2
  <2> HIDE DEF G
  <2>3. 0..n \subseteq G
    BY <1>1, <2>1, <2>2, AllRounds
  <2> QED BY <2>3 DEF G
<1>15. \A i \in 1..n : i - 1 \in 0..n
  BY <1>1
<1>16. n \in 0..n
  BY <1>1
<1> QED BY <1>11, <1>12, <1>13, <1>14, <1>15, <1>16 DEF L, n, x

\* What holds after k rounds: the blocks taken are the stored ones, in order, and
\* those behind them; as long as stored ones are left a round gets on.
ScanGood(s, k) ==
  /\ s \in Scans /\ s.off >= 1 /\ s.off <= Len(cells)
  /\ \A i \in 1..Len(s.blocks) :
       /\ s.blocks[i].off + 1 \in 1..Len(cells) /\ s.blocks[i].off < s.off
       /\ s.blocks[i].seq = Cell(s.blocks[i].off).b.seq /\ s.blocks[i].time = Cell(s.blocks[i].off).b.times[1]
       /\ i <= stored + 1 => s.blocks[i].off = StartOf(i)
  /\ \A i, j \in 1..Len(s.blocks) : i < j => s.blocks[i].off < s.blocks[j].off
  /\ Len(s.blocks) <= stored => s.off = StartOf(Len(s.blocks) + 1)
  /\ kind = "journal" \/ ~failed => Len(s.blocks) <= stored
  /\ Len(s.blocks) >= stored \/ s.off >= k + 1

\* A round of scanBlocks keeps what holds after it.
LEMMA ScanGoes ==
  ASSUME Layout, comp # "none", NEW k \in Nat, NEW s, ScanGood(s, k)
  PROVE  ScanGood(ScanRound(s), k + 1)
<1>1. FileTypes /\ GivenInOrder /\ CellsInOrder /\ StoredInPlace /\ NothingBehind
  BY DEF Layout
<1>2. /\ s \in Scans /\ s.off \in Nat /\ s.blocks \in Seq(Infos) /\ Len(s.blocks) \in Nat
      /\ Len(cells) \in Nat /\ stored \in Nat /\ s.off >= 1 /\ s.off <= Len(cells)
  BY <1>1 DEF ScanGood, Scans, FileTypes
<1>3. PICK n : n = Len(s.blocks)
  OBVIOUS
<1>4. PICK o : o = s.off
  OBVIOUS
<1>5. PICK t : t = ScanRound(s)
  OBVIOUS
<1>6. /\ t \in Scans
      /\ \/ ~(Cell(o).cell = "header" /\ FitsFile(o)) /\ t = s
         \/ /\ Cell(o).cell = "header" /\ FitsFile(o)
            /\ o + 1 \in 1..Len(cells) /\ Cell(o).b \in Blocks /\ BlockLen(Cell(o).b) \in Nat \ {0}
            /\ t.off = o + BlockLen(Cell(o).b) /\ t.off <= Len(cells)
            /\ Len(t.blocks) = n + 1
            /\ \A i \in 1..n : t.blocks[i] = s.blocks[i]
            /\ t.blocks[n + 1] = Info(o)
  BY <1>1, <1>2, <1>3, <1>4, <1>5, ScanCases
<1>7. ASSUME n < stored
      PROVE  /\ o = StartOf(n + 1) /\ Cell(o).cell = "header" /\ FitsFile(o)
             /\ Cell(o).b = given[n + 1] /\ StartOf(n + 2) = o + BlockLen(Cell(o).b)
  <2>1. o = StartOf(n + 1)
    BY <1>2, <1>3, <1>4, <1>7 DEF ScanGood
  <2>2. PICK i : i = n + 1
    OBVIOUS
  <2>3. i \in 1..stored /\ i + 1 = n + 2
    BY <1>2, <1>3, <1>7, <2>2
  <2>4. /\ Holds(o, given[i]) /\ StartOf(i + 1) = o + BlockLen(given[i])
        /\ Cell(o).b = given[i] /\ Cell(o).cell = "header"
    BY <1>1, <2>1, <2>2, <2>3, StoredAt
  <2>5. o + BlockLen(given[i]) <= Len(cells)
    BY <2>4 DEF Holds
  <2>6. HeaderLen(comp, given[i].dict) \in 0..2 /\ Size \in Nat
    BY JournalFileAssumption DEF HeaderLen, JournalFileAssumption
  <2>7. FitsFile(o)
    BY <1>2, <1>4, <2>4, <2>5, <2>6 DEF FitsFile, BlockLen
  <2> QED BY <2>1, <2>2, <2>3, <2>4, <2>7
<1>8. CASE ~(Cell(o).cell = "header" /\ FitsFile(o)) /\ t = s
  <2>1. n >= stored
    BY <1>2, <1>3, <1>7, <1>8
  <2>2. ScanGood(s, k + 1)
    BY <1>3, <2>1 DEF ScanGood
  <2> QED BY <1>5, <1>8, <2>2
<1>9. CASE /\ Cell(o).cell = "header" /\ FitsFile(o)
           /\ o + 1 \in 1..Len(cells) /\ Cell(o).b \in Blocks /\ BlockLen(Cell(o).b) \in Nat \ {0}
           /\ t.off = o + BlockLen(Cell(o).b) /\ t.off <= Len(cells)
           /\ Len(t.blocks) = n + 1
           /\ \A i \in 1..n : t.blocks[i] = s.blocks[i]
           /\ t.blocks[n + 1] = Info(o)
  <2>1. kind = "journal" \/ ~failed => n < stored
    <3> SUFFICES ASSUME kind = "journal" \/ ~failed, n = stored PROVE FALSE
      BY <1>2, <1>3 DEF ScanGood
    <3>1. o = StartOf(stored + 1)
      BY <1>2, <1>3, <1>4 DEF ScanGood
    <3>2. ~(Cell(o).cell = "header" /\ FitsFile(o))
      BY <1>1, <3>1 DEF NothingBehind
    <3> QED BY <1>9, <3>2
  <2>2. PICK w : w = Info(o)
    OBVIOUS
  <2>3. w.off = o /\ w.seq = Cell(o).b.seq /\ w.time = Cell(o).b.times[1]
    BY <2>2 DEF Info
  <2>4. t.off \in Nat /\ t.blocks \in Seq(Infos) /\ t.off > o /\ o \in Nat /\ n \in Nat
    BY <1>2, <1>3, <1>4, <1>6, <1>9 DEF Scans
  <2>5. n <= stored => o = StartOf(n + 1)
    BY <1>3, <1>4 DEF ScanGood
  <2>6. ASSUME NEW i \in 1..(n + 1)
        PROVE  /\ t.blocks[i].off + 1 \in 1..Len(cells) /\ t.blocks[i].off < t.off
               /\ t.blocks[i].seq = Cell(t.blocks[i].off).b.seq /\ t.blocks[i].time = Cell(t.blocks[i].off).b.times[1]
               /\ i <= stored + 1 => t.blocks[i].off = StartOf(i)
               /\ t.blocks[i].off \in Nat /\ (i <= n => t.blocks[i].off < o)
    <3>1. CASE i \in 1..n
      <4>1. t.blocks[i] = s.blocks[i]
        BY <1>9, <3>1
      <4>2. s.blocks[i] \in Infos /\ i \in 1..Len(s.blocks)
        BY <1>2, <1>3, <3>1
      <4>3. s.blocks[i].off \in Nat /\ s.blocks[i].off < o
        BY <1>4, <4>2 DEF ScanGood, Infos
      <4>4. s.blocks[i].off < t.off
        BY <2>4, <4>3
      <4> QED BY <4>1, <4>2, <4>3, <4>4 DEF ScanGood
    <3>2. CASE i = n + 1
      <4>1. t.blocks[i] = w
        BY <1>9, <2>2, <3>2
      <4>2. i <= stored + 1 => w.off = StartOf(i)
        BY <1>2, <2>3, <2>4, <2>5, <3>2
      <4>3. ~(i <= n)
        BY <2>4, <3>2
      <4> QED BY <1>9, <2>3, <2>4, <4>1, <4>2, <4>3
    <3> QED BY <2>4, <3>1, <3>2
  <2>7. ASSUME NEW i \in 1..(n + 1), NEW j \in 1..(n + 1), i < j PROVE t.blocks[i].off < t.blocks[j].off
    <3>1. CASE j \in 1..n
      <4>1. i \in 1..n /\ t.blocks[i] = s.blocks[i] /\ t.blocks[j] = s.blocks[j]
        BY <1>9, <2>4, <2>7, <3>1
      <4> QED BY <1>3, <2>7, <3>1, <4>1 DEF ScanGood
    <3>2. CASE j = n + 1
      <4>1. i <= n
        BY <2>4, <2>7, <3>2
      <4>2. t.blocks[j].off = o
        BY <1>9, <2>2, <2>3, <3>2
      <4> QED BY <2>6, <4>1, <4>2
    <3> QED BY <2>4, <3>1, <3>2
  <2>8. n + 1 <= stored => t.off = StartOf(n + 1 + 1)
    <3>1. n + 1 <= stored => n < stored
      BY <1>2, <2>4
    <3>2. n + 1 + 1 = n + 2
      BY <2>4
    <3> QED BY <1>7, <1>9, <3>1, <3>2
  <2>9. kind = "journal" \/ ~failed => n + 1 <= stored
    BY <1>2, <2>1, <2>4
  <2>10. n + 1 >= stored \/ t.off >= k + 1 + 1
    <3>1. n >= stored \/ o >= k + 1
      BY <1>3, <1>4 DEF ScanGood
    <3> QED BY <1>2, <2>4, <3>1
  <2>11. t.off >= 1
    BY <1>2, <1>4, <2>4
  <2>12. ScanGood(t, k + 1)
    BY <1>6, <1>9, <2>6, <2>7, <2>8, <2>9, <2>10, <2>11 DEF ScanGood
  <2> QED BY <1>5, <2>12
<1> QED BY <1>6, <1>8, <1>9

\* A scan finds the stored blocks.
LEMMA ScanFound ==
  ASSUME Layout, comp # "none"
  PROVE  Found(ScanBlocks, stored)
<1>1. FileTypes /\ GivenInOrder /\ CellsInOrder /\ StoredInPlace /\ NothingBehind
  BY DEF Layout
<1>2. PICK n : n = Len(cells)
  OBVIOUS
<1>3. n \in Nat /\ n >= 1 /\ stored \in Nat
  BY <1>1, <1>2 DEF FileTypes
<1>4. PICK L : L = ScanLoop
  OBVIOUS
<1>5. /\ L[0] = [off |-> 1, blocks |-> <<>>]
      /\ \A i \in 1..n : L[i] = ScanRound(L[i - 1])
      /\ ScanBlocks = L[n].blocks
  BY <1>1, <1>2, <1>4, ScanRounds
<1>6. ScanGood(L[0], 0)
  <2>1. PICK s : s = L[0]
    OBVIOUS
  <2>2. s.off = 1 /\ s.blocks = <<>> /\ s = [off |-> 1, blocks |-> <<>>]
    BY <1>5, <2>1
  <2>3. s \in Scans
    BY <2>2 DEF Scans
  <2>4. Len(s.blocks) = 0 /\ Len(s.blocks) + 1 = 1
    BY <2>2
  <2>5. \A i \in 1..Len(s.blocks) : FALSE
    BY <2>4
  <2>6. s.off = StartOf(Len(s.blocks) + 1)
    BY <1>1, <2>2, <2>4 DEF StoredInPlace
  <2>7. s.off >= 1 /\ s.off <= Len(cells) /\ s.off >= 0 + 1 /\ Len(s.blocks) <= stored
    BY <1>2, <1>3, <2>2, <2>4
  <2>8. ScanGood(s, 0)
    BY <2>3, <2>5, <2>6, <2>7 DEF ScanGood
  <2> QED BY <2>1, <2>8
<1> DEFINE G == {i \in 0..n : ScanGood(L[i], i)}
<1>7. 0 \in G
  BY <1>3, <1>6
<1>8. ASSUME NEW i \in 1..n, i - 1 \in G PROVE i \in G
  <2>1. i - 1 \in Nat /\ ScanGood(L[i - 1], i - 1) /\ i \in 0..n /\ (i - 1) + 1 = i
    BY <1>3, <1>8
  <2>2. ScanGood(ScanRound(L[i - 1]), (i - 1) + 1)
    BY <2>1, ScanGoes
  <2> QED BY <1>5, <2>1, <2>2
<1> HIDE DEF G
<1>9. 0..n \subseteq G
  BY <1>3, <1>7, <1>8, AllRounds
<1>10. n \in G
  BY <1>3, <1>9
<1>11. PICK s : s = L[n]
  OBVIOUS
<1>12. ScanGood(s, n)
  BY <1>10, <1>11 DEF G
<1>13. PICK bs : bs = s.blocks
  OBVIOUS
<1>14. bs \in Seq(Infos) /\ Len(bs) \in Nat /\ s.off \in Nat
  BY <1>12, <1>13 DEF ScanGood, Scans
<1>15. stored <= Len(bs)
  BY <1>2, <1>3, <1>12, <1>13, <1>14 DEF ScanGood
<1>16. ASSUME NEW i \in 1..stored
       PROVE  /\ Holds(bs[i].off, given[i])
              /\ i < Len(bs) => bs[i].off + BlockLen(given[i]) <= bs[i + 1].off
  <2>1. i \in 1..Len(bs) /\ i <= stored + 1 /\ i + 1 <= stored + 1
    BY <1>3, <1>14, <1>15
  <2>2. bs[i].off = StartOf(i)
    BY <1>12, <1>13, <2>1 DEF ScanGood
  <2>3. i < Len(bs) => bs[i + 1].off = StartOf(i + 1)
    <3>1. i < Len(bs) => i + 1 \in 1..Len(bs)
      BY <1>14, <2>1
    <3> QED BY <1>12, <1>13, <2>1, <3>1 DEF ScanGood
  <2>4. /\ StartOf(i) \in Nat /\ Holds(StartOf(i), given[i]) /\ BlockLen(given[i]) \in Nat
        /\ StartOf(i + 1) = StartOf(i) + BlockLen(given[i])
    BY <1>1, StoredAt
  <2> QED BY <2>2, <2>3, <2>4
<1>17. kind = "journal" \/ ~failed => Len(bs) = stored
  BY <1>3, <1>12, <1>13, <1>14, <1>15 DEF ScanGood
<1>18. Found(bs, stored)
  BY <1>3, <1>12, <1>13, <1>14, <1>15, <1>16, <1>17 DEF Found, ScanGood
<1> QED BY <1>5, <1>11, <1>13, <1>18

\* However the blocks are found, the stored ones are.
LEMMA BlocksFound ==
  ASSUME Layout
  PROVE  Found(BlocksOf, stored)
BY FixedFound, IndexFound, ScanFound DEF BlocksOf
-----------------------------------------------------------------------------
(* Journal files: the search for a block *)

SearchLoop(key, n, x) == CHOOSE f : f = [k \in 0..n |->
  IF k = 0 THEN [lo |-> 1, hi |-> n] ELSE SearchRound(f[k - 1], key, x)]

\* What holds after a round: whatever is before lo does not begin after x.
Spans(key, n, x) == {s \in [lo : 1..(n + 1), hi : 0..n] : s.lo = 1 \/ key[s.lo - 1] <= x}

\* A round of the binary search keeps the blocks before lo not after x.
LEMMA SearchCase ==
  ASSUME NEW n \in Nat, NEW key, NEW x, NEW s \in Spans(key, n, x)
  PROVE  SearchRound(s, key, x) \in Spans(key, n, x)
<1>1. s.lo \in 1..(n + 1) /\ s.hi \in 0..n
  BY DEF Spans
<1>2. PICK m : m = s.lo + ((s.hi - s.lo) \div 2)
  OBVIOUS
<1>3. CASE s.lo > s.hi
  BY <1>3 DEF SearchRound
<1>4. CASE ~(s.lo > s.hi)
  <2>1. m \in 1..n /\ m - 1 \in 0..n /\ m + 1 \in 1..(n + 1) /\ (m + 1) - 1 = m
    <3>1. PICK d : d = s.hi - s.lo
      OBVIOUS
    <3>2. d \in Nat
      BY <1>1, <1>4, <3>1
    <3>3. d \div 2 \in Nat /\ d \div 2 <= d
      BY <3>2
    <3> QED BY <1>1, <1>2, <3>1, <3>2, <3>3
  <2>2. CASE key[m] <= x
    <3>1. SearchRound(s, key, x) = [lo |-> m + 1, hi |-> s.hi]
      BY <1>2, <1>4, <2>2 DEF SearchRound
    <3> QED BY <1>1, <2>1, <2>2, <3>1 DEF Spans
  <2>3. CASE ~(key[m] <= x)
    <3>1. SearchRound(s, key, x) = [lo |-> s.lo, hi |-> m - 1]
      BY <1>2, <1>4, <2>3 DEF SearchRound
    <3>2. s.lo = 1 \/ key[s.lo - 1] <= x
      BY DEF Spans
    <3> QED BY <1>1, <2>1, <3>1, <3>2 DEF Spans
  <2> QED BY <2>2, <2>3
<1> QED BY <1>3, <1>4

\* The block found is the first or does not begin after x.
LEMMA SearchFinds ==
  ASSUME NEW n \in Nat \ {0}, NEW key, NEW x
  PROVE  Search(key, n, x) \in 1..n /\ (Search(key, n, x) = 1 \/ key[Search(key, n, x)] <= x)
<1> DEFINE y == [lo |-> 1, hi |-> n]
           V == Spans(key, n, x)
           F == [i \in 1..n |-> [s \in V |-> SearchRound(s, key, x)]]
           Body(g, i) == IF i = 0 THEN y ELSE SearchRound(g[i - 1], key, x)
<1>2. y \in V
  BY DEF Spans
<1>8. SearchLoop(key, n, x) = CHOOSE f : f = [i \in 0..n |-> Body(f, i)]
  BY DEF SearchLoop
<1>14. Search(key, n, x) = IF SearchLoop(key, n, x)[n].lo > 1 THEN SearchLoop(key, n, x)[n].lo - 1 ELSE 1
  BY DEF Search, SearchLoop
<1>15. \A s \in V : SearchRound(s, key, x) \in V
  BY SearchCase
<1>16. \A s \in V : s.lo \in 1..(n + 1) /\ (s.lo = 1 \/ key[s.lo - 1] <= x)
  BY DEF Spans
<1> HIDE DEF y, V
<1>3. F \in [1..n -> [V -> V]]
  BY <1>15
<1>a. PICK g : IsRun(g, V, F, y, n)
  <2> HIDE DEF F, Body
  <2> QED BY <1>2, <1>3, LoopExists
<1>4. g \in [0..n -> V] /\ g[0] = y /\ \A i \in 1..n : g[i] = F[i][g[i - 1]]
  BY <1>a DEF IsRun
<1>5. ASSUME NEW i \in 1..n PROVE g[i] = SearchRound(g[i - 1], key, x)
  <2>1. i - 1 \in 0..n
    OBVIOUS
  <2>2. g[i - 1] \in V
    BY <1>4, <2>1
  <2> QED BY <1>4, <2>2
<1>6. \A i \in 0..n : g[i] = Body(g, i)
  BY <1>4, <1>5
<1> HIDE DEF Body
<1>7. g = [i \in 0..n |-> Body(g, i)]
  BY <1>4, <1>6
<1> DEFINE L == SearchLoop(key, n, x)
<1>9. L = [i \in 0..n |-> Body(L, i)]
  BY <1>7, <1>8
<1> HIDE DEF L
<1>10. \A i \in 0..n : L[i] = Body(L, i)
  BY <1>9
<1>11. L[0] = y
  BY <1>10 DEF Body
<1>12. \A i \in 1..n : L[i] = SearchRound(L[i - 1], key, x)
  BY <1>10 DEF Body
<1>13. L[n] \in V
  <2> DEFINE G == {i \in 0..n : L[i] \in V}
  <2>1. 0 \in G
    BY <1>2, <1>11
  <2>2. ASSUME NEW i \in 1..n, i - 1 \in G PROVE i \in G
    <3>1. L[i - 1] \in V /\ i \in 0..n
      BY <2>2
    <3>2. SearchRound(L[i - 1], key, x) \in V
      BY <1>15, <3>1, Zenon
    <3> QED BY <1>12, <3>1, <3>2
  <2> HIDE DEF G
  <2>3. 0..n \subseteq G
    BY <2>1, <2>2, AllRounds
  <2> QED BY <2>3 DEF G
<1>17. PICK l : l = L[n].lo
  OBVIOUS
<1>18. l \in 1..(n + 1) /\ (l = 1 \/ key[l - 1] <= x)
  BY <1>13, <1>16, <1>17
<1>19. Search(key, n, x) = IF l > 1 THEN l - 1 ELSE 1
  BY <1>14, <1>17 DEF L
<1>20. CASE l > 1
  <2>1. Search(key, n, x) = l - 1 /\ l - 1 \in 1..n
    BY <1>18, <1>19, <1>20
  <2> QED BY <1>18, <1>20, <2>1
<1>21. CASE ~(l > 1)
  <2>1. Search(key, n, x) = 1
    BY <1>19, <1>21
  <2> QED BY <2>1
<1> QED BY <1>20, <1>21
-----------------------------------------------------------------------------
(* Journal files: a block is loaded *)

\* b is the block that begins where the n-th of bs should.
IsBlock(bs, n, b) ==
  n \in 1..Len(bs) /\ Anchor(Cell(bs[n].off)) /\ b = Cell(bs[n].off).b

\* The entries of a list of blocks.
LEMMA FoundAt ==
  ASSUME NEW bs, NEW k, Found(bs, k)
  PROVE  /\ Len(bs) \in Nat /\ k \in Nat /\ k <= Len(bs)
         /\ \A i \in 1..Len(bs) : /\ bs[i].off \in Nat /\ bs[i].seq \in Nat /\ bs[i].time \in Nat
                                  /\ bs[i].off + 1 \in 1..Len(cells)
<1>1. bs \in Seq(Infos) /\ k \in Nat /\ k <= Len(bs) /\ \A i \in 1..Len(bs) : bs[i].off + 1 \in 1..Len(cells)
  BY DEF Found
<1>2. Len(bs) \in Nat /\ \A i \in 1..Len(bs) : bs[i] \in Infos
  BY <1>1
<1>3. \A e \in Infos : e.off \in Nat /\ e.seq \in Nat /\ e.time \in Nat
  BY DEF Infos
<1> QED BY <1>1, <1>2, <1>3

\* A block that begins in the file was given to the writer.
LEMMA BlockGiven ==
  ASSUME FileTypes, GivenInOrder, CellsInOrder, NEW bs, NEW k, Found(bs, k), NEW n, NEW b, IsBlock(bs, n, b)
  PROVE  /\ b \in Blocks /\ GoodBlock(b) /\ \E i \in 1..Len(given) : b = given[i]
         /\ bs[n].seq = b.seq /\ bs[n].time = b.times[1]
         /\ n <= k => b = given[n]
<1>1. n \in 1..Len(bs) /\ bs \in Seq(Infos) /\ k \in Nat /\ k <= Len(bs)
  BY DEF Found, IsBlock
<1>2. PICK o : o = bs[n].off
  OBVIOUS
<1>3. o \in Nat /\ o + 1 \in 1..Len(cells)
  BY <1>1, <1>2, FoundAt
<1>4. OfBlock(Cell(o)) /\ b = Cell(o).b
  BY <1>2 DEF IsBlock, OfBlock, Anchor
<1>5. b \in Blocks /\ GoodBlock(b) /\ \E i \in 1..Len(given) : b = given[i]
  BY <1>3, <1>4, CellBlock
<1>6. bs[n].seq = b.seq /\ bs[n].time = b.times[1]
  BY <1>1 DEF Found, IsBlock
<1>7. ASSUME n <= k PROVE b = given[n]
  <2>1. n \in 1..k
    BY <1>1, <1>7
  <2>2. Holds(o, given[n])
    BY <1>2, <2>1 DEF Found
  <2>3. given[n] \in Blocks
    <3>1. k <= stored /\ stored <= Len(given) /\ stored \in Nat /\ Len(given) \in Nat
      BY DEF Found, FileTypes
    <3>2. n \in 1..Len(given)
      BY <1>1, <2>1, <3>1
    <3> QED BY <3>2, GivenBlocks
  <2> QED BY <1>3, <1>4, <2>2, <2>3, HoldsFirst
<1> QED BY <1>5, <1>6, <1>7

\* What is decoded is the block that begins there.
LEMMA ReadIsBlock ==
  ASSUME Layout, NEW r, NEW k, Found(r.blocks, k), NEW n \in 1..Len(r.blocks)
  PROVE  /\ ReadBlock(r, n).ok \in BOOLEAN
         /\ ReadBlock(r, n).ok => IsBlock(r.blocks, n, ReadBlock(r, n).b)
<1>1. FileTypes /\ GivenInOrder /\ CellsInOrder /\ HeadersFollowed
  BY DEF Layout
<1>2. PICK o : o = r.blocks[n].off
  OBVIOUS
<1>3. o \in Nat /\ o + 1 \in 1..Len(cells) /\ Len(cells) \in Nat
  <2>1. Len(cells) \in Nat
    BY <1>1 DEF FileTypes
  <2>2. o \in Nat /\ o + 1 \in 1..Len(cells)
    BY <1>2, FoundAt
  <2> QED BY <2>1, <2>2
<1>4. Size \in Nat \ {0} /\ 1 \in 1..Size
  BY JournalFileAssumption DEF JournalFileAssumption
<1>5. Cell(o) = cells[o + 1]
  BY <1>3 DEF Cell
<1>6. Bad.ok = FALSE
  BY DEF Bad
<1>7. \A p : Decoded(p).ok \in BOOLEAN /\ (Decoded(p).ok => Decoded(p).b = Cell(p).b /\ Cell(p + 1 - 1) = Data(Cell(p).b, 1))
  <2> TAKE p
  <2>1. CASE \A j \in 1..Size : Cell(p + j - 1) = Data(Cell(p).b, j)
    <3>1. Decoded(p) = [ok |-> TRUE, b |-> Cell(p).b]
      BY <2>1 DEF Decoded
    <3> QED BY <1>4, <2>1, <3>1
  <2>2. CASE ~\A j \in 1..Size : Cell(p + j - 1) = Data(Cell(p).b, j)
    <3>1. Decoded(p) = Bad
      BY <2>2 DEF Decoded
    <3> QED BY <1>6, <3>1
  <2> QED BY <2>1, <2>2
<1>8. CASE comp = "none"
  <2>1. ReadBlock(r, n) = IF Cell(o).cell = "data" THEN Decoded(o) ELSE Bad
    BY <1>2, <1>8 DEF ReadBlock
  <2>2. o + 1 - 1 = o
    BY <1>3
  <2>3. ASSUME Cell(o) = Data(Cell(o).b, 1) PROVE Anchor(Cell(o))
    <3>1. PICK c : c = Cell(o).b
      OBVIOUS
    <3>2. Cell(o) = [cell |-> "data", b |-> c, j |-> 1]
      BY <2>3, <3>1 DEF Data
    <3> QED BY <1>8, <3>2 DEF Anchor
  <2>4. CASE Cell(o).cell = "data"
    BY <1>2, <1>7, <2>1, <2>2, <2>3, <2>4 DEF IsBlock
  <2>5. CASE Cell(o).cell # "data"
    BY <1>6, <2>1, <2>5
  <2> QED BY <2>4, <2>5
<1>9. CASE comp # "none"
  <2>1. PICK h : h = HeaderLen(comp, Cell(o).b.dict)
    OBVIOUS
  <2>2. h \in 0..2
    BY <2>1 DEF HeaderLen
  <2>3. ReadBlock(r, n) = IF Cell(o).cell # "header" THEN Bad
                          ELSE IF o + h + Size > Limit(r, n) \/ Cell(o + h).cell # "data" THEN Bad
                          ELSE Decoded(o + h)
    BY <1>2, <1>9, <2>1 DEF ReadBlock
  <2>4. CASE Cell(o).cell = "header" /\ Cell(o + h).cell = "data"
    <3>1. Cell(o + h) = cells[o + h + 1] /\ o + h < Len(cells) /\ o + h + 1 = (o + 1) + h
      BY <1>3, <2>2, <2>4 DEF Cell
    <3>2. (o + 1) + h <= Len(cells) /\ cells[(o + 1) + h].cell = "data"
      BY <1>3, <2>2, <2>4, <3>1
    <3>3. cells[(o + 1) + h] = Data(cells[o + 1].b, 1)
      BY <1>1, <1>3, <1>5, <2>1, <2>4, <3>2 DEF HeadersFollowed
    <3>4. Cell(o + h).b = Cell(o).b
      BY <1>5, <3>1, <3>3 DEF Data
    <3>5. Anchor(Cell(o))
      BY <1>9, <2>4 DEF Anchor
    <3>6. CASE o + h + Size > Limit(r, n)
      BY <1>6, <2>3, <2>4, <3>6
    <3>7. CASE ~(o + h + Size > Limit(r, n))
      BY <1>2, <1>7, <2>3, <2>4, <3>4, <3>5, <3>7 DEF IsBlock
    <3> QED BY <3>6, <3>7
  <2>5. CASE ~(Cell(o).cell = "header" /\ Cell(o + h).cell = "data")
    BY <1>6, <2>3, <2>5
  <2> QED BY <2>4, <2>5
<1> QED BY <1>8, <1>9

\* A block that was stored can be read.
LEMMA StoredIsRead ==
  ASSUME Layout, NEW r, NEW k, Found(r.blocks, k), NEW n \in 1..k
  PROVE  ReadBlock(r, n).ok = TRUE
<1>1. FileTypes /\ GivenInOrder
  BY DEF Layout
<1>2. PICK o : o = r.blocks[n].off
  OBVIOUS
<1>3. PICK c : c = given[n]
  OBVIOUS
<1>4. k \in Nat /\ k <= stored /\ stored <= Len(given) /\ stored \in Nat /\ Len(given) \in Nat /\ Len(cells) \in Nat
      /\ r.blocks \in Seq(Infos) /\ k <= Len(r.blocks) /\ comp \in {"none", "zstd", "dict"}
  BY <1>1 DEF Found, FileTypes
<1>5. c \in Blocks /\ o \in Nat /\ n \in 1..Len(r.blocks)
  <2>1. n \in 1..Len(given) /\ n \in 1..Len(r.blocks)
    BY <1>4
  <2> QED BY <1>1, <1>2, <1>3, <2>1, GivenBlocks, FoundAt
<1>6. Holds(o, c) /\ (n < Len(r.blocks) => o + BlockLen(c) <= r.blocks[n + 1].off)
  BY <1>2, <1>3 DEF Found
<1>7. Cell(o).b = c /\ (comp # "none" => Cell(o).cell = "header") /\ (comp = "none" => Cell(o).cell = "data")
  BY <1>1, <1>5, <1>6, HoldsFirst
<1>8. PICK h : h = HeaderLen(comp, c.dict)
  OBVIOUS
<1>9. /\ h \in 0..2 /\ (h = 0 <=> comp = "none") /\ Size \in Nat \ {0} /\ BlockLen(c) = h + Size
      /\ \A j \in 1..Size : BlockCells(c)[h + j] = Data(c, j)
  BY <1>4, <1>5, <1>8, BlockShape
<1>10. ASSUME NEW j \in 1..Size PROVE Cell(o + h + j - 1) = Data(c, j)
  <2>1. h + j \in 1..BlockLen(c) /\ o + (h + j) = (o + h + j - 1) + 1 /\ o + h + j - 1 < Len(cells)
    BY <1>4, <1>5, <1>6, <1>9 DEF Holds
  <2>2. cells[o + (h + j)] = Data(c, j)
    BY <1>6, <1>9, <2>1 DEF Holds
  <2> QED BY <2>1, <2>2 DEF Cell
<1>11. Cell(o + h) = Data(c, 1) /\ Cell(o + h).b = c /\ Cell(o + h).cell = "data"
  <2>1. 1 \in 1..Size /\ o + h + 1 - 1 = o + h
    BY <1>5, <1>9
  <2>2. Cell(o + h) = Data(c, 1)
    BY <1>10, <2>1
  <2> QED BY <2>2 DEF Data
<1>12. Decoded(o + h).ok = TRUE
  BY <1>10, <1>11 DEF Decoded
<1>13. o + h + Size <= Limit(r, n)
  <2>1. o + h + Size = o + BlockLen(c) /\ o + BlockLen(c) <= Len(cells)
    BY <1>5, <1>6, <1>9 DEF Holds
  <2> QED BY <1>6, <2>1 DEF Limit
<1>14. CASE comp = "none"
  <2>1. h = 0 /\ o + h = o
    BY <1>5, <1>9, <1>14
  <2>2. ReadBlock(r, n) = Decoded(o)
    BY <1>2, <1>7, <1>14 DEF ReadBlock
  <2> QED BY <1>12, <2>1, <2>2
<1>15. CASE comp # "none"
  <2>1. ~(o + h + Size > Limit(r, n))
    <3>1. Limit(r, n) \in Nat
      <4>1. n < Len(r.blocks) => n + 1 \in 1..Len(r.blocks)
        BY <1>4, <1>5
      <4>2. n < Len(r.blocks) => r.blocks[n + 1].off \in Nat
        BY <4>1, FoundAt
      <4> QED BY <1>4, <4>2 DEF Limit
    <3> QED BY <1>5, <1>9, <1>13, <3>1
  <2>2. ReadBlock(r, n) = Decoded(o + h)
    BY <1>2, <1>7, <1>8, <1>11, <1>15, <2>1 DEF ReadBlock
  <2> QED BY <1>12, <2>2
<1> QED BY <1>14, <1>15
-----------------------------------------------------------------------------
(* Journal files: the file grows under a reader *)

\* Cells and blocks are only added.
FileGrows ==
  /\ Longer /\ Len(cells') \in Nat /\ Len(given') \in Nat /\ kind' = kind /\ comp' = comp
  /\ stored' \in Nat /\ stored <= stored' /\ (failed => failed')
  /\ Len(given) <= Len(given') /\ \A i \in 1..Len(given) : given'[i] = given[i]

\* A step of a writer or reader takes nothing away from the file.
LEMMA FileOnlyGrows ==
  ASSUME Layout, [JFNext]_jvars
  PROVE  FileGrows
<1>1. FileTypes /\ stored \in Nat /\ Len(cells) \in Nat /\ Len(given) \in Nat /\ given \in Seq(Blocks)
      /\ cells \in Seq(AllCells)
  BY DEF Layout, FileTypes
<1>2. CASE UNCHANGED writerVars
  <2>1. /\ kind' = kind /\ comp' = comp /\ cells' = cells /\ given' = given /\ stored' = stored /\ failed' = failed
    BY <1>2 DEF writerVars
  <2> QED BY <1>1, <2>1 DEF FileGrows, Longer
<1>3. ASSUME AppendBlock \/ AppendFails PROVE FileGrows
  <2>1. PICK b \in NewBlocks : \E k \in 0..BlockLen(b) : Appended(b, k)
    BY <1>3, AppendSteps
  <2>2. PICK k \in 0..BlockLen(b) : Appended(b, k)
    BY <2>1
  <2>3. b \in Blocks
    BY <2>2, NewBlockFits DEF Appended, Layout
  <2>4. BlockLen(b) \in Nat /\ k \in Nat
    <3>1. BlockLen(b) \in Nat
      BY <1>1, <2>3, BlockShape DEF FileTypes
    <3> QED BY <3>1
  <2>5. /\ Len(cells') = Len(cells) + k
        /\ \A x \in 1..Len(cells) : cells'[x] = cells[x]
        /\ Len(given') = Len(given) + 1 /\ \A i \in 1..Len(given) : given'[i] = given[i]
    BY <1>1, <2>2, <2>3, GrownCells DEF Appended
  <2>6. kind' = kind /\ comp' = comp
    BY <2>2 DEF Appended, Grown
  <2>7. stored' \in Nat /\ stored <= stored' /\ (failed => failed')
    BY <1>1, <2>2 DEF Appended, Whole, Torn
  <2>8. Longer /\ Len(cells') \in Nat /\ Len(given') \in Nat /\ Len(given) <= Len(given')
    BY <1>1, <2>4, <2>5 DEF Longer
  <2> QED BY <2>5, <2>6, <2>7, <2>8 DEF FileGrows
<1>4. ASSUME CloseFile PROVE FileGrows
  <2>1. kind' = kind /\ comp' = comp /\ given' = given /\ stored' = stored /\ failed' = failed
    BY <1>4 DEF CloseFile
  <2>2. PICK e : e = Index
    OBVIOUS
  <2>3. \/ cells' = cells
        \/ \E d : d \in Seq(AllCells) /\ cells' = cells \o d
    <3>1. e \in Seq(AllCells)
      <4>1. offsets \in Seq(Nat) /\ Len(offsets) \in Nat
        BY <1>1 DEF FileTypes
      <4>2. PICK A : A = [i \in 1..Len(offsets) |-> Offset(offsets[i])]
        OBVIOUS
      <4>3. PICK B : B = <<Tail4(Len(offsets))>>
        OBVIOUS
      <4>4. \A i \in 1..Len(offsets) : Offset(offsets[i]) \in AllCells
        BY <4>1 DEF Offset, AllCells
      <4>5. Tail4(Len(offsets)) \in AllCells
        BY <4>1 DEF Tail4, AllCells
      <4>6. A \in Seq(AllCells) /\ B \in Seq(AllCells)
        BY <4>1, <4>2, <4>3, <4>4, <4>5
      <4> QED BY <2>2, <4>2, <4>3, <4>6 DEF Index
    <3>2. ASSUME NEW k \in 0..Len(offsets) PROVE SubSeq(e, 1, k) \in Seq(AllCells)
      <4>1. k \in Nat /\ Len(offsets) \in Nat /\ offsets \in Seq(Nat)
        BY <1>1 DEF FileTypes
      <4>2. Len(e) = Len(offsets) + 1
        BY <2>2, <4>1 DEF Index
      <4> QED BY <3>1, <4>1, <4>2, SubSeqProperties
    <3>3. \/ cells' = cells \o e \/ cells' = cells
          \/ \E k \in 0..Len(offsets) : cells' = cells \o SubSeq(e, 1, k)
      BY <1>4, <2>2, Zenon DEF CloseFile
    <3> QED BY <3>1, <3>2, <3>3
  <2>4. Longer /\ Len(cells') \in Nat
    <3>1. CASE cells' = cells
      BY <1>1, <3>1 DEF Longer
    <3>2. ASSUME NEW d \in Seq(AllCells), cells' = cells \o d PROVE Longer /\ Len(cells') \in Nat
      <4>1. Len(d) \in Nat /\ Len(cells') = Len(cells) + Len(d) /\ \A x \in 1..Len(cells) : cells'[x] = cells[x]
        BY <1>1, <3>2, Joined
      <4> QED BY <1>1, <4>1 DEF Longer
    <3> QED BY <2>3, <3>1, <3>2
  <2> QED BY <1>1, <2>1, <2>4 DEF FileGrows
<1>5. ASSUME NewReader \/ SeekToSeq \/ SeekToTime \/ ReadNext \/ UNCHANGED jvars PROVE UNCHANGED writerVars
  BY <1>5, Zenon DEF NewReader, SeekToSeq, SeekToTime, Seek, ReadNext, jvars
<1> QED BY <1>2, <1>3, <1>4, <1>5, Zenon DEF JFNext

\* What was found stays found.
LEMMA FoundOn ==
  ASSUME Layout, FileGrows, NEW bs, NEW n, Found(bs, n)
  PROVE  /\ Found(bs, n)'
         /\ \A i, b : IsBlock(bs, i, b) => IsBlock(bs, i, b)'
<1>1. FileTypes /\ GivenInOrder
  BY DEF Layout
<1>2. /\ Len(cells) \in Nat /\ Len(cells') \in Nat /\ comp' = comp /\ kind' = kind /\ Len(cells) <= Len(cells')
      /\ \A x \in 1..Len(cells) : cells'[x] = cells[x]
      /\ stored \in Nat /\ stored <= Len(given) /\ Len(given) \in Nat
  BY <1>1 DEF FileGrows, Longer, FileTypes
<1>3. /\ Len(bs) \in Nat /\ n \in Nat /\ n <= Len(bs) /\ n <= stored /\ bs \in Seq(Infos)
      /\ \A i \in 1..Len(bs) : bs[i].off \in Nat /\ bs[i].off + 1 \in 1..Len(cells)
  BY FoundAt DEF Found
<1>4. ASSUME NEW i \in 1..Len(bs) PROVE Cell(bs[i].off)' = Cell(bs[i].off)
  <2>1. PICK o : o = bs[i].off
    OBVIOUS
  <2>2. o \in Nat /\ o + 1 \in 1..Len(cells)
    BY <1>3, <2>1
  <2>3. Cell(o)' = Cell(o)
    BY <1>2, <2>2 DEF Cell
  <2> QED BY <2>1, <2>3
<1>7. ASSUME NEW i \in 1..Len(bs) PROVE (Anchor(Cell(bs[i].off)))' <=> Anchor(Cell(bs[i].off))
  BY <1>2, <1>4 DEF Anchor
<1>8. ASSUME NEW i \in 1..n
      PROVE  Holds(bs[i].off, given[i])' /\ (i < Len(bs) => bs[i].off + BlockLen(given[i])' <= bs[i + 1].off)
  <2>1. PICK o : o = bs[i].off
    OBVIOUS
  <2>2. PICK c : c = given[i]
    OBVIOUS
  <2>3. i \in 1..Len(given) /\ i \in 1..Len(bs)
    BY <1>2, <1>3
  <2>4. c \in Blocks /\ o \in Nat /\ given'[i] = c
    BY <1>1, <1>3, <2>1, <2>2, <2>3, GivenBlocks DEF FileGrows
  <2>5. Holds(o, c) /\ (i < Len(bs) => o + BlockLen(c) <= bs[i + 1].off)
    BY <2>1, <2>2 DEF Found
  <2>6. Holds(o, c)'
    BY <1>1, <1>2, <2>4, <2>5, HoldsOn DEF FileGrows
  <2>7. BlockLen(c)' = BlockLen(c)
    BY <1>2 DEF BlockLen
  <2> QED BY <2>1, <2>4, <2>5, <2>6, <2>7
<1>9. kind' = "journal" \/ ~failed' => Len(bs) = n
  BY DEF FileGrows, Found
<1>10. n <= stored'
  BY <1>2, <1>3 DEF FileGrows
<1>11. \A i \in 1..Len(bs) : bs[i].off + 1 \in 1..Len(cells')
  BY <1>2, <1>3
<1>12. ASSUME NEW i \in 1..Len(bs), (Anchor(Cell(bs[i].off)))'
       PROVE  bs[i].seq = Cell(bs[i].off)'.b.seq /\ bs[i].time = Cell(bs[i].off)'.b.times[1]
  <2>1. Anchor(Cell(bs[i].off))
    BY <1>7, <1>12
  <2> QED BY <1>4, <2>1 DEF Found
<1>13. Found(bs, n)'
  <2>1. \A i, k \in 1..Len(bs) : i < k => bs[i].off < bs[k].off
    BY DEF Found
  <2> QED BY <1>3, <1>8, <1>9, <1>10, <1>11, <1>12, <2>1 DEF Found
<1>14. ASSUME NEW i, NEW b, IsBlock(bs, i, b) PROVE IsBlock(bs, i, b)'
  BY <1>4, <1>7, <1>14 DEF IsBlock
<1> QED BY <1>13, <1>14
-----------------------------------------------------------------------------
(* Journal files: the reader *)

Frames == [seq : Nat, time : Nat]
Readers == [blocks : Seq(Infos), cur : Nat, idx : Nat, data : Blocks, ahead : BOOLEAN, pf : Nat, buf : Blocks,
            known : Nat, from : [by : {"none", "seq", "time"}, at : Nat], out : Seq(Frames),
            state : {"none", "open", "end", "failed"}]

\* What was read ahead is what it is said to be.
AheadGood(r) == r.pf # 0 => IsBlock(r.blocks, r.pf, r.buf)

\* The fields a load leaves alone.
SameWay(r, t) == /\ t.blocks = r.blocks /\ t.known = r.known /\ t.from = r.from /\ t.out = r.out

\* startPrefetch leaves the reader in its place; what it holds is the block.
LEMMA PrefetchCases ==
  ASSUME Layout, NEW r \in Readers, Found(r.blocks, r.known), NEW n \in Nat \ {0}, NEW t, t = Prefetched(r, n)
  PROVE  /\ t \in Readers /\ SameWay(r, t) /\ AheadGood(t)
         /\ t.cur = r.cur /\ t.idx = r.idx /\ t.data = r.data /\ t.state = r.state
<1>1. FileTypes /\ GivenInOrder /\ CellsInOrder
  BY DEF Layout
<1>2. CASE r.ahead /\ n <= Len(r.blocks) /\ ReadBlock(r, n).ok
  <2>1. PICK b : b = ReadBlock(r, n).b
    OBVIOUS
  <2>2. n \in 1..Len(r.blocks)
    BY <1>2, FoundAt
  <2>3. IsBlock(r.blocks, n, b)
    BY <1>2, <2>1, <2>2, ReadIsBlock
  <2>4. b \in Blocks
    BY <1>1, <2>3, BlockGiven
  <2>5. t = [r EXCEPT !.pf = n, !.buf = b]
    BY <1>2, <2>1 DEF Prefetched
  <2>6. t \in Readers /\ SameWay(r, t) /\ t.cur = r.cur /\ t.idx = r.idx /\ t.data = r.data /\ t.state = r.state
    BY <2>4, <2>5 DEF Readers, SameWay
  <2>7. t.pf = n /\ t.buf = b
    BY <2>5 DEF Readers
  <2> QED BY <2>3, <2>6, <2>7 DEF AheadGood, SameWay
<1>3. CASE ~(r.ahead /\ n <= Len(r.blocks) /\ ReadBlock(r, n).ok)
  <2>1. t = [r EXCEPT !.pf = 0]
    BY <1>3, Zenon DEF Prefetched
  <2>5. t \in Readers
    <3>1. PICK z \in Nat : z = 0
      OBVIOUS
    <3>2. t = [r EXCEPT !.pf = z]
      BY <2>1, <3>1
    <3> QED BY <3>2 DEF Readers
  <2>2. SameWay(r, t) /\ t.cur = r.cur /\ t.idx = r.idx /\ t.data = r.data /\ t.state = r.state
    BY <2>1 DEF Readers, SameWay
  <2>3. t.pf = 0
    BY <2>1 DEF Readers
  <2>4. AheadGood(t)
    BY <2>3, Zenon DEF AheadGood
  <2> QED BY <2>2, <2>4, <2>5
<1> QED BY <1>2, <1>3

\* A load fails, which it does for no stored block, or the block is the one.
LEMMA LoadCases ==
  ASSUME Layout, NEW r \in Readers, Found(r.blocks, r.known), AheadGood(r), NEW n \in 1..Len(r.blocks),
         NEW t, t = LoadBlock(r, n)
  PROVE  /\ t \in Readers /\ SameWay(r, t) /\ AheadGood(t)
         /\ \/ t.state = "failed" /\ n > r.known /\ t.cur = r.cur /\ t.idx = r.idx /\ t.data = r.data
            \/ t.state = r.state /\ t.cur = n /\ t.idx = 0 /\ IsBlock(r.blocks, n, t.data)
<1>1. FileTypes /\ GivenInOrder /\ CellsInOrder /\ n \in Nat /\ n + 1 \in Nat \ {0}
  BY FoundAt DEF Layout
<1>2. PICK got : got = IF IsAhead(r, n) THEN [ok |-> TRUE, b |-> r.buf] ELSE ReadBlock(r, n)
  OBVIOUS
<1>3. got.ok \in BOOLEAN /\ (got.ok => IsBlock(r.blocks, n, got.b)) /\ (n <= r.known => got.ok)
  <2>1. CASE IsAhead(r, n)
    <3>1. got = [ok |-> TRUE, b |-> r.buf] /\ r.pf = n /\ r.pf # 0
      BY <1>2, <2>1 DEF IsAhead
    <3> QED BY <3>1 DEF AheadGood
  <2>2. CASE ~IsAhead(r, n)
    <3>1. got = ReadBlock(r, n)
      BY <1>2, <2>2
    <3>2. n <= r.known => n \in 1..r.known
      BY FoundAt
    <3> QED BY <3>1, <3>2, ReadIsBlock, StoredIsRead
  <2> QED BY <2>1, <2>2
<1>4. CASE got.ok
  <2>1. PICK u : u = [r EXCEPT !.cur = n, !.idx = 0, !.data = got.b]
    OBVIOUS
  <2>2. IsBlock(r.blocks, n, got.b)
    BY <1>3, <1>4
  <2>3. got.b \in Blocks
    BY <1>1, <2>2, BlockGiven
  <2>4. /\ u \in Readers /\ SameWay(r, u) /\ u.cur = n /\ u.idx = 0 /\ u.data = got.b /\ u.state = r.state
    BY <1>1, <2>1, <2>3 DEF Readers, SameWay
  <2>5. t = Prefetched(u, n + 1)
    BY <1>2, <1>4, <2>1 DEF LoadBlock
  <2>6. Found(u.blocks, u.known)
    BY <2>4 DEF SameWay
  <2>7. /\ t \in Readers /\ SameWay(u, t) /\ AheadGood(t)
        /\ t.cur = u.cur /\ t.idx = u.idx /\ t.data = u.data /\ t.state = u.state
    BY <1>1, <2>4, <2>5, <2>6, PrefetchCases
  <2> QED BY <2>2, <2>4, <2>7 DEF SameWay
<1>5. CASE ~got.ok
  <2>1. t = [r EXCEPT !.state = "failed", !.pf = 0]
    BY <1>2, <1>5 DEF LoadBlock
  <2>2. n > r.known
    BY <1>1, <1>3, <1>5, FoundAt
  <2>6. t \in Readers
    <3>1. PICK z \in Nat : z = 0
      OBVIOUS
    <3>2. PICK s : s = "failed"
      OBVIOUS
    <3>3. t = [r EXCEPT !.state = s, !.pf = z] /\ s \in {"none", "open", "end", "failed"}
      BY <2>1, <3>1, <3>2
    <3> QED BY <3>3 DEF Readers
  <2>3. SameWay(r, t) /\ t.cur = r.cur /\ t.idx = r.idx /\ t.data = r.data /\ t.state = "failed"
    BY <2>1 DEF Readers, SameWay
  <2>4. t.pf = 0
    BY <2>1 DEF Readers
  <2>5. AheadGood(t)
    BY <2>4, Zenon DEF AheadGood
  <2> QED BY <2>2, <2>3, <2>5, <2>6
<1> QED BY <1>3, <1>4, <1>5

\* The frames of a block.
LEMMA FrameCases ==
  ASSUME NEW b \in Blocks, GoodBlock(b), NEW f \in FramesOf(b)
  PROVE  /\ f \in Frames /\ f.seq \in Nat /\ f.time \in Nat
         /\ b.seq <= f.seq /\ f.seq < EndSeq(b)
         /\ b.times[1] <= f.time /\ f.time <= b.times[Len(b.times)]
         /\ \A i \in 1..Len(b.times) : f.seq = b.seq + i - 1 => f = [seq |-> b.seq + i - 1, time |-> b.times[i]]
<1>1. /\ b.seq \in Nat /\ Len(b.times) \in Nat \ {0}
      /\ \A i \in 1..Len(b.times) : b.times[i] \in Nat
      /\ \A i \in 1..Len(b.times) : b.times[1] <= b.times[i] /\ b.times[i] <= b.times[Len(b.times)]
  BY BlockEnds
<1>2. PICK j \in 1..Len(b.times) : f = FrameSeq(b)[j]
  BY DEF FramesOf
<1>3. f = [seq |-> b.seq + j - 1, time |-> b.times[j]]
  BY <1>2 DEF FrameSeq
<1>4. f.seq = b.seq + j - 1 /\ f.time = b.times[j]
  BY <1>3
<1>5. ASSUME NEW i \in 1..Len(b.times), f.seq = b.seq + i - 1 PROVE f = [seq |-> b.seq + i - 1, time |-> b.times[i]]
  <2>1. i = j
    BY <1>1, <1>4, <1>5
  <2> QED BY <1>3, <2>1
<1>6. f.seq \in Nat /\ b.seq <= f.seq /\ f.seq < EndSeq(b)
  BY <1>1, <1>4 DEF EndSeq
<1>7. f \in Frames
  BY <1>1, <1>3, <1>4, <1>6 DEF Frames
<1> QED BY <1>1, <1>4, <1>5, <1>6, <1>7

\* The i-th frame of a block is one of its frames.
LEMMA FrameIn ==
  ASSUME NEW b \in Blocks, GoodBlock(b), NEW i \in 1..Len(b.times)
  PROVE  [seq |-> b.seq + i - 1, time |-> b.times[i]] \in FramesOf(b)
BY DEF FramesOf, FrameSeq

\* Blocks found one behind the other come one after the other.
LEMMA BlocksInOrder ==
  ASSUME FileTypes, GivenInOrder, CellsInOrder, NEW bs, NEW k, Found(bs, k),
         NEW m, NEW b, IsBlock(bs, m, b), NEW n, NEW c, IsBlock(bs, n, c), m < n
  PROVE  Earlier(b, c)
<1>1. /\ m \in 1..Len(bs) /\ n \in 1..Len(bs) /\ bs[m].off < bs[n].off
      /\ Anchor(Cell(bs[m].off)) /\ b = Cell(bs[m].off).b /\ Anchor(Cell(bs[n].off)) /\ c = Cell(bs[n].off).b
  BY DEF Found, IsBlock
<1>2. PICK x : x = bs[m].off
  OBVIOUS
<1>3. PICK y : y = bs[n].off
  OBVIOUS
<1>4. x \in Nat /\ y \in Nat /\ x < y /\ x + 1 \in 1..Len(cells) /\ y + 1 \in 1..Len(cells)
  BY <1>1, <1>2, <1>3, FoundAt
<1>5. Cell(x) = cells[x + 1] /\ Cell(y) = cells[y + 1]
  <2>1. PICK l : l = Len(cells)
    OBVIOUS
  <2>2. l \in Nat
    BY <2>1 DEF FileTypes
  <2>3. x < l /\ y < l
    BY <1>4, <2>1, <2>2
  <2> QED BY <2>1, <2>3 DEF Cell
<1>6. x + 1 < y + 1
  BY <1>4
<1> QED BY <1>1, <1>2, <1>3, <1>4, <1>5, <1>6 DEF CellsInOrder

\* The frame was asked for, and has been given.
SoughtBy(r, f) == /\ r.from.by = "seq" => f.seq >= r.from.at
                  /\ r.from.by = "time" => f.time > r.from.at
Came(r, f) == \E j \in 1..Len(r.out) : r.out[j] = f

\* What has been given is of the file, in order, and before the frame that comes next.
OutGood(r) ==
  /\ \A i, j \in 1..Len(r.out) : i < j => r.out[i].seq < r.out[j].seq
  /\ \A i \in 1..Len(r.out) : /\ \E k \in 1..Len(given) : r.out[i] \in FramesOf(given[k])
                              /\ r.cur # 0 /\ r.out[i].seq < r.data.seq + r.idx

\* Every frame asked for has been given up to the one that comes next, or to the end.
Covered(r) ==
  \A i \in 1..r.known : \A f \in FramesOf(given[i]) :
    i <= r.cur /\ SoughtBy(r, f) /\ (i < r.cur \/ f.seq < r.data.seq + r.idx) => Came(r, f)
AllRead(r) ==
  \A i \in 1..r.known : \A f \in FramesOf(given[i]) : SoughtBy(r, f) => Came(r, f)

ReaderGood(r) ==
  /\ r \in Readers /\ r.state # "none" /\ Found(r.blocks, r.known) /\ AheadGood(r) /\ r.cur <= Len(r.blocks)
  /\ r.cur # 0 => IsBlock(r.blocks, r.cur, r.data) /\ r.idx <= Len(r.data.times)
  /\ OutGood(r)
  /\ r.state = "open" => Covered(r)
  /\ r.state = "end" \/ (r.state = "failed" /\ r.from.by = "none") => AllRead(r)
  /\ kind = "journal" \/ ~failed => r.state # "failed"

ReaderInv == IF reader.state = "none" THEN reader = NoReader ELSE ReaderGood(reader)

\* Numbers of a reader.
LEMMA ReaderTypes ==
  ASSUME NEW r \in Readers
  PROVE  /\ r.cur \in Nat /\ r.idx \in Nat /\ r.data \in Blocks /\ r.data.seq \in Nat /\ Len(r.data.times) \in Nat
         /\ r.known \in Nat /\ r.pf \in Nat /\ r.from.by \in {"none", "seq", "time"} /\ r.from.at \in Nat
         /\ r.out \in Seq(Frames) /\ Len(r.out) \in Nat
         /\ \A i \in 1..Len(r.out) : r.out[i].seq \in Nat /\ r.out[i].time \in Nat
<1>1. /\ r.cur \in Nat /\ r.idx \in Nat /\ r.data \in Blocks /\ r.known \in Nat /\ r.pf \in Nat
      /\ r.from \in [by : {"none", "seq", "time"}, at : Nat] /\ r.out \in Seq(Frames)
  BY DEF Readers
<1>2. r.data.seq \in Nat /\ r.data.times \in Seq(Nat)
  BY <1>1 DEF Blocks
<1>3. Len(r.out) \in Nat /\ \A i \in 1..Len(r.out) : r.out[i] \in Frames
  BY <1>1
<1>4. \A f \in Frames : f.seq \in Nat /\ f.time \in Nat
  BY DEF Frames
<1> QED BY <1>1, <1>2, <1>3, <1>4

\* The reader is right about a file that grows.
LEMMA ReaderOn ==
  ASSUME Layout, FileGrows, NEW r, ReaderGood(r)
  PROVE  ReaderGood(r)'
<1>1. Found(r.blocks, r.known)' /\ \A i, b : IsBlock(r.blocks, i, b) => IsBlock(r.blocks, i, b)'
  BY FoundOn DEF ReaderGood
<1>2. AheadGood(r)'
  BY <1>1 DEF ReaderGood, AheadGood
<1>3. OutGood(r)'
  <2>1. ASSUME NEW i \in 1..Len(r.out) PROVE \E k \in 1..Len(given') : r.out[i] \in FramesOf(given'[k])
    <3>1. PICK k \in 1..Len(given) : r.out[i] \in FramesOf(given[k])
      BY DEF ReaderGood, OutGood
    <3>2. k \in 1..Len(given') /\ given'[k] = given[k]
      BY DEF FileGrows, Layout, FileTypes
    <3> QED BY <3>1, <3>2
  <2>2. \A i, j \in 1..Len(r.out) : i < j => r.out[i].seq < r.out[j].seq
    BY DEF ReaderGood, OutGood
  <2>3. \A i \in 1..Len(r.out) : r.cur # 0 /\ r.out[i].seq < r.data.seq + r.idx
    BY DEF ReaderGood, OutGood
  <2> QED BY <2>1, <2>2, <2>3 DEF OutGood, FramesOf, FrameSeq
<1>4. \A i \in 1..r.known : given'[i] = given[i]
  <2>1. r.known \in Nat /\ r.known <= stored /\ stored <= Len(given) /\ stored \in Nat /\ Len(given) \in Nat
    BY DEF ReaderGood, Found, Layout, FileTypes
  <2> QED BY <2>1 DEF FileGrows
<1>5. Covered(r)' <=> Covered(r)
  BY <1>4 DEF Covered
<1>6. AllRead(r)' <=> AllRead(r)
  BY <1>4 DEF AllRead
<1>7. kind' = "journal" \/ ~failed' => r.state # "failed"
  BY DEF ReaderGood, FileGrows
<1> QED BY <1>1, <1>2, <1>3, <1>5, <1>6, <1>7 DEF ReaderGood

\* At the end of a block all its frames have been given.
LEMMA BlockRead ==
  ASSUME Layout, NEW r, ReaderGood(r), r.state = "open", ~(r.cur > 0 /\ r.idx < Len(r.data.times)),
         NEW i \in 1..r.known, i <= r.cur, NEW f \in FramesOf(given[i]), SoughtBy(r, f)
  PROVE  Came(r, f)
<1>1. FileTypes /\ GivenInOrder /\ CellsInOrder
  BY DEF Layout
<1>2. r \in Readers /\ Found(r.blocks, r.known) /\ Covered(r)
  BY DEF ReaderGood
<1>3. /\ r.cur \in Nat /\ r.idx \in Nat /\ r.known \in Nat /\ r.data.seq \in Nat /\ Len(r.data.times) \in Nat
  BY <1>2, ReaderTypes
<1>4. CASE i < r.cur
  BY <1>2, <1>4 DEF Covered
<1>5. CASE i = r.cur
  <2>1. IsBlock(r.blocks, i, r.data) /\ r.idx >= Len(r.data.times)
    BY <1>3, <1>5 DEF ReaderGood
  <2>2. PICK b : b = r.data
    OBVIOUS
  <2>3. b \in Blocks /\ GoodBlock(b) /\ b = given[i]
    BY <1>1, <1>2, <1>3, <2>1, <2>2, BlockGiven
  <2>4. f.seq < EndSeq(b) /\ f.seq \in Nat
    BY <2>3, FrameCases
  <2>5. f.seq < r.data.seq + r.idx
    BY <1>3, <2>1, <2>2, <2>4, SMTT(30) DEF EndSeq
  <2> QED BY <1>2, <2>5 DEF Covered
<1> QED BY <1>3, <1>4, <1>5

\* A new reader.
Opened(t, a) == t = [NoReader EXCEPT !.blocks = BlocksOf, !.ahead = a, !.state = "open", !.known = stored]

\* The fields of a new reader.
LEMMA NewRecord ==
  ASSUME NEW a \in BOOLEAN, NEW bs \in Seq(Infos), NEW n \in Nat, NEW nb \in Blocks, NEW z \in Nat,
         NEW w \in [by : {"none", "seq", "time"}, at : Nat], NEW e \in Seq(Frames), NEW t,
         t = [blocks |-> bs, cur |-> z, idx |-> z, data |-> nb, ahead |-> a, pf |-> z, buf |-> nb, known |-> n,
              from |-> w, out |-> e, state |-> "open"]
  PROVE  t \in Readers /\ t.blocks = bs /\ t.cur = z /\ t.pf = z /\ t.known = n /\ t.out = e /\ t.state = "open"
BY DEF Readers

\* NewReader and EnablePrefetch give a good reader.
LEMMA OpenGood ==
  ASSUME Layout, NEW a \in BOOLEAN, NEW t, Opened(t, a)
  PROVE  ReaderGood(t)
<1>1. PICK bs : bs = BlocksOf
  OBVIOUS
<1>2. Found(bs, stored)
  BY <1>1, BlocksFound
<1>3. bs \in Seq(Infos) /\ stored \in Nat /\ Len(bs) \in Nat
  BY <1>2, FoundAt DEF Found
<1>4. NoBlock \in Blocks
  BY DEF NoBlock, Block, Blocks
<1>5. PICK e : e = <<>>
  OBVIOUS
<1>6. PICK w : w = [by |-> "none", at |-> 0]
  OBVIOUS
<1>7. e \in Seq(Frames) /\ w \in [by : {"none", "seq", "time"}, at : Nat]
  BY <1>5, <1>6
<1>16. t = [blocks |-> bs, cur |-> 0, idx |-> 0, data |-> NoBlock, ahead |-> a, pf |-> 0, buf |-> NoBlock,
            known |-> stored, from |-> w, out |-> e, state |-> "open"]
  BY <1>1, <1>5, <1>6 DEF Opened, NoReader
<1>8. /\ t \in Readers /\ t.blocks = bs /\ t.cur = 0 /\ t.pf = 0 /\ t.known = stored
      /\ t.out = e /\ t.state = "open"
  BY <1>3, <1>4, <1>7, <1>16, NewRecord, SMTT(30)
<1>9. Len(t.out) = 0
  BY <1>5, <1>8
<1>10. OutGood(t)
  <2>1. \A i \in 1..Len(t.out) : FALSE
    BY <1>9
  <2> QED BY <2>1 DEF OutGood
<1>11. Covered(t)
  <2>1. \A i \in 1..t.known : ~(i <= t.cur)
    BY <1>3, <1>8
  <2> QED BY <2>1 DEF Covered
<1>12. AheadGood(t)
  BY <1>8, Zenon DEF AheadGood
<1>13. t.cur <= Len(t.blocks)
  BY <1>3, <1>8
<1>14. t.state # "none" /\ t.state # "end" /\ t.state # "failed"
  BY <1>8
<1>15. Found(t.blocks, t.known)
  BY <1>2, <1>8
<1> QED BY <1>8, <1>10, <1>11, <1>12, <1>13, <1>14, <1>15, Zenon DEF ReaderGood

\* A reader is sent to x, and loads the block found.
Sent(r, by, x, u) == u = [CancelPrefetch(r) EXCEPT !.from = [by |-> by, at |-> x], !.out = <<>>]
Landed(u, by, x, t) == t = LoadBlock(u, Search(Keys(u, by), Len(u.blocks), x))

\* After a seek nothing has been passed over that was asked for.
LEMMA SeekGood ==
  ASSUME Layout, NEW r, ReaderGood(r), r.state = "open", r.blocks # <<>>,
         NEW by \in {"seq", "time"}, NEW x \in Nat, NEW u, NEW t, Sent(r, by, x, u), Landed(u, by, x, t)
  PROVE  ReaderGood(t)
<1>1. FileTypes /\ GivenInOrder /\ CellsInOrder
  BY DEF Layout
<1>2. r \in Readers /\ Found(r.blocks, r.known) /\ r.cur <= Len(r.blocks)
      /\ (r.cur # 0 => IsBlock(r.blocks, r.cur, r.data) /\ r.idx <= Len(r.data.times))
  BY DEF ReaderGood
<1>3. PICK w : w = [by |-> by, at |-> x]
  OBVIOUS
<1>4. PICK e : e = <<>>
  OBVIOUS
<1>5. PICK z \in Nat : z = 0
  OBVIOUS
<1>6. w \in [by : {"none", "seq", "time"}, at : Nat] /\ w.by = by /\ w.at = x
  BY <1>3
<1>7. e \in Seq(Frames) /\ Len(e) = 0
  BY <1>4
<1>8. u = [[r EXCEPT !.pf = z] EXCEPT !.from = w, !.out = e]
  BY <1>3, <1>4, <1>5 DEF Sent, CancelPrefetch
<1>9. PICK v : v = [r EXCEPT !.pf = z]
  OBVIOUS
<1>10. v \in Readers /\ v.pf = 0 /\ v.blocks = r.blocks /\ v.known = r.known /\ v.state = r.state /\ v.cur = r.cur
       /\ v.idx = r.idx /\ v.data = r.data
  BY <1>2, <1>5, <1>9 DEF Readers
<1>11. u = [v EXCEPT !.from = w, !.out = e]
  BY <1>8, <1>9
<1>12. u \in Readers
  BY <1>6, <1>7, <1>10, <1>11 DEF Readers
<1>13. u.pf = 0 /\ u.blocks = r.blocks /\ u.known = r.known /\ u.state = "open" /\ u.from = w /\ u.out = e
       /\ u.cur = r.cur /\ u.idx = r.idx /\ u.data = r.data
  BY <1>10, <1>11 DEF Readers
<1>14. PICK bs : bs = r.blocks
  OBVIOUS
<1>15. PICK k : k = r.known
  OBVIOUS
<1>16. PICK key : key = Keys(u, by)
  OBVIOUS
<1>17. Len(bs) \in Nat \ {0} /\ k \in Nat /\ k <= Len(bs) /\ Found(bs, k)
  BY <1>2, <1>14, <1>15, FoundAt DEF Found
<1>18. PICK m : m = Search(key, Len(bs), x)
  OBVIOUS
<1>19. m \in 1..Len(bs) /\ (m = 1 \/ key[m] <= x)
  BY <1>17, <1>18, SearchFinds
<1>20. t = LoadBlock(u, m)
  BY <1>13, <1>14, <1>16, <1>18 DEF Landed
<1>21. AheadGood(u)
  BY <1>13, Zenon DEF AheadGood
<1>22. /\ t \in Readers /\ SameWay(u, t) /\ AheadGood(t)
       /\ \/ t.state = "failed" /\ m > u.known /\ t.cur = u.cur /\ t.idx = u.idx /\ t.data = u.data
          \/ t.state = u.state /\ t.cur = m /\ t.idx = 0 /\ IsBlock(u.blocks, m, t.data)
  <2>1. Found(u.blocks, u.known) /\ m \in 1..Len(u.blocks)
    BY <1>13, <1>14, <1>15, <1>17, <1>19
  <2> QED BY <1>12, <1>20, <1>21, <2>1, LoadCases
<1>23. t.blocks = bs /\ t.known = k /\ t.from = w /\ t.out = e /\ Len(t.out) = 0
  BY <1>7, <1>13, <1>14, <1>15, <1>22 DEF SameWay
<1>24. OutGood(t)
  <2>1. \A i \in 1..Len(t.out) : FALSE
    BY <1>23
  <2> QED BY <2>1 DEF OutGood
<1>25. Found(t.blocks, t.known)
  BY <1>17, <1>23
<1>26. CASE t.state = "failed" /\ m > k /\ t.cur = r.cur /\ t.idx = r.idx /\ t.data = r.data
  <2>1. ~(kind = "journal" \/ ~failed)
    BY <1>17, <1>19, <1>26 DEF Found
  <2>2. t.from.by # "none" /\ t.state # "open" /\ t.state # "end" /\ t.state # "none"
    BY <1>6, <1>23, <1>26
  <2>3. t.cur <= Len(t.blocks) /\ (t.cur # 0 => IsBlock(t.blocks, t.cur, t.data) /\ t.idx <= Len(t.data.times))
    BY <1>2, <1>14, <1>23, <1>26
  <2> QED BY <1>22, <1>24, <1>25, <2>1, <2>2, <2>3, Zenon DEF ReaderGood
<1>27. CASE t.state = "open" /\ t.cur = m /\ t.idx = 0 /\ IsBlock(bs, m, t.data)
  <2>1. PICK b : b = t.data
    OBVIOUS
  <2>2. /\ b \in Blocks /\ GoodBlock(b) /\ bs[m].seq = b.seq /\ bs[m].time = b.times[1]
        /\ (m <= k => b = given[m])
    BY <1>1, <1>17, <1>27, <2>1, BlockGiven
  <2>3. b.seq \in Nat /\ b.times[1] \in Nat /\ Len(b.times) \in Nat
    BY <2>2, BlockEnds
  <2>4. m = 1 \/ (IF by = "seq" THEN b.seq <= x ELSE b.times[1] <= x)
    BY <1>13, <1>14, <1>16, <1>19, <2>2 DEF Keys
  <2>5. ASSUME NEW i \in 1..k, NEW f \in FramesOf(given[i]), i <= m, SoughtBy(t, f), i < m \/ f.seq < b.seq + 0
        PROVE  FALSE
    <3>1. PICK c : c = given[i]
      OBVIOUS
    <3>2. k <= stored /\ stored <= Len(given) /\ stored \in Nat /\ Len(given) \in Nat
      BY <1>1, <1>17 DEF Found, FileTypes
    <3>3. c \in Blocks /\ GoodBlock(c)
      <4>1. i \in 1..Len(given)
        BY <1>17, <3>2
      <4> QED BY <1>1, <3>1, <4>1, GivenBlocks
    <3>4. f.seq \in Nat /\ f.time \in Nat /\ c.seq <= f.seq /\ f.seq < EndSeq(c) /\ f.time <= c.times[Len(c.times)]
      BY <2>5, <3>1, <3>3, FrameCases
    <3>5. /\ by = "seq" => f.seq >= x
          /\ by = "time" => f.time > x
      BY <1>6, <1>23, <2>5 DEF SoughtBy
    <3>6. CASE i < m
      <4>1. IsBlock(bs, i, c)
        <5>1. i \in 1..Len(bs) /\ Holds(bs[i].off, c)
          BY <1>17, <3>1 DEF Found
        <5>2. bs[i].off \in Nat
          BY <1>17, <5>1, FoundAt
        <5> QED BY <1>1, <3>3, <5>1, <5>2, HoldsFirst DEF IsBlock
      <4>2. Earlier(c, b)
        BY <1>1, <1>17, <1>27, <2>1, <3>6, <4>1, BlocksInOrder
      <4>3. EndSeq(c) <= b.seq /\ c.times[Len(c.times)] <= b.times[1]
        BY <4>2 DEF Earlier
      <4>4. EndSeq(c) \in Nat /\ c.times[Len(c.times)] \in Nat
        BY <3>3, BlockEnds
      <4>5. m # 1
        BY <1>19, <3>6
      <4>6. CASE by = "seq"
        BY <2>3, <2>4, <3>4, <3>5, <4>3, <4>4, <4>5, <4>6
      <4>7. CASE by = "time"
        BY <2>3, <2>4, <3>4, <3>5, <4>3, <4>4, <4>5, <4>7
      <4> QED BY <4>6, <4>7
    <3>7. CASE i = m
      <4>1. m <= k /\ b = c
        BY <1>17, <2>2, <3>1, <3>7
      <4> QED BY <1>19, <2>3, <2>5, <3>4, <3>7, <4>1
    <3> QED BY <1>17, <1>19, <2>5, <3>6, <3>7
  <2>6. Covered(t)
    BY <1>23, <1>27, <2>1, <2>5 DEF Covered
  <2>7. t.cur <= Len(t.blocks) /\ IsBlock(t.blocks, t.cur, t.data) /\ t.idx <= Len(t.data.times)
    BY <1>17, <1>19, <1>23, <1>27, <2>1, <2>3
  <2>8. t.state # "none" /\ t.state # "end" /\ t.state # "failed"
    BY <1>27
  <2> QED BY <1>22, <1>24, <1>25, <2>6, <2>7, <2>8, Zenon DEF ReaderGood
<1> QED BY <1>13, <1>14, <1>15, <1>22, <1>26, <1>27

\* The next frame of the block under way.
NextFrame(r, f) == f = [seq |-> r.data.seq + r.idx, time |-> r.data.times[r.idx + 1]]
FrameTaken(r, f, t) == t = [r EXCEPT !.idx = r.idx + 1, !.out = Append(@, f)]

\* A frame given by Next keeps the reader good.
LEMMA FrameGood ==
  ASSUME Layout, NEW r, ReaderGood(r), r.state = "open", r.cur > 0, r.idx < Len(r.data.times),
         NEW f, NextFrame(r, f), NEW t, FrameTaken(r, f, t)
  PROVE  ReaderGood(t)
<1>1. FileTypes /\ GivenInOrder /\ CellsInOrder
  BY DEF Layout
<1>2. r \in Readers /\ Found(r.blocks, r.known) /\ r.cur <= Len(r.blocks) /\ OutGood(r) /\ Covered(r) /\ AheadGood(r)
  BY DEF ReaderGood
<1>3. /\ r.cur \in Nat /\ r.idx \in Nat /\ r.data \in Blocks /\ r.data.seq \in Nat /\ Len(r.data.times) \in Nat
      /\ r.known \in Nat /\ r.out \in Seq(Frames) /\ Len(r.out) \in Nat
      /\ \A i \in 1..Len(r.out) : r.out[i].seq \in Nat /\ r.out[i].time \in Nat
  BY <1>2, ReaderTypes
<1>4. PICK b : b = r.data
  OBVIOUS
<1>5. IsBlock(r.blocks, r.cur, b) /\ b \in Blocks /\ GoodBlock(b)
      /\ (\E i \in 1..Len(given) : b = given[i]) /\ (r.cur <= r.known => b = given[r.cur])
  <2>1. IsBlock(r.blocks, r.cur, b)
    BY <1>3, <1>4 DEF ReaderGood
  <2> QED BY <1>1, <1>2, <2>1, BlockGiven
<1>6. PICK j : j = r.idx + 1
  OBVIOUS
<1>7. j \in 1..Len(b.times) /\ b.seq + j - 1 = b.seq + r.idx
  <2>1. PICK i : i = r.idx
    OBVIOUS
  <2>2. i \in Nat /\ i < Len(b.times) /\ Len(b.times) \in Nat /\ b.seq \in Nat /\ j = i + 1
    BY <1>3, <1>4, <1>6, <2>1
  <2>3. j \in 1..Len(b.times) /\ b.seq + j - 1 = b.seq + i
    BY <2>2
  <2> QED BY <2>1, <2>3
<1>8. f = [seq |-> b.seq + j - 1, time |-> b.times[j]]
  BY <1>4, <1>6, <1>7 DEF NextFrame
<1>9. f \in FramesOf(b)
  BY <1>5, <1>7, <1>8, FrameIn
<1>10. f \in Frames /\ f.seq = b.seq + r.idx /\ f.seq \in Nat
  <2>1. f \in Frames /\ f.seq \in Nat
    BY <1>5, <1>9, FrameCases
  <2> QED BY <1>7, <1>8, <2>1
<1>11. PICK q : q = Append(r.out, f)
  OBVIOUS
<1>12. /\ q \in Seq(Frames) /\ Len(q) = Len(r.out) + 1 /\ q[Len(r.out) + 1] = f
       /\ \A i \in 1..Len(r.out) : q[i] = r.out[i]
  BY <1>3, <1>10, <1>11
<1>13. t = [r EXCEPT !.idx = j, !.out = q] /\ j \in Nat
  BY <1>3, <1>6, <1>11 DEF FrameTaken
<1>14. t \in Readers /\ t.idx = j /\ t.out = q
  BY <1>2, <1>12, <1>13 DEF Readers
<1>15. /\ t.blocks = r.blocks /\ t.cur = r.cur /\ t.data = r.data /\ t.pf = r.pf /\ t.buf = r.buf
       /\ t.known = r.known /\ t.from = r.from /\ t.state = r.state
  BY <1>2, <1>13 DEF Readers
<1>16. t.data.seq + t.idx = f.seq + 1
  <2>1. PICK i : i = r.idx
    OBVIOUS
  <2>2. i \in Nat /\ b.seq \in Nat /\ j = i + 1 /\ f.seq = b.seq + i /\ t.data.seq = b.seq /\ t.idx = j
    BY <1>3, <1>4, <1>6, <1>10, <1>14, <1>15, <2>1
  <2> QED BY <2>2
<1>17. OutGood(t)
  <2>1. ASSUME NEW i \in 1..Len(t.out) PROVE (i \in 1..Len(r.out) /\ t.out[i] = r.out[i]) \/ (i = Len(r.out) + 1 /\ t.out[i] = f)
    BY <1>3, <1>12, <1>14
  <2>2. ASSUME NEW i \in 1..Len(r.out) PROVE r.out[i].seq < f.seq /\ r.out[i].seq \in Nat
    BY <1>2, <1>3, <1>4, <1>10 DEF OutGood
  <2>3. ASSUME NEW i \in 1..Len(t.out), NEW m \in 1..Len(t.out), i < m PROVE t.out[i].seq < t.out[m].seq
    <3>1. CASE m \in 1..Len(r.out)
      <4>1. i \in 1..Len(r.out) /\ t.out[i] = r.out[i] /\ t.out[m] = r.out[m]
        BY <1>3, <1>12, <1>14, <2>3, <3>1
      <4> QED BY <1>2, <2>3, <3>1, <4>1 DEF OutGood
    <3>2. CASE m = Len(r.out) + 1
      <4>1. i \in 1..Len(r.out) /\ t.out[i] = r.out[i] /\ t.out[m] = f
        BY <1>3, <1>12, <1>14, <2>3, <3>2
      <4> QED BY <2>2, <4>1
    <3> QED BY <2>1, <3>1, <3>2
  <2>4. ASSUME NEW i \in 1..Len(t.out)
        PROVE  (\E k \in 1..Len(given) : t.out[i] \in FramesOf(given[k])) /\ t.out[i].seq < f.seq + 1
    <3>1. CASE i \in 1..Len(r.out) /\ t.out[i] = r.out[i]
      <4>1. \E k \in 1..Len(given) : r.out[i] \in FramesOf(given[k])
        BY <1>2, <3>1 DEF OutGood
      <4>2. r.out[i].seq < f.seq + 1
        BY <1>10, <2>2, <3>1
      <4> QED BY <3>1, <4>1, <4>2
    <3>2. CASE t.out[i] = f
      BY <1>5, <1>9, <1>10, <3>2
    <3> QED BY <2>1, <3>1, <3>2
  <2>5. t.cur # 0
    BY <1>3, <1>15
  <2> QED BY <1>16, <2>3, <2>4, <2>5 DEF OutGood
<1>18. Covered(t)
  <2> SUFFICES ASSUME NEW i \in 1..r.known, NEW g \in FramesOf(given[i]), i <= r.cur, SoughtBy(t, g),
                      i < r.cur \/ g.seq < f.seq + 1
               PROVE  Came(t, g)
    BY <1>15, <1>16 DEF Covered
  <2>1. SoughtBy(r, g)
    BY <1>15 DEF SoughtBy
  <2>2. CASE i < r.cur \/ g.seq < r.data.seq + r.idx
    <3>1. PICK m \in 1..Len(r.out) : r.out[m] = g
      BY <1>2, <2>1, <2>2 DEF Covered, Came
    <3>2. m \in 1..Len(t.out) /\ t.out[m] = g
      BY <1>3, <1>12, <1>14, <3>1
    <3> QED BY <3>2 DEF Came
  <2>3. CASE ~(i < r.cur) /\ ~(g.seq < r.data.seq + r.idx)
    <3>1. i = r.cur /\ b = given[i]
      BY <1>3, <1>5, <2>3
    <3>2. g.seq \in Nat /\ g.seq < f.seq + 1 /\ g.seq >= f.seq
      <4>1. g.seq \in Nat
        BY <1>5, <3>1, FrameCases
      <4> QED BY <1>3, <1>4, <1>10, <2>3, <4>1
    <3>3. g.seq = b.seq + j - 1
      BY <1>7, <1>10, <3>2
    <3>4. g = f
      BY <1>5, <1>7, <1>8, <3>1, <3>3, FrameCases
    <3>5. Len(r.out) + 1 \in 1..Len(t.out) /\ t.out[Len(r.out) + 1] = g
      BY <1>3, <1>12, <1>14, <3>4
    <3> QED BY <3>5 DEF Came
  <2> QED BY <2>2, <2>3
<1>19. AheadGood(t)
  BY <1>2, <1>15 DEF AheadGood
<1>20. t.state # "none" /\ t.state # "end" /\ t.state # "failed"
  BY <1>15
<1>21. Found(t.blocks, t.known) /\ t.cur <= Len(t.blocks) /\ IsBlock(t.blocks, t.cur, t.data)
       /\ t.idx <= Len(t.data.times)
  <2>1. Found(t.blocks, t.known) /\ t.cur <= Len(t.blocks) /\ IsBlock(t.blocks, t.cur, t.data)
    BY <1>2, <1>4, <1>5, <1>15
  <2>2. j <= Len(b.times)
    BY <1>7
  <2> QED BY <1>4, <1>14, <1>15, <2>1, <2>2
<1> QED BY <1>14, <1>17, <1>18, <1>19, <1>20, <1>21, Zenon DEF ReaderGood

\* The next block.
LEMMA NextBlockGood ==
  ASSUME Layout, NEW r, ReaderGood(r), r.state = "open", ~(r.cur > 0 /\ r.idx < Len(r.data.times)),
         r.cur < Len(r.blocks), NEW t, t = LoadBlock(r, r.cur + 1)
  PROVE  ReaderGood(t)
<1>1. FileTypes /\ GivenInOrder /\ CellsInOrder
  BY DEF Layout
<1>2. r \in Readers /\ Found(r.blocks, r.known) /\ r.cur <= Len(r.blocks) /\ OutGood(r) /\ Covered(r) /\ AheadGood(r)
      /\ (r.cur # 0 => IsBlock(r.blocks, r.cur, r.data) /\ r.idx <= Len(r.data.times))
  BY DEF ReaderGood
<1>3. /\ r.cur \in Nat /\ r.idx \in Nat /\ r.data \in Blocks /\ r.data.seq \in Nat /\ Len(r.data.times) \in Nat
      /\ r.known \in Nat /\ r.out \in Seq(Frames) /\ Len(r.out) \in Nat
      /\ \A i \in 1..Len(r.out) : r.out[i].seq \in Nat /\ r.out[i].time \in Nat
  BY <1>2, ReaderTypes
<1>4. PICK n : n = r.cur + 1
  OBVIOUS
<1>5. n \in 1..Len(r.blocks) /\ n \in Nat
  BY <1>2, <1>3, <1>4, FoundAt
<1>6. t = LoadBlock(r, n)
  BY <1>4
<1>7. /\ t \in Readers /\ SameWay(r, t) /\ AheadGood(t)
      /\ \/ t.state = "failed" /\ n > r.known /\ t.cur = r.cur /\ t.idx = r.idx /\ t.data = r.data
         \/ t.state = r.state /\ t.cur = n /\ t.idx = 0 /\ IsBlock(r.blocks, n, t.data)
  BY <1>2, <1>5, <1>6, LoadCases
<1>8. t.blocks = r.blocks /\ t.known = r.known /\ t.from = r.from /\ t.out = r.out
  BY <1>7 DEF SameWay
<1>9. \A f : (SoughtBy(t, f) <=> SoughtBy(r, f)) /\ (Came(t, f) <=> Came(r, f))
  BY <1>8 DEF SoughtBy, Came
<1>10. ASSUME NEW i \in 1..r.known, i <= r.cur, NEW f \in FramesOf(given[i]), SoughtBy(r, f) PROVE Came(r, f)
  BY <1>10, BlockRead
<1>11. CASE t.state = "failed" /\ n > r.known /\ t.cur = r.cur /\ t.idx = r.idx /\ t.data = r.data
  <2>1. ~(kind = "journal" \/ ~failed)
    BY <1>2, <1>3, <1>5, <1>11 DEF Found
  <2>2. AllRead(t)
    <3>1. \A i \in 1..r.known : i <= r.cur
      BY <1>3, <1>4, <1>11
    <3> QED BY <1>8, <1>9, <1>10, <3>1 DEF AllRead
  <2>3. OutGood(t)
    BY <1>2, <1>8, <1>11 DEF OutGood
  <2>4. Found(t.blocks, t.known) /\ t.cur <= Len(t.blocks)
        /\ (t.cur # 0 => IsBlock(t.blocks, t.cur, t.data) /\ t.idx <= Len(t.data.times))
    BY <1>2, <1>8, <1>11
  <2>5. t.state # "none" /\ t.state # "open"
    BY <1>11
  <2> QED BY <1>7, <2>1, <2>2, <2>3, <2>4, <2>5, Zenon DEF ReaderGood
<1>12. CASE t.state = "open" /\ t.cur = n /\ t.idx = 0 /\ IsBlock(r.blocks, n, t.data)
  <2>1. PICK b : b = t.data
    OBVIOUS
  <2>2. b \in Blocks /\ GoodBlock(b) /\ (n <= r.known => b = given[n]) /\ IsBlock(r.blocks, n, b)
    BY <1>1, <1>2, <1>12, <2>1, BlockGiven
  <2>3. b.seq \in Nat /\ Len(b.times) \in Nat /\ b.seq + 0 = b.seq
    BY <2>2, BlockEnds
  <2>4. ASSUME r.cur # 0 PROVE r.data.seq + r.idx <= b.seq
    <3>1. PICK c : c = r.data
      OBVIOUS
    <3>2. IsBlock(r.blocks, r.cur, c) /\ r.idx <= Len(c.times)
      BY <1>2, <2>4, <3>1
    <3>3. r.cur < n
      BY <1>3, <1>4
    <3>4. Earlier(c, b)
      BY <1>1, <1>2, <2>2, <3>2, <3>3, BlocksInOrder
    <3>5. c.seq + Len(c.times) <= b.seq
      BY <3>4 DEF Earlier, EndSeq
    <3> QED BY <1>3, <2>3, <3>1, <3>2, <3>5, SMTT(30)
  <2>5. OutGood(t)
    <3>1. ASSUME NEW i \in 1..Len(t.out)
          PROVE  (\E k \in 1..Len(given) : t.out[i] \in FramesOf(given[k])) /\ t.cur # 0 /\ t.out[i].seq < t.data.seq + t.idx
      <4>1. i \in 1..Len(r.out) /\ t.out[i] = r.out[i] /\ r.out[i].seq \in Nat
        BY <1>3, <1>8
      <4>2. (\E k \in 1..Len(given) : r.out[i] \in FramesOf(given[k])) /\ r.cur # 0 /\ r.out[i].seq < r.data.seq + r.idx
        BY <1>2, <4>1 DEF OutGood
      <4>3. r.out[i].seq < b.seq
        <5>1. PICK p : p = r.data.seq + r.idx
          OBVIOUS
        <5>2. PICK v : v = r.out[i].seq
          OBVIOUS
        <5>3. p \in Nat /\ v \in Nat /\ v < p /\ p <= b.seq
          BY <1>3, <2>4, <4>1, <4>2, <5>1, <5>2
        <5>4. v < b.seq
          BY <2>3, <5>3
        <5> QED BY <5>2, <5>4
      <4>4. t.cur # 0
        BY <1>5, <1>12
      <4> QED BY <1>12, <2>1, <2>3, <4>1, <4>2, <4>3, <4>4
    <3>2. \A i, j \in 1..Len(t.out) : i < j => t.out[i].seq < t.out[j].seq
      BY <1>2, <1>8 DEF OutGood
    <3> QED BY <3>1, <3>2 DEF OutGood
  <2>6. Covered(t)
    <3> SUFFICES ASSUME NEW i \in 1..r.known, NEW f \in FramesOf(given[i]), i <= n, SoughtBy(r, f),
                        i < n \/ f.seq < b.seq
                 PROVE  Came(r, f)
      BY <1>8, <1>9, <1>12, <2>1, <2>3 DEF Covered
    <3>1. CASE i <= r.cur
      BY <1>10, <3>1
    <3>2. CASE i = n
      <4>1. b = given[i] /\ ~(i < n)
        BY <1>3, <1>5, <2>2, <3>2
      <4>2. b.seq <= f.seq /\ f.seq \in Nat
        BY <2>2, <4>1, FrameCases
      <4> QED BY <2>3, <4>1, <4>2
    <3> QED BY <1>3, <1>4, <3>1, <3>2
  <2>7. Found(t.blocks, t.known) /\ t.cur <= Len(t.blocks) /\ IsBlock(t.blocks, t.cur, t.data)
        /\ t.idx <= Len(t.data.times)
    BY <1>2, <1>5, <1>8, <1>12, <2>1, <2>3
  <2>8. t.state # "none" /\ t.state # "end" /\ t.state # "failed"
    BY <1>12
  <2> QED BY <1>7, <2>5, <2>6, <2>7, <2>8, Zenon DEF ReaderGood
<1> QED BY <1>7, <1>11, <1>12

\* The end of the file.
LEMMA EndGood ==
  ASSUME Layout, NEW r, ReaderGood(r), r.state = "open", ~(r.cur > 0 /\ r.idx < Len(r.data.times)),
         ~(r.cur < Len(r.blocks)), NEW t, t = [r EXCEPT !.state = "end"]
  PROVE  ReaderGood(t)
<1>1. r \in Readers /\ Found(r.blocks, r.known) /\ r.cur <= Len(r.blocks) /\ OutGood(r) /\ AheadGood(r)
      /\ (r.cur # 0 => IsBlock(r.blocks, r.cur, r.data) /\ r.idx <= Len(r.data.times))
  BY DEF ReaderGood
<1>2. r.cur \in Nat /\ r.known \in Nat
  BY <1>1, ReaderTypes
<1>3. t \in Readers /\ t.state = "end"
  BY <1>1 DEF Readers
<1>4. /\ t.blocks = r.blocks /\ t.cur = r.cur /\ t.idx = r.idx /\ t.data = r.data /\ t.pf = r.pf /\ t.buf = r.buf
      /\ t.known = r.known /\ t.from = r.from /\ t.out = r.out
  BY <1>1 DEF Readers
<1>5. \A f : (SoughtBy(t, f) <=> SoughtBy(r, f)) /\ (Came(t, f) <=> Came(r, f))
  BY <1>4 DEF SoughtBy, Came
<1>6. \A i \in 1..r.known : i <= r.cur
  BY <1>1, <1>2, FoundAt
<1>7. AllRead(t)
  <2>1. ASSUME NEW i \in 1..r.known, NEW f \in FramesOf(given[i]), SoughtBy(r, f) PROVE Came(r, f)
    BY <1>6, <2>1, BlockRead
  <2> QED BY <1>4, <1>5, <2>1 DEF AllRead
<1>8. OutGood(t)
  BY <1>1, <1>4 DEF OutGood
<1>9. AheadGood(t)
  BY <1>1, <1>4 DEF AheadGood
<1>10. Found(t.blocks, t.known) /\ t.cur <= Len(t.blocks)
       /\ (t.cur # 0 => IsBlock(t.blocks, t.cur, t.data) /\ t.idx <= Len(t.data.times))
  BY <1>1, <1>4
<1>11. t.state # "none" /\ t.state # "open" /\ t.state # "failed"
  BY <1>3
<1> QED BY <1>3, <1>7, <1>8, <1>9, <1>10, <1>11, Zenon DEF ReaderGood

\* A seek is to a number.
LEMMA SeekPlace ==
  ASSUME FileTypes, GivenInOrder
  PROVE  NextSeq \in Nat /\ LastTime \in Nat
<1>1. CASE given = <<>>
  BY <1>1 DEF NextSeq, LastTime
<1>2. CASE given # <<>>
  <2>1. PICK b : b = given[Len(given)]
    OBVIOUS
  <2>2. Len(given) \in 1..Len(given)
    BY <1>2 DEF FileTypes
  <2>3. b \in Blocks /\ GoodBlock(b)
    BY <2>1, <2>2, GivenBlocks
  <2>4. EndSeq(b) \in Nat /\ b.times[Len(b.times)] \in Nat
    BY <2>3, BlockEnds
  <2> QED BY <1>2, <2>1, <2>4 DEF NextSeq, LastTime
<1> QED BY <1>1, <1>2

\* Every step keeps the reader right.
LEMMA ReaderKept ==
  ASSUME Layout, ReaderInv, [JFNext]_jvars
  PROVE  ReaderInv'
<1>1. FileGrows
  BY FileOnlyGrows
<1>2. FileTypes /\ GivenInOrder
  BY DEF Layout
<1>3. ASSUME NEW t, ReaderGood(t), reader' = t PROVE ReaderInv'
  <2>1. ReaderGood(t)'
    BY <1>1, <1>3, ReaderOn
  <2>2. t.state # "none"
    BY <1>3 DEF ReaderGood
  <2> QED BY <1>3, <2>1, <2>2 DEF ReaderInv
<1>4. PICK r : r = reader
  OBVIOUS
<1>5. ASSUME r.state # "none" PROVE ReaderGood(r)
  BY <1>4, <1>5 DEF ReaderInv
<1>6. CASE reader' = reader
  <2>1. CASE r.state = "none"
    BY <1>4, <1>6, <2>1 DEF ReaderInv, NoReader
  <2>2. CASE r.state # "none"
    <3>1. ReaderGood(r) /\ reader' = r
      BY <1>4, <1>5, <1>6, <2>2
    <3> QED BY <1>3, <3>1
  <2> QED BY <2>1, <2>2
<1>7. ASSUME NewReader PROVE ReaderInv'
  <2>1. PICK a \in BOOLEAN : Opened(reader', a)
    BY <1>7 DEF NewReader, Opened
  <2>2. PICK t : t = reader'
    OBVIOUS
  <2>3. Opened(t, a)
    BY <2>1, <2>2
  <2>4. ReaderGood(t)
    BY <2>3, OpenGood
  <2> QED BY <1>3, <2>2, <2>4
<1>8. ASSUME NEW by \in {"seq", "time"}, NEW x \in Nat, Seek(by, x) PROVE ReaderInv'
  <2>1. PICK u : Sent(r, by, x, u)
    BY DEF Sent
  <2>2. r.state = "open" /\ r.blocks # <<>>
    BY <1>4, <1>8 DEF Seek
  <2>3. Landed(u, by, x, reader')
    BY <1>4, <1>8, <2>1 DEF Seek, Sent, Landed
  <2>4. PICK t : t = reader'
    OBVIOUS
  <2>5. Landed(u, by, x, t)
    BY <2>3, <2>4
  <2>6. ReaderGood(r)
    BY <1>5, <2>2
  <2>7. ReaderGood(t)
    BY <2>1, <2>2, <2>5, <2>6, SeekGood
  <2> QED BY <1>3, <2>4, <2>7
<1>9. ASSUME SeekToSeq PROVE ReaderInv'
  <2>1. PICK x \in 1..NextSeq : Seek("seq", x)
    BY <1>9 DEF SeekToSeq
  <2>2. x \in Nat
    BY <1>2, SeekPlace
  <2> QED BY <1>8, <2>1, <2>2
<1>10. ASSUME SeekToTime PROVE ReaderInv'
  <2>1. PICK x \in 0..LastTime : Seek("time", x)
    BY <1>10 DEF SeekToTime
  <2>2. x \in Nat
    BY <1>2, SeekPlace
  <2> QED BY <1>8, <2>1, <2>2
<1>11. ASSUME ReadNext PROVE ReaderInv'
  <2>1. r.state = "open" /\ ReaderGood(r)
    <3>1. r.state = "open"
      BY <1>4, <1>11 DEF ReadNext
    <3> QED BY <1>5, <3>1
  <2>2. PICK t : t = reader'
    OBVIOUS
  <2>3. PICK f : NextFrame(r, f)
    BY DEF NextFrame
  <2>4. \/ r.cur > 0 /\ r.idx < Len(r.data.times) /\ FrameTaken(r, f, t)
        \/ /\ ~(r.cur > 0 /\ r.idx < Len(r.data.times))
           /\ \/ r.cur < Len(r.blocks) /\ t = LoadBlock(r, r.cur + 1)
              \/ ~(r.cur < Len(r.blocks)) /\ t = [r EXCEPT !.state = "end"]
    <3>1. t = IF r.cur > 0 /\ r.idx < Len(r.data.times)
                THEN [r EXCEPT !.idx = r.idx + 1,
                               !.out = Append(@, [seq |-> r.data.seq + r.idx, time |-> r.data.times[r.idx + 1]])]
              ELSE IF r.cur < Len(r.blocks) THEN LoadBlock(r, r.cur + 1)
              ELSE [r EXCEPT !.state = "end"]
      BY <1>4, <1>11, <2>2 DEF ReadNext
    <3>2. CASE r.cur > 0 /\ r.idx < Len(r.data.times)
      BY <2>3, <3>1, <3>2 DEF NextFrame, FrameTaken
    <3>3. CASE ~(r.cur > 0 /\ r.idx < Len(r.data.times)) /\ r.cur < Len(r.blocks)
      BY <3>1, <3>3
    <3>4. CASE ~(r.cur > 0 /\ r.idx < Len(r.data.times)) /\ ~(r.cur < Len(r.blocks))
      BY <3>1, <3>4
    <3> QED BY <3>2, <3>3, <3>4
  <2>5. ReaderGood(t)
    BY <2>1, <2>3, <2>4, FrameGood, NextBlockGood, EndGood
  <2> QED BY <1>3, <2>2, <2>5
<1>12. ASSUME AppendBlock \/ AppendFails \/ CloseFile \/ UNCHANGED jvars PROVE reader' = reader
  BY <1>12, Zenon DEF AppendBlock, AppendFails, CloseFile, jvars
<1> QED BY <1>6, <1>7, <1>9, <1>10, <1>11, <1>12, Zenon DEF JFNext

\* A reader that is right gives the frames asked for, all of them and in order.
LEMMA ReaderInvReads == Layout /\ ReaderInv => ReadComplete
<1> SUFFICES ASSUME Layout, ReaderInv PROVE ReadComplete
  OBVIOUS
<1>1. CASE reader.state = "none"
  <2>1. reader = NoReader
    BY <1>1 DEF ReaderInv
  <2>2. reader.out = <<>> /\ reader.state = "none"
    BY <1>1, <2>1 DEF NoReader
  <2>3. \A i \in DOMAIN reader.out : FALSE
    BY <2>2
  <2> QED BY <2>2, <2>3, Zenon DEF ReadComplete
<1>2. CASE reader.state # "none"
  <2>1. PICK r : r = reader
    OBVIOUS
  <2>2. ReaderGood(r)
    BY <1>2, <2>1 DEF ReaderInv
  <2>3. r \in Readers /\ Found(r.blocks, r.known) /\ OutGood(r)
    BY <2>2 DEF ReaderGood
  <2>4. r.out \in Seq(Frames) /\ r.from.by \in {"none", "seq", "time"}
    BY <2>3, ReaderTypes
  <2>5. DOMAIN r.out = 1..Len(r.out)
    BY <2>4
  <2>6. DOMAIN given = 1..Len(given)
    BY DEF Layout, FileTypes
  <2>7. \A f : Sought(f) => SoughtBy(r, f)
    BY <2>1, <2>4 DEF Sought, SoughtBy
  <2>8. (r.state = "end" \/ (r.state = "failed" /\ r.from.by = "none")) => AllRead(r)
    BY <2>2 DEF ReaderGood
  <2>9. ASSUME r.state = "end" \/ (r.state = "failed" /\ r.from.by = "none"), NEW f \in Readable, Sought(f)
        PROVE  \E i \in DOMAIN r.out : r.out[i] = f
    <3>1. PICK i \in 1..r.known : f \in FramesOf(given[i])
      BY <2>1, <2>9 DEF Readable
    <3>2. Came(r, f)
      BY <2>7, <2>8, <2>9, <3>1 DEF AllRead
    <3> QED BY <2>5, <3>2 DEF Came
  <2>10. \A i, j \in DOMAIN r.out : i < j => r.out[i].seq < r.out[j].seq
    BY <2>3, <2>5 DEF OutGood
  <2>11. \A i \in DOMAIN r.out : \E k \in DOMAIN given : r.out[i] \in FramesOf(given[k])
    BY <2>3, <2>5, <2>6 DEF OutGood
  <2>12. kind = "journal" \/ ~failed => r.state # "failed"
    BY <2>2 DEF ReaderGood
  <2> QED BY <2>1, <2>9, <2>10, <2>11, <2>12 DEF ReadComplete
<1> QED BY <1>1, <1>2

\* journal.Reader gives every frame that was in the file when it was opened, from
\* where it was sent on, in order and once, whether the blocks were found by size,
\* index or scan, read ahead or not, and whatever a writer appends, leaves half
\* written or fails to write meanwhile.
THEOREM JournalIsRead == JFSpec => []ReadComplete
<1>1. JFInit => Layout /\ ReaderInv
  <2>1. JFInit => ReaderInv
    BY DEF JFInit, ReaderInv, NoReader
  <2> QED BY <2>1, FileStarts
<1>2. Layout /\ ReaderInv /\ [JFNext]_jvars => (Layout /\ ReaderInv)'
  BY LayoutKept, ReaderKept
<1> QED BY <1>1, <1>2, ReaderInvReads, PTL DEF JFSpec
-----------------------------------------------------------------------------
(* Journal files: the frames since a time *)

\* Numbers and times do not go back.
FramesInOrder(fs) ==
  \A i, j \in 1..Len(fs) : i < j => fs[i].seq < fs[j].seq /\ fs[i].time <= fs[j].time

Reads == [out : Seq(Frames), ok : BOOLEAN]

\* The frames of the blocks from n up to m, m not among them.
ReadUpTo(s, n, m) ==
  /\ s \in Reads /\ s.ok = TRUE /\ FramesInOrder(s.out)
  /\ \A i \in 1..Len(s.out) : \E k \in n..(m - 1) : s.out[i] \in FramesOf(given[k])
  /\ \A k \in n..(m - 1) : \A f \in FramesOf(given[k]) : \E i \in 1..Len(s.out) : s.out[i] = f

\* A block's frames, in their order.
LEMMA FrameSeqGood ==
  ASSUME NEW b \in Blocks, GoodBlock(b)
  PROVE  /\ FrameSeq(b) \in Seq(Frames) /\ Len(FrameSeq(b)) = Len(b.times) /\ Len(b.times) \in Nat
         /\ \A i \in 1..Len(b.times) : FrameSeq(b)[i] \in FramesOf(b)
         /\ FramesInOrder(FrameSeq(b))
<1>1. /\ b.seq \in Nat /\ Len(b.times) \in Nat \ {0}
      /\ \A i \in 1..Len(b.times) : b.times[i] \in Nat
  BY BlockEnds
<1>2. \A i \in 1..Len(b.times) : FrameSeq(b)[i] = [seq |-> b.seq + i - 1, time |-> b.times[i]]
  BY DEF FrameSeq
<1>3. \A i \in 1..Len(b.times) : FrameSeq(b)[i] \in FramesOf(b)
  BY DEF FramesOf
<1>4. \A i \in 1..Len(b.times) : FrameSeq(b)[i] \in Frames
  BY <1>3, FrameCases
<1>5. FrameSeq(b) \in Seq(Frames) /\ Len(FrameSeq(b)) = Len(b.times)
  <2>1. PICK fs : fs = FrameSeq(b)
    OBVIOUS
  <2>2. PICK l : l = Len(b.times)
    OBVIOUS
  <2>3. DOMAIN fs = 1..l /\ fs = [i \in 1..l |-> fs[i]]
    BY <2>1, <2>2 DEF FrameSeq
  <2>4. l \in Nat /\ \A i \in 1..l : fs[i] \in Frames
    BY <1>1, <1>4, <2>1, <2>2
  <2>5. fs \in Seq(Frames)
    BY <2>3, <2>4
  <2>6. Len(fs) = l
    BY <2>3, <2>4
  <2> QED BY <2>1, <2>2, <2>5, <2>6
<1>6. ASSUME NEW i \in 1..Len(b.times), NEW j \in 1..Len(b.times), i < j
      PROVE  FrameSeq(b)[i].seq < FrameSeq(b)[j].seq /\ FrameSeq(b)[i].time <= FrameSeq(b)[j].time
  <2>1. b.times[i] <= b.times[j]
    BY <1>6 DEF GoodBlock
  <2>2. /\ FrameSeq(b)[i].seq = b.seq + i - 1 /\ FrameSeq(b)[j].seq = b.seq + j - 1
        /\ FrameSeq(b)[i].time = b.times[i] /\ FrameSeq(b)[j].time = b.times[j]
    <3>1. PICK f : f = FrameSeq(b)[i]
      OBVIOUS
    <3>2. PICK g : g = FrameSeq(b)[j]
      OBVIOUS
    <3>3. f = [seq |-> b.seq + i - 1, time |-> b.times[i]]
      BY <1>2, <3>1
    <3>4. g = [seq |-> b.seq + j - 1, time |-> b.times[j]]
      BY <1>2, <3>2
    <3>5. f.seq = b.seq + i - 1 /\ f.time = b.times[i]
      BY <3>3
    <3>6. g.seq = b.seq + j - 1 /\ g.time = b.times[j]
      BY <3>4
    <3> QED BY <3>1, <3>2, <3>5, <3>6
  <2>3. b.seq + i - 1 < b.seq + j - 1
    BY <1>1, <1>6
  <2> QED BY <2>1, <2>2, <2>3
<1> QED BY <1>1, <1>3, <1>5, <1>6 DEF FramesInOrder

\* One more block is read.
LEMMA ReadOneMore ==
  ASSUME Layout, NEW n \in Nat \ {0}, NEW m \in n..stored, NEW s, ReadUpTo(s, n, m),
         NEW t, t = [out |-> s.out \o FrameSeq(given[m]), ok |-> TRUE]
  PROVE  ReadUpTo(t, n, m + 1)
<1>1. FileTypes /\ GivenInOrder
  BY DEF Layout
<1>2. stored \in Nat /\ Len(given) \in Nat /\ stored <= Len(given)
  BY <1>1 DEF FileTypes
<1>3. \A k \in n..m : k \in 1..Len(given) /\ given[k] \in Blocks /\ GoodBlock(given[k])
  <2>1. \A k \in n..m : k \in 1..Len(given)
    BY <1>2
  <2> QED BY <1>1, <2>1, GivenBlocks
<1>4. PICK o : o = s.out
  OBVIOUS
<1>5. PICK b : b = given[m]
  OBVIOUS
<1>6. PICK e : e = FrameSeq(b)
  OBVIOUS
<1>7. b \in Blocks /\ GoodBlock(b) /\ m \in 1..Len(given)
  BY <1>3, <1>5
<1>8. /\ e \in Seq(Frames) /\ Len(e) = Len(b.times) /\ Len(e) \in Nat
      /\ \A i \in 1..Len(e) : e[i] \in FramesOf(b)
      /\ FramesInOrder(e)
  BY <1>6, <1>7, FrameSeqGood
<1>9. /\ o \in Seq(Frames) /\ Len(o) \in Nat /\ FramesInOrder(o)
      /\ \A i \in 1..Len(o) : \E k \in n..(m - 1) : o[i] \in FramesOf(given[k])
      /\ \A k \in n..(m - 1) : \A f \in FramesOf(given[k]) : \E i \in 1..Len(o) : o[i] = f
  BY <1>4 DEF ReadUpTo, Reads
<1>10. PICK p : p = o \o e
  OBVIOUS
<1>11. /\ p \in Seq(Frames) /\ Len(p) = Len(o) + Len(e)
       /\ \A x \in 1..Len(o) : p[x] = o[x]
       /\ \A j \in 1..Len(e) : p[Len(o) + j] = e[j]
  <2>1. o \in Seq(Frames) /\ e \in Seq(Frames)
    BY <1>8, <1>9
  <2> QED BY <1>10, <2>1, Joined
<1>12. t = [out |-> p, ok |-> TRUE] /\ t \in Reads /\ t.out = p /\ t.ok = TRUE
  BY <1>4, <1>5, <1>6, <1>10, <1>11 DEF Reads
<1>13. \A x \in 1..Len(p) : x \in 1..Len(o) \/ \E j \in 1..Len(e) : x = Len(o) + j
  <2> SUFFICES ASSUME NEW x \in 1..Len(p), x \notin 1..Len(o) PROVE \E j \in 1..Len(e) : x = Len(o) + j
    OBVIOUS
  <2>1. x - Len(o) \in 1..Len(e) /\ x = Len(o) + (x - Len(o))
    BY <1>8, <1>9, <1>11
  <2> QED BY <2>1
<1>14. ASSUME NEW x \in 1..Len(o), NEW j \in 1..Len(e) PROVE o[x].seq < e[j].seq /\ o[x].time <= e[j].time
  <2>1. PICK k \in n..(m - 1) : o[x] \in FramesOf(given[k])
    BY <1>9
  <2>2. k \in n..m /\ k < m
    OBVIOUS
  <2>3. PICK c : c = given[k]
    OBVIOUS
  <2>4. c \in Blocks /\ GoodBlock(c) /\ Earlier(c, b)
    BY <1>1, <1>3, <1>5, <1>7, <2>2, <2>3 DEF GivenInOrder
  <2>5. o[x].seq \in Nat /\ o[x].time \in Nat /\ o[x].seq < EndSeq(c) /\ o[x].time <= c.times[Len(c.times)]
    BY <2>1, <2>3, <2>4, FrameCases
  <2>6. e[j].seq \in Nat /\ e[j].time \in Nat /\ b.seq <= e[j].seq /\ b.times[1] <= e[j].time
    BY <1>7, <1>8, FrameCases
  <2>7. /\ EndSeq(c) \in Nat /\ b.seq \in Nat /\ c.times[Len(c.times)] \in Nat /\ b.times[1] \in Nat
    <3>1. Len(c.times) \in 1..Len(c.times) /\ 1 \in 1..Len(b.times)
      BY <1>7, <2>4, BlockEnds
    <3> QED BY <1>7, <2>4, <3>1, BlockEnds
  <2>8. EndSeq(c) <= b.seq /\ c.times[Len(c.times)] <= b.times[1]
    BY <2>4 DEF Earlier
  <2>9. o[x].seq < e[j].seq
    <3>1. PICK u : u = o[x].seq
      OBVIOUS
    <3>2. PICK v : v = e[j].seq
      OBVIOUS
    <3>3. PICK w : w = EndSeq(c)
      OBVIOUS
    <3>4. PICK z : z = b.seq
      OBVIOUS
    <3>5. u \in Nat /\ v \in Nat /\ w \in Nat /\ z \in Nat /\ u < w /\ w <= z /\ z <= v
      BY <2>5, <2>6, <2>7, <2>8, <3>1, <3>2, <3>3, <3>4
    <3>6. u < v
      BY <3>5
    <3> QED BY <3>1, <3>2, <3>6
  <2>10. o[x].time <= e[j].time
    <3>1. PICK u : u = o[x].time
      OBVIOUS
    <3>2. PICK v : v = e[j].time
      OBVIOUS
    <3>3. PICK w : w = c.times[Len(c.times)]
      OBVIOUS
    <3>4. PICK z : z = b.times[1]
      OBVIOUS
    <3>5. u \in Nat /\ v \in Nat /\ w \in Nat /\ z \in Nat /\ u <= w /\ w <= z /\ z <= v
      BY <2>5, <2>6, <2>7, <2>8, <3>1, <3>2, <3>3, <3>4
    <3>6. u <= v
      BY <3>5
    <3> QED BY <3>1, <3>2, <3>6
  <2> QED BY <2>9, <2>10
<1>15. FramesInOrder(p)
  <2> SUFFICES ASSUME NEW x \in 1..Len(p), NEW y \in 1..Len(p), x < y
               PROVE  p[x].seq < p[y].seq /\ p[x].time <= p[y].time
    BY DEF FramesInOrder
  <2>1. CASE x \in 1..Len(o) /\ y \in 1..Len(o)
    BY <1>9, <1>11, <2>1 DEF FramesInOrder
  <2>2. CASE x \in 1..Len(o) /\ \E j \in 1..Len(e) : y = Len(o) + j
    BY <1>11, <1>14, <2>2
  <2>3. CASE \E j \in 1..Len(e) : x = Len(o) + j
    <3>1. PICK i \in 1..Len(e) : x = Len(o) + i
      BY <2>3
    <3>2. y \notin 1..Len(o)
      BY <1>9, <3>1
    <3>3. PICK j \in 1..Len(e) : y = Len(o) + j
      BY <1>13, <3>2
    <3>4. i < j
      BY <1>9, <3>1, <3>3
    <3> QED BY <1>8, <1>11, <3>1, <3>3, <3>4 DEF FramesInOrder
  <2> QED BY <1>13, <2>1, <2>2, <2>3
<1>16. n..((m + 1) - 1) = n..(m - 1) \union {m}
  BY <1>2
<1>17. ASSUME NEW x \in 1..Len(p) PROVE \E k \in n..((m + 1) - 1) : p[x] \in FramesOf(given[k])
  <2>1. CASE x \in 1..Len(o)
    BY <1>9, <1>11, <1>16, <2>1
  <2>2. CASE \E j \in 1..Len(e) : x = Len(o) + j
    <3>1. p[x] \in FramesOf(b)
      BY <1>8, <1>11, <2>2
    <3> QED BY <1>5, <1>16, <3>1
  <2> QED BY <1>13, <2>1, <2>2
<1>18. ASSUME NEW k \in n..((m + 1) - 1), NEW f \in FramesOf(given[k]) PROVE \E i \in 1..Len(p) : p[i] = f
  <2>1. CASE k \in n..(m - 1)
    <3>1. PICK i \in 1..Len(o) : o[i] = f
      BY <1>9, <2>1
    <3>2. i \in 1..Len(p) /\ p[i] = f
      BY <1>8, <1>9, <1>11, <3>1
    <3> QED BY <3>2
  <2>2. CASE k = m
    <3>1. PICK i \in 1..Len(b.times) : f = FrameSeq(b)[i]
      BY <1>5, <2>2 DEF FramesOf
    <3>2. i \in 1..Len(e) /\ e[i] = f
      BY <1>6, <1>8, <3>1
    <3>3. Len(o) + i \in 1..Len(p) /\ p[Len(o) + i] = f
      BY <1>8, <1>9, <1>11, <3>2
    <3> QED BY <3>3
  <2> QED BY <1>16, <2>1, <2>2
<1> QED BY <1>12, <1>15, <1>17, <1>18 DEF ReadUpTo

ReadLoop(r, n) == CHOOSE f : f = [k \in 0..(Len(r.blocks) - n + 1) |->
  IF k = 0 THEN [out |-> <<>>, ok |-> TRUE] ELSE ReadRound(f[k - 1], ReadBlock(r, n + k - 1))]

\* All blocks of the file can be read, from the n-th on, and give their frames.
LEMMA FramesFromGood ==
  ASSUME Layout, NEW r, Found(r.blocks, stored), Len(r.blocks) = stored, NEW n \in 1..stored
  PROVE  ReadUpTo([out |-> FramesFrom(r, n), ok |-> TRUE], n, stored + 1)
<1> DEFINE N == Len(r.blocks) - n + 1
           x == [out |-> <<>>, ok |-> TRUE]
           Round(s, k) == ReadRound(s, ReadBlock(r, n + k - 1))
           F == [k \in 1..N |-> [s \in Reads |-> Round(s, k)]]
           Body(g, k) == IF k = 0 THEN x ELSE Round(g[k - 1], k)
<1>1. FileTypes /\ GivenInOrder /\ CellsInOrder
  BY DEF Layout
<1>2. stored \in Nat /\ Len(given) \in Nat /\ stored <= Len(given) /\ n \in Nat \ {0}
  BY <1>1 DEF FileTypes
<1>3. N \in Nat /\ \A k \in 1..N : n + k - 1 \in n..stored
  BY <1>2
<1>4. N = stored + 1 - n
  BY <1>2
<1>5. x \in Reads
  <2>1. <<>> \in Seq(Frames)
    OBVIOUS
  <2> QED BY <2>1 DEF Reads
<1>6. ASSUME NEW m \in n..stored, NEW s \in Reads
      PROVE  /\ ReadRound(s, ReadBlock(r, m)) \in Reads
             /\ s.ok = TRUE => ReadRound(s, ReadBlock(r, m)) = [out |-> s.out \o FrameSeq(given[m]), ok |-> TRUE]
  <2>1. m \in 1..stored /\ m \in 1..Len(r.blocks) /\ m \in 1..Len(given)
    BY <1>2
  <2>2. PICK b : b = given[m]
    OBVIOUS
  <2>3. b \in Blocks /\ GoodBlock(b)
    BY <1>1, <2>1, <2>2, GivenBlocks
  <2>4. PICK got : got = ReadBlock(r, m)
    OBVIOUS
  <2>5. got.ok = TRUE
    BY <2>1, <2>4, StoredIsRead
  <2>6. got.b = b
    <3>1. IsBlock(r.blocks, m, got.b)
      BY <2>1, <2>4, <2>5, ReadIsBlock
    <3>2. m <= stored
      BY <1>2
    <3> QED BY <1>1, <2>2, <3>1, <3>2, BlockGiven
  <2>7. FrameSeq(b) \in Seq(Frames)
    BY <2>3, FrameSeqGood
  <2>8. s.out \in Seq(Frames) /\ s.ok \in BOOLEAN
    BY DEF Reads
  <2>9. s.out \o FrameSeq(b) \in Seq(Frames)
    BY <2>7, <2>8, Joined
  <2>10. CASE s.ok = TRUE
    <3>1. ReadRound(s, got) = [out |-> s.out \o FrameSeq(b), ok |-> TRUE]
      BY <2>5, <2>6, <2>10 DEF ReadRound
    <3> QED BY <2>2, <2>4, <2>9, <3>1 DEF Reads
  <2>11. CASE s.ok = FALSE
    <3>1. ReadRound(s, got) = [out |-> s.out, ok |-> FALSE]
      BY <2>11 DEF ReadRound
    <3> QED BY <2>4, <2>8, <2>11, <3>1 DEF Reads
  <2> QED BY <2>8, <2>10, <2>11
<1>7. \A k \in 1..N : \A s \in Reads : Round(s, k) \in Reads
  BY <1>3, <1>6
<1>8. ReadLoop(r, n) = CHOOSE f : f = [k \in 0..N |-> Body(f, k)]
  BY DEF ReadLoop
<1>9. FramesFrom(r, n) = ReadLoop(r, n)[N].out
  BY DEF FramesFrom, ReadLoop
<1>10. ASSUME NEW k \in 1..N, NEW s, ReadUpTo(s, n, n + (k - 1)) PROVE ReadUpTo(Round(s, k), n, n + k)
  <2>1. n + (k - 1) = n + k - 1 /\ n + k - 1 \in n..stored /\ (n + k - 1) + 1 = n + k
    BY <1>2, <1>3
  <2>2. s \in Reads /\ s.ok = TRUE
    BY <1>10 DEF ReadUpTo
  <2>3. PICK m : m = n + k - 1
    OBVIOUS
  <2>4. PICK t : t = [out |-> s.out \o FrameSeq(given[m]), ok |-> TRUE]
    OBVIOUS
  <2>5. Round(s, k) = t
    BY <1>6, <2>1, <2>2, <2>3, <2>4
  <2>6. ReadUpTo(s, n, m) /\ m \in n..stored /\ m + 1 = n + k
    BY <1>10, <2>1, <2>3
  <2>7. ReadUpTo(t, n, m + 1)
    BY <1>2, <2>4, <2>6, ReadOneMore
  <2> QED BY <2>5, <2>6, <2>7
<1>11. ReadUpTo(x, n, n)
  <2>1. PICK e : e = <<>>
    OBVIOUS
  <2>2. x.out = e /\ x.ok = TRUE /\ Len(e) = 0
    BY <2>1
  <2>3. \A i \in 1..Len(e) : FALSE
    BY <2>2
  <2>4. \A k \in n..(n - 1) : FALSE
    BY <1>2
  <2> HIDE DEF x
  <2> QED BY <1>5, <2>2, <2>3, <2>4 DEF ReadUpTo, FramesInOrder
<1> HIDE DEF N, x, Round
<1>12. F \in [1..N -> [Reads -> Reads]]
  BY <1>7
<1>13. PICK g : IsRun(g, Reads, F, x, N)
  <2> HIDE DEF F, Body
  <2> QED BY <1>3, <1>5, <1>12, LoopExists
<1>14. g \in [0..N -> Reads] /\ g[0] = x /\ \A k \in 1..N : g[k] = F[k][g[k - 1]]
  BY <1>13 DEF IsRun
<1>15. ASSUME NEW k \in 1..N PROVE g[k] = Round(g[k - 1], k)
  <2>1. k - 1 \in 0..N
    BY <1>3
  <2>2. g[k - 1] \in Reads
    BY <1>14, <2>1
  <2> QED BY <1>14, <2>2
<1>16. \A k \in 0..N : g[k] = Body(g, k)
  BY <1>3, <1>14, <1>15
<1> HIDE DEF Body
<1>17. g = [k \in 0..N |-> Body(g, k)]
  BY <1>14, <1>16
<1> DEFINE L == ReadLoop(r, n)
<1>18. L = [k \in 0..N |-> Body(L, k)]
  BY <1>8, <1>17
<1>19. FramesFrom(r, n) = L[N].out
  BY <1>9
<1> HIDE DEF L
<1>20. \A k \in 0..N : L[k] = Body(L, k)
  BY <1>18
<1>21. L[0] = x /\ \A k \in 1..N : L[k] = Round(L[k - 1], k)
  BY <1>3, <1>20 DEF Body
<1>22. ReadUpTo(L[N], n, n + N)
  <2> DEFINE G == {k \in 0..N : ReadUpTo(L[k], n, n + k)}
  <2>1. 0 \in G
    <3>1. n + 0 = n /\ 0 \in 0..N
      BY <1>2, <1>3
    <3> QED BY <1>11, <1>21, <3>1
  <2>2. ASSUME NEW k \in 1..N, k - 1 \in G PROVE k \in G
    <3>1. ReadUpTo(L[k - 1], n, n + (k - 1)) /\ k \in 0..N
      BY <1>3, <2>2
    <3>2. ReadUpTo(Round(L[k - 1], k), n, n + k)
      BY <1>10, <3>1
    <3> QED BY <1>21, <3>1, <3>2
  <2> HIDE DEF G
  <2>3. 0..N \subseteq G
    BY <1>3, <2>1, <2>2, AllRounds
  <2>4. N \in 0..N
    BY <1>3
  <2> QED BY <2>3, <2>4 DEF G
<1>23. n + N = stored + 1
  BY <1>2, <1>4
<1>24. PICK s : s = L[N]
  OBVIOUS
<1>25. ReadUpTo(s, n, stored + 1) /\ FramesFrom(r, n) = s.out
  BY <1>19, <1>22, <1>23, <1>24
<1>26. s = [out |-> s.out, ok |-> TRUE]
  <2>1. s \in Reads /\ s.ok = TRUE
    BY <1>25 DEF ReadUpTo
  <2> QED BY <2>1 DEF Reads
<1> QED BY <1>25, <1>26

\* The frames of the file that are later than t are among those a reader gives
\* that was sent to t.
LEMMA SinceGood ==
  ASSUME Layout, kind = "journal" \/ ~failed, NEW t \in Nat, NEW fs, fs = FramesSince(t)
  PROVE  /\ fs \in Seq(Frames) /\ Len(fs) \in Nat /\ FramesInOrder(fs)
         /\ \A k \in 1..stored : \A f \in FramesOf(given[k]) :
              f.time > t => \E j \in 1..Len(fs) : fs[j] = f
<1>1. FileTypes /\ GivenInOrder /\ CellsInOrder
  BY DEF Layout
<1>2. PICK bs : bs = BlocksOf
  OBVIOUS
<1>3. Found(bs, stored)
  BY <1>2, BlocksFound
<1>4. Len(bs) = stored /\ bs \in Seq(Infos) /\ stored \in Nat
  BY <1>3 DEF Found
<1>5. PICK r : r = [NoReader EXCEPT !.blocks = bs]
  OBVIOUS
<1>6. r.blocks = bs
  BY <1>5 DEF NoReader
<1>7. fs = IF r.blocks = <<>> THEN <<>> ELSE FramesFrom(r, Search(Keys(r, "time"), Len(r.blocks), t))
  BY <1>2, <1>5 DEF FramesSince
<1>8. CASE bs = <<>>
  <2>1. stored = 0 /\ fs = <<>>
    BY <1>4, <1>6, <1>7, <1>8
  <2>2. fs \in Seq(Frames) /\ Len(fs) = 0
    BY <2>1
  <2>3. (\A k \in 1..stored : FALSE) /\ \A i \in 1..Len(fs) : FALSE
    BY <2>1, <2>2
  <2> QED BY <2>2, <2>3 DEF FramesInOrder
<1>9. CASE bs # <<>>
  <2>1. stored \in Nat \ {0}
    BY <1>4, <1>9
  <2>2. PICK key : key = Keys(r, "time")
    OBVIOUS
  <2>3. PICK n : n = Search(key, stored, t)
    OBVIOUS
  <2>4. n \in 1..stored /\ (n = 1 \/ key[n] <= t)
    BY <2>1, <2>3, SearchFinds
  <2>5. fs = FramesFrom(r, n)
    BY <1>4, <1>6, <1>7, <1>9, <2>2, <2>3
  <2>6. Found(r.blocks, stored) /\ Len(r.blocks) = stored
    BY <1>3, <1>4, <1>6
  <2>7. PICK s : s = [out |-> FramesFrom(r, n), ok |-> TRUE]
    OBVIOUS
  <2>8. ReadUpTo(s, n, stored + 1) /\ s.out = fs
    BY <2>4, <2>5, <2>6, <2>7, FramesFromGood
  <2>9. /\ fs \in Seq(Frames) /\ FramesInOrder(fs)
        /\ \A k \in n..((stored + 1) - 1) : \A f \in FramesOf(given[k]) : \E i \in 1..Len(fs) : fs[i] = f
    BY <2>8 DEF ReadUpTo, Reads
  <2>10. ASSUME NEW k \in 1..stored, NEW f \in FramesOf(given[k]), f.time > t
         PROVE  \E j \in 1..Len(fs) : fs[j] = f
    <3>1. stored <= Len(given) /\ Len(given) \in Nat
      BY <1>1 DEF FileTypes
    <3>2. k \in 1..Len(given) /\ n \in 1..Len(given)
      BY <1>4, <2>4, <3>1
    <3>3. PICK b : b = given[k]
      OBVIOUS
    <3>4. PICK c : c = given[n]
      OBVIOUS
    <3>5. b \in Blocks /\ GoodBlock(b) /\ c \in Blocks /\ GoodBlock(c)
      BY <1>1, <3>2, <3>3, <3>4, GivenBlocks
    <3>6. k >= n
      <4> SUFFICES ASSUME k < n PROVE FALSE
        BY <2>4
      <4>1. Earlier(b, c)
        BY <1>1, <3>2, <3>3, <3>4 DEF GivenInOrder
      <4>2. key[n] <= t
        BY <2>4
      <4>3. key[n] = bs[n].time
        BY <1>4, <1>6, <2>2, <2>4 DEF Keys
      <4>4. bs[n].time = c.times[1]
        <5>1. Holds(bs[n].off, c) /\ bs[n].off \in Nat
          BY <1>3, <1>4, <2>4, <3>4, FoundAt DEF Found
        <5>2. Anchor(Cell(bs[n].off)) /\ Cell(bs[n].off).b = c
          BY <1>1, <3>5, <5>1, HoldsFirst
        <5> QED BY <1>3, <1>4, <2>4, <5>2 DEF Found
      <4>5. f.time \in Nat /\ f.time <= b.times[Len(b.times)]
        BY <3>3, <3>5, FrameCases
      <4>6. b.times[Len(b.times)] <= c.times[1] /\ b.times[Len(b.times)] \in Nat /\ c.times[1] \in Nat
        <5>1. Len(b.times) \in 1..Len(b.times) /\ 1 \in 1..Len(c.times)
          BY <3>5, BlockEnds
        <5> QED BY <3>5, <4>1, <5>1, BlockEnds DEF Earlier
      <4>7. PICK u : u = f.time
        OBVIOUS
      <4>8. PICK v : v = b.times[Len(b.times)]
        OBVIOUS
      <4>9. PICK w : w = c.times[1]
        OBVIOUS
      <4>10. u \in Nat /\ v \in Nat /\ w \in Nat /\ u <= v /\ v <= w /\ w <= t /\ u > t
        BY <2>10, <4>2, <4>3, <4>4, <4>5, <4>6, <4>7, <4>8, <4>9
      <4> QED BY <4>10
    <3>7. k \in n..((stored + 1) - 1)
      BY <1>4, <2>4, <3>6
    <3> QED BY <2>9, <3>7
  <2> QED BY <2>9, <2>10
<1> QED BY <1>8, <1>9
-----------------------------------------------------------------------------
(* Journal files: a history query *)

Asked == [from : Nat, to : Nat, limit : Nat, interval : Nat]
Answers == [out : Seq(Frames), ended : BOOLEAN]

\* The frame is in the window, and has been answered or stands behind one that has.
Within(f, q) == q.from < f.time /\ f.time <= q.to
Answered(out, f, q) ==
  \/ \E i \in 1..Len(out) : out[i] = f
  \/ q.interval > 0 /\ \E i \in 1..Len(out) : out[i].time \div q.interval = f.time \div q.interval

\* What holds of the answer after i of the frames fs.
AnswerGood(st, fs, i, q) ==
  /\ st \in Answers /\ Len(st.out) <= q.limit
  /\ \A k \in 1..Len(st.out) : /\ q.from <= st.out[k].time /\ st.out[k].time <= q.to
                               /\ \E j \in 1..i : st.out[k] = fs[j]
  /\ \A k, l \in 1..Len(st.out) : k < l => st.out[k].seq < st.out[l].seq
  /\ st.ended => Len(st.out) = q.limit \/ \E j \in 1..i : fs[j].time > q.to
  /\ \A j \in 1..i : Within(fs[j], q) => Len(st.out) = q.limit \/ Answered(st.out, fs[j], q)

\* The fields of an answer.
LEMMA AnswerTypes ==
  ASSUME NEW st \in Answers
  PROVE  st.out \in Seq(Frames) /\ Len(st.out) \in Nat /\ st.ended \in BOOLEAN
BY DEF Answers

\* A round ends the answer, leaves it or adds the frame to it.
LEMMA QueryCases ==
  ASSUME NEW q \in Asked, NEW st \in Answers, NEW f \in Frames, NEW u, u = QueryRound(st, f, q)
  PROVE  /\ u \in Answers
         /\ \/ (st.ended \/ Len(st.out) >= q.limit \/ f.time > q.to) /\ u.out = st.out
            \/ /\ ~(st.ended \/ Len(st.out) >= q.limit \/ f.time > q.to) /\ u = st
               /\ f.time < q.from \/ SameBucket(st.out, f, q)
            \/ /\ ~(st.ended \/ Len(st.out) >= q.limit \/ f.time > q.to) /\ u.ended = st.ended
               /\ ~(f.time < q.from) /\ u.out = Append(st.out, f)
<1>1. st.out \in Seq(Frames) /\ st.ended \in BOOLEAN
  BY AnswerTypes
<1>2. CASE st.ended \/ Len(st.out) >= q.limit \/ Past(f, q)
  <2>1. u = [st EXCEPT !.ended = TRUE]
    BY <1>2 DEF QueryRound
  <2>2. u \in Answers /\ u.out = st.out
    BY <2>1 DEF Answers
  <2> QED BY <1>2, <2>2 DEF Past
<1>3. CASE ~(st.ended \/ Len(st.out) >= q.limit \/ Past(f, q)) /\ (f.time < q.from \/ SameBucket(st.out, f, q))
  <2>1. u = st
    BY <1>3 DEF QueryRound
  <2> QED BY <1>3, <2>1 DEF Past
<1>4. CASE ~(st.ended \/ Len(st.out) >= q.limit \/ Past(f, q)) /\ ~(f.time < q.from \/ SameBucket(st.out, f, q))
  <2>1. u = [st EXCEPT !.out = Append(st.out, f)]
    BY <1>4 DEF QueryRound
  <2>2. Append(st.out, f) \in Seq(Frames)
    BY <1>1
  <2>3. u \in Answers /\ u.out = Append(st.out, f) /\ u.ended = st.ended
    BY <2>1, <2>2 DEF Answers
  <2> QED BY <1>4, <2>3 DEF Past
<1> QED BY <1>2, <1>3, <1>4

\* An answer with one frame more still answers what it did.
LEMMA AnsweredOn ==
  ASSUME NEW o \in Seq(Frames), NEW p \in Seq(Frames), Len(o) <= Len(p), \A k \in 1..Len(o) : p[k] = o[k],
         NEW g, NEW q, Answered(o, g, q)
  PROVE  Answered(p, g, q)
<1>1. Len(o) \in Nat /\ Len(p) \in Nat
  OBVIOUS
<1>2. \A k \in 1..Len(o) : k \in 1..Len(p)
  BY <1>1
<1>3. CASE \E i \in 1..Len(o) : o[i] = g
  BY <1>2, <1>3, Zenon DEF Answered
<1>4. CASE q.interval > 0 /\ \E i \in 1..Len(o) : o[i].time \div q.interval = g.time \div q.interval
  <2>1. PICK i \in 1..Len(o) : o[i].time \div q.interval = g.time \div q.interval
    BY <1>4, Zenon
  <2>2. i \in 1..Len(p) /\ p[i] = o[i]
    BY <1>2
  <2>3. p[i].time \div q.interval = g.time \div q.interval
    BY <2>1, <2>2, Zenon
  <2> QED BY <1>4, <2>2, <2>3, Zenon DEF Answered
<1> QED BY <1>3, <1>4, Zenon DEF Answered

\* The next frame.
LEMMA AnswerGoes ==
  ASSUME NEW q \in Asked, NEW fs \in Seq(Frames), FramesInOrder(fs), NEW i \in 1..Len(fs),
         NEW st, AnswerGood(st, fs, i - 1, q), NEW u, u = QueryRound(st, fs[i], q)
  PROVE  AnswerGood(u, fs, i, q)
<1>1. /\ q.from \in Nat /\ q.to \in Nat /\ q.limit \in Nat /\ q.interval \in Nat
  BY DEF Asked
<1>2. Len(fs) \in Nat /\ i \in Nat /\ \A j \in 1..Len(fs) : fs[j] \in Frames
  OBVIOUS
<1>3. \A g \in Frames : g.seq \in Nat /\ g.time \in Nat
  BY DEF Frames
<1>4. /\ st \in Answers /\ Len(st.out) <= q.limit
      /\ \A k \in 1..Len(st.out) : /\ q.from <= st.out[k].time /\ st.out[k].time <= q.to
                                   /\ \E j \in 1..(i - 1) : st.out[k] = fs[j]
      /\ \A k, l \in 1..Len(st.out) : k < l => st.out[k].seq < st.out[l].seq
      /\ st.ended => Len(st.out) = q.limit \/ \E j \in 1..(i - 1) : fs[j].time > q.to
      /\ \A j \in 1..(i - 1) : Within(fs[j], q) => Len(st.out) = q.limit \/ Answered(st.out, fs[j], q)
  BY DEF AnswerGood
<1>5. PICK f : f = fs[i]
  OBVIOUS
<1>6. f \in Frames /\ f.seq \in Nat /\ f.time \in Nat
  BY <1>2, <1>3, <1>5
<1>7. PICK o : o = st.out
  OBVIOUS
<1>8. o \in Seq(Frames) /\ Len(o) \in Nat /\ st.ended \in BOOLEAN
  BY <1>4, <1>7, AnswerTypes
<1>9. u = QueryRound(st, f, q)
  BY <1>5
<1>10. \A j \in 1..(i - 1) : j \in 1..i /\ j \in 1..Len(fs) /\ j < i
  BY <1>2
<1>11. \A j \in 1..i : j = i \/ j \in 1..(i - 1)
  BY <1>2
<1>12. i \in 1..i
  BY <1>2
<1>13. u \in Answers
  BY <1>4, <1>6, <1>9, QueryCases
<1>14. CASE (st.ended \/ Len(o) >= q.limit \/ f.time > q.to) /\ u.out = o
  <2>1. Len(o) = q.limit \/ \E j \in 1..i : fs[j].time > q.to
    <3>1. CASE st.ended
      BY <1>4, <1>7, <1>10, <3>1
    <3>2. CASE Len(o) >= q.limit
      BY <1>1, <1>4, <1>7, <1>8, <3>2
    <3>3. CASE f.time > q.to
      BY <1>5, <1>12, <3>3
    <3> QED BY <1>14, <3>1, <3>2, <3>3
  <2>2. ASSUME Within(f, q) PROVE Len(o) = q.limit
    <3>1. SUFFICES ASSUME NEW j \in 1..i, fs[j].time > q.to PROVE FALSE
      BY <2>1
    <3>2. fs[j].time \in Nat /\ fs[j].time <= f.time
      <4>1. CASE j = i
        BY <1>5, <1>6, <4>1
      <4>2. CASE j \in 1..(i - 1)
        <5>1. j \in 1..Len(fs) /\ j < i
          BY <1>10, <4>2
        <5> QED BY <1>2, <1>3, <1>5, <5>1 DEF FramesInOrder
      <4> QED BY <1>11, <4>1, <4>2
    <3>3. f.time <= q.to
      BY <2>2 DEF Within
    <3> QED BY <1>1, <1>6, <3>1, <3>2, <3>3
  <2>3. ASSUME NEW j \in 1..i, Within(fs[j], q) PROVE Len(o) = q.limit \/ Answered(o, fs[j], q)
    <3>1. CASE j = i
      BY <1>5, <2>2, <2>3, <3>1
    <3>2. CASE j \in 1..(i - 1)
      BY <1>4, <1>7, <2>3, <3>2, Zenon
    <3> QED BY <1>11, <3>1, <3>2
  <2>4. \A k \in 1..Len(o) : q.from <= o[k].time /\ o[k].time <= q.to /\ \E j \in 1..i : o[k] = fs[j]
    BY <1>4, <1>7, <1>10
  <2>5. \A k, l \in 1..Len(o) : k < l => o[k].seq < o[l].seq
    BY <1>4, <1>7, Zenon
  <2>6. Len(o) <= q.limit
    BY <1>4, <1>7
  <2> QED BY <1>13, <1>14, <2>1, <2>3, <2>4, <2>5, <2>6, Zenon DEF AnswerGood
<1>15. CASE /\ ~(st.ended \/ Len(o) >= q.limit \/ f.time > q.to) /\ u = st
            /\ f.time < q.from \/ SameBucket(o, f, q)
  <2>1. ASSUME NEW j \in 1..i, Within(fs[j], q) PROVE Len(o) = q.limit \/ Answered(o, fs[j], q)
    <3>1. CASE j = i
      <4>1. q.from < f.time
        BY <1>5, <2>1, <3>1 DEF Within
      <4>2. ~(f.time < q.from)
        BY <1>1, <1>6, <4>1
      <4>3. SameBucket(o, f, q)
        BY <1>15, <4>2, Zenon
      <4>4. q.interval > 0 /\ o # <<>> /\ o[Len(o)].time \div q.interval = f.time \div q.interval
        BY <4>3, Zenon DEF SameBucket
      <4>5. Len(o) \in 1..Len(o)
        BY <1>8, <4>4
      <4> QED BY <1>5, <3>1, <4>4, <4>5, Zenon DEF Answered
    <3>2. CASE j \in 1..(i - 1)
      BY <1>4, <1>7, <2>1, <3>2, Zenon
    <3> QED BY <1>11, <3>1, <3>2
  <2>2. \A k \in 1..Len(o) : q.from <= o[k].time /\ o[k].time <= q.to /\ \E j \in 1..i : o[k] = fs[j]
    BY <1>4, <1>7, <1>10
  <2>3. u.out = o /\ (u.ended <=> st.ended) /\ ~st.ended
    BY <1>7, <1>15
  <2>4. \A k, l \in 1..Len(o) : k < l => o[k].seq < o[l].seq
    BY <1>4, <1>7, Zenon
  <2>5. Len(o) <= q.limit
    BY <1>4, <1>7
  <2> QED BY <1>13, <2>1, <2>2, <2>3, <2>4, <2>5, Zenon DEF AnswerGood
<1>16. CASE /\ ~(st.ended \/ Len(o) >= q.limit \/ f.time > q.to) /\ u.ended = st.ended
            /\ ~(f.time < q.from) /\ u.out = Append(o, f)
  <2>1. PICK p : p = Append(o, f)
    OBVIOUS
  <2>2. /\ p \in Seq(Frames) /\ Len(p) = Len(o) + 1 /\ p[Len(p)] = f
        /\ \A k \in 1..Len(o) : p[k] = o[k]
    BY <1>6, <1>8, <2>1
  <2>3. u.out = p /\ ~st.ended /\ (u.ended <=> st.ended)
    BY <1>16, <2>1
  <2>4. Len(p) <= q.limit /\ Len(p) \in Nat
    BY <1>1, <1>8, <1>16, <2>2
  <2>5. \A k \in 1..Len(p) : k \in 1..Len(o) \/ k = Len(p)
    BY <1>8, <2>2
  <2>6. Len(p) \in 1..Len(p) /\ Len(o) <= Len(p)
    BY <1>8, <2>2
  <2>7. ASSUME NEW k \in 1..Len(p)
        PROVE  q.from <= p[k].time /\ p[k].time <= q.to /\ \E j \in 1..i : p[k] = fs[j]
    <3>1. CASE k \in 1..Len(o)
      BY <1>4, <1>7, <1>10, <2>2, <3>1
    <3>2. CASE k = Len(p)
      <4>1. p[k] = f
        BY <2>2, <3>2
      <4>2. q.from <= f.time /\ f.time <= q.to
        BY <1>1, <1>6, <1>16, SMTT(30)
      <4> QED BY <1>5, <1>12, <4>1, <4>2
    <3> QED BY <2>5, <3>1, <3>2
  <2>8. ASSUME NEW k \in 1..Len(p), NEW l \in 1..Len(p), k < l PROVE p[k].seq < p[l].seq
    <3>1. k \in 1..Len(o)
      BY <1>8, <2>2, <2>8
    <3>2. CASE l \in 1..Len(o)
      BY <1>4, <1>7, <2>2, <2>8, <3>1, <3>2
    <3>3. CASE l = Len(p)
      <4>1. PICK j \in 1..(i - 1) : o[k] = fs[j]
        BY <1>4, <1>7, <3>1
      <4>2. j \in 1..Len(fs) /\ j < i
        BY <1>10
      <4>3. fs[j].seq < fs[i].seq
        BY <4>2 DEF FramesInOrder
      <4> QED BY <1>5, <2>2, <3>1, <3>3, <4>1, <4>3
    <3> QED BY <2>5, <3>2, <3>3
  <2>9. ASSUME NEW j \in 1..i, Within(fs[j], q) PROVE Len(p) = q.limit \/ Answered(p, fs[j], q)
    <3>1. CASE j = i
      BY <1>5, <2>2, <2>6, <3>1, Zenon DEF Answered
    <3>2. CASE j \in 1..(i - 1)
      <4>1. Len(o) = q.limit \/ Answered(o, fs[j], q)
        BY <1>4, <1>7, <2>9, <3>2, Zenon
      <4>2. Len(o) # q.limit
        BY <1>1, <1>8, <1>16
      <4> QED BY <1>8, <2>2, <2>6, <4>1, <4>2, AnsweredOn
    <3> QED BY <1>11, <3>1, <3>2
  <2> QED BY <1>13, <2>3, <2>4, <2>7, <2>8, <2>9, Zenon DEF AnswerGood
<1>17. \/ (st.ended \/ Len(o) >= q.limit \/ f.time > q.to) /\ u.out = o
       \/ /\ ~(st.ended \/ Len(o) >= q.limit \/ f.time > q.to) /\ u = st
          /\ f.time < q.from \/ SameBucket(o, f, q)
       \/ /\ ~(st.ended \/ Len(o) >= q.limit \/ f.time > q.to) /\ u.ended = st.ended
          /\ ~(f.time < q.from) /\ u.out = Append(o, f)
  <2>1. st \in Answers
    BY <1>4
  <2>2. \/ (st.ended \/ Len(st.out) >= q.limit \/ f.time > q.to) /\ u.out = st.out
        \/ /\ ~(st.ended \/ Len(st.out) >= q.limit \/ f.time > q.to) /\ u = st
           /\ f.time < q.from \/ SameBucket(st.out, f, q)
        \/ /\ ~(st.ended \/ Len(st.out) >= q.limit \/ f.time > q.to) /\ u.ended = st.ended
           /\ ~(f.time < q.from) /\ u.out = Append(st.out, f)
    BY <1>6, <1>9, <2>1, QueryCases
  <2> QED BY <1>7, <2>2, Zenon
<1> QED BY <1>14, <1>15, <1>16, <1>17, Zenon

QueryLoop(fs, q) == CHOOSE f : f = [i \in 0..Len(fs) |->
  IF i = 0 THEN [out |-> <<>>, ended |-> FALSE] ELSE QueryRound(f[i - 1], fs[i], q)]

\* After all frames.
LEMMA QueryGood ==
  ASSUME NEW q \in Asked, NEW fs \in Seq(Frames), FramesInOrder(fs), fs = FramesSince(q.from)
  PROVE  \E st : AnswerGood(st, fs, Len(fs), q) /\ QueryOneFile(q) = st.out
<1> DEFINE N == Len(fs)
           x == [out |-> <<>>, ended |-> FALSE]
           F == [i \in 1..N |-> [s \in Answers |-> QueryRound(s, fs[i], q)]]
           Body(g, i) == IF i = 0 THEN x ELSE QueryRound(g[i - 1], fs[i], q)
<1>1. N \in Nat /\ \A i \in 1..N : fs[i] \in Frames
  OBVIOUS
<1>2. PICK e : e = <<>>
  OBVIOUS
<1>3. x.out = e /\ x.ended = FALSE /\ Len(e) = 0 /\ e \in Seq(Frames)
  BY <1>2
<1>4. x \in Answers
  BY <1>2, <1>3 DEF Answers
<1>5. \A i \in 1..N : \A s \in Answers : QueryRound(s, fs[i], q) \in Answers
  BY <1>1, QueryCases
<1>6. QueryLoop(fs, q) = CHOOSE f : f = [i \in 0..N |-> Body(f, i)]
  BY DEF QueryLoop
<1>7. QueryOneFile(q) = QueryLoop(fs, q)[N].out
  BY DEF QueryOneFile, QueryLoop
<1> HIDE DEF N, x
<1>8. AnswerGood(x, fs, 0, q)
  <2>1. \A i \in 1..Len(e) : FALSE
    BY <1>3
  <2>2. \A i \in 1..0 : FALSE
    OBVIOUS
  <2>3. Len(e) <= q.limit
    BY <1>3 DEF Asked
  <2> QED BY <1>3, <1>4, <2>1, <2>2, <2>3, Zenon DEF AnswerGood
<1>9. F \in [1..N -> [Answers -> Answers]]
  BY <1>5
<1>10. PICK g : IsRun(g, Answers, F, x, N)
  <2> HIDE DEF F, Body
  <2> QED BY <1>1, <1>4, <1>9, LoopExists
<1>11. g \in [0..N -> Answers] /\ g[0] = x /\ \A i \in 1..N : g[i] = F[i][g[i - 1]]
  BY <1>10 DEF IsRun
<1>12. ASSUME NEW i \in 1..N PROVE g[i] = QueryRound(g[i - 1], fs[i], q)
  <2>1. i - 1 \in 0..N
    BY <1>1
  <2>2. g[i - 1] \in Answers
    BY <1>11, <2>1
  <2> QED BY <1>11, <2>2
<1>13. \A i \in 0..N : g[i] = Body(g, i)
  BY <1>1, <1>11, <1>12
<1> HIDE DEF Body
<1>14. g = [i \in 0..N |-> Body(g, i)]
  BY <1>11, <1>13
<1> DEFINE L == QueryLoop(fs, q)
<1>15. L = [i \in 0..N |-> Body(L, i)]
  BY <1>6, <1>14
<1>16. QueryOneFile(q) = L[N].out
  BY <1>7
<1> HIDE DEF L
<1>17. \A i \in 0..N : L[i] = Body(L, i)
  BY <1>15
<1>18. L[0] = x /\ \A i \in 1..N : L[i] = QueryRound(L[i - 1], fs[i], q)
  BY <1>1, <1>17 DEF Body
<1>19. AnswerGood(L[N], fs, N, q)
  <2> DEFINE G == {i \in 0..N : AnswerGood(L[i], fs, i, q)}
  <2>1. 0 \in G
    BY <1>1, <1>8, <1>18
  <2>2. ASSUME NEW i \in 1..N, i - 1 \in G PROVE i \in G
    <3>1. AnswerGood(L[i - 1], fs, i - 1, q) /\ i \in 0..N
      BY <1>1, <2>2
    <3>2. i \in 1..Len(fs)
      BY DEF N
    <3>3. AnswerGood(QueryRound(L[i - 1], fs[i], q), fs, i, q)
      BY <3>1, <3>2, AnswerGoes
    <3> QED BY <1>18, <3>1, <3>3
  <2> HIDE DEF G
  <2>3. 0..N \subseteq G
    BY <1>1, <2>1, <2>2, AllRounds
  <2>4. N \in 0..N
    BY <1>1
  <2> QED BY <2>3, <2>4 DEF G
<1> QED BY <1>16, <1>19 DEF N

\* A file with the layout answers a history query exactly.
LEMMA LayoutAnswers == Layout => HistoryExact
<1> SUFFICES ASSUME Layout, kind = "journal" \/ ~failed, NEW q \in Queries, NEW out, out = QueryOneFile(q)
             PROVE  /\ \A i \in DOMAIN out : q.from <= out[i].time /\ out[i].time <= q.to
                    /\ \A i, j \in DOMAIN out : i < j => out[i].seq < out[j].seq
                    /\ \A i \in DOMAIN out : \E k \in DOMAIN Replay(q.from) : Replay(q.from)[k] = out[i]
                    /\ Len(out) <= q.limit
                    /\ \A f \in InWindow(q) :
                         \/ Len(out) = q.limit
                         \/ \E i \in DOMAIN out : out[i] = f
                         \/ /\ q.interval > 0
                            /\ \E i \in DOMAIN out : out[i].time \div q.interval = f.time \div q.interval
  BY Zenon DEF HistoryExact
<1>1. q \in Asked
  <2>1. LastTime \in Nat
    BY SeekPlace DEF Layout
  <2> QED BY <2>1 DEF Queries, Asked
<1>2. PICK fs : fs = FramesSince(q.from)
  OBVIOUS
<1>3. q.from \in Nat
  BY <1>1 DEF Asked
<1>4. /\ fs \in Seq(Frames) /\ Len(fs) \in Nat /\ FramesInOrder(fs)
      /\ \A k \in 1..stored : \A f \in FramesOf(given[k]) :
           f.time > q.from => \E j \in 1..Len(fs) : fs[j] = f
  <2>1. PICK t : t = q.from
    OBVIOUS
  <2>2. t \in Nat /\ fs = FramesSince(t)
    BY <1>2, <1>3, <2>1
  <2>3. /\ fs \in Seq(Frames) /\ Len(fs) \in Nat /\ FramesInOrder(fs)
        /\ \A k \in 1..stored : \A f \in FramesOf(given[k]) :
             f.time > t => \E j \in 1..Len(fs) : fs[j] = f
    BY <2>2, SinceGood, ZenonT(90)
  <2> QED BY <2>1, <2>3
<1>5. PICK st : AnswerGood(st, fs, Len(fs), q) /\ out = st.out
  BY <1>1, <1>2, <1>4, QueryGood
<1>6. st \in Answers
  BY <1>5 DEF AnswerGood
<1>7. out \in Seq(Frames) /\ DOMAIN out = 1..Len(out)
  BY <1>5, <1>6, AnswerTypes
<1>8. Replay(q.from) = fs /\ DOMAIN fs = 1..Len(fs)
  BY <1>2, <1>4 DEF Replay
<1>9. \A i \in 1..Len(out) : q.from <= out[i].time /\ out[i].time <= q.to /\ \E k \in 1..Len(fs) : fs[k] = out[i]
  BY <1>5, Zenon DEF AnswerGood
<1>10. Len(out) <= q.limit /\ \A k, l \in 1..Len(out) : k < l => out[k].seq < out[l].seq
  BY <1>5, Zenon DEF AnswerGood
<1>11. ASSUME NEW f \in InWindow(q) PROVE Len(out) = q.limit \/ Answered(out, f, q)
  <2>1. PICK k \in 1..stored : f \in FramesOf(given[k])
    BY DEF InWindow
  <2>2. q.from < f.time /\ f.time <= q.to
    BY DEF InWindow
  <2>3. k \in 1..Len(given)
    BY DEF Layout, FileTypes
  <2>4. given[k] \in Blocks /\ GoodBlock(given[k])
    BY <2>3, GivenBlocks DEF Layout
  <2>5. f.time \in Nat
    BY <2>1, <2>4, FrameCases
  <2>6. f.time > q.from
    BY <1>3, <2>2, <2>5
  <2>7. PICK j \in 1..Len(fs) : fs[j] = f
    BY <1>4, <2>1, <2>6
  <2>8. Within(fs[j], q)
    BY <2>2, <2>7 DEF Within
  <2> QED BY <1>5, <2>7, <2>8, Zenon DEF AnswerGood
<1> QED BY <1>7, <1>8, <1>9, <1>10, <1>11, Zenon DEF Answered

\* GET /history answers with every frame of the window that is in the file, or one
\* of every bucket, up to the limit, with none outside the window, in order, and
\* with none a replay from the same time does not give; whatever the crash or the
\* failed write that ended the file left behind.
THEOREM HistoryIsExact == JFSpec => []HistoryExact
<1>1. JFInit => Layout
  BY FileStarts
<1>2. Layout /\ [JFNext]_jvars => Layout'
  BY LayoutKept
<1> QED BY <1>1, <1>2, LayoutAnswers, PTL DEF JFSpec
=============================================================================
