------------------------- MODULE ReplicationProofs -------------------------
(***************************************************************************)
(* The hole tracker (replication.go) is a set of missing numbers, for      *)
(* ranges of any size and calls in any order: the refinement, and what its *)
(* queries answer.  Then proofs about Replication, for any number of       *)
(* frames, connections and crashes, any block length and any number of     *)
(* messages in flight.                                                     *)
(***************************************************************************)
EXTENDS HoleTracker, Replication, HoleRangesProofs, FiniteSetTheorems
-----------------------------------------------------------------------------
(* The hole tracker *)

\* Every call keeps the slice tidy.
LEMMA TidyInductive ==
  ASSUME MaxEnd \in Nat, Tidy(holes), [HNext]_hvars
  PROVE  Tidy(holes')
<1>1. CASE \E s, e \in 0..MaxEnd : HAdd(s, e) \/ HFill(s, e)
  <2>1. PICK s \in 0..MaxEnd, e \in 0..MaxEnd : HAdd(s, e) \/ HFill(s, e)
    BY <1>1
  <2>2. s \in Nat /\ e \in Nat
    OBVIOUS
  <2>3. holes' = Add(holes, s, e) \/ holes' = Fill(holes, s, e)
    BY <2>1 DEF HAdd, HFill
  <2> QED
    BY <2>2, <2>3, AddMeaning, FillMeaning
<1>2. CASE UNCHANGED hvars
  BY <1>2 DEF hvars
<1> QED
  BY <1>1, <1>2 DEF HNext
-----------------------------------------------------------------------------
(* Refinement *)

\* HoleTracker.Add adds its range to the set.
LEMMA AddImplements ==
  ASSUME Tidy(holes), NEW s \in Nat, NEW e \in Nat, HAdd(s, e)
  PROVE  call'.op = "add" /\ Abstract!AddRange(s, e)
<1>1. holes' = Add(holes, s, e) /\ call' = [op |-> "add", start |-> s, end |-> e, affected |-> FALSE]
  BY DEF HAdd
<1>2. Tidy(holes') /\ \A x \in Int : Hole(holes', x) <=> Hole(holes, x) \/ (s <= x /\ x < e)
  BY <1>1, AddMeaning
<1>3. /\ \A x : x \in MissingSeqs <=> x \in Int /\ Hole(holes, x)
      /\ \A x : x \in MissingSeqs' <=> x \in Int /\ Hole(holes', x)
  BY <1>2, MissingMeaning DEF MissingSeqs
<1>4. \A x : x \in s..(e - 1) <=> x \in Int /\ s <= x /\ x < e
  OBVIOUS
<1>5. MissingSeqs' = MissingSeqs \union (s..(e - 1))
  BY <1>2, <1>3, <1>4
<1>6. call'.op = "add" /\ call'.start = s /\ call'.end = e
  BY <1>1
<1> QED
  BY <1>5, <1>6 DEF Abstract!AddRange, Abstract!Call

\* HoleTracker.Fill takes its range from the set, and reports whether any of it
\* was missing.
LEMMA FillImplements ==
  ASSUME Tidy(holes), NEW s \in Nat, NEW e \in Nat, HFill(s, e)
  PROVE  call'.op = "fill" /\ Abstract!FillRange(s, e)
<1> DEFINE aff == FillAffects(holes, s, e)
<1>1. holes' = Fill(holes, s, e) /\ call' = [op |-> "fill", start |-> s, end |-> e, affected |-> aff]
  BY DEF HFill
<1>2. Tidy(holes') /\ \A x \in Int : Hole(holes', x) <=> Hole(holes, x) /\ ~(s <= x /\ x < e)
  BY <1>1, FillMeaning
<1>3. /\ \A x : x \in MissingSeqs <=> x \in Int /\ Hole(holes, x)
      /\ \A x : x \in MissingSeqs' <=> x \in Int /\ Hole(holes', x)
  BY <1>2, MissingMeaning DEF MissingSeqs
<1>4. \A x : x \in s..(e - 1) <=> x \in Int /\ s <= x /\ x < e
  OBVIOUS
<1>5. MissingSeqs' = MissingSeqs \ (s..(e - 1))
  BY <1>2, <1>3, <1>4
<1>6. aff <=> (MissingSeqs \cap (s..(e - 1)) # {})
  <2>1. DOMAIN holes = 1..Len(holes)
    BY DEF Tidy
  <2>2. \A i \in 1..Len(holes) : holes[i].start \in Nat /\ holes[i].end \in Nat /\ holes[i].start < holes[i].end
    BY TidyType DEF Tidy
  <2>3. ASSUME aff PROVE \E x \in Int : Hole(holes, x) /\ s <= x /\ x < e
    <3>1. PICK i \in 1..Len(holes) : Overlaps(holes[i], s, e)
      BY <2>1, <2>3 DEF FillAffects
    <3>2. s < e
      BY <2>3 DEF FillAffects
    <3> DEFINE x == Greatest(holes[i].start, s)
    <3>3. x \in Int /\ Inside(holes[i], x) /\ s <= x /\ x < e
      BY <2>2, <3>1, <3>2 DEF Overlaps, Inside, Greatest
    <3> HIDE DEF x
    <3>4. Hole(holes, x)
      BY <3>3 DEF Hole
    <3> QED
      BY <3>3, <3>4
  <2>4. ASSUME NEW x \in Int, Hole(holes, x), s <= x, x < e PROVE aff
    <3>1. PICK i \in 1..Len(holes) : Inside(holes[i], x)
      BY <2>4 DEF Hole
    <3>2. Overlaps(holes[i], s, e)
      BY <2>2, <2>4, <3>1 DEF Overlaps, Inside
    <3>3. s < e
      BY <2>4
    <3> QED
      BY <2>1, <3>2, <3>3 DEF FillAffects
  <2> HIDE DEF aff
  <2>5. aff => MissingSeqs \cap (s..(e - 1)) # {}
    BY <1>3, <1>4, <2>3
  <2>6. MissingSeqs \cap (s..(e - 1)) # {} => aff
    BY <1>3, <1>4, <2>4
  <2> QED
    BY <2>5, <2>6
<1>7. aff \in BOOLEAN
  BY DEF FillAffects
<1>8. call'.op = "fill" /\ call'.start = s /\ call'.end = e /\ call'.affected = aff
  BY <1>1
<1> HIDE DEF aff
<1>9. call'.affected = (MissingSeqs \cap (s..(e - 1)) # {})
  BY <1>6, <1>7, <1>8
<1> QED
  BY <1>5, <1>8, <1>9 DEF Abstract!FillRange, Abstract!Call

\* The tracker is a set of missing numbers: Add and Fill, in any order and with any
\* ranges, change it by exactly their range, and Fill's result is whether it did.
THEOREM TrackerIsASet ==
  ASSUME MaxEnd \in Nat
  PROVE  HSpec => HolesImplementSet
<1>1. HInit => Tidy(holes) /\ Abstract!Init
  <2> SUFFICES ASSUME HInit PROVE Tidy(holes) /\ Abstract!Init
    OBVIOUS
  <2>1. Tidy(holes)
    BY OneRange DEF HInit
  <2>2. MissingSeqs = {}
    BY DEF HInit, MissingSeqs
  <2>3. call.op = "new"
    BY DEF HInit
  <2> QED
    BY <2>1, <2>2, <2>3 DEF Abstract!Init
<1>2. Tidy(holes) /\ [HNext]_hvars => Tidy(holes)'
  BY TidyInductive
<1>3. Tidy(holes) /\ [HNext]_hvars => [Abstract!Next]_<<MissingSeqs, call>>
  <2> SUFFICES ASSUME Tidy(holes), [HNext]_hvars PROVE [Abstract!Next]_<<MissingSeqs, call>>
    OBVIOUS
  <2>1. CASE HNext
    <3>1. PICK s \in 0..MaxEnd, e \in 0..MaxEnd : HAdd(s, e) \/ HFill(s, e)
      BY <2>1 DEF HNext
    <3>2. s \in Nat /\ e \in Nat
      OBVIOUS
    <3>3. \/ call'.op = "add" /\ Abstract!AddRange(s, e)
          \/ call'.op = "fill" /\ Abstract!FillRange(s, e)
      BY <3>1, <3>2, AddImplements, FillImplements
    <3> QED
      BY <3>3 DEF Abstract!Next
  <2>2. CASE UNCHANGED hvars
    BY <2>2 DEF hvars, MissingSeqs
  <2> QED
    BY <2>1, <2>2
<1> QED
  BY <1>1, <1>2, <1>3, PTL DEF HSpec, HolesImplementSet, Abstract!Spec
-----------------------------------------------------------------------------
(* Queries *)

\* The rounds of TotalMissing's loop are what its body says.
LEMMA TotalRounds ==
  ASSUME NEW hs, Tidy(hs)
  PROVE  /\ TotalLoop(hs)[0] = 0
         /\ \A i \in 1..Len(hs) : TotalLoop(hs)[i] = TotalLoop(hs)[i - 1] + (hs[i].end - hs[i].start)
<1> DEFINE n == Len(hs)
           Step(t, i) == t + (hs[i].end - hs[i].start)
           F == [i \in 1..n |-> [t \in Int |-> Step(t, i)]]
           Body(g, i) == IF i = 0 THEN 0 ELSE Step(g[i - 1], i)
<1>1. n \in Nat /\ \A i \in 1..n : hs[i].start \in Nat /\ hs[i].end \in Nat
  <2> HIDE DEF F, Body, Step
  <2>1. n \in Nat
    BY DEF Tidy
  <2>2. \A i \in 1..n : hs[i].start \in Nat /\ hs[i].end \in Nat
    BY TidyType
  <2> QED
    BY <2>1, <2>2
<1> HIDE DEF n
<1>2. F \in [1..n -> [Int -> Int]]
  BY <1>1
<1>3. PICK g : IsRun(g, Int, F, 0, n)
  <2> DEFINE V == Int
             z == 0
  <2>1. z \in V /\ F \in [1..n -> [V -> V]]
    BY <1>2
  <2> HIDE DEF F, Body, V, z
  <2>2. \E g : IsRun(g, V, F, z, n)
    BY <1>1, <2>1, LoopExists
  <2> QED
    BY <2>2 DEF V, z
<1>4. g \in [0..n -> Int] /\ g[0] = 0 /\ \A i \in 1..n : g[i] = F[i][g[i - 1]]
  BY <1>3 DEF IsRun
<1> HIDE DEF Step
<1>5. ASSUME NEW i \in 1..n PROVE g[i] = Step(g[i - 1], i)
  <2>1. i - 1 \in 0..n
    BY <1>1
  <2>2. g[i - 1] \in Int
    BY <1>4, <2>1
  <2> QED
    BY <1>4, <2>2
<1>6. \A i \in 0..n : g[i] = Body(g, i)
  BY <1>1, <1>4, <1>5
<1> HIDE DEF Body
<1>7. g = [i \in 0..n |-> Body(g, i)]
  BY <1>4, <1>6
<1> DEFINE L == TotalLoop(hs)
<1>8. L = CHOOSE f : f = [i \in 0..n |-> Body(f, i)]
  BY DEF TotalLoop, Body, Step, n
<1>9. L = [i \in 0..n |-> Body(L, i)]
  BY <1>7, <1>8
<1> HIDE DEF L
<1>10. \A i \in 0..n : L[i] = Body(L, i)
  BY <1>9
<1>11. L[0] = 0 /\ \A i \in 1..n : L[i] = Step(L[i - 1], i)
  BY <1>1, <1>10 DEF Body
<1> QED
  BY <1>11, Zenon DEF Step, L, n

\* TotalMissing counts every missing number once.
LEMMA TotalCounts ==
  ASSUME Tidy(holes)
  PROVE  TotalMissing(holes) = Cardinality(MissingSeqs)
<1> DEFINE n == Len(holes)
           M(i) == UNION {Seqs(holes[j]) : j \in 1..i}
           L == TotalLoop(holes)
           G == {i \in 0..n : IsFiniteSet(M(i)) /\ L[i] = Cardinality(M(i))}
<1>1. /\ n \in Nat /\ DOMAIN holes = 1..n
      /\ \A i \in 1..n : holes[i].start < holes[i].end
      /\ \A i, j \in 1..n : i < j => holes[i].end < holes[j].start
  BY DEF Tidy
<1>2. \A i \in 1..n : holes[i].start \in Nat /\ holes[i].end \in Nat
  BY TidyType
<1>3. L[0] = 0 /\ \A i \in 1..n : L[i] = L[i - 1] + (holes[i].end - holes[i].start)
  BY TotalRounds
<1> HIDE DEF n, L
<1>4. 0 \in G
  <2>1. M(0) = {}
    OBVIOUS
  <2> QED
    BY <1>1, <1>3, <2>1, FS_EmptySet
<1>5. ASSUME NEW i \in 1..n, i - 1 \in G PROVE i \in G
  <2> DEFINE S == M(i - 1)
             T == Seqs(holes[i])
  <2>1. IsFiniteSet(S) /\ L[i - 1] = Cardinality(S)
    BY <1>5
  <2>2. 1..i = 1..(i - 1) \union {i}
    BY <1>1
  <2>3. M(i) = S \union T
    BY <2>2
  <2>4. S \cap T = {}
    <3>1. \A j \in 1..(i - 1) : j \in 1..n /\ j < i
      BY <1>1
    <3>2. \A j \in 1..(i - 1) : Seqs(holes[j]) \cap T = {}
      BY <1>1, <1>2, <3>1 DEF Seqs
    <3> QED
      BY <3>2
  <2>5. IsFiniteSet(T) /\ Cardinality(T) = holes[i].end - holes[i].start
    <3> DEFINE a == holes[i].start
               b == holes[i].end - 1
    <3>1. a \in Int /\ b \in Int /\ ~(a > b)
      BY <1>1, <1>2
    <3> HIDE DEF a, b
    <3>2. IsFiniteSet(a..b) /\ Cardinality(a..b) = b - a + 1
      BY <3>1, FS_Interval
    <3>3. T = a..b
      BY DEF Seqs, a, b
    <3> QED
      BY <1>2, <3>2, <3>3 DEF a, b
  <2> HIDE DEF S, T
  <2>6. IsFiniteSet(S \union T) /\ Cardinality(S \union T) = Cardinality(S) + Cardinality(T) - 0
    BY <2>1, <2>4, <2>5, FS_Union, FS_EmptySet
  <2>7. Cardinality(S) \in Nat /\ Cardinality(T) \in Nat
    BY <2>1, <2>5, FS_CardinalityType
  <2>8. L[i] = Cardinality(S \union T)
    BY <1>3, <2>1, <2>5, <2>6, <2>7
  <2>9. i \in 0..n
    BY <1>1
  <2> HIDE DEF M
  <2> QED
    BY <2>3, <2>6, <2>8, <2>9
<1> HIDE DEF G
<1>6. 0..n \subseteq G
  BY <1>1, <1>4, <1>5, AllRounds
<1>7. n \in G
  BY <1>1, <1>6
<1>8. L[n] = Cardinality(M(n))
  BY <1>7 DEF G
<1>9. M(n) = MissingSeqs
  BY <1>1 DEF MissingSeqs
<1> QED
  BY <1>8, <1>9 DEF TotalMissing, L, n

\* ContinuousThrough agrees with its definition on the set.
LEMMA ContinuousAgrees ==
  ASSUME Tidy(holes), NEW c \in Nat
  PROVE  IsContinuousThrough(ContinuousThrough(holes, c), c)
<1> DEFINE ct == ContinuousThrough(holes, c)
           later == {m \in MissingSeqs : m >= c}
<1>1. \A x : x \in MissingSeqs <=> x \in Int /\ Hole(holes, x)
  BY MissingMeaning DEF MissingSeqs
<1>2. \/ ct = NoBound /\ \A x \in Int : Hole(holes, x) => x < c
      \/ ct = Greatest(c - 1, 0) /\ Hole(holes, c)
      \/ /\ ct \in Nat /\ ct >= c /\ ~Hole(holes, c) /\ Hole(holes, ct + 1)
         /\ \A x \in Int : Hole(holes, x) /\ x >= c => x > ct
  BY ContinuousMeaning
<1> HIDE DEF ct
<1>3. \A x : x \in later <=> x \in Int /\ Hole(holes, x) /\ x >= c
  BY <1>1
<1> HIDE DEF later
<1>4. IF later = {} THEN ct = NoBound
      ELSE IF c \in later THEN ct = Greatest(c - 1, 0)
      ELSE ct + 1 \in later /\ \A m \in later : m > ct
  <2>1. CASE ct = NoBound /\ \A x \in Int : Hole(holes, x) => x < c
    <3>1. later = {}
      BY <1>3, <2>1
    <3> QED
      BY <2>1, <3>1
  <2>2. CASE ct = Greatest(c - 1, 0) /\ Hole(holes, c)
    <3>1. c \in later
      BY <1>3, <2>2
    <3> QED
      BY <2>2, <3>1
  <2>3. CASE /\ ct \in Nat /\ ct >= c /\ ~Hole(holes, c) /\ Hole(holes, ct + 1)
             /\ \A x \in Int : Hole(holes, x) /\ x >= c => x > ct
    <3>1. ct + 1 \in later /\ c \notin later /\ \A m \in later : m > ct
      BY <1>3, <2>3
    <3> QED
      BY <3>1
  <2> QED
    BY <1>2, <2>1, <2>2, <2>3
<1> QED
  BY <1>4 DEF IsContinuousThrough, ct, later

\* "Holes are non-overlapping, sorted by Start" (replication.go:11), none is empty
\* and no two touch, for ranges of any size and calls in any order; TotalMissing
\* and ContinuousThrough answer for the set of missing numbers.
THEOREM TrackerAnswersRight ==
  ASSUME MaxEnd \in Nat
  PROVE  HSpec => []HolesAgree
<1>1. HInit => Tidy(holes)
  BY OneRange DEF HInit
<1>2. Tidy(holes) /\ [HNext]_hvars => Tidy(holes)'
  BY TidyInductive
<1>3. Tidy(holes) => HolesAgree
  <2> SUFFICES ASSUME Tidy(holes) PROVE HolesAgree
    OBVIOUS
  <2>1. Canonical
    <3>1. Len(holes) \in Nat /\ DOMAIN holes = 1..Len(holes)
      BY DEF Tidy
    <3>2. \A i \in 1..(Len(holes) - 1) : i \in 1..Len(holes) /\ i + 1 \in 1..Len(holes) /\ i < i + 1
      BY <3>1
    <3> QED
      BY <3>1, <3>2 DEF Canonical, Tidy
  <2>2. \A c \in 0..(MaxEnd + 1) : IsContinuousThrough(ContinuousThrough(holes, c), c)
    BY ContinuousAgrees
  <2> QED
    BY <2>1, <2>2, TotalCounts DEF HolesAgree
<1> QED
  BY <1>1, <1>2, <1>3, PTL DEF HSpec
-----------------------------------------------------------------------------
(* Replication *)

Records == [cursor : Nat, holes : Seq(Ranges), boatHead : Nat]
Msgs    == [status : BOOLEAN, seq : Nat]
Blocks  == Nat \ {0}

\* An InstanceState, in memory or in state.json.
IsRecord(i) == i \in Records /\ Tidy(i.holes)

Types ==
  /\ bhead \in Nat /\ flushed \in Nat /\ hsHead \in Nat /\ liveNext \in Nat /\ hsHead <= bhead
  /\ IsRecord(inst) /\ IsRecord(state)
  /\ liveQ \in Seq(Msgs) /\ oldLive \in Seq(Msgs)
  /\ fillQ \in Seq(Blocks) /\ oldFill \in Seq(Blocks)
  /\ jumped \in BOOLEAN /\ crashes \in Nat

\* A record is backed by the frames R: everything up to its cursor is in R, and
\* below a missing number everything is in R or missing too.
Backed(i, R) ==
  /\ \A x \in Nat : 1 <= x /\ x <= i.cursor => x \in R
  /\ \A m, x \in Nat : Hole(i.holes, m) /\ 1 <= x /\ x <= m => x \in R \/ Hole(i.holes, x)

Got == received \union lost

AllBacked == ~jumped => Backed(inst, Got) /\ Backed(state, Got)

\* A record knows of no number above t.
Within(i, t) ==
  /\ i.cursor <= t /\ i.boatHead <= t
  /\ \A m \in Nat : Hole(i.holes, m) => m <= t

\* The highest number that can have left the boat: while it dials, what it had
\* when it sent the handshake.
Top == IF conn = "dialing" THEN hsHead ELSE bhead

Bounded ==
  /\ Within(inst, Top) /\ Within(state, Top)
  /\ \A i \in 1..Len(liveQ) : liveQ[i].seq <= Top
  /\ \A i \in 1..Len(oldLive) : oldLive[i].seq <= Top
  /\ conn = "up" \/ liveQ = <<>>

InFlight(s) == \E i \in 1..Len(liveQ) : liveQ[i] = FrameMsg(s)

Tracked ==
  (conn = "up" /\ ~jumped) =>
    \A s \in Nat : 1 <= s /\ s < liveNext => s \in Got \/ Hole(inst.holes, s) \/ InFlight(s)

RInv == Types /\ AllBacked /\ Bounded /\ Tracked
-----------------------------------------------------------------------------
(* What the handlers do *)

\* The blocks a hole is served with are blocks of the journal.
LEMMA BlocksForType ==
  ASSUME NEW hole, flushed \in Nat
  PROVE  BlocksFor(hole) \in Seq(Blocks)
<1> DEFINE n == flushed \div BlockLen
           V == Seq(Blocks)
           Step(acc, k) == IF Serves(k, hole) THEN Append(acc, k) ELSE acc
           F == [k \in 1..n |-> [acc \in V |-> Step(acc, k)]]
           Body(g, k) == IF k = 0 THEN <<>> ELSE Step(g[k - 1], k)
<1>1. n \in Nat
  BY ReplicationAssumption
<1> HIDE DEF n
<1>2. <<>> \in V
  OBVIOUS
<1>3. ASSUME NEW acc \in V, NEW k \in 1..n PROVE Step(acc, k) \in V
  <2>1. k \in Blocks
    BY <1>1 DEF Blocks
  <2>2. Append(acc, k) \in V
    BY <2>1
  <2> QED
    BY <2>2
<1> HIDE DEF V, Step
<1>4. F \in [1..n -> [V -> V]]
  BY <1>3
<1>5. PICK g : IsRun(g, V, F, <<>>, n)
  <2> HIDE DEF F, Body
  <2> QED
    BY <1>1, <1>2, <1>4, LoopExists
<1>6. g \in [0..n -> V] /\ g[0] = <<>> /\ \A k \in 1..n : g[k] = F[k][g[k - 1]]
  BY <1>5 DEF IsRun
<1>7. ASSUME NEW k \in 1..n PROVE g[k] = Step(g[k - 1], k)
  <2>1. k - 1 \in 0..n
    BY <1>1
  <2>2. g[k - 1] \in V
    BY <1>6, <2>1
  <2> QED
    BY <1>6, <2>2
<1>8. \A k \in 0..n : g[k] = Body(g, k)
  BY <1>1, <1>6, <1>7
<1> HIDE DEF Body
<1>9. g = [k \in 0..n |-> Body(g, k)]
  BY <1>6, <1>8
<1> DEFINE L == BlocksLoop(hole)
<1>10. L = CHOOSE f : f = [k \in 0..n |-> Body(f, k)]
  BY DEF BlocksLoop, Body, Step, n
<1>11. L = [k \in 0..n |-> Body(L, k)]
  BY <1>9, <1>10
<1> HIDE DEF L
<1>12. \A k \in 0..n : L[k] = Body(L, k)
  BY <1>11
<1> DEFINE G == {k \in 0..n : L[k] \in V}
<1>13. 0 \in G
  BY <1>1, <1>2, <1>12 DEF Body
<1>14. ASSUME NEW k \in 1..n, k - 1 \in G PROVE k \in G
  <2>1. L[k - 1] \in V /\ k \in 0..n /\ k # 0
    BY <1>1, <1>14
  <2>2. Step(L[k - 1], k) \in V
    BY <1>3, <2>1
  <2> QED
    BY <1>12, <2>1, <2>2 DEF Body
<1> HIDE DEF G
<1>15. 0..n \subseteq G
  BY <1>1, <1>13, <1>14, AllRounds
<1>16. L[n] \in V
  BY <1>1, <1>15 DEF G
<1> QED
  BY <1>16 DEF BlocksFor, L, n, V

\* The two ends of a block are numbers.
LEMMA BlockBounds ==
  ASSUME NEW k \in Blocks
  PROVE  /\ (k - 1) * BlockLen + 1 \in Nat /\ k * BlockLen + 1 \in Nat
         /\ \A x \in Int : x \in BlockSeqs(k)
                             <=> (k - 1) * BlockLen + 1 <= x /\ x < k * BlockLen + 1
<1>1. BlockLen \in Nat /\ k \in Nat /\ k - 1 \in Nat
  BY ReplicationAssumption DEF Blocks
<1>2. (k - 1) * BlockLen \in Nat /\ k * BlockLen \in Nat
  BY <1>1
<1> DEFINE a == (k - 1) * BlockLen
           b == k * BlockLen
<1>3. BlockSeqs(k) = (a + 1)..b
  BY DEF BlockSeqs
<1>4. a \in Nat /\ b \in Nat
  BY <1>2
<1> HIDE DEF a, b
<1>5. /\ a + 1 \in Nat /\ b + 1 \in Nat
      /\ \A x \in Int : x \in BlockSeqs(k) <=> a + 1 <= x /\ x < b + 1
  BY <1>3, <1>4
<1> QED
  BY <1>5 DEF a, b

\* A record and its fields.
LEMMA RecordFields ==
  ASSUME NEW i, IsRecord(i)
  PROVE  /\ i.cursor \in Nat /\ i.boatHead \in Nat /\ Tidy(i.holes)
         /\ \A c \in Nat : IsRecord([i EXCEPT !.cursor = c])
         /\ \A b \in Nat : IsRecord([i EXCEPT !.boatHead = b])
         /\ \A hs, c : Tidy(hs) /\ c \in Nat => IsRecord([i EXCEPT !.holes = hs, !.cursor = c])
         /\ \A hs, b : Tidy(hs) /\ b \in Nat => IsRecord([i EXCEPT !.holes = hs, !.boatHead = b])
<1>1. i \in Records /\ Tidy(i.holes)
  BY DEF IsRecord
<1>2. i.cursor \in Nat /\ i.boatHead \in Nat
  BY <1>1 DEF Records
<1>3. ASSUME NEW c \in Nat PROVE IsRecord([i EXCEPT !.cursor = c])
  <2>1. [i EXCEPT !.cursor = c] \in Records
    BY <1>1 DEF Records
  <2>2. [i EXCEPT !.cursor = c].holes = i.holes
    BY <1>1 DEF Records
  <2> QED
    BY <1>1, <2>1, <2>2 DEF IsRecord
<1>4. ASSUME NEW b \in Nat PROVE IsRecord([i EXCEPT !.boatHead = b])
  <2>1. [i EXCEPT !.boatHead = b] \in Records
    BY <1>1 DEF Records
  <2>2. [i EXCEPT !.boatHead = b].holes = i.holes
    BY <1>1 DEF Records
  <2> QED
    BY <1>1, <2>1, <2>2 DEF IsRecord
<1>5. ASSUME NEW hs, Tidy(hs), NEW c \in Nat PROVE IsRecord([i EXCEPT !.holes = hs, !.cursor = c])
  <2>0. hs \in Seq(Ranges)
    BY <1>5 DEF Tidy
  <2>1. [i EXCEPT !.holes = hs, !.cursor = c] \in Records
    BY <1>1, <2>0 DEF Records
  <2>2. [i EXCEPT !.holes = hs, !.cursor = c].holes = hs
    BY <1>1 DEF Records
  <2> QED
    BY <1>5, <2>1, <2>2 DEF IsRecord
<1>6. ASSUME NEW hs, Tidy(hs), NEW b \in Nat PROVE IsRecord([i EXCEPT !.holes = hs, !.boatHead = b])
  <2>0. hs \in Seq(Ranges)
    BY <1>6 DEF Tidy
  <2>1. [i EXCEPT !.holes = hs, !.boatHead = b] \in Records
    BY <1>1, <2>0 DEF Records
  <2>2. [i EXCEPT !.holes = hs, !.boatHead = b].holes = hs
    BY <1>1 DEF Records
  <2> QED
    BY <1>6, <2>1, <2>2 DEF IsRecord
<1> QED
  BY <1>1, <1>2, <1>3, <1>4, <1>5, <1>6

\* Live's handler moves the cursor by the next number only, and takes in the frame
\* or loses it on the full channel.
LEMMA LiveEffect ==
  ASSUME Types, NEW m \in Msgs, LiveMessage(m)
  PROVE  /\ IsRecord(inst') /\ inst'.holes = inst.holes
         /\ state' = state \/ state' = inst'
         /\ \/ inst'.cursor = inst.cursor
            \/ ~m.status /\ m.seq = inst.cursor + 1 /\ inst'.cursor = m.seq
         /\ inst'.boatHead = inst.boatHead \/ inst'.boatHead = m.seq
         /\ \A x : x \in Got => x \in Got'
         /\ ~m.status => m.seq \in Got'
         /\ jumped' = jumped /\ durable' = durable
<1>1. m.seq \in Nat /\ m.status \in BOOLEAN
  BY DEF Msgs
<1>2. IsRecord(inst) /\ inst \in Records
  BY DEF Types, IsRecord
<1>3. CASE ~m.status
  <2> DEFINE c == CursorAfter(m.seq)
  <2>1. /\ inst' = [inst EXCEPT !.cursor = c]
        /\ \/ received' = received \union {m.seq} /\ lost' = lost
           \/ received' = received /\ lost' = lost \union {m.seq}
        /\ state' \in {state, inst'} /\ durable' = durable /\ jumped' = jumped
    BY <1>3 DEF LiveMessage
  <2>2. /\ c \in Nat
        /\ c = inst.cursor \/ (m.seq = inst.cursor + 1 /\ c = m.seq)
    BY <1>1, <1>2, RecordFields DEF CursorAfter
  <2> HIDE DEF c
  <2>3. IsRecord(inst')
    BY <1>2, <2>1, <2>2, RecordFields
  <2>4. inst'.holes = inst.holes /\ inst'.cursor = c /\ inst'.boatHead = inst.boatHead
    BY <1>2, <2>1 DEF Records
  <2>5. (\A x : x \in Got => x \in Got') /\ m.seq \in Got'
    BY <2>1 DEF Got
  <2> QED
    BY <1>3, <2>1, <2>2, <2>3, <2>4, <2>5
<1>4. CASE m.status
  <2>1. /\ inst' = [inst EXCEPT !.boatHead = m.seq]
        /\ received' = received /\ lost' = lost /\ state' = state
        /\ durable' = durable /\ jumped' = jumped
    BY <1>4 DEF LiveMessage
  <2>2. IsRecord(inst')
    BY <1>1, <1>2, <2>1, RecordFields
  <2>3. inst'.holes = inst.holes /\ inst'.cursor = inst.cursor /\ inst'.boatHead = m.seq
    BY <1>2, <2>1 DEF Records
  <2> QED
    BY <1>4, <2>1, <2>2, <2>3 DEF Got
<1> QED
  BY <1>1, <1>3, <1>4

\* Backfill's handler writes the block and takes exactly its numbers out of the
\* holes; the cursor stays, moves to just below the first hole, or, when no hole
\* is left, to the boat's head.
LEMMA FillEffect ==
  ASSUME Types, NEW k \in Blocks, BackfillBlock(k)
  PROVE  \/ UNCHANGED cloudVars
         \/ /\ IsRecord(inst') /\ (state' = state \/ state' = inst')
            /\ \A x \in Int : Hole(inst'.holes, x) <=> Hole(inst.holes, x) /\ x \notin BlockSeqs(k)
            /\ received' = received \union BlockSeqs(k) /\ durable' = durable \union BlockSeqs(k)
            /\ lost' = lost /\ inst'.boatHead = inst.boatHead
            /\ jumped' \in BOOLEAN /\ (jumped => jumped')
            /\ \/ inst'.cursor = inst.cursor
               \/ /\ Hole(inst'.holes, inst'.cursor + 1)
                  /\ \A x \in Nat : Hole(inst'.holes, x) => x > inst'.cursor
               \/ /\ inst'.cursor = inst.boatHead
                  /\ ~jumped' => 1..inst'.cursor \subseteq received'
<1> DEFINE a == (k - 1) * BlockLen + 1
           b == k * BlockLen + 1
           left == Fill(inst.holes, a, b)
           ct == ContinuousThrough(left, 0)
           new == IF ct # NoBound THEN Greatest(inst.cursor, ct)
                  ELSE IF inst.boatHead > 0 THEN inst.boatHead ELSE inst.cursor
<1>1. a \in Nat /\ b \in Nat /\ \A x \in Int : x \in BlockSeqs(k) <=> a <= x /\ x < b
  BY BlockBounds
<1>2. /\ IsRecord(inst) /\ inst \in Records /\ inst.cursor \in Nat /\ inst.boatHead \in Nat
      /\ Tidy(inst.holes) /\ jumped \in BOOLEAN
  BY RecordFields DEF Types, IsRecord
<1>3. SUFFICES ASSUME /\ received' = received \union BlockSeqs(k)
                      /\ durable' = durable \union BlockSeqs(k)
                      /\ inst' = [inst EXCEPT !.holes = left, !.cursor = new]
                      /\ jumped' = (jumped \/ (ct = NoBound /\ ~(1..new \subseteq received')))
                      /\ state' \in {state, inst'}
                      /\ UNCHANGED <<connected, lost>>
               PROVE  /\ IsRecord(inst')
                      /\ \A x \in Int : Hole(inst'.holes, x)
                                          <=> Hole(inst.holes, x) /\ x \notin BlockSeqs(k)
                      /\ inst'.boatHead = inst.boatHead
                      /\ jumped' \in BOOLEAN /\ (jumped => jumped')
                      /\ \/ inst'.cursor = inst.cursor
                         \/ /\ Hole(inst'.holes, inst'.cursor + 1)
                            /\ \A x \in Nat : Hole(inst'.holes, x) => x > inst'.cursor
                         \/ /\ inst'.cursor = inst.boatHead
                            /\ ~jumped' => 1..inst'.cursor \subseteq received'
  <2>1. \/ /\ received' = received \union BlockSeqs(k)
           /\ durable' = durable \union BlockSeqs(k)
           /\ inst' = [inst EXCEPT !.holes = left, !.cursor = new]
           /\ jumped' = (jumped \/ (ct = NoBound /\ ~(1..new \subseteq received')))
           /\ state' \in {state, inst'}
           /\ UNCHANGED <<connected, lost>>
        \/ UNCHANGED cloudVars
    BY Zenon DEF BackfillBlock
  <2> HIDE DEF left, ct, new
  <2> QED
    BY <1>3, <2>1
<1> HIDE DEF a, b
<1>4. Tidy(left) /\ \A x \in Int : Hole(left, x) <=> Hole(inst.holes, x) /\ ~(a <= x /\ x < b)
  BY <1>1, <1>2, FillMeaning
<1> HIDE DEF left
<1>5. \/ ct = NoBound
      \/ ct = 0
      \/ ct \in Nat /\ Hole(left, ct + 1) /\ \A x \in Int : Hole(left, x) /\ x >= 0 => x > ct
  <2>1. Greatest(0 - 1, 0) = 0
    BY DEF Greatest
  <2> QED
    BY <1>4, <2>1, ContinuousMeaning
<1> HIDE DEF ct
<1>6. /\ new \in Nat
      /\ \/ new = inst.cursor
         \/ ct # NoBound /\ new = ct /\ ct # 0 /\ ct \in Nat
         \/ ct = NoBound /\ new = inst.boatHead
  BY <1>2, <1>5 DEF Greatest, NoBound
<1> HIDE DEF new
<1>7. inst'.holes = left /\ inst'.cursor = new /\ inst'.boatHead = inst.boatHead
  BY <1>2, <1>3 DEF Records
<1>8. IsRecord(inst')
  BY <1>2, <1>3, <1>4, <1>6, RecordFields
<1>9. \A x \in Int : Hole(inst'.holes, x) <=> Hole(inst.holes, x) /\ x \notin BlockSeqs(k)
  BY <1>1, <1>4, <1>7
<1>10. jumped' \in BOOLEAN /\ (jumped => jumped')
  BY <1>2, <1>3, Zenon
<1>11. CASE new = inst.cursor
  BY <1>7, <1>8, <1>9, <1>10, <1>11
<1>12. CASE ct # NoBound /\ new = ct /\ ct # 0 /\ ct \in Nat
  <2>1. Hole(left, ct + 1) /\ \A x \in Nat : Hole(left, x) => x > ct
    BY <1>5, <1>12
  <2> QED
    BY <1>7, <1>8, <1>9, <1>10, <1>12, <2>1
<1>13. CASE ct = NoBound /\ new = inst.boatHead
  <2>1. ~jumped' => 1..new \subseteq received'
    BY <1>3, <1>13, Zenon
  <2> QED
    BY <1>7, <1>8, <1>9, <1>10, <1>13, <2>1
<1> QED
  BY <1>6, <1>11, <1>12, <1>13

\* The handshake opens a hole between the cursor and the boat's head.
LEMMA HandshakeEffect ==
  ASSUME Types, Handshake
  PROVE  /\ IsRecord(inst') /\ state' = inst' /\ inst'.cursor = inst.cursor
         /\ inst'.boatHead = hsHead
         /\ \A x \in Int : Hole(inst'.holes, x)
              <=> Hole(inst.holes, x) \/ (inst.cursor > 0 /\ inst.cursor < x /\ x < hsHead)
         /\ received' = received /\ lost' = lost /\ jumped' = jumped /\ durable' = durable
<1> DEFINE hs == HandshakeHoles(hsHead)
           c == inst.cursor
<1>1. /\ IsRecord(inst) /\ inst \in Records /\ c \in Nat /\ Tidy(inst.holes) /\ hsHead \in Nat
  BY RecordFields DEF Types, IsRecord
<1>2. inst' = [inst EXCEPT !.holes = hs, !.boatHead = hsHead] /\ state' = inst'
  BY DEF Handshake
<1>3. /\ Tidy(hs)
      /\ \A x \in Int : Hole(hs, x) <=> Hole(inst.holes, x) \/ (c > 0 /\ c < x /\ x < hsHead)
  <2>1. CASE c > 0 /\ hsHead > c + 1
    <3>1. hs = Add(inst.holes, c + 1, hsHead)
      BY <2>1 DEF HandshakeHoles
    <3>2. c + 1 \in Nat
      BY <1>1
    <3> HIDE DEF hs
    <3>3. Tidy(hs) /\ \A x \in Int : Hole(hs, x) <=> Hole(inst.holes, x) \/ (c + 1 <= x /\ x < hsHead)
      BY <1>1, <3>1, <3>2, AddMeaning
    <3>4. \A x \in Int : c + 1 <= x <=> c < x
      BY <1>1
    <3> QED
      BY <2>1, <3>3, <3>4
  <2>2. CASE ~(c > 0 /\ hsHead > c + 1)
    <3>1. hs = inst.holes
      BY <2>2 DEF HandshakeHoles
    <3>2. \A x \in Int : ~(c > 0 /\ c < x /\ x < hsHead)
      BY <1>1, <2>2
    <3> QED
      BY <1>1, <3>1, <3>2
  <2> QED
    BY <2>1, <2>2
<1> HIDE DEF hs
<1>4. inst'.holes = hs /\ inst'.cursor = c /\ inst'.boatHead = hsHead
  BY <1>1, <1>2 DEF Records
<1>5. IsRecord(inst')
  BY <1>1, <1>2, <1>3, RecordFields
<1>6. received' = received /\ lost' = lost /\ jumped' = jumped /\ durable' = durable
  BY DEF Handshake
<1> QED
  BY <1>2, <1>3, <1>4, <1>5, <1>6
-----------------------------------------------------------------------------
(* Types *)

\* A prefix and a tail of a sequence are sequences of the same elements.
LEMMA Pieces ==
  ASSUME NEW S, NEW q \in Seq(S)
  PROVE  /\ \A n \in 0..Len(q) : /\ SubSeq(q, 1, n) \in Seq(S) /\ Len(SubSeq(q, 1, n)) = n
                                 /\ \A i \in 1..n : SubSeq(q, 1, n)[i] = q[i]
         /\ q # <<>> => /\ Head(q) \in S /\ Head(q) = q[1] /\ Len(q) \in Nat \ {0}
                        /\ Tail(q) \in Seq(S) /\ Len(Tail(q)) = Len(q) - 1
                        /\ \A i \in 1..(Len(q) - 1) : Tail(q)[i] = q[i + 1]
<1>1. ASSUME NEW n \in 0..Len(q)
      PROVE  /\ SubSeq(q, 1, n) \in Seq(S) /\ Len(SubSeq(q, 1, n)) = n
             /\ \A i \in 1..n : SubSeq(q, 1, n)[i] = q[i]
  OBVIOUS
<1>2. ASSUME q # <<>>
      PROVE  /\ Head(q) \in S /\ Head(q) = q[1] /\ Len(q) \in Nat \ {0}
             /\ Tail(q) \in Seq(S) /\ Len(Tail(q)) = Len(q) - 1
             /\ \A i \in 1..(Len(q) - 1) : Tail(q)[i] = q[i + 1]
  BY <1>2
<1> QED
  BY <1>1, <1>2

\* Every step keeps the types.
LEMMA TypesStep == Types /\ [RNext]_rvars => Types'
<1> SUFFICES ASSUME Types, [RNext]_rvars PROVE Types'
  OBVIOUS
<1>0. BlockLen \in Nat
  BY ReplicationAssumption
<1>a. Dial \/ BoatFrame \/ BoatFlush => Types'
  <2>1. Dial => Types'
    BY <1>0 DEF Types, Dial, linkVars, oldVars, cloudVars, boatVars
  <2>2. BoatFrame => Types'
    BY <1>0 DEF Types, BoatFrame, linkVars, oldVars, cloudVars, boatVars
  <2>3. BoatFlush => Types'
    BY <1>0 DEF Types, BoatFlush, linkVars, oldVars, cloudVars, boatVars
  <2> QED
    BY <2>1, <2>2, <2>3
<1>b. Handshake => Types'
  <2> SUFFICES ASSUME Handshake PROVE Types'
    OBVIOUS
  <2>1. IsRecord(inst') /\ IsRecord(state') /\ jumped' \in BOOLEAN
    BY HandshakeEffect DEF Types
  <2>2. /\ liveNext' \in Nat /\ liveQ' \in Seq(Msgs)
    <3>1. CASE conn' = "up" /\ liveNext' = LiveStart(LiveStartFrom(hsHead)) /\ liveQ' = <<FrameMsg(0)>>
      <4>1. LiveStart(LiveStartFrom(hsHead)) \in Nat
        BY DEF LiveStart, LiveStartFrom, Types
      <4>2. FrameMsg(0) \in Msgs
        BY DEF FrameMsg, Msgs
      <4> QED
        BY <3>1, <4>1, <4>2
    <3>2. CASE UNCHANGED <<liveNext, liveQ>>
      BY <3>2 DEF Types
    <3> QED
      BY <3>1, <3>2 DEF Handshake
  <2> QED
    BY <2>1, <2>2 DEF Types, Handshake, boatVars, oldVars
<1>c. Disconnect => Types'
  <2> SUFFICES ASSUME Disconnect PROVE Types'
    OBVIOUS
  <2>1. oldLive' \in Seq(Msgs) /\ oldFill' \in Seq(Blocks)
    BY Pieces DEF Disconnect, Types
  <2> QED
    BY <2>1 DEF Types, Disconnect, boatVars, cloudVars
<1>d. SendFrame \/ SendStatus => Types'
  <2>1. FrameMsg(liveNext) \in Msgs /\ StatusMsg(bhead) \in Msgs
    BY DEF FrameMsg, StatusMsg, Msgs, Types
  <2>2. liveQ \in Seq(Msgs)
    BY DEF Types
  <2>3. Append(liveQ, FrameMsg(liveNext)) \in Seq(Msgs) /\ Append(liveQ, StatusMsg(bhead)) \in Seq(Msgs)
    BY <2>1, <2>2
  <2>4. SendFrame => Types'
    BY <2>3 DEF Types, SendFrame, boatVars, cloudVars, oldVars
  <2>5. SendStatus => Types'
    BY <2>3 DEF Types, SendStatus, boatVars, cloudVars, oldVars
  <2> QED
    BY <2>4, <2>5
<1>e. SendHole => Types'
  <2> SUFFICES ASSUME SendHole PROVE Types'
    OBVIOUS
  <2>1. fillQ' \in Seq(Blocks)
    <3>0. BlocksFor(Head(bfHoles)) \in Seq(Blocks) /\ fillQ \in Seq(Blocks)
      BY BlocksForType DEF Types
    <3>1. fillQ' = fillQ \o BlocksFor(Head(bfHoles)) \/ fillQ' = fillQ
      BY DEF SendHole
    <3> DEFINE more == BlocksFor(Head(bfHoles))
    <3> HIDE DEF more
    <3>2. fillQ \o more \in Seq(Blocks)
      BY <3>0 DEF more
    <3> QED
      BY <3>0, <3>1, <3>2 DEF more
  <2> QED
    BY <2>1 DEF Types, SendHole, boatVars, cloudVars, oldVars
<1>f. ASSUME NEW m \in Msgs, LiveMessage(m)
      PROVE  IsRecord(inst') /\ IsRecord(state') /\ jumped' \in BOOLEAN
  BY <1>f, LiveEffect DEF Types
<1>g. ASSUME NEW k \in Blocks, BackfillBlock(k)
      PROVE  IsRecord(inst') /\ IsRecord(state') /\ jumped' \in BOOLEAN
  BY <1>g, FillEffect DEF Types, cloudVars
<1>h. LiveRecv => Types'
  <2> SUFFICES ASSUME LiveRecv PROVE Types'
    OBVIOUS
  <2>1. Head(liveQ) \in Msgs /\ Tail(liveQ) \in Seq(Msgs)
    BY Pieces DEF LiveRecv, Types
  <2>2. IsRecord(inst') /\ IsRecord(state') /\ jumped' \in BOOLEAN
    BY <1>f, <2>1 DEF LiveRecv
  <2> QED
    BY <2>1, <2>2 DEF Types, LiveRecv, boatVars, oldVars
<1>i. OldLiveRecv => Types'
  <2> SUFFICES ASSUME OldLiveRecv PROVE Types'
    OBVIOUS
  <2>1. Head(oldLive) \in Msgs /\ Tail(oldLive) \in Seq(Msgs)
    BY Pieces DEF OldLiveRecv, Types
  <2>2. IsRecord(inst') /\ IsRecord(state') /\ jumped' \in BOOLEAN
    BY <1>f, <2>1 DEF OldLiveRecv
  <2> QED
    BY <2>1, <2>2 DEF Types, OldLiveRecv, boatVars, linkVars
<1>j. BackfillRecv => Types'
  <2> SUFFICES ASSUME BackfillRecv PROVE Types'
    OBVIOUS
  <2>1. Head(fillQ) \in Blocks /\ Tail(fillQ) \in Seq(Blocks)
    BY Pieces DEF BackfillRecv, Types
  <2>2. IsRecord(inst') /\ IsRecord(state') /\ jumped' \in BOOLEAN
    BY <1>g, <2>1 DEF BackfillRecv
  <2> QED
    BY <2>1, <2>2 DEF Types, BackfillRecv, boatVars, oldVars
<1>k. OldFillRecv => Types'
  <2> SUFFICES ASSUME OldFillRecv PROVE Types'
    OBVIOUS
  <2>1. Head(oldFill) \in Blocks /\ Tail(oldFill) \in Seq(Blocks)
    BY Pieces DEF OldFillRecv, Types
  <2>2. IsRecord(inst') /\ IsRecord(state') /\ jumped' \in BOOLEAN
    BY <1>g, <2>1 DEF OldFillRecv
  <2> QED
    BY <2>1, <2>2 DEF Types, OldFillRecv, boatVars, linkVars
<1>l. /\ BackfillEOF => Types'
      /\ OldStreamError => Types'
      /\ CloudFlush => Types'
  <2>1. BackfillEOF => Types'
    BY DEF Types, BackfillEOF, boatVars, oldVars
  <2>2. OldStreamError => Types'
    BY DEF Types, OldStreamError, boatVars, linkVars
  <2>3. CloudFlush => Types'
    BY DEF Types, CloudFlush, boatVars, linkVars, oldVars
  <2> QED
    BY <2>1, <2>2, <2>3
<1>m. /\ CloudCrash => Types'
      /\ CloudRestart => Types'
  <2>1. CloudCrash => Types'
    BY DEF Types, CloudCrash, DropStreams, boatVars
  <2>2. CloudRestart => Types'
    BY DEF Types, CloudRestart, DropStreams, boatVars
  <2> QED
    BY <2>1, <2>2
<1>n. UNCHANGED rvars => Types'
  BY DEF Types, rvars, boatVars, linkVars, oldVars, cloudVars
<1> QED
  BY <1>a, <1>b, <1>c, <1>d, <1>e, <1>h, <1>i, <1>j, <1>k, <1>l, <1>m, <1>n
     DEF RNext, Boat, Cloud, Faults, Leftovers
-----------------------------------------------------------------------------
(* What the cursor and the holes rest on *)

\* A record stays backed when more frames are known.
LEMMA BackedGrows ==
  ASSUME NEW i, NEW R, NEW S, Backed(i, R), \A x : x \in R => x \in S
  PROVE  Backed(i, S)
BY DEF Backed

\* Every step keeps AllBacked.
LEMMA BackedStep == Types /\ AllBacked /\ [RNext]_rvars => AllBacked'
<1> SUFFICES ASSUME Types, AllBacked, [RNext]_rvars PROVE AllBacked'
  OBVIOUS
<1>a. UNCHANGED cloudVars => AllBacked'
  BY DEF AllBacked, Got, cloudVars
<1>b. ASSUME NEW m \in Msgs, LiveMessage(m) PROVE AllBacked'
  <2> SUFFICES ASSUME ~jumped' PROVE Backed(inst', Got') /\ Backed(state', Got')
    BY DEF AllBacked
  <2>1. /\ inst'.holes = inst.holes /\ (state' = state \/ state' = inst')
        /\ \/ inst'.cursor = inst.cursor
           \/ ~m.status /\ m.seq = inst.cursor + 1 /\ inst'.cursor = m.seq
        /\ \A x : x \in Got => x \in Got'
        /\ ~m.status => m.seq \in Got'
        /\ jumped' = jumped
    BY <1>b, LiveEffect
  <2>2. Backed(inst, Got) /\ Backed(state, Got)
    BY <2>1 DEF AllBacked
  <2>3. Backed(inst, Got') /\ Backed(state, Got')
    BY <2>1, <2>2, BackedGrows
  <2>4. inst.cursor \in Nat
    BY RecordFields DEF Types
  <2>5. ASSUME NEW x \in Nat, 1 <= x, x <= inst'.cursor PROVE x \in Got'
    <3>1. CASE x <= inst.cursor
      BY <2>3, <2>5, <3>1 DEF Backed
    <3>2. CASE ~(x <= inst.cursor)
      BY <2>1, <2>4, <2>5, <3>2
    <3> QED
      BY <3>1, <3>2
  <2>6. Backed(inst', Got')
    BY <2>1, <2>3, <2>5 DEF Backed
  <2> QED
    BY <2>1, <2>3, <2>6
<1>c. ASSUME NEW k \in Blocks, BackfillBlock(k) PROVE AllBacked'
  <2>0. SUFFICES ASSUME ~UNCHANGED cloudVars, ~jumped'
                 PROVE  Backed(inst', Got') /\ Backed(state', Got')
    BY <1>a DEF AllBacked
  <2>1. /\ IsRecord(inst') /\ (state' = state \/ state' = inst')
        /\ \A x \in Int : Hole(inst'.holes, x) <=> Hole(inst.holes, x) /\ x \notin BlockSeqs(k)
        /\ received' = received \union BlockSeqs(k) /\ lost' = lost
        /\ (jumped => jumped')
        /\ \/ inst'.cursor = inst.cursor
           \/ /\ Hole(inst'.holes, inst'.cursor + 1)
              /\ \A x \in Nat : Hole(inst'.holes, x) => x > inst'.cursor
           \/ /\ inst'.cursor = inst.boatHead
              /\ ~jumped' => 1..inst'.cursor \subseteq received'
    BY <1>c, <2>0, FillEffect
  <2>2. Backed(inst, Got) /\ Backed(state, Got)
    BY <2>0, <2>1 DEF AllBacked
  <2>3. \A x : x \in Got' <=> x \in Got \/ x \in BlockSeqs(k)
    BY <2>1 DEF Got
  <2>4. Backed(inst, Got') /\ Backed(state, Got')
    BY <2>2, <2>3, BackedGrows
  <2>5. inst.cursor \in Nat /\ inst'.cursor \in Nat
    BY <2>1, RecordFields DEF Types
  <2>6. ASSUME NEW m \in Nat, NEW x \in Nat, Hole(inst'.holes, m), 1 <= x, x <= m
        PROVE  x \in Got' \/ Hole(inst'.holes, x)
    <3>1. Hole(inst.holes, m) /\ x \in Int
      BY <2>1, <2>6
    <3>2. x \in Got' \/ Hole(inst.holes, x)
      BY <2>4, <2>6, <3>1 DEF Backed
    <3> QED
      BY <2>1, <2>3, <3>1, <3>2
  <2>7. ASSUME NEW x \in Nat, 1 <= x, x <= inst'.cursor PROVE x \in Got'
    <3>1. CASE inst'.cursor = inst.cursor
      BY <2>4, <2>7, <3>1 DEF Backed
    <3>2. CASE /\ Hole(inst'.holes, inst'.cursor + 1)
               /\ \A y \in Nat : Hole(inst'.holes, y) => y > inst'.cursor
      <4>1. inst'.cursor + 1 \in Nat /\ x <= inst'.cursor + 1 /\ ~(x > inst'.cursor)
        BY <2>5, <2>7
      <4>2. x \in Got' \/ Hole(inst'.holes, x)
        BY <2>6, <2>7, <3>2, <4>1
      <4> QED
        BY <3>2, <4>1, <4>2
    <3>3. CASE 1..inst'.cursor \subseteq received'
      BY <2>5, <2>7, <3>3 DEF Got
    <3> QED
      BY <2>0, <2>1, <3>1, <3>2, <3>3
  <2>8. Backed(inst', Got')
    BY <2>6, <2>7 DEF Backed
  <2> QED
    BY <2>1, <2>4, <2>8
<1>d. Handshake => AllBacked'
  <2> SUFFICES ASSUME Handshake, ~jumped' PROVE Backed(inst', Got') /\ Backed(state', Got')
    BY DEF AllBacked
  <2> DEFINE c == inst.cursor
  <2>1. /\ state' = inst' /\ inst'.cursor = c
        /\ \A x \in Int : Hole(inst'.holes, x)
             <=> Hole(inst.holes, x) \/ (c > 0 /\ c < x /\ x < hsHead)
        /\ received' = received /\ lost' = lost /\ jumped' = jumped
    BY HandshakeEffect
  <2>2. Backed(inst, Got) /\ Got' = Got /\ c \in Nat /\ hsHead \in Nat
    BY <2>1, RecordFields DEF AllBacked, Types, Got
  <2>3. ASSUME NEW m \in Nat, NEW x \in Nat, Hole(inst'.holes, m), 1 <= x, x <= m
        PROVE  x \in Got \/ Hole(inst'.holes, x)
    <3>0. m \in Int /\ x \in Int
      OBVIOUS
    <3>1. CASE Hole(inst.holes, m)
      BY <2>1, <2>2, <2>3, <3>0, <3>1 DEF Backed
    <3>2. CASE c > 0 /\ c < m /\ m < hsHead
      <4>1. CASE x <= c
        BY <2>2, <2>3, <4>1 DEF Backed
      <4>2. CASE ~(x <= c)
        <5>1. c < x /\ x < hsHead
          BY <2>2, <2>3, <3>2, <4>2
        <5> QED
          BY <2>1, <3>0, <3>2, <5>1
      <4> QED
        BY <4>1, <4>2
    <3> QED
      BY <2>1, <2>3, <3>0, <3>1, <3>2
  <2>4. Backed(inst', Got)
    BY <2>1, <2>2, <2>3 DEF Backed
  <2> QED
    BY <2>1, <2>2, <2>4
<1>e. CloudCrash \/ CloudRestart \/ BackfillEOF \/ OldStreamError \/ CloudFlush => AllBacked'
  <2> SUFFICES ASSUME CloudCrash \/ CloudRestart \/ BackfillEOF \/ OldStreamError \/ CloudFlush,
                      ~jumped'
               PROVE  Backed(inst', Got') /\ Backed(state', Got')
    BY DEF AllBacked
  <2>1. /\ inst' = inst \/ inst' = state
        /\ state' = state \/ state' = inst
        /\ jumped' = jumped
        /\ \A x : x \in Got => x \in Got'
    BY DEF CloudCrash, CloudRestart, BackfillEOF, OldStreamError, CloudFlush, Got
  <2>2. Backed(inst, Got') /\ Backed(state, Got')
    BY <2>1, BackedGrows DEF AllBacked
  <2> QED
    BY <2>1, <2>2
<1>f. LiveRecv \/ OldLiveRecv => AllBacked'
  BY <1>b, Pieces DEF LiveRecv, OldLiveRecv, Types
<1>g. BackfillRecv \/ OldFillRecv => AllBacked'
  BY <1>c, Pieces DEF BackfillRecv, OldFillRecv, Types
<1>h. BoatFrame \/ BoatFlush \/ Boat \/ Disconnect \/ UNCHANGED rvars => UNCHANGED cloudVars
  BY DEF BoatFrame, BoatFlush, Boat, Dial, SendFrame, SendStatus, SendHole, Disconnect, rvars
<1> QED
  BY <1>a, <1>d, <1>e, <1>f, <1>g, <1>h DEF RNext, Cloud, Faults, Leftovers
-----------------------------------------------------------------------------
(* No number is known before the boat has given it *)

\* A record stays within a higher bound.
LEMMA WithinGrows ==
  ASSUME NEW i, IsRecord(i), NEW t \in Nat, NEW u \in Nat, Within(i, t), t <= u
  PROVE  Within(i, u)
<1>1. i.cursor \in Nat /\ i.boatHead \in Nat
  BY RecordFields
<1> QED
  BY <1>1 DEF Within

\* The two handlers keep the cloud's record within a bound on what they are sent.
LEMMA HandlersWithin ==
  ASSUME Types, NEW t \in Nat, Within(inst, t), Within(state, t)
  PROVE  /\ \A m \in Msgs : m.seq <= t /\ LiveMessage(m) => Within(inst', t) /\ Within(state', t)
         /\ \A k \in Blocks : BackfillBlock(k) => Within(inst', t) /\ Within(state', t)
<1>1. ASSUME NEW m \in Msgs, m.seq <= t, LiveMessage(m) PROVE Within(inst', t) /\ Within(state', t)
  <2>1. /\ inst'.holes = inst.holes /\ (state' = state \/ state' = inst')
        /\ \/ inst'.cursor = inst.cursor
           \/ inst'.cursor = m.seq
        /\ inst'.boatHead = inst.boatHead \/ inst'.boatHead = m.seq
    BY <1>1, LiveEffect
  <2>2. Within(inst', t)
    BY <1>1, <2>1 DEF Within
  <2> QED
    BY <2>1, <2>2
<1>2. ASSUME NEW k \in Blocks, BackfillBlock(k) PROVE Within(inst', t) /\ Within(state', t)
  <2>1. CASE UNCHANGED cloudVars
    BY <2>1 DEF cloudVars
  <2>2. CASE ~UNCHANGED cloudVars
    <3>1. /\ IsRecord(inst') /\ (state' = state \/ state' = inst')
          /\ \A x \in Int : Hole(inst'.holes, x) => Hole(inst.holes, x)
          /\ inst'.boatHead = inst.boatHead
          /\ \/ inst'.cursor = inst.cursor
             \/ Hole(inst'.holes, inst'.cursor + 1)
             \/ inst'.cursor = inst.boatHead
      BY <1>2, <2>2, FillEffect
    <3>0. inst'.cursor \in Nat
      BY <3>1, RecordFields
    <3>2. inst'.cursor \in Nat /\ inst'.cursor + 1 \in Nat
      BY <3>0
    <3>3. \A m \in Nat : Hole(inst'.holes, m) => m <= t
      BY <3>1 DEF Within
    <3>4. inst'.cursor <= t
      BY <3>1, <3>2, <3>3 DEF Within
    <3>5. Within(inst', t)
      BY <3>1, <3>3, <3>4 DEF Within
    <3> QED
      BY <3>1, <3>5
  <2> QED
    BY <2>1, <2>2
<1> QED
  BY <1>1, <1>2

\* All messages of a queue are within t.
QueueWithin(q, t) == \A i \in 1..Len(q) : q[i].seq <= t

\* What is left of a queue within t is within t.
LEMMA QueuePieces ==
  ASSUME NEW q \in Seq(Msgs), NEW t \in Nat, QueueWithin(q, t)
  PROVE  /\ QueueWithin(<<>>, t)
         /\ \A n \in 0..Len(q) : QueueWithin(SubSeq(q, 1, n), t)
         /\ q # <<>> => Head(q) \in Msgs /\ Head(q).seq <= t /\ QueueWithin(Tail(q), t)
         /\ \A m \in Msgs : m.seq <= t => QueueWithin(Append(q, m), t)
         /\ \A u \in Nat : t <= u => QueueWithin(q, u)
<1>1. QueueWithin(<<>>, t)
  BY DEF QueueWithin
<1>2. ASSUME NEW n \in 0..Len(q) PROVE QueueWithin(SubSeq(q, 1, n), t)
  <2>1. Len(SubSeq(q, 1, n)) = n /\ \A i \in 1..n : SubSeq(q, 1, n)[i] = q[i] /\ i \in 1..Len(q)
    BY Pieces
  <2> QED
    BY <2>1 DEF QueueWithin
<1>3. ASSUME q # <<>> PROVE Head(q) \in Msgs /\ Head(q).seq <= t /\ QueueWithin(Tail(q), t)
  <2>1. /\ Head(q) \in Msgs /\ Head(q) = q[1] /\ 1 \in 1..Len(q)
        /\ Len(Tail(q)) = Len(q) - 1
        /\ \A i \in 1..(Len(q) - 1) : Tail(q)[i] = q[i + 1] /\ i + 1 \in 1..Len(q)
    BY <1>3, Pieces
  <2> QED
    BY <2>1 DEF QueueWithin
<1>4. ASSUME NEW m \in Msgs, m.seq <= t PROVE QueueWithin(Append(q, m), t)
  <2>1. ASSUME NEW i \in 1..Len(Append(q, m)) PROVE Append(q, m)[i].seq <= t
    <3>1. CASE i \in 1..Len(q)
      <4>1. Append(q, m)[i] = q[i]
        BY <3>1
      <4> QED
        BY <3>1, <4>1 DEF QueueWithin
    <3>2. CASE i \notin 1..Len(q)
      <4>1. Append(q, m)[i] = m
        BY <3>2
      <4> QED
        BY <1>4, <4>1
    <3> QED
      BY <3>1, <3>2
  <2> QED
    BY <2>1 DEF QueueWithin
<1>5. ASSUME NEW u \in Nat, t <= u PROVE QueueWithin(q, u)
  <2>1. ASSUME NEW i \in 1..Len(q) PROVE q[i].seq <= u
    <3>1. q[i] \in Msgs
      OBVIOUS
    <3>2. q[i].seq \in Nat /\ q[i].seq <= t
      BY <3>1 DEF Msgs, QueueWithin
    <3> QED
      BY <1>5, <3>2
  <2> QED
    BY <2>1 DEF QueueWithin
<1> QED
  BY <1>1, <1>2, <1>3, <1>4, <1>5

\* Every step keeps the bound.
LEMMA BoundedStep == Types /\ Bounded /\ [RNext]_rvars => Bounded'
<1> SUFFICES ASSUME Types, Bounded, [RNext]_rvars PROVE Bounded'
  OBVIOUS
<1>1. /\ Top \in Nat /\ hsHead <= Top /\ Top <= bhead /\ bhead \in Nat /\ hsHead \in Nat
      /\ Within(inst, Top) /\ Within(state, Top)
      /\ QueueWithin(liveQ, Top) /\ QueueWithin(oldLive, Top)
      /\ liveQ \in Seq(Msgs) /\ oldLive \in Seq(Msgs) /\ IsRecord(inst) /\ IsRecord(state)
      /\ conn = "up" \/ liveQ = <<>>
  BY DEF Types, Bounded, Top, QueueWithin
<1>2. SUFFICES /\ Within(inst', Top') /\ Within(state', Top')
               /\ QueueWithin(liveQ', Top') /\ QueueWithin(oldLive', Top')
               /\ conn' = "up" \/ liveQ' = <<>>
  BY DEF Bounded, QueueWithin
<1> DEFINE Goal == /\ Within(inst', Top') /\ Within(state', Top')
                   /\ QueueWithin(liveQ', Top') /\ QueueWithin(oldLive', Top')
                   /\ conn' = "up" \/ liveQ' = <<>>
<1>a. UNCHANGED <<inst, state, liveQ, oldLive, conn, hsHead>> /\ bhead' \in {bhead, bhead + 1} => Goal
  <2> SUFFICES ASSUME UNCHANGED <<inst, state, liveQ, oldLive, conn, hsHead>>,
                      bhead' \in {bhead, bhead + 1}
               PROVE  Goal
    OBVIOUS
  <2>1. Top' \in Nat /\ Top <= Top'
    BY <1>1 DEF Top
  <2>2. Within(inst, Top') /\ Within(state, Top')
    BY <1>1, <2>1, WithinGrows
  <2>3. QueueWithin(liveQ, Top') /\ QueueWithin(oldLive, Top')
    BY <1>1, <2>1, QueuePieces
  <2> QED
    BY <1>1, <2>2, <2>3
<1>b. Dial => Goal
  <2> SUFFICES ASSUME Dial PROVE Goal
    OBVIOUS
  <2>1. Top' = bhead /\ Top = bhead
    BY DEF Dial, Top, boatVars
  <2>2. UNCHANGED <<inst, state, liveQ, oldLive>> /\ liveQ = <<>>
    BY <1>1 DEF Dial, oldVars, cloudVars
  <2> QED
    BY <1>1, <2>1, <2>2
<1>c. Handshake => Goal
  <2> SUFFICES ASSUME Handshake PROVE Goal
    OBVIOUS
  <2>1. /\ state' = inst' /\ inst'.cursor = inst.cursor /\ inst'.boatHead = hsHead /\ IsRecord(inst')
        /\ \A x \in Int : Hole(inst'.holes, x)
              <=> Hole(inst.holes, x) \/ (inst.cursor > 0 /\ inst.cursor < x /\ x < hsHead)
    BY HandshakeEffect
  <2>2. Top' = bhead /\ UNCHANGED oldLive /\ conn' \in {"up", "down"}
    BY DEF Handshake, Top, boatVars, oldVars
  <2>3. \A m \in Nat : Hole(inst'.holes, m) => m <= Top
    BY <1>1, <2>1 DEF Within
  <2>4. Within(inst', Top)
    BY <1>1, <2>1, <2>3 DEF Within
  <2>5. Within(inst', Top') /\ Within(state', Top')
    BY <1>1, <2>1, <2>2, <2>4, WithinGrows
  <2>6. QueueWithin(oldLive, Top')
    BY <1>1, <2>2, QueuePieces
  <2>7. QueueWithin(liveQ', Top') /\ (conn' = "up" \/ liveQ' = <<>>)
    <3>1. CASE conn' = "up" /\ liveQ' = <<FrameMsg(0)>>
      <4>1. Len(<<FrameMsg(0)>>) = 1 /\ <<FrameMsg(0)>>[1] = FrameMsg(0) /\ \A i \in 1..1 : i = 1
        OBVIOUS
      <4>2. FrameMsg(0).seq = 0
        BY DEF FrameMsg
      <4>3. 0 <= Top'
        BY <1>1, <2>2
      <4> QED
        BY <3>1, <4>1, <4>2, <4>3 DEF QueueWithin
    <3>2. CASE liveQ' = liveQ
      <4>1. conn = "dialing"
        BY DEF Handshake
      <4>2. liveQ = <<>>
        BY <1>1, <4>1
      <4> QED
        BY <1>1, <3>2, <4>2 DEF QueueWithin
    <3> QED
      BY <3>1, <3>2 DEF Handshake
  <2> QED
    BY <2>2, <2>5, <2>6, <2>7
<1>d. Disconnect => Goal
  <2> SUFFICES ASSUME Disconnect PROVE Goal
    OBVIOUS
  <2>1. Top' = Top /\ UNCHANGED <<inst, state>> /\ liveQ' = <<>>
    BY DEF Disconnect, Top, boatVars, cloudVars
  <2>2. PICK n \in 0..Len(liveQ) : oldLive' = SubSeq(liveQ, 1, n)
    BY DEF Disconnect
  <2>3. QueueWithin(oldLive', Top) /\ QueueWithin(<<>>, Top)
    BY <1>1, <2>2, QueuePieces
  <2> QED
    BY <1>1, <2>1, <2>3
<1>e. SendFrame \/ SendStatus => Goal
  <2> SUFFICES ASSUME SendFrame \/ SendStatus PROVE Goal
    OBVIOUS
  <2>1. Top' = Top /\ Top = bhead /\ UNCHANGED <<inst, state, oldLive>> /\ conn' = "up"
    BY DEF SendFrame, SendStatus, Top, boatVars, cloudVars, oldVars
  <2>2. PICK m : m \in Msgs /\ m.seq <= bhead /\ liveQ' = Append(liveQ, m)
    <3>1. CASE SendFrame
      <4>1. FrameMsg(liveNext) \in Msgs /\ FrameMsg(liveNext).seq = liveNext
        BY DEF FrameMsg, Msgs, Types
      <4> QED
        BY <3>1, <4>1 DEF SendFrame
    <3>2. CASE SendStatus
      <4>1. StatusMsg(bhead) \in Msgs /\ StatusMsg(bhead).seq = bhead
        BY <1>1 DEF StatusMsg, Msgs
      <4> QED
        BY <1>1, <3>2, <4>1 DEF SendStatus
    <3> QED
      BY <3>1, <3>2
  <2>3. QueueWithin(liveQ', Top)
    BY <1>1, <2>1, <2>2, QueuePieces
  <2> QED
    BY <1>1, <2>1, <2>3
<1>f. LiveRecv => Goal
  <2> SUFFICES ASSUME LiveRecv PROVE Goal
    OBVIOUS
  <2>1. Head(liveQ) \in Msgs /\ Head(liveQ).seq <= Top /\ QueueWithin(Tail(liveQ), Top)
    BY <1>1, QueuePieces DEF LiveRecv
  <2>2. Within(inst', Top) /\ Within(state', Top)
    BY <1>1, <2>1, HandlersWithin DEF LiveRecv
  <2>3. Top' = Top /\ conn' = conn /\ liveQ' = Tail(liveQ) /\ oldLive' = oldLive /\ liveQ # <<>>
    BY DEF LiveRecv, Top, boatVars, oldVars
  <2> QED
    BY <1>1, <2>1, <2>2, <2>3
<1>g. OldLiveRecv => Goal
  <2> SUFFICES ASSUME OldLiveRecv PROVE Goal
    OBVIOUS
  <2>1. Head(oldLive) \in Msgs /\ Head(oldLive).seq <= Top /\ QueueWithin(Tail(oldLive), Top)
    BY <1>1, QueuePieces DEF OldLiveRecv
  <2>2. Within(inst', Top) /\ Within(state', Top)
    BY <1>1, <2>1, HandlersWithin DEF OldLiveRecv
  <2>3. Top' = Top /\ conn' = conn /\ oldLive' = Tail(oldLive) /\ liveQ' = liveQ
    BY DEF OldLiveRecv, Top, boatVars, linkVars
  <2> QED
    BY <1>1, <2>1, <2>2, <2>3
<1>h. BackfillRecv \/ OldFillRecv => Goal
  <2> SUFFICES ASSUME BackfillRecv \/ OldFillRecv PROVE Goal
    OBVIOUS
  <2>1. \E k \in Blocks : BackfillBlock(k)
    BY Pieces DEF BackfillRecv, OldFillRecv, Types
  <2>2. Within(inst', Top) /\ Within(state', Top)
    BY <1>1, <2>1, HandlersWithin
  <2>3. Top' = Top /\ conn' = conn /\ oldLive' = oldLive /\ liveQ' = liveQ
    BY DEF BackfillRecv, OldFillRecv, Top, boatVars, linkVars, oldVars
  <2> QED
    BY <1>1, <2>2, <2>3
<1>i. CloudCrash \/ CloudRestart => Goal
  <2> SUFFICES ASSUME CloudCrash \/ CloudRestart PROVE Goal
    OBVIOUS
  <2>1. /\ Top' = bhead /\ liveQ' = <<>> /\ oldLive' = <<>>
        /\ inst' = inst \/ inst' = state
        /\ state' = state \/ state' = inst
    BY DEF CloudCrash, CloudRestart, DropStreams, Top, boatVars
  <2>2. Within(inst, Top') /\ Within(state, Top')
    BY <1>1, <2>1, WithinGrows
  <2> QED
    BY <1>1, <2>1, <2>2 DEF QueueWithin
<1>j. BackfillEOF \/ OldStreamError \/ CloudFlush => Goal
  <2> SUFFICES ASSUME BackfillEOF \/ OldStreamError \/ CloudFlush PROVE Goal
    OBVIOUS
  <2>1. /\ Top' = Top /\ liveQ' = liveQ /\ oldLive' \in {oldLive, <<>>} /\ conn' = conn
        /\ inst' = inst
        /\ state' = state \/ state' = inst
    BY DEF BackfillEOF, OldStreamError, CloudFlush, Top, boatVars, linkVars, oldVars
  <2>2. QueueWithin(oldLive', Top)
    BY <1>1, <2>1 DEF QueueWithin
  <2> QED
    BY <1>1, <2>1, <2>2
<1>k. BoatFrame \/ BoatFlush \/ SendHole \/ UNCHANGED rvars
        => UNCHANGED <<inst, state, liveQ, oldLive, conn, hsHead>> /\ bhead' \in {bhead, bhead + 1}
  BY DEF BoatFrame, BoatFlush, SendHole, rvars, boatVars, linkVars, oldVars, cloudVars
<1> QED
  BY <1>a, <1>b, <1>c, <1>d, <1>e, <1>f, <1>g, <1>h, <1>i, <1>j, <1>k
     DEF RNext, Boat, Cloud, Faults, Leftovers
-----------------------------------------------------------------------------
(* Every gap is tracked *)

\* When the head of the live queue is taken, its frame has arrived or is lost, the
\* others are still in flight.
LEMMA TakeInFlight ==
  ASSUME Types, liveQ # <<>>, liveQ' = Tail(liveQ), NEW s, InFlight(s)
  PROVE  InFlight(s)' \/ Head(liveQ) = FrameMsg(s)
<1>1. PICK i \in 1..Len(liveQ) : liveQ[i] = FrameMsg(s)
  BY DEF InFlight
<1>2. /\ Head(liveQ) = liveQ[1] /\ Len(liveQ) \in Nat \ {0} /\ Len(liveQ') = Len(liveQ) - 1
      /\ \A j \in 1..(Len(liveQ) - 1) : liveQ'[j] = liveQ[j + 1]
  BY Pieces DEF Types
<1>3. CASE i = 1
  BY <1>1, <1>2, <1>3
<1>4. CASE i # 1
  <2>1. i - 1 \in 1..(Len(liveQ) - 1) /\ (i - 1) + 1 = i
    BY <1>2, <1>4
  <2>2. liveQ'[i - 1] = FrameMsg(s)
    BY <1>1, <1>2, <2>1
  <2> QED
    BY <1>2, <2>1, <2>2 DEF InFlight, FrameMsg
<1> QED
  BY <1>3, <1>4

\* A message appended to the live queue leaves the others in flight.
LEMMA SendInFlight ==
  ASSUME Types, NEW m, liveQ' = Append(liveQ, m), NEW s
  PROVE  InFlight(s) \/ m = FrameMsg(s) => InFlight(s)'
<1>1. liveQ \in Seq(Msgs) /\ Len(liveQ) \in Nat
  BY DEF Types
<1>2. /\ Len(liveQ') = Len(liveQ) + 1 /\ liveQ'[Len(liveQ) + 1] = m
      /\ \A i \in 1..Len(liveQ) : liveQ'[i] = liveQ[i]
  BY <1>1
<1>3. 1..Len(liveQ) \subseteq 1..(Len(liveQ) + 1) /\ Len(liveQ) + 1 \in 1..(Len(liveQ) + 1)
  BY <1>1
<1> QED
  BY <1>2, <1>3 DEF InFlight, FrameMsg

\* Every step keeps Tracked.
LEMMA TrackedStep == Types /\ AllBacked /\ Bounded /\ Tracked /\ [RNext]_rvars => Tracked'
<1> SUFFICES ASSUME Types, AllBacked, Bounded, Tracked, [RNext]_rvars,
                    conn' = "up", ~jumped', NEW s \in Nat, 1 <= s, s < liveNext'
             PROVE  s \in Got' \/ Hole(inst'.holes, s) \/ InFlight(s)'
  BY DEF Tracked
<1> DEFINE Goal == s \in Got' \/ Hole(inst'.holes, s) \/ InFlight(s)'
           Now == s \in Got \/ Hole(inst.holes, s) \/ InFlight(s)
<1>0. conn = "up" /\ ~jumped /\ s < liveNext => Now
  BY DEF Tracked
<1>a. UNCHANGED <<conn, liveNext, liveQ, inst, received, lost, jumped>> => Goal
  BY <1>0 DEF Got, InFlight
<1>b. Handshake => Goal
  <2> SUFFICES ASSUME Handshake PROVE Goal
    OBVIOUS
  <2> DEFINE c == inst.cursor
  <2>1. /\ \A x \in Int : Hole(inst'.holes, x) <=> Hole(inst.holes, x) \/ (c > 0 /\ c < x /\ x < hsHead)
        /\ Got' = Got /\ jumped' = jumped
    BY HandshakeEffect DEF Got
  <2>2. c \in Nat /\ c <= Top /\ Top = hsHead /\ hsHead \in Nat /\ bhead \in Nat /\ hsHead <= bhead
    BY RecordFields DEF Types, Bounded, Within, Top, Handshake
  <2>3. \A x \in Nat : 1 <= x /\ x <= c => x \in Got
    BY <2>1 DEF AllBacked, Backed
  <2>4. liveNext' = LiveStart(LiveStartFrom(hsHead))
    BY DEF Handshake
  <2>5. c > 0 /\ s < hsHead
    <3>1. CASE c = 0
      <4>1. liveNext' = 1
        BY <2>2, <2>4, <3>1 DEF LiveStart, LiveStartFrom
      <4> QED
        BY <4>1
    <3>2. CASE c # 0
      <4>1. liveNext' = hsHead
        BY <2>2, <2>4, <3>2 DEF LiveStart, LiveStartFrom
      <4> QED
        BY <2>2, <3>2, <4>1
    <3> QED
      BY <3>1, <3>2
  <2>6. CASE s <= c
    BY <2>1, <2>3, <2>6
  <2>7. CASE ~(s <= c)
    <3>1. c < s /\ s \in Int
      BY <2>2, <2>7
    <3> QED
      BY <2>1, <2>5, <3>1
  <2> QED
    BY <2>6, <2>7
<1>c. SendFrame => Goal
  <2> SUFFICES ASSUME SendFrame PROVE Goal
    OBVIOUS
  <2>1. /\ conn = "up" /\ liveQ' = Append(liveQ, FrameMsg(liveNext)) /\ liveNext' = liveNext + 1
        /\ inst' = inst /\ Got' = Got /\ jumped' = jumped /\ liveNext \in Nat
    BY DEF SendFrame, cloudVars, Got, Types
  <2>2. InFlight(s) \/ FrameMsg(liveNext) = FrameMsg(s) => InFlight(s)'
    BY <2>1, SendInFlight
  <2>3. CASE s < liveNext
    BY <1>0, <2>1, <2>2, <2>3
  <2>4. CASE ~(s < liveNext)
    <3>1. s = liveNext
      BY <2>1, <2>4
    <3> QED
      BY <2>2, <3>1
  <2> QED
    BY <2>3, <2>4
<1>d. SendStatus => Goal
  <2> SUFFICES ASSUME SendStatus PROVE Goal
    OBVIOUS
  <2>1. /\ conn = "up" /\ liveQ' = Append(liveQ, StatusMsg(bhead)) /\ liveNext' = liveNext
        /\ inst' = inst /\ Got' = Got /\ jumped' = jumped
    BY DEF SendStatus, cloudVars, Got
  <2>2. InFlight(s) => InFlight(s)'
    BY <2>1, SendInFlight
  <2> QED
    BY <1>0, <2>1, <2>2
<1>e. LiveRecv => Goal
  <2> SUFFICES ASSUME LiveRecv PROVE Goal
    OBVIOUS
  <2> DEFINE m == Head(liveQ)
  <2>1. m \in Msgs /\ LiveMessage(m)
    BY Pieces DEF LiveRecv, Types
  <2>2. /\ inst'.holes = inst.holes /\ jumped' = jumped
        /\ \A x : x \in Got => x \in Got'
        /\ ~m.status => m.seq \in Got'
    BY <2>1, LiveEffect
  <2>3. conn = "up" /\ liveNext' = liveNext
    BY DEF LiveRecv
  <2>4. InFlight(s) => InFlight(s)' \/ m = FrameMsg(s)
    BY TakeInFlight DEF LiveRecv
  <2>5. FrameMsg(s).seq = s /\ FrameMsg(s).status = FALSE
    BY DEF FrameMsg
  <2> QED
    BY <1>0, <2>2, <2>3, <2>4, <2>5
<1>f. OldLiveRecv => Goal
  <2> SUFFICES ASSUME OldLiveRecv PROVE Goal
    OBVIOUS
  <2>1. Head(oldLive) \in Msgs /\ LiveMessage(Head(oldLive))
    BY Pieces DEF OldLiveRecv, Types
  <2>2. inst'.holes = inst.holes /\ jumped' = jumped /\ \A x : x \in Got => x \in Got'
    BY <2>1, LiveEffect
  <2>3. conn = "up" /\ liveNext' = liveNext /\ liveQ' = liveQ
    BY DEF OldLiveRecv, linkVars
  <2> QED
    BY <1>0, <2>2, <2>3 DEF InFlight
<1>g. BackfillRecv \/ OldFillRecv => Goal
  <2> SUFFICES ASSUME BackfillRecv \/ OldFillRecv PROVE Goal
    OBVIOUS
  <2>1. conn = "up" /\ liveNext' = liveNext /\ liveQ' = liveQ
    BY DEF BackfillRecv, OldFillRecv, linkVars
  <2>2. PICK k \in Blocks : BackfillBlock(k)
    BY Pieces DEF BackfillRecv, OldFillRecv, Types
  <2>3. CASE UNCHANGED cloudVars
    BY <1>a, <2>1, <2>3 DEF cloudVars
  <2>4. CASE ~UNCHANGED cloudVars
    <3>1. /\ \A x \in Int : Hole(inst'.holes, x) <=> Hole(inst.holes, x) /\ x \notin BlockSeqs(k)
          /\ received' = received \union BlockSeqs(k) /\ lost' = lost /\ (jumped => jumped')
      BY <2>2, <2>4, FillEffect
    <3>2. s \in Int
      OBVIOUS
    <3>3. Now
      BY <1>0, <2>1, <3>1
    <3> QED
      BY <2>1, <3>1, <3>2, <3>3 DEF Got, InFlight
  <2> QED
    BY <2>3, <2>4
<1>h. BackfillEOF \/ OldStreamError \/ CloudFlush \/ BoatFrame \/ BoatFlush \/ SendHole \/ UNCHANGED rvars
        => UNCHANGED <<conn, liveNext, liveQ, inst, received, lost, jumped>>
  BY DEF BackfillEOF, OldStreamError, CloudFlush, BoatFrame, BoatFlush, SendHole, rvars,
         boatVars, linkVars, oldVars, cloudVars
<1>i. ~(Dial \/ Disconnect \/ CloudCrash \/ CloudRestart)
  BY DEF Dial, Disconnect, CloudCrash, CloudRestart, DropStreams
<1> QED
  BY <1>a, <1>b, <1>c, <1>d, <1>e, <1>f, <1>g, <1>h, <1>i
     DEF RNext, Boat, Cloud, Faults, Leftovers
-----------------------------------------------------------------------------
(* The theorems *)

\* The initial state.
LEMMA RInitHolds == RInit => RInv
<1> SUFFICES ASSUME RInit PROVE RInv
  OBVIOUS
<1>1. IsRecord(NewInstance) /\ NewInstance.holes = <<>> /\ NewInstance.cursor = 0 /\ NewInstance.boatHead = 0
  <2>1. NewInstance \in Records /\ NewInstance.holes = <<>>
    BY DEF NewInstance, Records
  <2> QED
    BY <2>1, OneRange DEF IsRecord, NewInstance
<1>2. \A x : ~Hole(<<>>, x)
  BY OneRange
<1>3. inst = NewInstance /\ state = NewInstance
  BY DEF RInit
<1>4. Types
  <2>1. jumped \in BOOLEAN
    BY DEF RInit
  <2>2. IsRecord(inst) /\ IsRecord(state)
    BY <1>1, <1>3
  <2>3. /\ liveQ \in Seq(Msgs) /\ oldLive \in Seq(Msgs)
        /\ fillQ \in Seq(Blocks) /\ oldFill \in Seq(Blocks)
    BY DEF RInit
  <2>4. bhead = 0 /\ flushed = 0 /\ hsHead = 0 /\ liveNext = 1 /\ crashes = 0
    BY DEF RInit
  <2> QED
    BY <2>1, <2>2, <2>3, <2>4 DEF Types
<1>5. AllBacked
  BY <1>1, <1>2, <1>3 DEF AllBacked, Backed
<1>6. Bounded
  BY <1>1, <1>2, <1>3 DEF RInit, Bounded, Within, Top
<1>7. Tracked
  BY DEF RInit, Tracked
<1> QED
  BY <1>4, <1>5, <1>6, <1>7 DEF RInv

\* RInv is inductive.
LEMMA RInvHolds == RSpec => []RInv
<1>1. RInit => RInv
  BY RInitHolds
<1>2. RInv /\ [RNext]_rvars => RInv'
  BY TypesStep, BackedStep, BoundedStep, TrackedStep DEF RInv
<1> QED
  BY <1>1, <1>2, PTL DEF RSpec

\* A record's missing numbers, as MissingAt gives them.
LEMMA MissingNumbers ==
  ASSUME NEW i, IsRecord(i)
  PROVE  \A x : x \in MissingAt(i) <=> x \in Int /\ Hole(i.holes, x)
<1>1. Tidy(i.holes)
  BY DEF IsRecord
<1> QED
  BY <1>1, MissingMeaning DEF MissingAt

\* Whatever the order of handshakes, late messages, backfilled blocks, disconnects,
\* crashes and restarts: until Backfill jumps to the boat's head, InstanceState.Cursor
\* never passes a frame that neither arrived nor was dropped on a full channel or
\* lost by a crash.
THEOREM CursorNeverPassesAGap == RSpec => []CursorBacked
<1>1. RInv => CursorBacked
  <2> SUFFICES ASSUME RInv, ~jumped PROVE 1..inst.cursor \subseteq (received \union lost)
    BY DEF CursorBacked
  <2>1. inst.cursor \in Nat
    BY RecordFields DEF RInv, Types
  <2>2. \A x \in Nat : 1 <= x /\ x <= inst.cursor => x \in received \union lost
    BY DEF RInv, AllBacked, Backed, Got
  <2> QED
    BY <2>1, <2>2
<1> QED
  BY <1>1, RInvHolds, PTL

\* On an open connection, until Backfill jumps, every number below the live
\* consumer's cursor has arrived, is lost, is in a hole or is in flight: Handshake
\* leaves no gap untracked.
THEOREM NoGapUntracked == RSpec => []GapsTracked
<1>1. RInv => GapsTracked
  <2> SUFFICES ASSUME RInv, conn = "up", ~jumped, NEW s \in 1..(liveNext - 1)
               PROVE  \/ s \in received \union lost \/ s \in MissingAt(inst)
                      \/ \E i \in DOMAIN liveQ : liveQ[i] = FrameMsg(s)
    BY DEF GapsTracked
  <2>1. liveNext \in Nat /\ IsRecord(inst) /\ DOMAIN liveQ = 1..Len(liveQ)
    BY DEF RInv, Types
  <2>2. s \in Nat /\ s \in Int /\ 1 <= s /\ s < liveNext
    BY <2>1
  <2>3. s \in Got \/ Hole(inst.holes, s) \/ InFlight(s)
    BY <2>2 DEF RInv, Tracked
  <2>4. Hole(inst.holes, s) => s \in MissingAt(inst)
    BY <2>1, <2>2, MissingNumbers
  <2> QED
    BY <2>1, <2>3, <2>4 DEF Got, InFlight
<1> QED
  BY <1>1, RInvHolds, PTL

\* A number leaves the holes of the running cloud only in Backfill's handler, and
\* then its block has been written: no hole is closed without its data.
THEOREM HolesCloseWithData == RSpec => HoleClosedByData
<1> DEFINE Step == crashes' = crashes =>
                     \A s \in MissingAt(inst) \ MissingAt(inst') : s \in durable'
<1>1. RInv /\ RInv' /\ [RNext]_rvars => [Step]_rvars
  <2> SUFFICES ASSUME RInv, RInv', [RNext]_rvars, crashes' = crashes,
                      NEW s \in MissingAt(inst) \ MissingAt(inst')
               PROVE  s \in durable'
    OBVIOUS
  <2>1. Types /\ IsRecord(inst) /\ IsRecord(inst')
    BY DEF RInv, Types
  <2>2. s \in Int /\ Hole(inst.holes, s) /\ ~Hole(inst'.holes, s)
    BY <2>1, MissingNumbers
  <2>3. ASSUME NEW k \in Blocks, BackfillBlock(k) PROVE s \in durable'
    <3>1. CASE UNCHANGED cloudVars
      BY <2>2, <3>1 DEF cloudVars
    <3>2. CASE ~UNCHANGED cloudVars
      BY <2>1, <2>2, <2>3, <3>2, FillEffect
    <3> QED
      BY <3>1, <3>2
  <2>4. ASSUME NEW m \in Msgs, LiveMessage(m) PROVE FALSE
    BY <2>1, <2>2, <2>4, LiveEffect
  <2>5. CASE BackfillRecv \/ OldFillRecv
    BY <2>1, <2>3, <2>5, Pieces DEF BackfillRecv, OldFillRecv, Types
  <2>6. CASE LiveRecv \/ OldLiveRecv
    BY <2>1, <2>4, <2>6, Pieces DEF LiveRecv, OldLiveRecv, Types
  <2>7. CASE Handshake
    BY <2>1, <2>2, <2>7, HandshakeEffect
  <2>8. CASE CloudCrash \/ CloudRestart
    <3>1. crashes' = crashes + 1 /\ crashes \in Nat
      BY <2>1, <2>8 DEF CloudCrash, CloudRestart, Types
    <3> QED
      BY <3>1
  <2>9. CASE inst' = inst
    BY <2>2, <2>9
  <2>10. BoatFrame \/ BoatFlush \/ Boat \/ BackfillEOF \/ CloudFlush \/ Disconnect
            \/ OldStreamError \/ UNCHANGED rvars => inst' = inst
    BY DEF BoatFrame, BoatFlush, Boat, Dial, SendFrame, SendStatus, SendHole, BackfillEOF,
           CloudFlush, Disconnect, OldStreamError, rvars, cloudVars
  <2> QED
    BY <2>5, <2>6, <2>7, <2>8, <2>9, <2>10 DEF RNext, Cloud, Faults, Leftovers
<1>2. HoleClosedByData <=> [][Step]_rvars
  BY PTL DEF HoleClosedByData
<1> HIDE DEF Step
<1> QED
  BY <1>1, <1>2, RInvHolds, PTL DEF RSpec
=============================================================================
