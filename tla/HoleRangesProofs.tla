-------------------------- MODULE HoleRangesProofs --------------------------
(***************************************************************************)
(* What the hole tracker's loops (replication.go) compute, for slices of   *)
(* any length and ranges of any size.                                      *)
(***************************************************************************)
EXTENDS HoleRanges, WellFoundedInduction, TLAPS

-----------------------------------------------------------------------------
(* Loops *)

\* Induction over the rounds of a loop, for a set of rounds.
LEMMA AllRounds ==
  ASSUME NEW n \in Nat, NEW G, 0 \in G, \A i \in 1..n : i - 1 \in G => i \in G
  PROVE  0..n \subseteq G
<1> DEFINE B == (0..n) \ G
<1> SUFFICES ASSUME B # {} PROVE FALSE
  OBVIOUS
<1>1. B \subseteq Nat
  OBVIOUS
<1>2. PICK m \in B : \A y \in B : ~(<<y, m>> \in OpToRel(<, Nat))
  BY <1>1, WFMin, NatLessThanWellFounded
<1>3. \A y \in B : ~(y < m)
  BY <1>1, <1>2 DEF OpToRel
<1>4. m \in 1..n /\ m \notin G
  OBVIOUS
<1>5. m - 1 \in 0..n /\ m - 1 < m
  BY <1>4
<1>6. m - 1 \in G
  BY <1>3, <1>5
<1> QED
  BY <1>4, <1>6

\* The record of n rounds of a loop that starts with x and does F[i] in round i.
IsRun(g, V, F, x, n) ==
  /\ g \in [0..n -> V]
  /\ g[0] = x
  /\ \A i \in 1..n : g[i] = F[i][g[i - 1]]

\* A loop that turns a value of V into another, round by round, has a record of
\* its rounds.
LEMMA LoopExists ==
  ASSUME NEW n \in Nat, NEW V, NEW x \in V, NEW F \in [1..n -> [V -> V]]
  PROVE  \E g : IsRun(g, V, F, x, n)
<1> DEFINE Run(g, k) == IsRun(g, V, F, x, k)
           G == {k \in 0..n : \E g : Run(g, k)}
<1>1. 0 \in G
  <2> DEFINE g == [i \in 0..0 |-> x]
  <2>1. Run(g, 0)
    BY DEF IsRun
  <2> HIDE DEF g, Run
  <2>2. \E h : Run(h, 0)
    BY <2>1, Zenon
  <2>3. 0 \in 0..n
    OBVIOUS
  <2> QED
    BY <2>2, <2>3, Zenon
<1>2. ASSUME NEW k \in 1..n, k - 1 \in G PROVE k \in G
  <2>0. PICK g : Run(g, k - 1)
    BY <1>2
  <2>1. /\ g \in [0..(k - 1) -> V] /\ g[0] = x
        /\ \A i \in 1..(k - 1) : g[i] = F[i][g[i - 1]]
    BY <2>0 DEF IsRun
  <2> DEFINE h == [i \in 0..k |-> IF i = k THEN F[k][g[k - 1]] ELSE g[i]]
  <2>2. F[k][g[k - 1]] \in V
    BY <2>1
  <2>3. h \in [0..k -> V]
    BY <2>1, <2>2
  <2>4. h[0] = x
    BY <2>1
  <2>5. ASSUME NEW i \in 1..k PROVE h[i] = F[i][h[i - 1]]
    <3>1. CASE i = k
      BY <3>1
    <3>2. CASE i # k
      <4>1. i \in 1..(k - 1) /\ h[i] = g[i] /\ h[i - 1] = g[i - 1]
        BY <3>2
      <4> QED
        BY <2>1, <4>1
    <3> QED
      BY <3>1, <3>2
  <2> HIDE DEF h
  <2>6. Run(h, k)
    BY <2>3, <2>4, <2>5 DEF IsRun
  <2> HIDE DEF Run
  <2>7. \E f : Run(f, k)
    BY <2>6, Zenon
  <2>8. k \in 0..n
    OBVIOUS
  <2> QED
    BY <2>7, <2>8, Zenon
<1> HIDE DEF G
<1>3. 0..n \subseteq G
  BY <1>1, <1>2, AllRounds
<1>4. n \in G
  BY <1>3
<1> QED
  BY <1>4 DEF G
-----------------------------------------------------------------------------
(* Slices of ranges *)

Ranges == [start : Nat, end : Nat]

\* The number x lies in the range r.
Inside(r, x) == r.start <= x /\ x < r.end

\* The number x is missing.
Hole(hs, x) == \E i \in 1..Len(hs) : Inside(hs[i], x)

\* Sorted, none empty, no two touch: the shape in which Add and Fill keep the slice.
Tidy(hs) ==
  /\ hs \in Seq(Ranges)
  /\ \A i \in 1..Len(hs) : hs[i].start < hs[i].end
  /\ \A i, j \in 1..Len(hs) : i < j => hs[i].end < hs[j].start

\* The bounds of a tidy slice's ranges are numbers.
LEMMA TidyType ==
  ASSUME NEW hs, Tidy(hs)
  PROVE  \A i \in 1..Len(hs) : hs[i] \in Ranges /\ hs[i].start \in Nat /\ hs[i].end \in Nat
<1> TAKE i \in 1..Len(hs)
<1>1. hs[i] \in Ranges
  BY DEF Tidy
<1> QED
  BY <1>1 DEF Ranges

\* The missing numbers, as a set and as a predicate.
LEMMA MissingMeaning ==
  ASSUME NEW hs, Tidy(hs)
  PROVE  \A x : x \in UNION {Seqs(hs[i]) : i \in DOMAIN hs} <=> x \in Int /\ Hole(hs, x)
<1>1. DOMAIN hs = 1..Len(hs)
  BY DEF Tidy
<1>2. ASSUME NEW i \in 1..Len(hs), NEW x PROVE x \in Seqs(hs[i]) <=> x \in Int /\ Inside(hs[i], x)
  <2>1. hs[i].start \in Nat /\ hs[i].end \in Nat
    BY TidyType
  <2> QED
    BY <2>1 DEF Seqs, Inside
<1> QED
  BY <1>1, <1>2 DEF Hole

\* Every range of a ends before every range of b starts, with a gap between.
Before(a, b) == \A i \in 1..Len(a), j \in 1..Len(b) : a[i].end < b[j].start

\* Numbers are ordered (stated once: the provers are slow to see it of fields).
LEMMA Transitive ==
  ASSUME NEW a \in Nat, NEW b \in Nat, NEW c \in Nat, a < b, b <= c
  PROVE  a < c
OBVIOUS

\* Two tidy slices, one before the other, make one.
LEMMA ConcatTidy ==
  ASSUME NEW a, Tidy(a), NEW b, Tidy(b), Before(a, b)
  PROVE  /\ Tidy(a \o b)
         /\ \A x : Hole(a \o b, x) <=> Hole(a, x) \/ Hole(b, x)
         /\ \A c : Before(a, c) /\ Before(b, c) => Before(a \o b, c)
<1> DEFINE u == a \o b
           n == Len(a)
           m == Len(b)
<1>1. a \in Seq(Ranges) /\ b \in Seq(Ranges) /\ n \in Nat /\ m \in Nat
  BY DEF Tidy
<1>2. u \in Seq(Ranges) /\ Len(u) = n + m
  BY <1>1
<1>3. /\ \A i \in 1..n : u[i] = a[i]
      /\ \A i \in 1..m : u[n + i] = b[i]
  BY <1>1
<1> HIDE DEF u, n, m
<1>4. \A i \in 1..(n + m) : (i \in 1..n /\ u[i] = a[i]) \/ (i > n /\ i - n \in 1..m /\ u[i] = b[i - n])
  <2> TAKE i \in 1..(n + m)
  <2>1. CASE i <= n
    BY <1>1, <1>3, <2>1
  <2>2. CASE i > n
    <3>1. i - n \in 1..m /\ n + (i - n) = i
      BY <1>1, <2>2
    <3>2. u[n + (i - n)] = b[i - n]
      BY <1>3, <3>1
    <3> QED
      BY <2>2, <3>1, <3>2
  <2> QED
    BY <1>1, <2>1, <2>2
<1>5. \A i \in 1..n : i \in 1..(n + m)
  BY <1>1
<1>6. \A i \in 1..m : n + i \in 1..(n + m)
  BY <1>1
<1>7. ASSUME NEW x PROVE Hole(u, x) <=> Hole(a, x) \/ Hole(b, x)
  <2>1. Hole(u, x) => Hole(a, x) \/ Hole(b, x)
    BY <1>2, <1>4 DEF Hole, n, m
  <2>2. Hole(a, x) => Hole(u, x)
    BY <1>2, <1>3, <1>5 DEF Hole, n
  <2>3. Hole(b, x) => Hole(u, x)
    BY <1>2, <1>3, <1>6 DEF Hole, m
  <2> QED
    BY <2>1, <2>2, <2>3
<1>8. ASSUME NEW c, Before(a, c), Before(b, c) PROVE Before(u, c)
  BY <1>2, <1>4, <1>8 DEF Before, n, m
<1>9. Tidy(u)
  <2>1. \A i \in 1..(n + m) : u[i].start < u[i].end
    BY <1>4 DEF Tidy, n, m
  <2>2. ASSUME NEW i \in 1..(n + m), NEW j \in 1..(n + m), i < j PROVE u[i].end < u[j].start
    <3>1. CASE i \in 1..n /\ u[i] = a[i] /\ j \in 1..n /\ u[j] = a[j]
      BY <2>2, <3>1 DEF Tidy, n
    <3>2. CASE i \in 1..n /\ u[i] = a[i] /\ j - n \in 1..m /\ u[j] = b[j - n]
      BY <3>2 DEF Before, n, m
    <3>3. CASE i - n \in 1..m /\ u[i] = b[i - n] /\ j - n \in 1..m /\ u[j] = b[j - n]
      <4>1. i - n < j - n
        BY <1>1, <2>2
      <4> QED
        BY <3>3, <4>1 DEF Tidy, m
    <3>4. CASE i > n /\ j \in 1..n
      BY <1>1, <2>2, <3>4
    <3> QED
      BY <1>4, <3>1, <3>2, <3>3, <3>4
  <2> QED
    BY <1>2, <2>1, <2>2 DEF Tidy
<1> QED
  BY <1>7, <1>8, <1>9 DEF u

\* A slice of one range, and the empty one.
LEMMA OneRange ==
  /\ Tidy(<<>>) /\ \A x : ~Hole(<<>>, x)
  /\ \A b : Before(<<>>, b) /\ Before(b, <<>>)
  /\ \A r \in Ranges : r.start < r.end =>
       /\ Tidy(<<r>>)
       /\ \A x : Hole(<<r>>, x) <=> Inside(r, x)
<1>1. Tidy(<<>>) /\ \A x : ~Hole(<<>>, x)
  BY DEF Tidy, Hole
<1>2. \A b : Before(<<>>, b) /\ Before(b, <<>>)
  BY DEF Before
<1>3. ASSUME NEW r \in Ranges, r.start < r.end
      PROVE  Tidy(<<r>>) /\ \A x : Hole(<<r>>, x) <=> Inside(r, x)
  <2>1. <<r>> \in Seq(Ranges) /\ Len(<<r>>) = 1 /\ <<r>>[1] = r
    OBVIOUS
  <2>2. \A i \in 1..1 : i = 1
    OBVIOUS
  <2>3. 1 \in 1..1
    OBVIOUS
  <2> QED
    BY <1>3, <2>1, <2>2, <2>3 DEF Tidy, Hole
<1> QED
  BY <1>1, <1>2, <1>3
-----------------------------------------------------------------------------
(* Add *)

Acc == [merged : Ranges, result : Seq(Ranges), inserted : BOOLEAN]

\* One round of Add's loop: the hole is before the new range, after it, or merged.
LEMMA AddStepCases ==
  ASSUME NEW acc \in Acc, NEW h \in Ranges
  PROVE  /\ AddStep(acc, h) \in Acc
         /\ \/ /\ h.end < acc.merged.start
               /\ AddStep(acc, h).result = acc.result \o <<h>>
               /\ AddStep(acc, h).merged = acc.merged /\ AddStep(acc, h).inserted = acc.inserted
            \/ /\ h.start > acc.merged.end /\ acc.inserted
               /\ AddStep(acc, h).result = acc.result \o <<h>>
               /\ AddStep(acc, h).merged = acc.merged /\ AddStep(acc, h).inserted
            \/ /\ h.start > acc.merged.end /\ ~acc.inserted
               /\ AddStep(acc, h).result = acc.result \o (<<acc.merged>> \o <<h>>)
               /\ AddStep(acc, h).merged = acc.merged /\ AddStep(acc, h).inserted
            \/ /\ h.end >= acc.merged.start /\ h.start <= acc.merged.end
               /\ AddStep(acc, h).result = acc.result
               /\ AddStep(acc, h).merged.start = Least(acc.merged.start, h.start)
               /\ AddStep(acc, h).merged.end = Greatest(acc.merged.end, h.end)
               /\ AddStep(acc, h).inserted = acc.inserted
<1> DEFINE m == acc.merged
           w == AddStep(acc, h)
<1>1. /\ m \in Ranges /\ acc.result \in Seq(Ranges) /\ acc.inserted \in BOOLEAN
      /\ m.start \in Nat /\ m.end \in Nat /\ h.start \in Nat /\ h.end \in Nat
  BY DEF Acc, Ranges
<1>2. /\ Append(acc.result, h) = acc.result \o <<h>> /\ acc.result \o <<h>> \in Seq(Ranges)
      /\ <<m, h>> = <<m>> \o <<h>> /\ acc.result \o <<m, h>> \in Seq(Ranges)
  <2> HIDE DEF m, w
  <2>1. Append(acc.result, h) = acc.result \o <<h>>
    BY <1>1
  <2>2. <<m, h>> = <<m>> \o <<h>>
    BY <1>1
  <2>3. <<h>> \in Seq(Ranges) /\ <<m, h>> \in Seq(Ranges)
    BY <1>1
  <2>4. acc.result \o <<h>> \in Seq(Ranges) /\ acc.result \o <<m, h>> \in Seq(Ranges)
    BY <1>1, <2>3
  <2> QED
    BY <2>1, <2>2, <2>4
<1>3. CASE h.end < m.start
  <2>1. w = [acc EXCEPT !.result = Append(acc.result, h)]
    BY <1>3 DEF AddStep
  <2> QED
    BY <1>1, <1>2, <1>3, <2>1 DEF Acc
<1>4. CASE ~(h.end < m.start) /\ h.start > m.end /\ acc.inserted
  <2>1. w = [acc EXCEPT !.result = Append(acc.result, h), !.inserted = TRUE]
    BY <1>4 DEF AddStep
  <2> QED
    BY <1>1, <1>2, <1>4, <2>1 DEF Acc
<1>5. CASE ~(h.end < m.start) /\ h.start > m.end /\ ~acc.inserted
  <2>1. w = [acc EXCEPT !.result = acc.result \o <<m, h>>, !.inserted = TRUE]
    BY <1>5 DEF AddStep
  <2> QED
    BY <1>1, <1>2, <1>5, <2>1 DEF Acc
<1>6. CASE ~(h.end < m.start) /\ ~(h.start > m.end)
  <2> DEFINE r == Range2(Least(m.start, h.start), Greatest(m.end, h.end))
  <2>1. w = [acc EXCEPT !.merged = r]
    BY <1>6 DEF AddStep
  <2>2. Least(m.start, h.start) \in Nat /\ Greatest(m.end, h.end) \in Nat
    BY <1>1 DEF Least, Greatest
  <2>3. r \in Ranges /\ r.start = Least(m.start, h.start) /\ r.end = Greatest(m.end, h.end)
    BY <2>2 DEF Range2, Ranges
  <2>4. h.end >= m.start /\ h.start <= m.end
    BY <1>1, <1>6
  <2> HIDE DEF r
  <2>5. w \in Acc /\ w.result = acc.result /\ w.merged = r /\ w.inserted = acc.inserted
    BY <1>1, <2>1, <2>3 DEF Acc
  <2> QED
    BY <2>3, <2>4, <2>5
<1> QED
  BY <1>3, <1>4, <1>5, <1>6

\* The rounds of Add's loop are what its body says.
LEMMA AddRounds ==
  ASSUME NEW hs \in Seq(Ranges), NEW s \in Nat, NEW e \in Nat
  PROVE  /\ AddLoop(hs, s, e) \in [0..Len(hs) -> Acc]
         /\ AddLoop(hs, s, e)[0] = [merged |-> Range2(s, e), result |-> <<>>, inserted |-> FALSE]
         /\ \A i \in 1..Len(hs) : AddLoop(hs, s, e)[i] = AddStep(AddLoop(hs, s, e)[i - 1], hs[i])
<1> DEFINE n == Len(hs)
           x == [merged |-> Range2(s, e), result |-> <<>>, inserted |-> FALSE]
           F == [i \in 1..n |-> [acc \in Acc |-> AddStep(acc, hs[i])]]
           Body(g, i) == IF i = 0 THEN x ELSE AddStep(g[i - 1], hs[i])
<1>1. n \in Nat /\ \A i \in 1..n : hs[i] \in Ranges
  OBVIOUS
<1>2. x \in Acc
  BY DEF Acc, Range2, Ranges
<1> HIDE DEF n, x
<1>3. F \in [1..n -> [Acc -> Acc]]
  BY <1>1, AddStepCases
<1>a. PICK g : IsRun(g, Acc, F, x, n)
  <2> HIDE DEF F, Body
  <2> QED
    BY <1>1, <1>2, <1>3, LoopExists
<1>4. g \in [0..n -> Acc] /\ g[0] = x /\ \A i \in 1..n : g[i] = F[i][g[i - 1]]
  BY <1>a DEF IsRun
<1>5. ASSUME NEW i \in 1..n PROVE g[i] = AddStep(g[i - 1], hs[i])
  <2>1. i - 1 \in 0..n
    BY <1>1
  <2>2. g[i - 1] \in Acc
    BY <1>4, <2>1
  <2> QED
    BY <1>4, <2>2
<1>6. \A i \in 0..n : g[i] = Body(g, i)
  BY <1>1, <1>4, <1>5
<1> HIDE DEF Body
<1>7. g = [i \in 0..n |-> Body(g, i)]
  BY <1>4, <1>6
<1> DEFINE L == AddLoop(hs, s, e)
<1>8. L = CHOOSE f : f = [i \in 0..n |-> Body(f, i)]
  BY DEF AddLoop, Body, n, x
<1>9. L = [i \in 0..n |-> Body(L, i)]
  BY <1>7, <1>8
<1> HIDE DEF L
<1>10. \A i \in 0..n : L[i] = Body(L, i)
  BY <1>9
<1>11. L[0] = x
  BY <1>1, <1>10 DEF Body
<1>12. \A i \in 1..n : L[i] = AddStep(L[i - 1], hs[i])
  BY <1>1, <1>10 DEF Body
<1>13. \A i \in 0..n : L[i] \in Acc
  <2> DEFINE G == {i \in 0..n : L[i] \in Acc}
  <2>1. 0 \in G
    BY <1>1, <1>2, <1>11
  <2>2. ASSUME NEW i \in 1..n, i - 1 \in G PROVE i \in G
    <3>1. L[i - 1] \in Acc /\ hs[i] \in Ranges /\ i \in 0..n
      BY <1>1, <2>2
    <3>2. AddStep(L[i - 1], hs[i]) \in Acc
      BY <3>1, AddStepCases, Zenon
    <3> QED
      BY <1>12, <3>1, <3>2
  <2> HIDE DEF G
  <2>3. 0..n \subseteq G
    BY <1>1, <2>1, <2>2, AllRounds
  <2> QED
    BY <2>3 DEF G
<1>14. L \in [0..n -> Acc]
  BY <1>9, <1>13
<1> QED
  BY <1>11, <1>12, <1>14 DEF L, n, x

\* The number x lies in one of the first i ranges.
Among(hs, i, x) == \E j \in 1..i : Inside(hs[j], x)

\* Before round i + 1 of Add: the ranges written so far are tidy and before what
\* is still to come; the new range, grown by what it has absorbed, is still to be
\* written after them, or is among them and everything still to come is after it;
\* and nothing is lost or made up.
AddInv(acc, hs, s, e, i) ==
  /\ acc \in Acc
  /\ Tidy(acc.result) /\ acc.merged.start < acc.merged.end
  /\ \A k \in (i + 1)..Len(hs) : Before(acc.result, <<hs[k]>>)
  /\ ~acc.inserted => Before(acc.result, <<acc.merged>>)
  /\ acc.inserted => \A k \in (i + 1)..Len(hs) : acc.merged.end < hs[k].start
  /\ \A x \in Int : Hole(acc.result, x) \/ (~acc.inserted /\ Inside(acc.merged, x))
                   <=> (s <= x /\ x < e) \/ Among(hs, i, x)

\* A range that ends before another one starts, in terms of slices.
LEMMA BeforeOne ==
  ASSUME NEW a, NEW r
  PROVE  Before(a, <<r>>) <=> \A i \in 1..Len(a) : a[i].end < r.start
<1>1. Len(<<r>>) = 1 /\ <<r>>[1] = r
  OBVIOUS
<1>2. \A j \in 1..1 : j = 1
  OBVIOUS
<1>3. 1 \in 1..1
  OBVIOUS
<1> QED
  BY <1>1, <1>2, <1>3 DEF Before

\* One range before another.
LEMMA OneBeforeOne ==
  ASSUME NEW q, NEW r
  PROVE  Before(<<q>>, <<r>>) <=> q.end < r.start
<1>1. Len(<<q>>) = 1 /\ <<q>>[1] = q
  OBVIOUS
<1>2. \A j \in 1..1 : j = 1
  OBVIOUS
<1>3. 1 \in 1..1
  OBVIOUS
<1> QED
  BY <1>1, <1>2, <1>3, BeforeOne

\* One more range among the first ones.
LEMMA AmongNext ==
  ASSUME NEW hs, NEW i \in Nat, i > 0, NEW x
  PROVE  Among(hs, i, x) <=> Among(hs, i - 1, x) \/ Inside(hs[i], x)
<1>1. 1..i = 1..(i - 1) \union {i}
  OBVIOUS
<1> QED
  BY <1>1 DEF Among

\* A round of Add keeps AddInv.
LEMMA AddRoundKeeps ==
  ASSUME NEW hs, Tidy(hs), NEW s \in Nat, NEW e \in Nat, NEW i \in 1..Len(hs),
         NEW acc, AddInv(acc, hs, s, e, i - 1)
  PROVE  AddInv(AddStep(acc, hs[i]), hs, s, e, i)
<1> DEFINE h == hs[i]
           m == acc.merged
           w == AddStep(acc, h)
           n == Len(hs)
           Later == (i + 1)..n
<1>1. /\ hs \in Seq(Ranges) /\ n \in Nat /\ i \in Nat /\ i > 0 /\ i \in 1..n /\ h \in Ranges
      /\ \A k \in Later : k \in 1..n /\ i < k /\ k \in ((i - 1) + 1)..n /\ hs[k] \in Ranges
      /\ i \in ((i - 1) + 1)..n
  BY DEF Tidy
<1>2. /\ h.start < h.end /\ \A k \in Later : h.end < hs[k].start
      /\ h.start \in Nat /\ h.end \in Nat /\ \A k \in Later : hs[k].start \in Nat
  BY <1>1 DEF Tidy, Ranges
<1>3. /\ acc \in Acc /\ m \in Ranges /\ m.start \in Nat /\ m.end \in Nat /\ m.start < m.end
      /\ Tidy(acc.result) /\ acc.inserted \in BOOLEAN
  BY DEF AddInv, Acc, Ranges
<1>4. Before(acc.result, <<h>>) /\ \A k \in Later : Before(acc.result, <<hs[k]>>)
  BY <1>1 DEF AddInv
<1>5. ~acc.inserted => Before(acc.result, <<m>>)
  BY DEF AddInv
<1>6. acc.inserted => m.end < h.start /\ \A k \in Later : m.end < hs[k].start
  BY <1>1 DEF AddInv
<1>7. \A x \in Int : Hole(acc.result, x) \/ (~acc.inserted /\ Inside(m, x))
                   <=> (s <= x /\ x < e) \/ Among(hs, i - 1, x)
  BY DEF AddInv
<1>8. \A x \in Int : Among(hs, i, x) <=> Among(hs, i - 1, x) \/ Inside(h, x)
  BY <1>1, AmongNext
<1>9. Tidy(<<h>>) /\ Tidy(<<m>>) /\ \A x : (Hole(<<h>>, x) <=> Inside(h, x)) /\ (Hole(<<m>>, x) <=> Inside(m, x))
  BY <1>1, <1>2, <1>3, OneRange
<1>10. \A k \in Later : Before(<<h>>, <<hs[k]>>)
  BY <1>2, OneBeforeOne
<1> HIDE DEF h, m, w, n, Later
<1>11. w \in Acc
  BY <1>1, <1>3, AddStepCases DEF w
<1>12. CASE w.result = acc.result \o <<h>> /\ w.merged = m /\ w.inserted = acc.inserted
            /\ (acc.inserted \/ h.end < m.start)
  <2>1. /\ Tidy(w.result)
        /\ \A x : Hole(w.result, x) <=> Hole(acc.result, x) \/ Inside(h, x)
        /\ \A c : Before(acc.result, c) /\ Before(<<h>>, c) => Before(w.result, c)
    <3> DEFINE a == acc.result
    <3>1. Tidy(a) /\ Tidy(<<h>>) /\ Before(a, <<h>>)
      BY <1>3, <1>4, <1>9
    <3> HIDE DEF a
    <3>2. /\ Tidy(a \o <<h>>)
          /\ \A x : Hole(a \o <<h>>, x) <=> Hole(a, x) \/ Hole(<<h>>, x)
          /\ \A c : Before(a, c) /\ Before(<<h>>, c) => Before(a \o <<h>>, c)
      BY <3>1, ConcatTidy
    <3>3. w.result = a \o <<h>>
      BY <1>12 DEF a
    <3> QED
      BY <1>9, <3>2, <3>3 DEF a
  <2>2. \A k \in Later : Before(w.result, <<hs[k]>>)
    BY <1>4, <1>10, <2>1
  <2>3. ~w.inserted => Before(w.result, <<w.merged>>)
    <3>1. h.end < m.start => Before(<<h>>, <<m>>)
      BY OneBeforeOne
    <3> QED
      BY <1>5, <1>12, <2>1, <3>1
  <2>4. w.inserted => \A k \in Later : w.merged.end < hs[k].start
    BY <1>6, <1>12
  <2>5. \A x \in Int : Hole(w.result, x) \/ (~w.inserted /\ Inside(w.merged, x))
                     <=> (s <= x /\ x < e) \/ Among(hs, i, x)
    BY <1>7, <1>8, <1>12, <2>1
  <2> QED
    BY <1>3, <1>11, <1>12, <2>1, <2>2, <2>3, <2>4, <2>5 DEF AddInv, Later, n, w, h
<1>13. CASE /\ w.result = acc.result \o (<<m>> \o <<h>>) /\ w.merged = m /\ w.inserted
            /\ ~acc.inserted /\ h.start > m.end
  <2> DEFINE mh == <<m>> \o <<h>>
  <2>1. Before(<<m>>, <<h>>)
    BY <1>2, <1>3, <1>13, OneBeforeOne
  <2>2. /\ Tidy(mh) /\ \A x : Hole(mh, x) <=> Inside(m, x) \/ Inside(h, x)
        /\ \A c : Before(<<m>>, c) /\ Before(<<h>>, c) => Before(mh, c)
    BY <1>9, <2>1, ConcatTidy
  <2>3. Before(acc.result, mh)
    <3>1. \A j \in 1..Len(mh) : mh[j] = m \/ mh[j] = h
      OBVIOUS
    <3>2. \A j \in 1..Len(acc.result) : acc.result[j].end < m.start /\ acc.result[j].end < h.start
      BY <1>4, <1>5, <1>13, BeforeOne
    <3> HIDE DEF mh
    <3> QED
      BY <3>1, <3>2 DEF Before
  <2> HIDE DEF mh
  <2>4. /\ Tidy(w.result)
        /\ \A x : Hole(w.result, x) <=> Hole(acc.result, x) \/ Hole(mh, x)
        /\ \A c : Before(acc.result, c) /\ Before(mh, c) => Before(w.result, c)
    <3> DEFINE a == acc.result
    <3>1. Tidy(a) /\ Tidy(mh) /\ Before(a, mh)
      BY <1>3, <2>2, <2>3
    <3> HIDE DEF a
    <3>2. /\ Tidy(a \o mh)
          /\ \A x : Hole(a \o mh, x) <=> Hole(a, x) \/ Hole(mh, x)
          /\ \A c : Before(a, c) /\ Before(mh, c) => Before(a \o mh, c)
      BY <3>1, ConcatTidy
    <3>3. w.result = a \o mh
      BY <1>13 DEF a, mh
    <3> QED
      BY <3>2, <3>3 DEF a
  <2>5. \A k \in Later : m.end < hs[k].start
    <3> TAKE k \in Later
    <3>1. /\ m.end \in Nat /\ h.start \in Nat /\ h.end \in Nat /\ hs[k].start \in Nat
          /\ m.end < h.start /\ h.start < h.end /\ h.end < hs[k].start
      BY <1>2, <1>3, <1>13
    <3>2. m.end < h.end
      BY <3>1, Transitive
    <3> QED
      BY <3>1, <3>2, Transitive
  <2>6. \A k \in Later : Before(<<m>>, <<hs[k]>>)
    BY <2>5, OneBeforeOne
  <2>7. \A k \in Later : Before(w.result, <<hs[k]>>)
    BY <1>4, <1>10, <2>2, <2>4, <2>6
  <2>8. \A x \in Int : Hole(w.result, x) \/ (~w.inserted /\ Inside(w.merged, x))
                     <=> (s <= x /\ x < e) \/ Among(hs, i, x)
    BY <1>7, <1>8, <1>13, <2>2, <2>4
  <2> QED
    BY <1>3, <1>11, <1>13, <2>4, <2>5, <2>7, <2>8 DEF AddInv, Later, n, w, h
<1>14. CASE /\ h.end >= m.start /\ h.start <= m.end /\ ~acc.inserted
            /\ w.result = acc.result /\ w.inserted = acc.inserted
            /\ w.merged.start = Least(m.start, h.start) /\ w.merged.end = Greatest(m.end, h.end)
  <2>1. w.merged.start < w.merged.end
    BY <1>2, <1>3, <1>14 DEF Least, Greatest
  <2>2. Before(w.result, <<w.merged>>)
    <3>1. \A j \in 1..Len(acc.result) : acc.result[j].end < m.start /\ acc.result[j].end < h.start
      BY <1>4, <1>5, <1>14, BeforeOne
    <3>2. \A j \in 1..Len(w.result) : w.result[j].end < w.merged.start
      BY <1>14, <3>1 DEF Least
    <3> QED
      BY <3>2, BeforeOne
  <2>3. \A x \in Int : Inside(w.merged, x) <=> Inside(m, x) \/ Inside(h, x)
    BY <1>2, <1>3, <1>14 DEF Inside, Least, Greatest
  <2>4. \A x \in Int : Hole(w.result, x) \/ (~w.inserted /\ Inside(w.merged, x))
                     <=> (s <= x /\ x < e) \/ Among(hs, i, x)
    BY <1>7, <1>8, <1>14, <2>3
  <2> QED
    BY <1>3, <1>4, <1>11, <1>14, <2>1, <2>2, <2>4 DEF AddInv, Later, n, w, h
<1>15. \/ /\ h.end < m.start
          /\ w.result = acc.result \o <<h>>
          /\ w.merged = m /\ w.inserted = acc.inserted
       \/ /\ h.start > m.end /\ acc.inserted
          /\ w.result = acc.result \o <<h>>
          /\ w.merged = m /\ w.inserted
       \/ /\ h.start > m.end /\ ~acc.inserted
          /\ w.result = acc.result \o (<<m>> \o <<h>>)
          /\ w.merged = m /\ w.inserted
       \/ /\ h.end >= m.start /\ h.start <= m.end
          /\ w.result = acc.result
          /\ w.merged.start = Least(m.start, h.start)
          /\ w.merged.end = Greatest(m.end, h.end)
          /\ w.inserted = acc.inserted
  BY <1>1, <1>3, AddStepCases, Zenon DEF w, m
<1>16. w.inserted \in BOOLEAN
  BY <1>11 DEF Acc
<1>17. CASE acc.inserted
  <2>1. ~(h.start <= m.end)
    BY <1>2, <1>3, <1>6, <1>17
  <2> QED
    BY <1>3, <1>12, <1>15, <1>16, <1>17, <2>1 DEF w, h
<1>18. CASE ~acc.inserted
  BY <1>12, <1>13, <1>14, <1>15, <1>18 DEF w, h
<1> QED
  BY <1>17, <1>18

\* HoleTracker.Add: the slice stays tidy, and exactly the range is added to what
\* is missing.
LEMMA AddMeaning ==
  ASSUME NEW hs, Tidy(hs), NEW s \in Nat, NEW e \in Nat
  PROVE  /\ Tidy(Add(hs, s, e))
         /\ \A x \in Int : Hole(Add(hs, s, e), x) <=> Hole(hs, x) \/ (s <= x /\ x < e)
<1>1. CASE s >= e
  <2>1. Add(hs, s, e) = hs
    BY <1>1 DEF Add
  <2> QED
    BY <1>1, <2>1
<1>2. CASE s < e
  <2> DEFINE n == Len(hs)
             L == AddLoop(hs, s, e)
             G == {i \in 0..n : AddInv(L[i], hs, s, e, i)}
             last == L[n]
  <2>1. hs \in Seq(Ranges) /\ n \in Nat
    BY DEF Tidy
  <2>2. /\ L[0] = [merged |-> Range2(s, e), result |-> <<>>, inserted |-> FALSE]
        /\ \A i \in 1..n : L[i] = AddStep(L[i - 1], hs[i])
        /\ L \in [0..n -> Acc]
    BY <2>1, AddRounds
  <2> HIDE DEF L
  <2>3. 0 \in G
    <3> DEFINE a == L[0]
    <3>0. 0 \in 0..n
      BY <2>1
    <3>a. a \in Acc
      BY <2>2, <3>0
    <3>b. a.result = <<>> /\ ~a.inserted /\ a.merged = Range2(s, e)
      BY <2>2
    <3>1. a \in Acc /\ a.result = <<>> /\ ~a.inserted /\ a.merged.start = s /\ a.merged.end = e
      BY <3>a, <3>b DEF Range2
    <3> HIDE DEF a
    <3>2. Tidy(a.result) /\ \A b : Before(a.result, b)
      BY <3>1, OneRange
    <3>3. \A x \in Int : ~Hole(a.result, x) /\ ~Among(hs, 0, x)
      BY <3>1, OneRange DEF Among
    <3>4. \A x \in Int : Inside(a.merged, x) <=> s <= x /\ x < e
      BY <3>1 DEF Inside
    <3>5. AddInv(a, hs, s, e, 0)
      BY <1>2, <3>1, <3>2, <3>3, <3>4 DEF AddInv
    <3> QED
      BY <2>1, <3>5 DEF a
  <2>4. ASSUME NEW i \in 1..n, i - 1 \in G PROVE i \in G
    <3>1. AddInv(AddStep(L[i - 1], hs[i]), hs, s, e, i)
      BY <2>4, AddRoundKeeps
    <3> QED
      BY <2>1, <2>2, <3>1
  <2>5. n \in G
    <3> HIDE DEF G
    <3>1. 0..n \subseteq G
      BY <2>1, <2>3, <2>4, AllRounds
    <3> QED
      BY <2>1, <3>1
  <2>6. AddInv(last, hs, s, e, n)
    BY <2>5
  <2> HIDE DEF last, G
  <2>7. \A x \in Int : Hole(last.result, x) \/ (~last.inserted /\ Inside(last.merged, x))
                     <=> (s <= x /\ x < e) \/ Hole(hs, x)
    BY <2>6 DEF AddInv, Among, Hole
  <2>8. /\ Tidy(last.result) /\ last.merged \in Ranges /\ last.merged.start < last.merged.end
        /\ last.inserted \in BOOLEAN /\ last.result \in Seq(Ranges)
        /\ ~last.inserted => Before(last.result, <<last.merged>>)
    BY <2>6 DEF AddInv, Acc
  <2>9. Add(hs, s, e) = IF last.inserted THEN last.result ELSE Append(last.result, last.merged)
    BY <1>2 DEF Add, last, L, n
  <2>10. CASE last.inserted
    BY <2>7, <2>8, <2>9, <2>10
  <2>11. CASE ~last.inserted
    <3> DEFINE a == last.result
               b == <<last.merged>>
    <3>1. Append(a, last.merged) = a \o b
      BY <2>8
    <3>2. Tidy(a) /\ Tidy(b) /\ Before(a, b) /\ \A x : Hole(b, x) <=> Inside(last.merged, x)
      BY <2>8, <2>11, OneRange
    <3>3. Add(hs, s, e) = a \o b
      BY <2>9, <2>11, <3>1
    <3> HIDE DEF a, b
    <3>4. Tidy(a \o b) /\ \A x : Hole(a \o b, x) <=> Hole(a, x) \/ Hole(b, x)
      BY <3>2, ConcatTidy
    <3>5. \A x \in Int : Hole(a \o b, x) <=> Hole(hs, x) \/ (s <= x /\ x < e)
      BY <2>7, <2>11, <3>2, <3>4 DEF a
    <3> QED
      BY <3>3, <3>4, <3>5
  <2> QED
    BY <2>10, <2>11
<1> QED
  BY <1>1, <1>2
-----------------------------------------------------------------------------
(* Fill *)

\* What Fill leaves of one hole: its numbers outside the range, within its bounds.
LEMMA RemnantsMeaning ==
  ASSUME NEW h \in Ranges, h.start < h.end, NEW s \in Nat, NEW e \in Nat, s < e
  PROVE  /\ Tidy(Remnants(h, s, e))
         /\ \A x \in Int : Hole(Remnants(h, s, e), x) <=> Inside(h, x) /\ ~(s <= x /\ x < e)
         /\ \A j \in 1..Len(Remnants(h, s, e)) :
              /\ h.start <= Remnants(h, s, e)[j].start
              /\ Remnants(h, s, e)[j].end <= h.end
<1> DEFINE R == Remnants(h, s, e)
           l == Range2(h.start, s)
           r == Range2(e, h.end)
<1>1. h.start \in Nat /\ h.end \in Nat
  BY DEF Ranges
<1>2. l \in Ranges /\ r \in Ranges /\ l.start = h.start /\ l.end = s /\ r.start = e /\ r.end = h.end
  BY <1>1 DEF Range2, Ranges
<1>3. CASE ~Overlaps(h, s, e)
  <2>1. R = <<h>>
    BY <1>3 DEF Remnants
  <2>2. \A x \in Int : Inside(h, x) => ~(s <= x /\ x < e)
    BY <1>1, <1>3 DEF Inside, Overlaps
  <2>3. Tidy(R) /\ \A x : Hole(R, x) <=> Inside(h, x)
    BY <2>1, OneRange
  <2>4. \A j \in 1..Len(R) : R[j] = h
    BY <2>1
  <2> HIDE DEF R
  <2>5. \A j \in 1..Len(R) : h.start <= R[j].start /\ R[j].end <= h.end
    BY <1>1, <2>4
  <2> QED
    BY <2>2, <2>3, <2>5 DEF R
<1>4. CASE Overlaps(h, s, e)
  <2> DEFINE a == IF h.start < s THEN <<l>> ELSE <<>>
             b == IF h.end > e THEN <<r>> ELSE <<>>
  <2>1. R = a \o b
    BY <1>4 DEF Remnants
  <2>2. Tidy(a) /\ \A x \in Int : Hole(a, x) <=> Inside(h, x) /\ x < s
    <3>1. CASE h.start < s
      <4>1. Tidy(<<l>>) /\ \A x : Hole(<<l>>, x) <=> Inside(l, x)
        BY <1>2, <3>1, OneRange
      <4>2. \A x \in Int : Inside(l, x) <=> Inside(h, x) /\ x < s
        BY <1>1, <1>2, <1>4 DEF Inside, Overlaps
      <4> QED
        BY <3>1, <4>1, <4>2
    <3>2. CASE ~(h.start < s)
      <4>1. \A x \in Int : ~(Inside(h, x) /\ x < s)
        BY <1>1, <3>2 DEF Inside
      <4> QED
        BY <3>2, <4>1, OneRange
    <3> QED
      BY <3>1, <3>2
  <2>3. Tidy(b) /\ \A x \in Int : Hole(b, x) <=> Inside(h, x) /\ x >= e
    <3>1. CASE h.end > e
      <4>1. Tidy(<<r>>) /\ \A x : Hole(<<r>>, x) <=> Inside(r, x)
        BY <1>1, <1>2, <3>1, OneRange
      <4>2. \A x \in Int : Inside(r, x) <=> Inside(h, x) /\ x >= e
        BY <1>1, <1>2, <1>4 DEF Inside, Overlaps
      <4> QED
        BY <3>1, <4>1, <4>2
    <3>2. CASE ~(h.end > e)
      <4>1. \A x \in Int : ~(Inside(h, x) /\ x >= e)
        BY <1>1, <3>2 DEF Inside
      <4> QED
        BY <3>2, <4>1, OneRange
    <3> QED
      BY <3>1, <3>2
  <2>4. (\A j \in 1..Len(a) : a[j] = l) /\ (\A j \in 1..Len(b) : b[j] = r)
    OBVIOUS
  <2>5. \A j \in 1..Len(R) : R[j] = l \/ R[j] = r
    BY <2>1
  <2> HIDE DEF a, b
  <2>7. Before(a, b)
    BY <1>2, <2>4 DEF Before
  <2>8. /\ Tidy(a \o b)
        /\ \A x : Hole(a \o b, x) <=> Hole(a, x) \/ Hole(b, x)
    BY <2>2, <2>3, <2>7, ConcatTidy
  <2>9. \A x \in Int : Hole(R, x) <=> Inside(h, x) /\ ~(s <= x /\ x < e)
    BY <2>1, <2>2, <2>3, <2>8
  <2>10. Tidy(R)
    BY <2>1, <2>8
  <2>11. l.end <= h.end /\ h.start <= l.start /\ r.end <= h.end /\ h.start <= r.start
    BY <1>1, <1>2, <1>4 DEF Overlaps
  <2>12. \A j \in 1..Len(R) : h.start <= R[j].start /\ R[j].end <= h.end
    BY <2>5, <2>11
  <2> QED
    BY <2>9, <2>10, <2>12
<1> QED
  BY <1>3, <1>4

\* The rounds of Fill's loop are what its body says.
LEMMA FillRounds ==
  ASSUME NEW hs, Tidy(hs), NEW s \in Nat, NEW e \in Nat, s < e
  PROVE  /\ FillLoop(hs, s, e)[0] = <<>>
         /\ \A i \in 1..Len(hs) :
              FillLoop(hs, s, e)[i] = FillLoop(hs, s, e)[i - 1] \o Remnants(hs[i], s, e)
<1> DEFINE n == Len(hs)
           V == Seq(Ranges)
           Step(acc, i) == acc \o Remnants(hs[i], s, e)
           F == [i \in 1..n |-> [acc \in V |-> Step(acc, i)]]
           Body(g, i) == IF i = 0 THEN <<>> ELSE Step(g[i - 1], i)
<1>1. n \in Nat /\ \A i \in 1..n : hs[i] \in Ranges /\ hs[i].start < hs[i].end
  BY DEF Tidy
<1>2. <<>> \in V
  OBVIOUS
<1>3. \A i \in 1..n : Remnants(hs[i], s, e) \in Seq(Ranges)
  BY <1>1, RemnantsMeaning DEF Tidy
<1> HIDE DEF n
<1>4. F \in [1..n -> [V -> V]]
  BY <1>3
<1>5. PICK g : IsRun(g, V, F, <<>>, n)
  <2> HIDE DEF F, Body, V
  <2> QED
    BY <1>1, <1>2, <1>4, LoopExists
<1>6. g \in [0..n -> V] /\ g[0] = <<>> /\ \A i \in 1..n : g[i] = F[i][g[i - 1]]
  BY <1>5 DEF IsRun
<1> HIDE DEF Step
<1>7. ASSUME NEW i \in 1..n PROVE g[i] = Step(g[i - 1], i)
  <2>1. i - 1 \in 0..n
    BY <1>1
  <2>2. g[i - 1] \in V
    BY <1>6, <2>1
  <2> QED
    BY <1>6, <2>2
<1>8. \A i \in 0..n : g[i] = Body(g, i)
  BY <1>1, <1>6, <1>7
<1> HIDE DEF Body
<1>9. g = [i \in 0..n |-> Body(g, i)]
  BY <1>6, <1>8
<1> DEFINE L == FillLoop(hs, s, e)
<1>10. L = CHOOSE f : f = [i \in 0..n |-> Body(f, i)]
  BY DEF FillLoop, Body, Step, n
<1>11. L = [i \in 0..n |-> Body(L, i)]
  BY <1>9, <1>10
<1> HIDE DEF L
<1>12. \A i \in 0..n : L[i] = Body(L, i)
  BY <1>11
<1>13. L[0] = <<>> /\ \A i \in 1..n : L[i] = Step(L[i - 1], i)
  BY <1>1, <1>12 DEF Body
<1> QED
  BY <1>13, Zenon DEF Step, L, n

\* Before round i + 1 of Fill: the remnants so far are tidy, before what is still
\* to come, and hold the numbers of the first i holes but for the range.
FillInv(acc, hs, s, e, i) ==
  /\ Tidy(acc)
  /\ \A k \in (i + 1)..Len(hs) : Before(acc, <<hs[k]>>)
  /\ \A x \in Int : Hole(acc, x) <=> Among(hs, i, x) /\ ~(s <= x /\ x < e)

\* A round of Fill keeps FillInv.
LEMMA FillRoundKeeps ==
  ASSUME NEW hs, Tidy(hs), NEW s \in Nat, NEW e \in Nat, s < e, NEW i \in 1..Len(hs),
         NEW acc, FillInv(acc, hs, s, e, i - 1)
  PROVE  FillInv(acc \o Remnants(hs[i], s, e), hs, s, e, i)
<1> DEFINE h == hs[i]
           n == Len(hs)
           R == Remnants(h, s, e)
           Later == (i + 1)..n
<1>1. /\ n \in Nat /\ i \in Nat /\ i > 0 /\ h \in Ranges /\ h.start < h.end
      /\ \A k \in Later : k \in 1..n /\ i < k /\ k \in ((i - 1) + 1)..n /\ hs[k] \in Ranges
      /\ i \in ((i - 1) + 1)..n
  BY DEF Tidy
<1>2. /\ h.start \in Nat /\ h.end \in Nat
      /\ \A k \in Later : hs[k].start \in Nat /\ h.end < hs[k].start
  BY <1>1 DEF Tidy, Ranges
<1>3. /\ Tidy(acc) /\ Before(acc, <<h>>) /\ \A k \in Later : Before(acc, <<hs[k]>>)
      /\ \A x \in Int : Hole(acc, x) <=> Among(hs, i - 1, x) /\ ~(s <= x /\ x < e)
  BY <1>1 DEF FillInv
<1>4. /\ Tidy(R)
      /\ \A x \in Int : Hole(R, x) <=> Inside(h, x) /\ ~(s <= x /\ x < e)
      /\ \A j \in 1..Len(R) : h.start <= R[j].start /\ R[j].end <= h.end
  BY <1>1, RemnantsMeaning
<1>5. \A x \in Int : Among(hs, i, x) <=> Among(hs, i - 1, x) \/ Inside(h, x)
  BY <1>1, AmongNext
<1> HIDE DEF h, n, R, Later
<1>6. \A a : Tidy(a) => \A j \in 1..Len(a) : a[j].start \in Nat /\ a[j].end \in Nat
  BY TidyType
<1>7. Before(acc, R)
  <2>1. \A j \in 1..Len(acc) : acc[j].end < h.start
    BY <1>3, BeforeOne
  <2>2. /\ \A j \in 1..Len(acc) : acc[j].end \in Nat
        /\ \A j \in 1..Len(R) : R[j].start \in Nat /\ h.start <= R[j].start
    BY <1>3, <1>4, <1>6
  <2> SUFFICES ASSUME NEW j \in 1..Len(acc), NEW k \in 1..Len(R)
               PROVE  acc[j].end < R[k].start
    BY DEF Before
  <2>3. acc[j].end \in Nat /\ acc[j].end < h.start
    BY <2>1, <2>2
  <2>4. R[k].start \in Nat /\ h.start <= R[k].start
    BY <2>2
  <2>5. h.start \in Nat
    BY <1>2
  <2> QED
    BY <2>3, <2>4, <2>5, Transitive
<1>8. \A k \in Later : Before(R, <<hs[k]>>)
  <2> TAKE k \in Later
  <2>1. \A j \in 1..Len(R) : R[j].end < hs[k].start
    BY <1>2, <1>4, <1>6
  <2> QED
    BY <2>1, BeforeOne
<1>9. /\ Tidy(acc \o R)
      /\ \A x : Hole(acc \o R, x) <=> Hole(acc, x) \/ Hole(R, x)
      /\ \A c : Before(acc, c) /\ Before(R, c) => Before(acc \o R, c)
  BY <1>3, <1>4, <1>7, ConcatTidy
<1>10. \A k \in Later : Before(acc \o R, <<hs[k]>>)
  BY <1>3, <1>8, <1>9
<1>11. \A x \in Int : Hole(acc \o R, x) <=> Among(hs, i, x) /\ ~(s <= x /\ x < e)
  BY <1>3, <1>4, <1>5, <1>9
<1> QED
  BY <1>9, <1>10, <1>11 DEF FillInv, R, h, Later, n

\* HoleTracker.Fill: the slice stays tidy, and exactly the range is taken from
\* what is missing.
LEMMA FillMeaning ==
  ASSUME NEW hs, Tidy(hs), NEW s \in Nat, NEW e \in Nat
  PROVE  /\ Tidy(Fill(hs, s, e))
         /\ \A x \in Int : Hole(Fill(hs, s, e), x) <=> Hole(hs, x) /\ ~(s <= x /\ x < e)
<1>1. CASE s >= e
  <2>1. Fill(hs, s, e) = hs
    BY <1>1 DEF Fill
  <2>2. \A x \in Int : ~(s <= x /\ x < e)
    BY <1>1
  <2> QED
    BY <2>1, <2>2
<1>2. CASE s < e
  <2> DEFINE n == Len(hs)
             L == FillLoop(hs, s, e)
             G == {i \in 0..n : FillInv(L[i], hs, s, e, i)}
  <2>1. n \in Nat
    BY DEF Tidy
  <2>2. L[0] = <<>> /\ \A i \in 1..n : L[i] = L[i - 1] \o Remnants(hs[i], s, e)
    BY <1>2, FillRounds
  <2> HIDE DEF L
  <2>3. 0 \in G
    <3>1. \A x \in Int : ~Among(hs, 0, x)
      BY DEF Among
    <3>2. FillInv(<<>>, hs, s, e, 0)
      BY <3>1, OneRange DEF FillInv
    <3> QED
      BY <2>1, <2>2, <3>2
  <2>4. ASSUME NEW i \in 1..n, i - 1 \in G PROVE i \in G
    <3>1. FillInv(L[i - 1] \o Remnants(hs[i], s, e), hs, s, e, i)
      BY <1>2, <2>4, FillRoundKeeps
    <3>2. L[i] = L[i - 1] \o Remnants(hs[i], s, e)
      BY <2>2
    <3>3. i \in 0..n
      BY <2>1
    <3> QED
      BY <3>1, <3>2, <3>3, Zenon
  <2>5. n \in G
    <3> HIDE DEF G
    <3>1. 0..n \subseteq G
      BY <2>1, <2>3, <2>4, AllRounds
    <3> QED
      BY <2>1, <3>1
  <2>6. FillInv(L[n], hs, s, e, n)
    BY <2>5
  <2>7. Fill(hs, s, e) = L[n]
    BY <1>2 DEF Fill, L, n
  <2>8. \A x : Among(hs, n, x) <=> Hole(hs, x)
    BY DEF Among, Hole
  <2> QED
    BY <2>6, <2>7, <2>8 DEF FillInv
<1> QED
  BY <1>1, <1>2
-----------------------------------------------------------------------------
(* ContinuousThrough *)

\* sort.Search finds the first hole that ends after the cursor.
LEMMA FirstAfterMeaning ==
  ASSUME NEW hs, Tidy(hs), NEW c \in Nat
  PROVE  \/ FirstAfter(hs, c) = 0 /\ \A i \in 1..Len(hs) : hs[i].end <= c
         \/ /\ FirstAfter(hs, c) \in 1..Len(hs) /\ hs[FirstAfter(hs, c)].end > c
            /\ \A i \in 1..Len(hs) : i < FirstAfter(hs, c) => hs[i].end <= c
<1> DEFINE I == {i \in 1..Len(hs) : hs[i].end > c}
<1>1. FirstAfter(hs, c) = IF I # {} THEN Min(I) ELSE 0
  BY DEF FirstAfter, SelectInSeq
<1>2. \A i \in 1..Len(hs) : hs[i].end \in Nat
  BY TidyType
<1>3. CASE I = {}
  BY <1>1, <1>2, <1>3
<1>4. CASE I # {}
  <2>1. I \subseteq Nat
    OBVIOUS
  <2>2. PICK m \in I : \A y \in I : ~(<<y, m>> \in OpToRel(<, Nat))
    BY <1>4, <2>1, WFMin, NatLessThanWellFounded
  <2>a. \A y \in I : ~(y < m)
    BY <2>1, <2>2 DEF OpToRel
  <2>3. \A y \in I : m <= y
    BY <2>1, <2>a
  <2>4. Min(I) \in I /\ \A y \in I : Min(I) <= y
    BY <2>3 DEF Min
  <2>5. FirstAfter(hs, c) = Min(I)
    BY <1>1, <1>4
  <2> DEFINE f == FirstAfter(hs, c)
  <2>6. f \in I /\ \A y \in I : f <= y
    BY <2>4, <2>5
  <2> HIDE DEF f
  <2>7. \A i \in 1..Len(hs) : i < f => i \notin I
    BY <2>1, <2>6
  <2> QED
    BY <1>2, <2>6, <2>7 DEF f
<1> QED
  BY <1>3, <1>4

\* HoleTracker.ContinuousThrough: the number before the first one missing at or
\* after the cursor.
LEMMA ContinuousMeaning ==
  ASSUME NEW hs, Tidy(hs), NEW c \in Nat
  PROVE  \/ ContinuousThrough(hs, c) = NoBound /\ \A x \in Int : Hole(hs, x) => x < c
         \/ ContinuousThrough(hs, c) = Greatest(c - 1, 0) /\ Hole(hs, c)
         \/ /\ ContinuousThrough(hs, c) \in Nat /\ ContinuousThrough(hs, c) >= c /\ ~Hole(hs, c)
            /\ Hole(hs, ContinuousThrough(hs, c) + 1)
            /\ \A x \in Int : Hole(hs, x) /\ x >= c => x > ContinuousThrough(hs, c)
<1> DEFINE f == FirstAfter(hs, c)
           ct == ContinuousThrough(hs, c)
           n == Len(hs)
<1>1. \/ f = 0 /\ \A i \in 1..n : hs[i].end <= c
      \/ f \in 1..n /\ hs[f].end > c /\ \A i \in 1..n : i < f => hs[i].end <= c
  BY FirstAfterMeaning
<1>2. \A i \in 1..n : hs[i].start \in Nat /\ hs[i].end \in Nat
  BY TidyType
<1>3. /\ n \in Nat /\ \A i \in 1..n : hs[i].start < hs[i].end
      /\ \A i, j \in 1..n : i < j => hs[i].end < hs[j].start
  BY DEF Tidy
<1>4. ct = IF f = 0 THEN NoBound ELSE IF hs[f].start <= c THEN Greatest(c - 1, 0) ELSE hs[f].start - 1
  BY DEF ContinuousThrough
<1>a. \A x : Hole(hs, x) <=> \E i \in 1..n : hs[i].start <= x /\ x < hs[i].end
  BY DEF Hole, Inside
<1> HIDE DEF f, ct, n
<1>5. CASE f = 0
  <2>1. \A i \in 1..n : hs[i].end <= c
    BY <1>1, <1>5
  <2>2. \A x \in Int : Hole(hs, x) => x < c
    BY <1>2, <1>a, <2>1
  <2> QED
    BY <1>4, <1>5, <2>2 DEF ct
<1>6. CASE f # 0 /\ hs[f].start <= c
  <2>1. f \in 1..n /\ hs[f].end > c
    BY <1>1, <1>6
  <2>2. Hole(hs, c)
    BY <1>2, <1>6, <1>a, <2>1
  <2> QED
    BY <1>4, <1>6, <2>2 DEF ct
<1>7. CASE f # 0 /\ ~(hs[f].start <= c)
  <2>1. f \in 1..n /\ hs[f].end > c /\ \A i \in 1..n : i < f => hs[i].end <= c
    BY <1>1, <1>7
  <2>2. hs[f].start \in Nat /\ hs[f].start > c /\ hs[f].start < hs[f].end /\ hs[f].end \in Nat
    BY <1>2, <1>3, <1>7, <2>1
  <2>3. ct = hs[f].start - 1
    BY <1>4, <1>7
  <2>4. ct \in Nat /\ ct >= c /\ ct + 1 = hs[f].start
    BY <2>2, <2>3
  <2>5. ASSUME NEW x \in Int, Hole(hs, x), x >= c PROVE x >= hs[f].start
    <3>1. PICK i \in 1..n : hs[i].start <= x /\ x < hs[i].end
      BY <1>a, <2>5
    <3>2. ~(i < f)
      BY <1>2, <2>1, <2>5, <3>1
    <3>3. i = f \/ f < i
      BY <1>3, <2>1, <3>2
    <3>4. CASE i = f
      BY <3>1, <3>4
    <3>5. CASE f < i
      <4>1. hs[f].end < hs[i].start
        BY <1>3, <2>1, <3>5
      <4> QED
        BY <1>2, <2>2, <3>1, <4>1
    <3> QED
      BY <3>3, <3>4, <3>5
  <2>6. Hole(hs, ct + 1)
    BY <1>a, <2>1, <2>2, <2>4
  <2>7. \A x \in Int : Hole(hs, x) /\ x >= c => x > ct
    BY <2>2, <2>4, <2>5
  <2>8. ~Hole(hs, c)
    BY <2>2, <2>5
  <2> QED
    BY <2>4, <2>6, <2>7, <2>8 DEF ct
<1> QED
  BY <1>5, <1>6, <1>7
=============================================================================
