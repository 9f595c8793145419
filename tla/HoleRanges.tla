----------------------------- MODULE HoleRanges -----------------------------
(***************************************************************************)
(* The hole tracker's operations (replication.go) as operators on its only *)
(* field: the sequence of half-open ranges [start, end) that are missing.  *)
(***************************************************************************)
EXTENDS Integers, Sequences, SequencesExt

Least(a, b) == IF a < b THEN a ELSE b
Greatest(a, b) == IF a > b THEN a ELSE b

Range2(s, e) == [start |-> s, end |-> e]

\* The sequence numbers of one range.
Seqs(r) == r.start..(r.end - 1)

\* Mutant: ranges that touch are not absorbed.
AddStep_Adjacent(acc, h) ==
  IF h.end <= acc.merged.start THEN [acc EXCEPT !.result = Append(@, h)]
  ELSE IF h.start >= acc.merged.end
       THEN [acc EXCEPT !.result = IF acc.inserted THEN Append(@, h) ELSE @ \o <<acc.merged, h>>,
                        !.inserted = TRUE]
       ELSE [acc EXCEPT !.merged = Range2(Least(@.start, h.start), Greatest(@.end, h.end))]

\* One turn of Add's loop.
AddStep(acc, h) ==
  IF h.end < acc.merged.start THEN [acc EXCEPT !.result = Append(@, h)]
  ELSE IF h.start > acc.merged.end
       THEN [acc EXCEPT !.result = IF acc.inserted THEN Append(@, h) ELSE @ \o <<acc.merged, h>>,
                        !.inserted = TRUE]
       ELSE [acc EXCEPT !.merged = Range2(Least(@.start, h.start), Greatest(@.end, h.end))]

AddLoop(holes, s, e) ==
  LET round[i \in 0..Len(holes)] ==
        IF i = 0 THEN [merged |-> Range2(s, e), result |-> <<>>, inserted |-> FALSE]
        ELSE AddStep(round[i - 1], holes[i])
  IN  round

Add(holes, s, e) ==
  LET last == AddLoop(holes, s, e)[Len(holes)]
  IN  IF s >= e THEN holes
      ELSE IF last.inserted THEN last.result ELSE Append(last.result, last.merged)

Overlaps(h, s, e) == ~(h.end <= s \/ h.start >= e)

\* Mutant: the right remnant starts one late.
Remnants_OffByOne(h, s, e) ==
  IF ~Overlaps(h, s, e) THEN <<h>>
  ELSE (IF h.start < s THEN <<Range2(h.start, s)>> ELSE <<>>)
       \o (IF h.end > e + 1 THEN <<Range2(e + 1, h.end)>> ELSE <<>>)

\* What Fill leaves of one hole.
Remnants(h, s, e) ==
  IF ~Overlaps(h, s, e) THEN <<h>>
  ELSE (IF h.start < s THEN <<Range2(h.start, s)>> ELSE <<>>)
       \o (IF h.end > e THEN <<Range2(e, h.end)>> ELSE <<>>)

FillLoop(holes, s, e) ==
  LET kept[i \in 0..Len(holes)] ==
        IF i = 0 THEN <<>> ELSE kept[i - 1] \o Remnants(holes[i], s, e)
  IN  kept

Fill(holes, s, e) == IF s >= e THEN holes ELSE FillLoop(holes, s, e)[Len(holes)]

\* Fill's result: some hole was affected.
FillAffects(holes, s, e) == s < e /\ \E i \in DOMAIN holes : Overlaps(holes[i], s, e)

TotalLoop(holes) ==
  LET total[i \in 0..Len(holes)] ==
        IF i = 0 THEN 0 ELSE total[i - 1] + (holes[i].end - holes[i].start)
  IN  total

TotalMissing(holes) == TotalLoop(holes)[Len(holes)]

NoBound == -1  \* stands for ^uint64(0)

\* sort.Search: the first hole that ends after the cursor, 0 if there is none.
FirstAfter(holes, c) == SelectInSeq(holes, LAMBDA h : h.end > c)

ContinuousThrough(holes, c) ==
  LET idx == FirstAfter(holes, c)
  IN  IF idx = 0 THEN NoBound
      ELSE IF holes[idx].start <= c THEN Greatest(c - 1, 0)
      ELSE holes[idx].start - 1
=============================================================================
