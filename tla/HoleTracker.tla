---------------------------- MODULE HoleTracker ----------------------------
(***************************************************************************)
(* A HoleTracker under arbitrary sequences of Add and Fill (replication.go)*)
(* and the abstract specification it implements.                           *)
(***************************************************************************)
EXTENDS HoleRanges, FiniteSets

CONSTANT MaxEnd  \* bound: the largest range end

VARIABLES
  holes,  \* HoleTracker.holes
  call    \* the last call: operation, arguments and what Fill returned

hvars == <<holes, call>>

HInit == holes = <<>> /\ call = [op |-> "new", start |-> 0, end |-> 0, affected |-> FALSE]

HAdd(s, e) ==
  /\ holes' = Add(holes, s, e)
  /\ call' = [op |-> "add", start |-> s, end |-> e, affected |-> FALSE]

HFill(s, e) ==
  /\ holes' = Fill(holes, s, e)
  /\ call' = [op |-> "fill", start |-> s, end |-> e, affected |-> FillAffects(holes, s, e)]

HNext == \E s, e \in 0..MaxEnd : HAdd(s, e) \/ HFill(s, e)

HSpec == HInit /\ [][HNext]_hvars
-----------------------------------------------------------------------------
MissingSeqs == UNION {Seqs(holes[i]) : i \in DOMAIN holes}

Canonical ==
  /\ \A i \in DOMAIN holes : holes[i].start < holes[i].end
  /\ \A i \in 1..(Len(holes) - 1) : holes[i].end < holes[i + 1].start

\* The number before the first missing one at or after the cursor (none: no bound).
IsContinuousThrough(ct, c) ==
  LET later == {m \in MissingSeqs : m >= c}
  IN  IF later = {} THEN ct = NoBound
      ELSE IF c \in later THEN ct = Greatest(c - 1, 0)
      ELSE ct + 1 \in later /\ \A m \in later : m > ct

\* "Holes are non-overlapping, sorted by Start" (replication.go:11), and more:
\* none is empty and no two touch, whatever order ranges were added and filled
\* in; TotalMissing counts every missing number once, and ContinuousThrough finds
\* the first gap from every cursor, as defined on the set of missing numbers.
HolesAgree ==
  /\ Canonical
  /\ TotalMissing(holes) = Cardinality(MissingSeqs)
  /\ \A c \in 0..(MaxEnd + 1) : IsContinuousThrough(ContinuousThrough(holes, c), c)

\* The tracker implements the set of missing numbers: each call adds or takes
\* exactly the range it was given, and Fill reports whether anything was missing
\* from that range.
Abstract == INSTANCE HoleSet WITH missing <- MissingSeqs
HolesImplementSet == Abstract!Spec
=============================================================================
