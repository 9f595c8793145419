------------------------------ MODULE HoleSet ------------------------------
(***************************************************************************)
(* What a hole tracker promises: a set of missing sequence numbers, to     *)
(* which a range is added and from which a range is taken.                 *)
(***************************************************************************)
EXTENDS Integers

CONSTANT MaxEnd
VARIABLES missing, call

Init == missing = {} /\ call.op = "new"

Call(s, e) == call'.start = s /\ call'.end = e

AddRange(s, e) ==
  /\ Call(s, e)
  /\ missing' = missing \union (s..(e - 1))

FillRange(s, e) ==
  /\ Call(s, e)
  /\ missing' = missing \ (s..(e - 1))
  /\ call'.affected = (missing \cap (s..(e - 1)) # {})

Next ==
  \/ call'.op = "add" /\ \E s, e \in 0..MaxEnd : AddRange(s, e)
  \/ call'.op = "fill" /\ \E s, e \in 0..MaxEnd : FillRange(s, e)

Spec == Init /\ [][Next]_<<missing, call>>
=============================================================================
