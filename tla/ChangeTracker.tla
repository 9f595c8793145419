---------------------------- MODULE ChangeTracker ----------------------------
(***************************************************************************)
(* Change events: ChangeTracker turns the packets of a key into snapshots, *)
(* deltas and idle events (changetracker/tracker.go), ByteMaskDiff and     *)
(* FieldToleranceDiff decide and encode what changed (diff.go), and a      *)
(* ChangeReplayer that hears the events in order puts the packets together *)
(* again.                                                                  *)
(*                                                                         *)
(* A packet is a sequence of bytes; the first is a field with a tolerance, *)
(* NA if not available, the others are fields without one.  A mask byte    *)
(* has Bits bits (8 in the code).                                          *)
(***************************************************************************)
EXTENDS Integers, Sequences, FiniteSets

CONSTANTS
  Values,      \* numbers the first byte may hold
  Others,      \* numbers the other bytes may hold
  NA,          \* the byte of a field that is not available, not a number here
  Lengths,     \* packet lengths, some above and some not above Bits
  Bits,        \* bits of a mask byte
  Tolerance,   \* tolerance of the first field
  MinDecode,   \* shortest packet that decodes
  IdleTimeout, \* idle timeout, in ticks
  Lag          \* bound: events the replayer may be behind

\* Packets are not empty, and a mask byte has a bit.
ChangeTrackerAssumption == Lengths \subseteq Nat \ {0} /\ Bits \in Nat \ {0}
ASSUME ChangeTrackerAssumption

VARIABLES
  method,   \* configuration: "mask" or "tolerance"
  pair,     \* tracker: the key's trackedPair, or NoPair
  age,      \* ticks since lastSeen
  events,   \* events on the way to the replayer
  state,    \* replayer: the packet, or NoPacket
  last,     \* history: the last packet since the pair was made
  broken    \* history: a delta without a snapshot, or one that does not fit

cvars == <<method, pair, age, events, state, last, broken>>

Bytes == Values \union {NA}
Packets == UNION {{p \in [1..n -> Bytes] : \A i \in 2..n : p[i] \in Others} : n \in Lengths}
NoPacket == <<>>
NoPair == [data |-> NoPacket, idle |-> FALSE]
Event(t, d) == [type |-> t, data |-> d]

CInit ==
  /\ method \in {"mask", "tolerance"}
  /\ pair = NoPair /\ age = 0 /\ events = <<>> /\ state = NoPacket /\ last = NoPacket
  /\ broken = FALSE
-----------------------------------------------------------------------------
(* Differences *)

Changed(prev, curr) == {i \in DOMAIN curr : prev[i] # curr[i]}

MaskLen(n) == (n + Bits - 1) \div Bits

\* The mask, byte by byte: the positions it marks.
Masks(n, ps) == [b \in 1..MaskLen(n) |-> {i \in ps : (i - 1) \div Bits = b - 1}]

\* The place of position i among the positions ps.
Rank(i, ps) == Cardinality({k \in ps : k <= i})

\* The bytes at the positions ps, in order.
BytesAt(p, ps) == [k \in 1..Cardinality(ps) |-> p[CHOOSE i \in ps : Rank(i, ps) = k]]

\* ByteMaskDiff.Diff: one mask byte for a short packet, else the mask's length first.
MaskDiff(prev, curr) ==
  LET ps == Changed(prev, curr)
      n  == Len(curr)
  IN  (IF n <= Bits THEN <<>> ELSE <<MaskLen(n)>>) \o Masks(n, ps) \o BytesAt(curr, ps)

\* ByteMaskDiff.Apply: how the diff is laid out is read off the packet before.
Apply(prev, diff) ==
  LET n      == Len(prev)
      from   == IF n <= Bits THEN 0 ELSE 1
      len    == IF n <= Bits THEN 1 ELSE diff[1]
      marked == {i \in 1..n : i \in diff[from + ((i - 1) \div Bits) + 1]}
  IN  [i \in 1..n |-> IF i \in marked THEN diff[from + len + Rank(i, marked)] ELSE prev[i]]

\* Numbers are compared with the tolerance, anything else for equality.
FieldChanged(x, y) ==
  IF x # NA /\ y # NA THEN x - y > Tolerance \/ y - x > Tolerance ELSE x # y

\* FieldToleranceDiff: what does not decode is compared byte by byte; the fields
\* without a tolerance do not count.
Significant(prev, curr) ==
  /\ Changed(prev, curr) # {}
  /\ (method = "tolerance" /\ Len(curr) >= MinDecode) => FieldChanged(prev[1], curr[1])
-----------------------------------------------------------------------------
(* The tracker *)

\* Mutant: an insignificant change moves the baseline.
Baseline_Drifts(p) == p
\* The baseline after a packet of the same length.
Baseline(p) == IF Significant(pair.data, p) THEN p ELSE pair.data

Snapshot(p) == pair = NoPair \/ Len(pair.data) # Len(p)

ProcessFrame(p) ==
  /\ Len(events) < Lag
  /\ pair' = [data |-> IF Snapshot(p) THEN p ELSE Baseline(p), idle |-> FALSE]
  /\ events' = IF Snapshot(p) THEN Append(events, Event("snapshot", p))
               ELSE IF Significant(pair.data, p) THEN Append(events, Event("delta", MaskDiff(pair.data, p)))
               ELSE events
  /\ age' = 0 /\ last' = p
  /\ UNCHANGED <<method, state, broken>>

\* Tick, with the time passed: an idle event once per silence.
IdleTick ==
  /\ pair # NoPair /\ Len(events) < Lag
  /\ age' = IF age < IdleTimeout THEN age + 1 ELSE age
  /\ IF ~pair.idle /\ age' >= IdleTimeout
       THEN pair' = [pair EXCEPT !.idle = TRUE] /\ events' = Append(events, Event("idle", NoPacket))
       ELSE UNCHANGED <<pair, events>>
  /\ UNCHANGED <<method, state, last, broken>>

\* Remove, Reset.
RemovePair ==
  /\ pair # NoPair
  /\ pair' = NoPair /\ age' = 0 /\ last' = NoPacket
  /\ UNCHANGED <<method, events, state, broken>>
-----------------------------------------------------------------------------
(* The replayer *)

Fits(d) == Len(d) >= (IF Len(state) <= Bits THEN 1 ELSE 1 + MaskLen(Len(state)))

ReplayerApply ==
  /\ events # <<>>
  /\ events' = Tail(events)
  /\ LET e == Head(events)
     IN  CASE e.type = "snapshot" -> state' = e.data /\ UNCHANGED broken
           [] e.type = "delta" -> IF state = NoPacket \/ ~Fits(e.data)
                                    THEN broken' = TRUE /\ UNCHANGED state
                                    ELSE state' = Apply(state, e.data) /\ UNCHANGED broken
           [] e.type = "idle" -> UNCHANGED <<state, broken>>
  /\ UNCHANGED <<method, pair, age, last>>

CNext == (\E p \in Packets : ProcessFrame(p)) \/ IdleTick \/ RemovePair \/ ReplayerApply
CSpec == CInit /\ [][CNext]_cvars
-----------------------------------------------------------------------------
(* Properties *)

\* "The baseline is NOT updated when a change is suppressed, preventing tolerance
\* drift over time": a replayer that has heard every event has the tracker's
\* baseline, byte by byte, and the last packet is no significant change of it,
\* whatever packets, lengths, silences and removals came between.
ReplayFollows ==
  /\ ~broken
  /\ (events = <<>> /\ pair # NoPair) =>
       /\ state = pair.data
       /\ Len(last) = Len(state)
       /\ ~Significant(state, last)
=============================================================================
