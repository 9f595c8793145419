---------------------------- MODULE RequestRules ----------------------------
(***************************************************************************)
(* The request-rule engine (requestrules/requestrules.go) as the broker    *)
(* drives it: devices come, change and go, frames arrive or do not, the    *)
(* broker's ticker calls Tick, and time passes.  A datum stands for a      *)
(* wanted PGN with its sub-key; a device is what the rules' Match tells    *)
(* apart, its kind.  A request may be lost on the full transmit queue, on  *)
(* the bus or in the device: nothing but a frame says that it was heard.   *)
(* Ages are in units of time, counted up to the interval that matters.     *)
(***************************************************************************)
EXTENDS Integers, Sequences, FiniteSets

CONSTANTS
  Sources,  \* source addresses
  Kinds,    \* kinds of device
  Wanted, Other, \* the datum of the first and of the second rule
  Interval, \* MinInterval of the rules and the longest GlobalMinInterval
  Age       \* MaxAge of a rule that has one

Data == {Wanted, Other}

VARIABLES
  rules,   \* configuration: the rules, in order
  floor,   \* configuration: GlobalMinInterval
  device,  \* the engine's devices: the kind at each source, Offline without one
  track,   \* per rule and source: the trackState of the rule's datum
  last     \* age of the last request of any rule, Never before the first

qvars == <<rules, floor, device, track, last>>

Never == -1
Offline == "offline"
Unasked == [asked |-> Never, have |-> FALSE, fresh |-> 0]

\* Rule.validate: a want and a positive MinInterval.  A rule with several wants
\* acts as that many rules.
Rule(kinds, datum, maxAge, onOnline, triggers) ==
  [match |-> kinds, want |-> datum, maxAge |-> maxAge, onOnline |-> onOnline, triggers |-> triggers]

\* AddRule, twice: any rule for one datum, and one that asks once for another.
QInit ==
  /\ \E ks \in SUBSET Kinds \ {{}}, a \in {0, Age}, o \in BOOLEAN, ts \in {{}, {Wanted}, {Other}} :
       rules = <<Rule(ks, Wanted, a, o, ts), Rule(Kinds, Other, 0, TRUE, {})>>
  /\ floor \in {0, Interval}
  /\ device = [s \in Sources |-> Offline]
  /\ track = [k \in (1..2) \X Sources |-> Unasked] /\ last = Never
-----------------------------------------------------------------------------
(* Requesting *)

Matches(i, kind) == kind \in rules[i].match

TooSoon(age, interval) == age # Never /\ age < interval

\* consider: the interval of the target, then freshness, then the global floor.
Consider(st, k) ==
  LET t == st.track[k]
      r == rules[k[1]]
  IN  IF \/ TooSoon(t.asked, Interval)
         \/ t.have /\ (r.maxAge = 0 \/ t.fresh < r.maxAge)
         \/ floor > 0 /\ TooSoon(st.last, floor)
        THEN st
        ELSE [track |-> [st.track EXCEPT ![k].asked = 0], last |-> 0]

\* The targets, rule by rule, and what asking for them in that order leaves.
Targets(ss) == [n \in 1..(2 * Len(ss)) |->
                  <<((n - 1) \div Len(ss)) + 1, ss[((n - 1) % Len(ss)) + 1]>>]
ConsiderAll(tr, ks) ==
  LET after[n \in 0..Len(ks)] ==
        IF n = 0 THEN [track |-> tr, last |-> last] ELSE Consider(after[n - 1], ks[n])
  IN  track' = after[Len(ks)].track /\ last' = after[Len(ks)].last
-----------------------------------------------------------------------------
(* The calls of the broker *)

\* A device is first seen, or its identity changes; its states stay.
OnDeviceOnline(s, kind) ==
  /\ device' = [device EXCEPT ![s] = kind]
  /\ ConsiderAll(track, SelectSeq(Targets(<<s>>),
                    LAMBDA k : rules[k[1]].onOnline /\ Matches(k[1], kind)))
  /\ UNCHANGED <<rules, floor>>

\* The device's states are forgotten, its intervals with them.
OnDeviceOffline(s) ==
  /\ device[s] # Offline
  /\ device' = [device EXCEPT ![s] = Offline]
  /\ track' = [k \in DOMAIN track |-> IF k[2] = s THEN Unasked ELSE track[k]]
  /\ UNCHANGED <<rules, floor, last>>

WantMatchesFrame(i, d) == rules[i].want = d

\* OnFrame: the datum is fresh; then the rules it triggers go stale and ask again.
OnFrame(s, d) ==
  LET triggered(k) == d \in rules[k[1]].triggers /\ Matches(k[1], device[s])
  IN  /\ device[s] # Offline
      /\ ConsiderAll([k \in DOMAIN track |->
                        IF k[2] # s THEN track[k]
                        ELSE IF triggered(k) THEN [track[k] EXCEPT !.have = FALSE]
                        ELSE IF Matches(k[1], device[s]) /\ WantMatchesFrame(k[1], d)
                               THEN [track[k] EXCEPT !.have = TRUE, !.fresh = 0]
                        ELSE track[k]],
                     SelectSeq(Targets(<<s>>), triggered))
      /\ UNCHANGED <<rules, floor, device>>

\* Mutant: only rules with a MaxAge are refreshed by Tick.
Ticked_MaxAgeOnly(i) == rules[i].maxAge > 0
Ticked(i) == rules[i].maxAge > 0 \/ rules[i].onOnline

\* Tick: rule by rule, the devices in any order (a Go map).
Tick ==
  /\ \E ss \in {f \in [1..Cardinality(Sources) -> Sources] : \A s \in Sources : \E n \in DOMAIN f : f[n] = s} :
       ConsiderAll(track, SelectSeq(Targets(ss), LAMBDA k : Ticked(k[1]) /\ Matches(k[1], device[k[2]])))
  /\ UNCHANGED <<rules, floor, device>>

\* A unit of time passes.
Older(age, most) == IF age = Never \/ age >= most THEN age ELSE age + 1
Clock ==
  /\ track' = [k \in DOMAIN track |->
                 [track[k] EXCEPT !.asked = Older(@, Interval),
                                  !.fresh = IF track[k].have THEN Older(@, Age) ELSE 0]]
  /\ last' = Older(last, Interval)
  /\ UNCHANGED <<rules, floor, device>>

QNext ==
  \/ \E s \in Sources, k \in Kinds : OnDeviceOnline(s, k)
  \/ \E s \in Sources : OnDeviceOffline(s)
  \/ \E s \in Sources, d \in Data : OnFrame(s, d)
  \/ Tick \/ Clock

QFairness == WF_qvars(Tick) /\ WF_qvars(Clock)
QSpec == QInit /\ [][QNext]_qvars /\ QFairness
-----------------------------------------------------------------------------
(* Properties *)

Lacks(k) == ~track[k].have \/ (rules[k[1]].maxAge > 0 /\ track[k].fresh >= rules[k[1]].maxAge)
Keeps(k) == (rules[k[1]].maxAge > 0 \/ rules[k[1]].onOnline) /\ Matches(k[1], device[k[2]])

\* A datum that a rule keeps available for an online device and that is missing
\* or too old is asked for again, however many earlier requests were lost or
\* suppressed, or arrives by itself.  A floor over all rules promises less: the
\* rules that come first, or are asked for at every claim, may use it up.
StaleIsRequested ==
  \A k \in (1..2) \X Sources :
    []<>(floor # 0 \/ ~Keeps(k) \/ ~Lacks(k) \/ track[k].asked = 0)
=============================================================================
