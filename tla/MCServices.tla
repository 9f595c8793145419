----------------------------- MODULE MCServices -----------------------------
(***************************************************************************)
(* TLC instance of the parts that promise something will happen: client    *)
(* sessions, the cloud's instances, request rules and the registry.  They  *)
(* share no state: in a behaviour one of them runs, from any of its        *)
(* initial states, and the others wait in one of theirs, in which none of  *)
(* their fair actions can be taken.  RequestRules is instantiated, the     *)
(* others are extended.                                                    *)
(***************************************************************************)
EXTENDS Sessions, Instances, Registry

CONSTANTS
  RuleSources, Kinds, Wanted, Other, Interval, Age  \* RequestRules

VARIABLES
  part,
  rules, floor, device, track, last

Q == INSTANCE RequestRules WITH Sources <- RuleSources

qvars == <<rules, floor, device, track, last>>
vars == <<part, svars, ivars, qvars, gvars>>

Init ==
  /\ part \in {"sessions", "instances", "rules", "registry"}
  /\ IF part = "sessions" THEN TRUE ELSE session = NoSession
  /\ IF part = "instances" THEN TRUE ELSE graceful = TRUE /\ inst = [b \in Boats |-> Unknown]
  /\ IF part = "rules" THEN TRUE
     ELSE rules = <<Q!Rule(Kinds, Wanted, 0, TRUE, {}), Q!Rule(Kinds, Other, 0, TRUE, {})>> /\ floor = 0
  /\ SInit /\ IInit /\ Q!QInit /\ GInit

Next ==
  \/ part = "sessions"  /\ SNext /\ UNCHANGED <<part, ivars, qvars, gvars>>
  \/ part = "instances" /\ INext /\ UNCHANGED <<part, svars, qvars, gvars>>
  \/ part = "rules"     /\ Q!QNext /\ UNCHANGED <<part, svars, ivars, gvars>>
  \/ part = "registry"  /\ GNext /\ UNCHANGED <<part, svars, ivars, qvars>>

\* The parts' own fairness (SFairness, IFairness, QFairness, GFairness), for the one that runs.
Fairness ==
  /\ WF_vars(part = "sessions" /\ (StreamWrite \/ StreamBehind) /\ UNCHANGED <<part, ivars, qvars, gvars>>)
  /\ WF_vars(part = "sessions" /\ Read /\ UNCHANGED <<part, ivars, qvars, gvars>>)
  /\ WF_vars(part = "instances" /\ StopSteps /\ UNCHANGED <<part, svars, qvars, gvars>>)
  /\ WF_vars(part = "instances" /\ Keeper /\ UNCHANGED <<part, svars, qvars, gvars>>)
  /\ \A b \in Boats, k \in 1..MaxLives :
       WF_vars(part = "instances" /\ Goroutine(b, k) /\ UNCHANGED <<part, svars, qvars, gvars>>)
  /\ WF_vars(part = "rules" /\ Q!Tick /\ UNCHANGED <<part, svars, ivars, gvars>>)
  /\ WF_vars(part = "rules" /\ Q!Clock /\ UNCHANGED <<part, svars, ivars, gvars>>)
  /\ WF_vars(part = "registry" /\ Upkeep /\ UNCHANGED <<part, svars, ivars, qvars>>)
  /\ WF_vars(part = "registry" /\ SeedHandled /\ UNCHANGED <<part, svars, ivars, qvars>>)
  /\ \A n \in Names : SF_vars(part = "registry" /\ Answer(n, "product") /\ UNCHANGED <<part, svars, ivars, qvars>>)
Spec == Init /\ [][Next]_vars /\ Fairness
-----------------------------------------------------------------------------
\* The properties of Sessions, Instances and Registry are their own, as they stand.

\* What a rule keeps available is asked for again (RequestRules).
StaleIsRequested == Q!StaleIsRequested
=============================================================================
