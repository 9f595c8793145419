---------------------------- MODULE MCComponents ----------------------------
(***************************************************************************)
(* TLC instance of the parts whose properties are invariants: the hole     *)
(* tracker, the fan-out to subscribers, alerts, fast packets, journal      *)
(* files, the change tracker and the display filter.  They share no state: *)
(* in a behaviour one of them runs, from any of its initial states, and    *)
(* the others wait in one of theirs.  All but the display filter are       *)
(* extended.                                                               *)
(***************************************************************************)
EXTENDS HoleTracker, FanOut, Alerts, FastPacket, ChangeTracker, JournalFile, TLC

CONSTANT MaxWords     \* of DisplayFilter

VARIABLES part, words

\* A journal file's blocks, by their frames.
JournalLens == <<1, 2, 1>>

\* Filters are put together from these; "1" is a number and a string.
Phrases == {<<"(">>, <<")">>, <<"!">>, <<"and">>, <<"||">>, <<"src">>, <<".", "name">>,
            <<"<=", "1">>, <<"name", "<=", "1">>}
Ints == "1" :> 1
Strings == ("1" :> 1) @@ ("x" :> 2)
DecodedTo(v, names) == [kind |-> "decoded", fields |-> [name |-> v], names |-> names]
FrameFrom(p, d, s) == [header |-> [pgn |-> p, src |-> 2], decoded |-> d, sender |-> s]
Frames == {FrameFrom(1, [kind |-> "none"], "x"),
           FrameFrom(2, DecodedTo([kind |-> "num", num |-> 2], [name |-> "x"]), ""),
           FrameFrom(2, DecodedTo([kind |-> "num", num |-> 1], [name |-> "x"]), "1"),
           FrameFrom(1, DecodedTo([kind |-> "nil"], << >>), "")}

D == INSTANCE DisplayFilter

dvars == <<words>>
vars == <<part, hvars, fvars, avars, pvars, jvars, cvars, dvars>>

Init ==
  /\ part \in {"holes", "fanout", "alerts", "packets", "files", "changes", "filters"}
  /\ IF part = "fanout" THEN TRUE ELSE ready = TRUE
  /\ IF part = "files" THEN TRUE ELSE kind = "journal" /\ comp = "none"
  /\ IF part = "changes" THEN TRUE ELSE method = "mask"
  /\ HInit /\ FInit /\ LInit /\ PInit /\ JFInit /\ CInit /\ D!DInit

Next ==
  \/ part = "holes"   /\ HNext    /\ UNCHANGED <<part, fvars, avars, pvars, jvars, cvars, dvars>>
  \/ part = "fanout"  /\ FNext    /\ UNCHANGED <<part, hvars, avars, pvars, jvars, cvars, dvars>>
  \/ part = "alerts"  /\ LNext    /\ UNCHANGED <<part, hvars, fvars, pvars, jvars, cvars, dvars>>
  \/ part = "packets" /\ PNext    /\ UNCHANGED <<part, hvars, fvars, avars, jvars, cvars, dvars>>
  \/ part = "files"   /\ JFNext   /\ UNCHANGED <<part, hvars, fvars, avars, pvars, cvars, dvars>>
  \/ part = "changes" /\ CNext    /\ UNCHANGED <<part, hvars, fvars, avars, pvars, jvars, dvars>>
  \/ part = "filters" /\ D!DNext  /\ UNCHANGED <<part, hvars, fvars, avars, pvars, jvars, cvars>>

Spec == Init /\ [][Next]_vars
-----------------------------------------------------------------------------
\* HolesAgree and HolesImplementSet are HoleTracker's, ListenerInOrder and
\* QueryHears FanOut's, AlertsAgree Alerts', PacketsWhole FastPacket's,
\* ReplayFollows ChangeTracker's, ReadComplete and HistoryExact JournalFile's, as
\* they stand.

\* A filter means what its text says (DisplayFilter).
FilterMeans == part = "filters" => D!FilterMeans
=============================================================================
