--------------------------- MODULE MCReplication ---------------------------
(* TLC instances of Replication: one boat, a few frames, a few connections. *)
EXTENDS Replication

\* state.json is read only after a crash: it is told apart only while one can come.
CrashView ==
  <<boatVars, linkVars, oldVars, inst, connected, received, durable, lost, jumped, crashes,
    IF crashes < MaxCrashes THEN <<state>> ELSE <<>>>>
=============================================================================
