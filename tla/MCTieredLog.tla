---------------------------- MODULE MCTieredLog ----------------------------
(* TLC instances of TieredLog: a ring of a few slots over a small journal. *)
EXTENDS TieredLog
=============================================================================
