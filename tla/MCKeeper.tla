------------------------------ MODULE MCKeeper ------------------------------
(* TLC instances of Keeper: a few files, one restart, every configuration. *)
EXTENDS Keeper
=============================================================================
