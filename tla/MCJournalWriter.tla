-------------------------- MODULE MCJournalWriter --------------------------
(* Small instances of JournalWriter for TLC. *)
EXTENDS JournalWriter
=============================================================================
