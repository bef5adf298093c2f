-------------------------- MODULE MCEntryExecution --------------------------
(* TLC instances of EntryExecution; the constants are set in the cfg files. *)
EXTENDS EntryExecution
=============================================================================
