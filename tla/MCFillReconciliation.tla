------------------------ MODULE MCFillReconciliation ------------------------
(* TLC instances of FillReconciliation; the constants are in the cfg files. *)
EXTENDS FillReconciliation
=============================================================================
