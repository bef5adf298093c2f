-------------------------- MODULE MCExitExecution --------------------------
(* ExitExecution for TLC: the instances are in the MCExit*.cfg files. *)
EXTENDS ExitExecution

-----------------------------------------------------------------------------
(* One name, held or flat, through a crash, under every fault; or two names, *)
(* long, short or flat, in a process that does not crash.  Every name that   *)
(* may have an entry has one, which need not trigger.                        *)

CONSTANTS t1, t2

Alone == "crash" \in faults
SafeInit ==
  /\ Init
  /\ IF Alone THEN pos[t1] \in {0, 1, 3} /\ pos[t2] = 0
     ELSE \A t \in Tickers : pos[t] \in {-1, 0, 2}
  /\ disk.entries = Enterable(pos, disk.urgent) \ (IF Alone THEN {t2} ELSE {})

SafeSpec == SafeInit /\ [][Next]_vars /\ WF_vars(DaemonStep)
=============================================================================
