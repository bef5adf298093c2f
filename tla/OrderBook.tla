----------------------------- MODULE OrderBook ------------------------------
(***************************************************************************)
(* The entry half of the intraday order book (executor/order_book.py): the *)
(* JSON document the morning planner writes and the daemon reads and       *)
(* updates.  A book is a value, with one operator per method that changes  *)
(* it.  ExitBook is the half that closes positions.                        *)
(*                                                                         *)
(* One session is modelled (the date check of load() never fires) and one  *)
(* approved entry per ticker, which is what a planner run writes.  The     *)
(* file itself tells entries apart by entry_id: the re-solve during the    *)
(* session can add a second record of a ticker, which this module leaves   *)
(* out and DaemonDay has.                                                  *)
(***************************************************************************)
EXTENDS FiniteSets

CONSTANT Tickers            \* the names a book may mention

EntryStates == {"none", "pending", "executing"}   \* "none": no record

(***************************************************************************)
(* entry:    the status of the ticker's record in approved_entries.        *)
(* stops:    the tickers with a record in active_stops.                    *)
(* executed: the tickers with a record in executed_today.                  *)
(***************************************************************************)
Book == [entry    : [Tickers -> EntryStates],
         stops    : SUBSET Tickers,
         executed : SUBSET Tickers]

EmptyBook == [entry    |-> [t \in Tickers |-> "none"],
              stops    |-> {},
              executed |-> {}]

PendingEntries(b)   == {t \in Tickers : b.entry[t] = "pending"}
ExecutingEntries(b) == {t \in Tickers : b.entry[t] = "executing"}
HasContent(b) ==
  (\E t \in Tickers : b.entry[t] # "none") \/ b.stops # {}

-----------------------------------------------------------------------------
(* Mutations.  Each leaves a book alone when no record matches, like the   *)
(* loops of the methods, which fall through.                               *)

AddStop(b, t) == [b EXCEPT !.stops = @ \cup {t}]

MarkEntryExecuting(b, t) ==
  IF b.entry[t] = "pending" THEN [b EXCEPT !.entry[t] = "executing"] ELSE b

RevertEntryToPending(b, t) ==
  IF b.entry[t] = "executing" THEN [b EXCEPT !.entry[t] = "pending"] ELSE b

MarkEntryExecuted(b, t) ==
  IF b.entry[t] # "none"
  THEN [b EXCEPT !.entry[t] = "none", !.executed = @ \cup {t}]
  ELSE b

\* Drops the entry of every ticker of S, whatever its status; stops and
\* executed_today stay.
MergeExecuted(b, S) ==
  [b EXCEPT !.entry = [t \in Tickers |-> IF t \in S THEN "none" ELSE b.entry[t]]]
=============================================================================
