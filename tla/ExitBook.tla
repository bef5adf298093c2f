------------------------------ MODULE ExitBook ------------------------------
(***************************************************************************)
(* The order book (executor/order_book.py) as it closes positions: the     *)
(* urgent exits the planner queues for the open, the stop records the      *)
(* daemon watches all day, and the names with a pending entry, which will  *)
(* bring a stop record of their own.  Two stop records may name one        *)
(* ticker: the planner's, for the shares held before the session, and the  *)
(* daemon's, for an entry of the session; the methods that update a record *)
(* change the first one of the ticker.                                     *)
(***************************************************************************)
EXTENDS Integers

CONSTANT Tickers

ExitKinds == {"EXIT", "REDUCE", "COVER"}     \* "signal" of an urgent exit

\* at: the record's place in the list urgent_exits.
UrgentRecord == [ticker : Tickers, kind : ExitKinds, shares : Nat \ {0}, at : Nat]

\* taken: profit_take_executed.
StopRecord == [ticker : Tickers, by : {"planner", "daemon"},
               shares : Nat \ {0}, taken : BOOLEAN]

\* entries: the tickers with a pending entry of the planner.
\* executed: the tickers with a record in executed_today.
Book == [urgent   : SUBSET UrgentRecord,
         stops    : SUBSET StopRecord,
         entries  : SUBSET Tickers,
         executed : SUBSET Tickers]

EmptyBook == [urgent |-> {}, stops |-> {}, entries |-> {}, executed |-> {}]

Watches(b, t) == \E r \in b.stops : r.ticker = t

\* add_urgent_exit for each of U: a pending one of the same ticker and signal
\* wins.
AddUrgentExits(b, U) ==
  [b EXCEPT !.urgent = @ \cup
     {u \in U : ~\E v \in b.urgent : v.ticker = u.ticker /\ v.kind = u.kind}]

MarkUrgentExecuted(b, t, kind) ==
  LET done == {u \in b.urgent : u.ticker = t /\ u.kind = kind}
  IN  [b EXCEPT !.urgent = @ \ done,
                !.executed = @ \cup {u.ticker : u \in done}]

MarkEntryExecuted(b, t) ==
  [b EXCEPT !.entries = @ \ {t}, !.executed = @ \cup {t}]

AddStop(b, r)    == [b EXCEPT !.stops = @ \cup {r}]
RemoveStop(b, t) == [b EXCEPT !.stops = {r \in @ : r.ticker # t}]

\* The planner wrote its record before the daemon added another.
IsFirst(r, S) ==
  r.by = "planner" \/ ~\E q \in S : q.ticker = r.ticker /\ q.by = "planner"

UpdateStopShares(S, t, n) ==
  {IF r.ticker = t /\ IsFirst(r, S) THEN [r EXCEPT !.shares = n] ELSE r : r \in S}

MarkProfitTakeExecuted(S, t) ==
  {IF r.ticker = t /\ IsFirst(r, S) THEN [r EXCEPT !.taken = TRUE] ELSE r : r \in S}

MergeExecuted(b, S) ==
  [b EXCEPT !.urgent = {u \in @ : u.ticker \notin S}, !.entries = @ \ S]
=============================================================================
