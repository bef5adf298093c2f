------------------------------ MODULE DaemonDay ------------------------------
(***************************************************************************)
(* The daemon's day under the optimizer (executor/daemon.py, run_daemon;   *)
(* executor/intraday_resolve.py): it waits for the book and for the open,  *)
(* executes what is urgent, then ticks: reload the book, catastrophic gap  *)
(* stops, the drawdown overlay and the redeployment of the cash they       *)
(* freed, the entries.  At the close it starts the evening's pipeline.  It *)
(* can be stopped, fail or be killed between any two steps, and is started *)
(* again; what it knows of the day's stops is in its memory only.          *)
(*                                                                         *)
(* How one order is placed is EntryExecution's and ExitExecution's matter: *)
(* here it is filled or not.  Sizes are in hundredths of the NAV; prices   *)
(* stand still.                                                            *)
(***************************************************************************)
EXTENDS Integers, FiniteSets, FiniteSetsExt, ExitRules

CONSTANTS
  Names,        \* the names of the optimizer's log, but the fund
  Fund,         \* SPY
  Scores,       \* the research score of each
  Mornings,     \* what the planner may have left: see Book, with what is held
  Ranged,       \* the names the planner has an ATR of, and so a stop for
  Tiers,        \* the drawdown multipliers the account may show, in quarters
  Targets,      \* the weights a re-solve may give the names
  MaxResolves,  \* intraday_resolve_max_per_day
  MaxStarts     \* bound on the processes started in the session, the planner's too

VARIABLES
  held,       \* the broker's positions
  file,       \* the order book file
  replans,    \* runs of the planner during the session
  clock,
  phase,      \* where the daemon is
  memory,     \* what it knows
  boots,      \* its starts
  pipelines   \* the starts of the evening's pipeline

vars == <<held, file, replans, clock, phase, memory, boots, pipelines>>

-----------------------------------------------------------------------------
(* Data.                                                                   *)

Sleeve == 3       \* cash_sleeve_pct
MinFreed == 1     \* intraday_resolve_min_freed_cash_pct
Whole == 100

All == Names \cup {Fund}
Clocks == <<"early", "open", "late", "closed">>   \* late: past intraday_resolve_cutoff_et
InHours == clock \in {"open", "late"}

\* An approved entry; its entry_id is the pair of ticker and source.
Entry(t, size, source) == [ticker |-> t, size |-> size, source |-> source]

\* urgent and stops: names, each with one record; done: executed_today.
Book == [entries : SUBSET [ticker : All, size : 1 .. Whole, source : {"plan", "redeploy"}],
         urgent : SUBSET All, stops : SUBSET All, done : SUBSET All]

HasContent(b) == b.entries # {} \/ b.urgent # {} \/ b.stops # {}

\* executed: executed_tickers; stopped: _stopped_out_today; forced:
\* _dd_forced_today; freed: _hard_risk_exit_seen; opened: market_opened.
\* settled is not the daemon's: the names stopped before this tick.
Memory == [book : Book, executed : SUBSET All, stopped : SUBSET All, forced : SUBSET All,
           freed : BOOLEAN, resolves : 0 .. MaxResolves, opened : BOOLEAN,
           settled : SUBSET All]

Fresh(b) == [book |-> b, executed |-> {}, stopped |-> {}, forced |-> {}, freed |-> FALSE,
             resolves |-> 0, opened |-> FALSE, settled |-> {}]
Nothing == Fresh([entries |-> {}, urgent |-> {}, stops |-> {}, done |-> {}])

Invested == MapThenSumSet(LAMBDA t : held[t], All)
Committed(b) == MapThenSumSet(LAMBDA e : e.size, b.entries)

Init ==
  /\ \E m \in Mornings : held = m.held /\ file = m.book
  /\ replans = 0 /\ clock = "early" /\ phase = "down" /\ memory = Nothing
  /\ boots = 0 /\ pipelines = 0

-----------------------------------------------------------------------------
(* Start and end.                                                          *)

\* run_daemon, the start: not on a session that is over.
Boot ==
  /\ phase = "down" /\ boots + replans < MaxStarts /\ clock # "closed"
  /\ boots' = boots + 1
  /\ memory' = Fresh(file)
  /\ phase' = "waiting"
  /\ UNCHANGED <<held, file, replans, clock, pipelines>>

\* The book has nothing yet: it is loaded again, unless the day is over.
AwaitBook ==
  /\ phase = "waiting" /\ ~HasContent(memory.book)
  /\ IF clock = "closed" THEN phase' = "down" /\ memory' = Nothing
     ELSE phase' = phase /\ memory' = [memory EXCEPT !.book = file]
  /\ UNCHANGED <<held, file, replans, clock, boots, pipelines>>

\* The book is there and the market open; what was executed is known from it.
Open ==
  /\ phase = "waiting" /\ HasContent(memory.book) /\ InHours
  /\ memory' = [memory EXCEPT !.opened = TRUE, !.executed = memory.book.done]
  /\ phase' = "urgent"
  /\ UNCHANGED <<held, file, replans, clock, boots, pipelines>>

\* Mutant of PipelineDue: it does not look at the clock.
PipelineDueEver == memory.opened
\* The finally block: the evening follows a session that was open and is over.
PipelineDue == memory.opened /\ ~InHours

\* The end of the process through its finally block, at the close, by a signal
\* or by an exception; the call that starts the pipeline can fail.
Leave ==
  /\ phase # "down"
  /\ \E started \in BOOLEAN :
       pipelines' = IF PipelineDue /\ started THEN pipelines + 1 ELSE pipelines
  /\ phase' = "down" /\ memory' = Nothing
  /\ UNCHANGED <<held, file, replans, clock, boots>>

\* The process is killed.
Die ==
  /\ phase # "down"
  /\ phase' = "down" /\ memory' = Nothing
  /\ UNCHANGED <<held, file, replans, clock, boots, pipelines>>

\* Within a tick only the close may pass.
TimePasses ==
  /\ clock # "closed"
  /\ phase \in {"down", "waiting", "asleep"} \/ clock = "late"
  /\ clock' = Clocks[1 + CHOOSE i \in DOMAIN Clocks : Clocks[i] = clock]
  /\ UNCHANGED <<held, file, replans, phase, memory, boots, pipelines>>

\* The planner is run again; it buys with the cash there is.
Replan ==
  /\ boots + replans < MaxStarts
  /\ replans' = replans + 1
  /\ LET room == Whole - Sleeve - Invested
     IN  \E E \in {{}} \cup {{Entry(t, room, "plan")} : t \in All} :
           /\ E # {} => room > 0
           /\ file' = [file EXCEPT !.entries = E, !.urgent = {},
                                   !.stops = {t \in Ranged : held[t] > 0}]
  /\ UNCHANGED <<held, clock, phase, memory, boots, pipelines>>

-----------------------------------------------------------------------------
(* Selling.                                                                *)

\* A set of sales: of those tried, some are filled, and at most one is lost
\* with the connection, filled or not, of which nothing is noted.
Attempts(T) ==
  {a \in [tried : SUBSET T, filled : SUBSET T, lost : SUBSET T] :
     /\ a.filled \subseteq a.tried /\ a.lost \subseteq a.tried /\ Cardinality(a.lost) <= 1}

\* _execute_exit: a name of which nothing is held any more loses its stop too.
Closed(a) == {t \in a.tried \ a.lost : t \in a.filled \/ held[t] = 0}
AfterSales(a) == [t \in All |-> IF t \in a.filled THEN 0 ELSE held[t]]
WithoutStops(b, S) == [b EXCEPT !.stops = @ \ S]

\* What the loops note of their sales, also of those that were not filled.
HardRisk(a) ==
  LET noted == a.tried \ a.lost
  IN  [memory EXCEPT !.book = WithoutStops(@, Closed(a)),
                     !.executed = @ \cup noted, !.stopped = @ \cup noted,
                     !.freed = @ \/ noted # {}]

\* order_book.save
Save(changed, b) == file' = IF changed THEN b ELSE file

\* Phase 0: the urgent exits, once.
UrgentExits ==
  /\ phase = "urgent"
  /\ \E a \in Attempts(memory.book.urgent) :
       /\ a.tried = memory.book.urgent /\ a.lost = {}
       /\ held' = AfterSales(a)
       /\ LET gone == Closed(a)
              b == [memory.book EXCEPT !.urgent = @ \ gone, !.done = @ \cup gone,
                                       !.stops = @ \ a.filled]
          IN  /\ memory' = [memory EXCEPT !.book = b, !.executed = @ \cup a.filled]
              /\ Save(memory.book.urgent # {}, b)
  /\ phase' = "asleep"
  /\ UNCHANGED <<replans, clock, boots, pipelines>>

-----------------------------------------------------------------------------
(* A tick.                                                                 *)

\* Mutant of Merged: what was executed comes back with the file.
MergedNot(b, executed) == b
\* merge_executed: by ticker; stops stay.
Merged(b, executed) ==
  [b EXCEPT !.entries = {e \in @ : e.ticker \notin executed}, !.urgent = @ \ executed]

\* The book is read again.
Poll ==
  /\ phase = "asleep" /\ InHours
  /\ memory' = [memory EXCEPT !.book = Merged(file, memory.executed), !.settled = memory.stopped]
  /\ phase' = "stops"
  /\ UNCHANGED <<held, file, replans, clock, boots, pipelines>>

\* The catastrophic gap stops; a lost connection ends the loop.
GapStops ==
  /\ phase = "stops"
  /\ \E a \in Attempts(memory.book.stops) :
       /\ held' = AfterSales(a)
       /\ memory' = HardRisk(a)
       /\ Save(Closed(a) # {}, memory'.book)
  /\ phase' = "overlay"
  /\ UNCHANGED <<replans, clock, boots, pipelines>>

\* select_forced_exits: the names still to go for the tier.
Headroom(count) == count - Cardinality(memory.stopped \cup memory.forced)

\* The lowest of the held names that are not out already, by score, then size.
Lowest(n) ==
  LET left == {t \in All : held[t] > 0} \ (memory.stopped \cup memory.forced)
      below(t) == {u \in left : \/ Scores[u] < Scores[t]
                                \/ Scores[u] = Scores[t] /\ held[u] < held[t]}
  IN  {t \in left : Cardinality(below(t)) < n}

\* compute_drawdown_overlay and the exits it forces; an exception, and a name
\* without a price, leave the rest undone.
ForceExits(quarters) ==
  \E a \in Attempts(Lowest(Headroom(ForcedCount(quarters)))) :
    /\ ForcedCount(quarters) > 0
    /\ held' = AfterSales(a)
    /\ memory' = [HardRisk(a) EXCEPT !.forced = @ \cup (a.tried \ a.lost)]
    /\ Save(Closed(a) # {}, memory'.book)

\* available_redeploy_cash
Available ==
  Max({0, Whole - Invested}) - Sleeve - Committed(memory.book)

\* The answers of solve_redeploy: the whole book again, at the sleeve, without
\* what was stopped.  The fund takes what the names leave.
Resolved ==
  {w \in {[t \in All |->
             IF t = Fund THEN Whole - Sleeve - MapThenSumSet(LAMBDA u : v[u], Names)
             ELSE v[t]] : v \in [Names -> Targets]} :
     /\ w[Fund] >= 0 /\ \A t \in Names \cap memory.stopped : w[t] = 0}

\* Its buys: the sells of the answer are left out, and a name of which an entry
\* of this source is pending already.
Redeployed(w) ==
  {Entry(t, w[t] - held[t], "redeploy") :
     t \in {u \in All \ memory.stopped :
              /\ w[u] > held[u]
              /\ ~\E e \in memory.book.entries : e.ticker = u /\ e.source = "redeploy"}}

\* The redeployment: once after each hard-risk exit, whatever comes of it.
Redeploy ==
  /\ memory.freed /\ memory.resolves < MaxResolves /\ clock \in {"early", "open"}
  /\ Available > MinFreed
  /\ \E E \in {{}} \cup {Redeployed(w) : w \in Resolved} :
       /\ memory' = [memory EXCEPT !.book.entries = @ \cup E, !.freed = FALSE,
                                   !.resolves = @ + 1]
       /\ Save(E # {}, memory'.book)
  /\ UNCHANGED held

\* The drawdown overlay and the redeployment: no drawdown, no forced exit; in
\* any drawdown no redeployment.  Without the optimizer's log, after an
\* exception, or with nothing to do, nothing happens.
Reconcile ==
  /\ phase = "overlay"
  /\ \/ \E q \in Tiers : ForceExits(q)
     \/ 4 \in Tiers /\ Redeploy
     \/ UNCHANGED <<held, file, memory>>
  /\ phase' = "entries"
  /\ UNCHANGED <<replans, clock, boots, pipelines>>

\* The entries whose trigger fires, in a book that was merged before the stops:
\* each name counts as executed, filled or not.
Entries ==
  /\ phase = "entries"
  /\ \E fired \in SUBSET memory.book.entries :
     \E bought \in SUBSET fired :
       LET names(E) == {e.ticker : e \in E}
           b == [memory.book EXCEPT !.entries = @ \ bought, !.done = @ \cup names(bought)]
       IN  /\ held' = [t \in All |-> held[t] + Committed([entries |-> {e \in bought : e.ticker = t}])]
           /\ memory' = [memory EXCEPT !.book = b, !.executed = @ \cup names(fired)]
           /\ Save(bought # {}, b)
  /\ phase' = "asleep"
  /\ UNCHANGED <<replans, clock, boots, pipelines>>

Next ==
  \/ Boot \/ AwaitBook \/ Open \/ Leave \/ Die \/ TimePasses \/ Replan
  \/ UrgentExits \/ Poll \/ GapStops \/ Reconcile \/ Entries

Spec == Init /\ [][Next]_vars

-----------------------------------------------------------------------------
(* Properties.                                                             *)

TypeOK ==
  /\ \A t \in All : held[t] \in Nat
  /\ file \in Book /\ memory \in Memory
  /\ clock \in {Clocks[i] : i \in DOMAIN Clocks}
  /\ phase \in {"down", "waiting", "urgent", "asleep", "stops", "overlay", "entries"}
  /\ replans \in 0 .. MaxStarts /\ boots \in 0 .. MaxStarts /\ pipelines \in Nat

Bought == {t \in All : held'[t] > held[t]}

\* A name the process put out for hard risk in an earlier tick, sold or not, is
\* not bought again in its session, by a morning entry, by an entry of a later
\* plan or by the redeployment.
StoppedStaysOut == [][Bought \cap memory.settled = {}]_vars

\* "gap-stopped + dd-forced names (no same-day rebuy)": nor is one that it sold
\* in this very tick.
NoSameDayRebuy == [][Bought \cap {t \in memory.stopped : held[t] = 0} = {}]_vars

\* The evening's pipeline is started once, after the close, whatever stops and
\* starts the daemon.
PipelineOnce == pipelines <= 1 /\ (pipelines = 1 => clock = "closed")
=============================================================================
