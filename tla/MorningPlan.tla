---------------------------- MODULE MorningPlan ----------------------------
(***************************************************************************)
(* The morning planner (executor/main.py): reads the account, decides what *)
(* to sell and to buy by the rules or by the optimizer, and replaces the   *)
(* order book of the session.  The book and the account can both move      *)
(* while it runs: it reads the positions once to decide and once more to   *)
(* set the stops.  A run can be repeated in the session, and can fail at   *)
(* any stage.                                                              *)
(***************************************************************************)
EXTENDS ExitRules, EntryRules

CONSTANTS
  Names, Spy,
  Stories,       \* what may be true of each name: facts of both kinds, and more
  Settings,      \* what may be true of the morning: see Setting
  MaxTrades,     \* bound on the trades a log asks for beyond the mandatory ones
  MaxRuns,       \* bound on the runs of the session
  MaxFills       \* bound on the fills at the broker

VARIABLES
  facts,      \* what is true of each name this morning
  position,   \* shares at the broker
  disk,       \* the order book file
  stage,      \* how far the run has come
  run,        \* its number, and the number of runs
  setting,    \* what is true of the morning
  view,       \* the positions it read at its start
  signals,    \* strategy_exits
  book,       \* its order book in memory
  log,        \* the optimizer's log
  fills       \* fills so far

vars == <<facts, position, disk, stage, run, setting, view, signals, book, log, fills>>

-----------------------------------------------------------------------------
(* Data.                                                                   *)

Gates == [flagged : BOOLEAN, failed : {"tradable", "dispersion", "shape"},
          relative : Answers, batch : {"small", "degenerate", "healthy"}]

\* optimizer: use_portfolio_optimizer; served: whether its log will be usable.
Setting == [optimizer : BOOLEAN, served : BOOLEAN, macro : Regimes, forcedBear : BOOLEAN,
            severity : Nat, drawdown : Nat, gate : Gates]

NoLog == [usable |-> FALSE]
EmptyBook == [date |-> "today", entries |-> {}, urgent |-> {}, stops |-> {}, executed |-> {}]

\* An approved entry: the dollars it was sized at, in hundredths of the NAV.
EntryRecord(t, dollars) == [ticker |-> t, value |-> dollars]

Quarters == DrawdownQuarters(setting.drawdown)
Regime == MarketRegime(setting.macro, setting.forcedBear, setting.severity)
OwnsExits == setting.optimizer
HeldIn(positions) == {t \in Names : positions[t] # 0}

Value(t, shares) == (shares * facts[t].price) \div Unit

\* run, the sectors of the positions: those the signals still list.
KnownBook ==
  [t \in HeldIn(view) |->
     [sector |-> IF facts[t].listed THEN facts[t].sector ELSE "", value |-> Value(t, view[t])]]

\* The names are finitely many, their prices are above zero, and every size
\* and score is a number.
ASSUME PlanAssumption ==
  /\ IsFiniteSet(Names) /\ MaxRuns \in Nat /\ MaxFills \in Nat /\ Settings \subseteq Setting
  /\ \A t \in Names : \A f \in Stories[t] :
       /\ f.shares \in Int /\ f.price \in Nat \ {0} /\ f.score \in Nat /\ f.alpha \in Int
       /\ f.weight \in Nat /\ f.atrWeight \in Nat /\ f.adv \in Nat

-----------------------------------------------------------------------------
(* The order book file.                                                    *)

\* OrderBook.load: a book of another day, or one that cannot be read, counts
\* as none.
Loaded == IF disk.date = "today" THEN disk ELSE EmptyBook

\* set_date and reset_pending: what was executed stays, what is pending goes.
ResetPending(b) == [b EXCEPT !.date = "today", !.entries = {}, !.urgent = {}, !.stops = {}]

\* add_urgent_exit: a pending one of the same ticker and signal wins.
AddUrgent(b, U) ==
  [b EXCEPT !.urgent = @ \cup
     {u \in U : ~\E v \in b.urgent : v.ticker = u.ticker /\ v.kind = u.kind}]

-----------------------------------------------------------------------------
(* A run.                                                                  *)

Init ==
  /\ facts \in [Names -> UNION {Stories[t] : t \in Names}]
  /\ \A t \in Names : facts[t] \in Stories[t]
  /\ position = [t \in Names |-> facts[t].shares]
  /\ disk \in {EmptyBook, [EmptyBook EXCEPT !.date = "earlier", !.executed = Names],
               [EmptyBook EXCEPT !.date = "corrupt"]}
  /\ stage = "idle" /\ run = 0 /\ setting \in Settings
  /\ view = [t \in Names |-> 0] /\ signals = {} /\ book = EmptyBook /\ log = NoLog
  /\ fills = 0

\* run, the start: preflight, the upstream gate and the freshness of the data
\* have passed (a run they stop changes nothing), the account is read.
Begin ==
  /\ stage = "idle" /\ run < MaxRuns
  /\ run' = run + 1
  /\ view' = position
  /\ stage' = "read"
  /\ signals' = {} /\ book' = EmptyBook /\ log' = NoLog
  /\ UNCHANGED <<facts, position, disk, setting, fills>>

\* run, strategy exits and the loss floor.
EvaluateExits ==
  /\ stage = "read"
  /\ LET strategy == IF OwnsExits THEN {} ELSE StrategyExits(facts, HeldIn(view))
     IN  signals' = strategy \cup LossFloorExits(facts, view, strategy)
  /\ stage' = "exits"
  /\ UNCHANGED <<facts, position, disk, run, setting, view, book, log, fills>>

\* run, the book is taken over, and the forced exits.
TakeBook ==
  /\ stage = "exits"
  /\ book' = ResetPending(Loaded)
  /\ signals' = signals \cup ForcedExits(facts, view, signals, Quarters)
  /\ stage' = "book"
  /\ UNCHANGED <<facts, position, disk, run, setting, view, log, fills>>

Decision == DecideEntries(facts, HeldIn(view), KnownBook, Regime, Quarters)

\* run, _plan_entries; skipped when the optimizer buys.
PlanEntries ==
  /\ stage = "book"
  /\ ~OwnsExits => ~Decision.aborted
  /\ book' = IF OwnsExits THEN book
             ELSE [book EXCEPT !.entries = @ \cup
                     {EntryRecord(t, Dollars(facts[t], Quarters)) : t \in Decision.bought}]
  /\ stage' = "entries"
  /\ UNCHANGED <<facts, position, disk, run, setting, view, signals, log, fills>>

\* run, _plan_exits_and_reduces: research's exits are the optimizer's matter
\* when it owns the exits.
PlanExits ==
  /\ stage = "entries"
  /\ LET research == IF OwnsExits THEN [exit |-> {}, reduce |-> {}]
                     ELSE [exit |-> ResearchSells(facts, "EXIT"),
                           reduce |-> ResearchSells(facts, "REDUCE")]
     IN  book' = AddUrgent(book, PlannedSales(research, signals, view))
  /\ signals' = {}
  /\ stage' = IF OwnsExits THEN "optimize" ELSE "planned"
  /\ UNCHANGED <<facts, position, disk, run, setting, view, log, fills>>

-----------------------------------------------------------------------------
(* The optimizer, by what TargetWeights shows of it.                       *)

\* The full exits already queued.
HardExits == {u.ticker : u \in {x \in book.urgent : x.kind = "EXIT"}}

\* Mutant of Pinned: the optimizer is not told of the hard exits.
PinnedUnaware(t) ==
  /\ t # Spy
  /\ \/ facts[t].locked \/ facts[t].research = "EXIT" \/ facts[t].gbmVeto \/ facts[t].alpha < 0
\* _build_eligibility, the exit gates: a name that may hold no weight.
Pinned(t) ==
  /\ t # Spy
  /\ \/ t \in HardExits \/ facts[t].locked \/ facts[t].research = "EXIT"
     \/ facts[t].gbmVeto \/ facts[t].alpha < 0

\* _build_eligibility, the score of a name not held.
Enterable(t) == t = Spy \/ facts[t].score >= MinScore

\* What the weights may ask for: a name without a history has none, and no
\* weight is negative, so that a short is bought back here too.
Wishes(t) ==
  IF facts[t].history = 0 THEN {"none"}
  ELSE IF view[t] < 0 THEN {"buy"}
  ELSE IF Pinned(t) THEN IF view[t] > 0 THEN {"sell"} ELSE {"none"}
  ELSE IF view[t] # 0 THEN {"none", "buy", "trim", "sell"}
  ELSE IF Enterable(t) THEN {"none", "buy"} ELSE {"none"}

\* run_shadow_optimizer: it only returns a log.
Optimize ==
  /\ stage = "optimize"
  /\ \/ /\ setting.served
        /\ \E wish \in [Names -> {"none", "buy", "trim", "sell"}] :
             /\ \A t \in Names : wish[t] \in Wishes(t)
             /\ Cardinality({t \in Names : wish[t] # "none" /\ Cardinality(Wishes(t)) > 1}) <= MaxTrades
             /\ log' = [usable |-> TRUE, wish |-> wish]
     \/ ~setting.served /\ log' = NoLog
  /\ stage' = "cutover"
  /\ UNCHANGED <<facts, position, disk, run, setting, view, signals, book, fills>>

\* _should_hold_book: a gate that failed holds the book unless it failed on a
\* measure that the served alphas themselves do not confirm.
ShouldHold(g) ==
  /\ g.flagged
  /\ \/ g.failed = "tradable"
     \/ g.failed = "dispersion" /\ g.relative = "no"
     \/ ~(g.failed = "dispersion" /\ g.relative = "yes") /\ g.batch # "healthy"

\* _resolve_price: live, or the last close.
Resolved(t) == facts[t].priced \/ facts[t].history > 0

\* _build_entry_record and add_entry, one share.
OptimizerEntries ==
  {EntryRecord(t, Value(t, 1)) : t \in {u \in Names : log.wish[u] = "buy" /\ Resolved(u)}}

\* _build_urgent_exit_record: all of a position of weight zero, else one share
\* of it, which may be all.
OptimizerSales ==
  {IF log.wish[t] = "sell" \/ view[t] = 1 THEN UrgentRecord(t, "EXIT", view[t])
   ELSE UrgentRecord(t, "REDUCE", 1) :
     t \in {u \in Names : log.wish[u] \in {"trim", "sell"} /\ Resolved(u) /\ view[u] > 0}}

\* run, the cutover: a held book, or a log that cannot be used, adds nothing.
Cutover ==
  /\ stage = "cutover"
  /\ book' = IF ShouldHold(setting.gate) \/ ~log.usable THEN book
             ELSE [AddUrgent(book, OptimizerSales) EXCEPT !.entries = OptimizerEntries]
  /\ log' = NoLog
  /\ stage' = "planned"
  /\ UNCHANGED <<facts, position, disk, run, setting, view, signals, fills>>

-----------------------------------------------------------------------------
(* The end of a run.                                                       *)

Watched(positions) ==
  {t \in Names : /\ positions[t] > 0
                 /\ ~\E u \in book.urgent : u.ticker = t
                 /\ facts[t].atrKnown /\ facts[t].paid > 0}

\* Mutant of Armed: a cover of the signed position.
ArmedSigned(positions) ==
  AddUrgent([book EXCEPT !.stops =
               {[ticker |-> t, shares |-> positions[t], kind |-> "gap"] :
                  t \in Watched(positions)}],
            {UrgentRecord(t, "COVER", positions[t]) :
               t \in {u \in Names : positions[u] < 0}})
\* The stop records and covers for some positions.
Armed(positions) ==
  AddUrgent([book EXCEPT !.stops =
               {[ticker |-> t, shares |-> positions[t],
                 kind |-> IF setting.optimizer THEN "gap" ELSE "alpha"] : t \in Watched(positions)}],
            {UrgentRecord(t, "COVER", -positions[t]) :
               t \in {u \in Names : positions[u] < 0}})

\* Mutant of Finalize: the positions the run read at its start are armed.
FinalizeStale ==
  /\ stage = "planned"
  /\ disk' = Armed(view)
  /\ stage' = "saved"
  /\ UNCHANGED <<facts, position, run, setting, view, signals, book, log, fills>>
\* _write_stops_and_finalize, up to the save: the positions are read again.
Finalize ==
  /\ stage = "planned"
  /\ disk' = Armed(position)
  /\ stage' = "saved"
  /\ UNCHANGED <<facts, position, run, setting, view, signals, book, log, fills>>

\* The process ends; only the file is left of it.
Exit ==
  /\ stage' = "idle"
  /\ view' = [t \in Names |-> 0] /\ signals' = {} /\ book' = EmptyBook /\ log' = NoLog
  /\ UNCHANGED <<facts, position, disk, run, setting, fills>>

\* What follows the save reports, and changes nothing here.
Report == stage = "saved" /\ Exit

\* An exception, or the process is killed.
Fail == stage # "idle" /\ Exit

\* The broker fills an order of an earlier session's while the planner runs;
\* no stage but the last looks at the positions again.
LateFill ==
  /\ stage = "planned" /\ fills < MaxFills
  /\ \E t \in Names \ {Spy}, n \in {-1, 1} : position' = [position EXCEPT ![t] = @ + n]
  /\ fills' = fills + 1
  /\ UNCHANGED <<facts, disk, stage, run, setting, view, signals, book, log>>

\* The daemon executes a record of the book between two runs.
Trade ==
  /\ stage = "idle" /\ disk.date = "today" /\ fills < MaxFills
  /\ \/ \E u \in disk.urgent :
          /\ position' = [position EXCEPT ![u.ticker] =
                            IF u.kind = "COVER" THEN @ + u.shares ELSE @ - u.shares]
          /\ disk' = [disk EXCEPT !.urgent = @ \ {u}, !.executed = @ \cup {u.ticker}]
     \/ \E e \in disk.entries :
          /\ position' = [position EXCEPT ![e.ticker] = @ + (e.value * Unit) \div facts[e.ticker].price]
          /\ disk' = [disk EXCEPT !.entries = @ \ {e}, !.executed = @ \cup {e.ticker}]
  /\ fills' = fills + 1
  /\ UNCHANGED <<facts, stage, run, setting, view, signals, book, log>>

Next ==
  \/ Begin \/ EvaluateExits \/ TakeBook \/ PlanEntries \/ PlanExits \/ Optimize
  \/ Cutover \/ Finalize \/ Report \/ Fail \/ LateFill \/ Trade

Spec == Init /\ [][Next]_vars

-----------------------------------------------------------------------------
(* Properties.  Most speak of the step that saves the book.                *)

Pending(b) == b.entries \cup b.urgent \cup b.stops

\* Every variable has its type; no record is for no shares, and what the book
\* watches or buys back is a count above zero.
TypeOK ==
  /\ position \in [Names -> Int] /\ view \in [Names -> Int]
  /\ disk.date \in {"today", "earlier", "corrupt"} /\ disk.executed \subseteq Names
  /\ \A r \in Pending(disk) : r.ticker \in Names
  /\ \A r \in disk.urgent : r.shares \in Int \ {0} /\ (r.kind = "COVER" => r.shares > 0)
  /\ \A r \in disk.stops : r.shares > 0
  /\ stage \in {"idle", "read", "exits", "book", "entries", "optimize", "cutover",
                "planned", "saved"}
  /\ run \in 0 .. MaxRuns /\ fills \in 0 .. MaxFills

Saves == stage = "planned" /\ stage' = "saved"

UrgentKinds(b, t) == {u.kind : u \in {v \in b.urgent : v.ticker = t}}

\* When the book is saved, whatever filled after the planner read the account: a
\* name held that nothing sells has a stop of as many shares as are held, a name
\* that is only exited is sold for all it was read to have, no name has both a
\* sale and a stop, and every short is bought back.  The shares that a REDUCE
\* leaves have no stop, nor do those that filled after an EXIT was sized: a name
\* with a sale pending is skipped.  A name without an ATR or a cost has no stop
\* either.
PositionsWatchedStep ==
  Saves => \A t \in Names :
             /\ position[t] > 0 /\ facts[t].atrKnown /\ facts[t].paid > 0
                  /\ "REDUCE" \notin UrgentKinds(disk', t) =>
                  \/ \E s \in disk'.stops : s.ticker = t /\ s.shares = position[t]
                  \/ \E u \in disk'.urgent :
                       u.ticker = t /\ u.kind = "EXIT" /\ u.shares = view[t]
             /\ UrgentKinds(disk', t) # {} => ~\E s \in disk'.stops : s.ticker = t
             /\ position[t] < 0 => \E u \in disk'.urgent :
                                     /\ u.ticker = t /\ u.kind = "COVER"
                                     /\ u.shares = -position[t]

\* A name below the loss floor is sold whole, with the optimizer on or off, its
\* log usable or not, the book held or not, priced or not.  A name research
\* says EXIT of is the exception: see HardRiskSurvives.
HardRiskSoldStep ==
  Saves => \A t \in Names :
             view[t] > 0 /\ LossFloor(facts[t])
               /\ ~(OwnsExits /\ facts[t].research = "EXIT") =>
             \E u \in disk'.urgent : u.ticker = t /\ u.kind = "EXIT" /\ u.shares = view[t]

\* The loss floor "runs UNCONDITIONALLY": a hard-risk override that survives the
\* optimizer.
HardRiskSurvivesStep ==
  Saves => \A t \in Names :
             view[t] > 0 /\ LossFloor(facts[t]) =>
             \E u \in disk'.urgent : u.ticker = t /\ u.kind = "EXIT" /\ u.shares = view[t]

\* No book sells a name whole and buys it.  The benchmark fund is the exception:
\* it is always eligible.
NotSoldAndBoughtStep ==
  Saves => \A t \in Names \ {Spy} :
             ~(/\ \E u \in disk'.urgent : u.ticker = t /\ u.kind = "EXIT"
               /\ \E e \in disk'.entries : e.ticker = t)

\* The entries of a plan made by the rules stay, all together and with what is
\* held, within the caps of their sectors and of the equity.
BatchWithinCapsStep ==
  Saves /\ ~OwnsExits /\ disk'.entries # {} =>
    LET bought(S) == MapThenSumSet(LAMBDA e : e.value, {e \in disk'.entries : e.ticker \in S})
    IN  /\ \A e \in disk'.entries :
             LET s == facts[e.ticker].sector
             IN  Exposure(KnownBook, s) + bought({t \in Names : facts[t].sector = s}) <= MaxSector
        /\ Equity(KnownBook) + bought(Names) <= MaxEquity
=============================================================================
