# Formal models of the trading executor

TLA+ models, TLC runs and TLAPS proofs for the executor: the morning planner
that reads research and predictions and writes an order book, the intraday
daemon that trades it, and the evening's jobs that strike and correct the
ledger. Paths below are relative to the repository; "the
daemon" is `executor/daemon.py`.

## 1. Inventory

| Part | State | Operations | Talks to |
|---|---|---|---|
| order book (`order_book.py`) | `data/order_book.json`: approved entries (pending / executing), urgent exits, stop records, executed today | load, save, one method per mutation | planner and daemon both rewrite the whole file |
| morning planner (`main.py`, `deciders.py`, optimizer) | the run's decisions | loads the book at its start, saves it at its end | book, broker positions, S3 |
| daemon (`daemon.py`) | the book in memory, executed tickers, Phase 0 positions cache, names stopped out, redeploy counters | startup reconciliation, Phase 0, poll tick (exits, overlay, redeploy, entries), shutdown | book, broker, trades.db, EOD pipeline |
| broker client (`ibkr.py`, `bracket_orders.py`) | none of its own; the broker keeps orders and positions | place, cancel, positions, open orders | IB gateway, through a single-threaded event loop |
| trades ledger (`trade_logger.py`) | `trades.db`: trades, eod_pnl, dividend accruals, risk events | log_trade, seed queries, accrual and settlement, backup | daemon, EOD jobs |
| fill reconciliation (`fill_reconciliation.py`) | non-terminal trade rows, sweep markers in S3 | patch from session fills, from the daemon log, from archived logs | daemon tick, snapshot capture, sweep |
| end-of-day (`eod_reconcile.py`, `snapshot_capturer.py`, `eod_report.py`) | NAV row, snapshot artifacts | capture, reconcile, report | trades.db, S3 |
| PnL integrity, backfills, money ledger, dividends | gap registers, accruals | check, accept, backfill, settle | trades.db, S3 |
| champion, optimizer cutover, de-risk gate, turnover tripwire | pointers and thresholds | promote, gate | planner |
| prices (`price_monitor.py`, `polygon_client.py`) | quote cache, a shared rate-limit window per key | subscribe, poll, acquire | daemon, planner |
| risk (`risk_guard.py`, `position_sizer.py`, `strategies/`) | none (pure) | size, veto, exit rules | planner |
| deployment (`infrastructure/`) | checkouts, lock file, units | boot pull, provisioning, restart policy | systemd |

Hard behaviours: the daemon may die between any two of its saves and is
restarted by systemd (`Restart=on-failure`); an order lives on at the broker
after the daemon stopped waiting for it; the order book on disk has two
writers; an order's answer may be a rejection that sold something, a timeout
that fills later, or nothing; positions and open orders are read at one moment
and used at another. What makes each part correct:

- entry path: an approved entry becomes at most one position, and no order is
  ever unknown to the durable state;
- exit path: the sells of a name never exceed its position, a position is not
  left unwatched by accident, and Phase 0 lets the daemon go on;
- fill reconciliation: a row says what the broker executed, once;
- intake: nobody trades on a feed that is late, broken or another arm's, and
  what the predictor knows of a name is not lost on the way;
- planner: what is held leaves the run watched or on its way out, hard risk is
  sold whatever the optimizer does, and the entries fit the caps together;
- optimizer: what may not be held is sold whole, and its own budgets never leave
  it without an answer;
- daemon's day: a name stopped out is not bought back the same day, and the
  evening's pipeline starts once;
- ledger: rows converge on the settled closes, a correction reaches every row
  that rests on it and the journal, a dividend is booked once;
- attribution: what no sleeve explains has a name, and an error of the broker's
  total is not excused by its marks.

Every component is listed in `PROJECT.json`, with its status; the hazards, with
the line where each bites, too.

## 2. Plan

| module | models | composed in | state |
|---|---|---|---|
| `OrderBook`, `EntryExecution` | the entry half of the book, the daemon that buys | `MCEntryExecution` | checked, proved |
| `EntryPromise` | what the entry path promises, without daemon, files and crashes | refined by `EntryExecution` | refinement checked and proved |
| `ExitBook`, `ExitExecution` | the exit half of the book, the daemon that sells | `MCExitExecution` | checked, safety proved |
| `FillReconciliation` | trade rows against the broker's executions | `MCFillReconciliation` | checked, safety proved |
| `SignalIntake` | what the planner reads, and the champion's arms | `TradingDay` | checked, proved |
| `ExitRules`, `EntryRules`, `MorningPlan` | the rules as operators, the planner's run over them | `TradingDay` | checked, proved |
| `TargetWeights` | what the optimizer asks, may be answered, and makes of it | `TradingDay` | checked, proved |
| `DaemonDay` | order of the phases of a tick, stops, overlay, redeployment, lifecycle | `TradingDay` | checked, proved |
| `TradingDay` | these four side by side, with what each may be given | `MCTradingDay` | checked, proved |
| `EodLedger` | strikes, audits, accruals and the journal, commit by commit | `MCEvening` | checked, proved |
| `SessionBooks` | the arithmetic of one strike | `MCEvening` | checked, proved |

`EntryExecution` and `ExitExecution` take one handler of the daemon apart into
its stores and its answers; `DaemonDay` takes the handlers for steps and keeps
what they tell each other. Left out: the gap register. Proofs are in modules named after the model they are
about (`...Proofs`); `Totals` is the theory of sums they share.

## 3. The entry path

`OrderBook` holds the entry half of the book as a value, with one operator per
method. `EntryExecution` is the daemon on top of it. The book holds one entry per
name, as the planner writes it; `add_entry` tells entries apart by `entry_id`, and a
second entry of a name can come from the daemon's re-solve only, which is in
`DaemonDay`.

That an entry starts once per process is not claimed, because it does not: after a
lost connection its name is not among `executed_tickers` (daemon.py:1852-1855), a
planner re-run makes it pending again, and the same process begins it a second time.

State. `disk`, `tradesDb`, `orders` and `protected` survive a crash: the book
file, the ENTER rows of the session, the BUYs sent to the broker (status and
filled shares, in order, per name) and the protective stops. `mem`, `traded`,
`withheld`, `queue`, `cur`, `attempt` and `pc` are the process: its book, its
`executed_tickers`, the correctness gate's verdict and its place in the code.

Actions follow the handlers in the order of the code: `Boot` and `Reconcile`
(`_reconcile_executing_entries`, then the seeding of `executed_tickers`);
`Tick` (reload, merge, and the save some earlier part of a tick may do);
`NoTrigger`, `RefuseEntry` and `BeginEntry` for one pending entry (the last
saves the write-ahead record); `PlaceOrder`, `FailQualification` and
`RetryOrder` for `_place_order_with_retry`; `RejectedEntry`, `TimeoutEntry`,
`AcceptedEntry`, `LogTrade`, `FinalizeEntry` for what `_execute_entry` does with
the answer, split where a crash can come between two stores; `LoseConnection`;
`Crash`; `Close`; and the planner's `StartReplan` / `FinishReplan`.

The broker is external. It acknowledges, fills and cancels orders at any time.
Positions and open orders agree at the moment they are read. `Faults` names
what may go wrong in an instance:

| fault | meaning |
|---|---|
| silent | a status the placement code does not list, so the answer is "Timeout" |
| partial_cancel | a cancelled order that had filled in part |
| unqualified | the contract cannot be qualified |
| unreadable | a read of positions or open orders raises |
| db | trades.db cannot be read at startup |
| connlost | ConnectionError during an entry |
| gate | the correctness gate withholds entries |

### Runs

| run | instance | shows |
|---|---|---|
| entry_recovery | 2 names (one held: a top-up), 3 attempts, 2 crashes, db / gate / unqualified | typing, one exposed order per name, every order accounted for, in-doubt records settle, `EntryPromise` implemented |
| entry_hostile | 1 name, bracket placement, 2 attempts, a crash, a planner re-run, every fault but db | a logged fill is not bought again |
| entry_bracket | nothing fails, bracket placement | violation: a live order is retried |

Two crashes are enough to crash once while trading and once while recovering
from it; two names let the queue of a tick hold one while the other is being
bought; three attempts are the code's `MAX_ORDER_RETRIES`, and the hostile run
uses two to stay small (a first attempt and a retry).

`InDoubtResolves` assumes `WF_vars(DaemonStep)`: the daemon keeps taking steps
and systemd restarts it. Nothing is assumed of the broker. It is not claimed
under lost connections or unreadable broker state, where an in-doubt record
waits for the next boot.

### Proofs (`EntryExecutionProofs`)

For any set of names, any lot, any number of attempts and crashes:

- `TypeCorrect`: typing, with `Control`, which ties `cur` and `attempt` to `pc`;
- `LoggedFillSafe`: `LoggedFillNotRebought` when trades.db can be read, from
  `Seeded` (past boot, every row is in `traded`) and `Fresh` (nothing queued was
  traded);
- `EntryBoughtOnce`: `AtMostOneExposedOrder` under `BrokerAnswers` (plain
  orders, no silent or partially cancelled order, no planner re-run);
- `EntryAccounted`: `EveryOrderAccounted` under the same, when the broker can be
  read.

The last two rest on `WriteAhead`: a name whose record is pending, in memory or
on disk, has no exposed order, and while an entry is in hand its record on disk
is executing. Neither property is inductive by itself: both are about orders
only, and what keeps a second order from going out is what the book says about
the first. `ConstantsAssumption` is the only assumption on the constants.
`BrokerAnswers` is needed: without it the same properties are false, which is
the finding of `entry_bracket` and the second hazard of `timeout_retry`.

### The promise and its refinement (`EntryPromise`)

`EntryPromise` has three variables for each name: `claim` (free, claimed, done),
`working` and `bought`, and six actions. The mapping (`Promise` in
`EntryExecution`) reads the claim off the book on disk (`executing` is claimed,
`executed_today` is done), the working order and the shares off the broker. It
says the order in which things may become true: an order goes out only under a
claim that is on disk, no second one while the first works or has bought, and a
claim goes back to free only while nothing was bought and nothing works. A
settled name may have bought nothing: an entry that is refused to its last
attempt is settled too.

`EntryKeepsPromise` proves `Spec => KeepsPromise` under `BrokerReadable`
(`BrokerAnswers`, positions and open orders can be read, no lost connection):
without it a claim is released that may have bought, or stays on disk while the
process goes on. The inductive invariant is that of the safety proofs
strengthened by `OneClaim`: at most one name is claimed on disk, the one in hand
or the one a crash left; no claimed name is executed; a running daemon's book
agrees with the disk at boot and never trails it on what is executed. It is
needed because reconciliation settles all claims in one step: with at most one,
that step is one step of the promise or a stutter.

## 4. The exit path

`ExitBook` holds the urgent exits and the stop records. `ExitExecution` is the
daemon that closes positions: `OpenPhase0` (positions read once, covers for
shorts enqueued), `SkipUrgent` / `BeginUrgent` / `FinishUrgent`, `EndPhase0` (one
save); then per tick `Tick`, `NoSignal` / `SignalExit` for each stop record,
`ForceExit` for the drawdown overlay, `EntryAccepted` for an entry of the tick
with its stop record and broker stop, `FinishExit` / `FailExit`; `LoseConnection`,
`Crash`, `Close`.

Urgent exits are taken in the order of their list, the same after a restart: each
record has its place (`at`), `NextUrgent` is the first that is left, and covers
enqueued at the open go to the end (`Behind`). An entry of the book is pending
(`entries`) until it is accepted, in the tick of a sale of its name too, since the
entry loop does not ask `executed_tickers`. It fills whole, or with `slow_entry` in
part or not yet: its stop record is then for the shares filled by then and is never
raised, while the rest goes on working.

Prices are abstracted: a record may signal whatever `evaluate` may return for
it, an EXIT or, once per record and only without the optimizer, a REDUCE of
half. Orders left at the broker are counted in shares per name and kind
(`working`); the order in hand is `order`. Because ib_insync runs on the
daemon's one thread, the broker's events are seen only while the daemon sleeps
or waits (`Listening`): between a validation and its order nothing moves.

| run | instance | shows |
|---|---|---|
| exit_safe | 1 name holding up to 3 shares, 1 urgent exit, 1 crash, every fault set; or 2 names long, short or flat, 2 urgent exits, no crash; entries of 2 shares | typing, no oversell, watching ends with a sale, Phase 0 ends |
| exit_restart | 2 names, several urgent exits, 1 crash, no other fault | violation: a short |

The preconditions of the two safety properties are where the code makes no
promise, and each is shown by a run or a hazard. A book that a crash may make
Phase 0 repeat holds one urgent sell at most, or the fault `several` is on:
`RepeatIsSafe` leaves out a restart with several exits or a cover to repeat
(exit_restart; a cover can repeat the same way).
`BrokerTells` leaves out an order whose status does not tell what became of it
and a blind read. `RecordTells` leaves three things out of `WatchEndsWithSale`, and
of nothing else: `dropped` (an accepted order the broker cancels later), `topup` (two
records of one name) and `slow_entry`. An exit sized by the record of an entry that
was filled in part sells those shares and drops the record
(daemon.py:2257-2258): what fills afterwards is held and not watched. No line of the
source promises otherwise, so it is a hazard and not a finding.

`Phase0Ends` assumes `WF_vars(DaemonStep)`, as above, and nothing of the broker.
`MaxBlind` bounds the shares in flight at which a read of the open orders may
fail, because without it a daemon that cannot read them may sell without end.

### Proofs (`ExitExecutionProofs`)

For any names, positions, lots, urgent exits, retries, crashes and fault sets:

- `TypeCorrect`: typing, with `Control`, which ties the exit in hand and its order
  to `pc`;
- `NoShortSale`: `NeverOversold`;
- `NoShareUnwatched`: `WatchEndsWithSale`, an action property.

`NeverOversold` counts what is at the broker; what makes it inductive counts what
is decided but not sent as well (`Reserved`, in `Backed`), knows that under
`BrokerTells` an order in hand is whole, done or dead (`Definite`), and says what
Phase 0 starts from: nothing at the broker in the first process (`Untouched`), one
sell that the shares and the open orders are read for in a later one (`Lone`), and
in Phase 0 a position cache that is still exact for the names in its queue
(`Phase0Exact`).

`WatchEndsWithSale` is proved from `Watching` on top of these: each stop record, on
disk and in hand, is for no less than what is kept of its name (`Kept`, the position
less what is being sold), so the sale that removes it takes all of it. A pending entry
is of a name that is not watched (`EntryFresh`), so its record is the only one.
`ConstantsAssumption` and `NoExitAssumption` (the value for no exit is none) are the
only assumptions.

## 5. Fill reconciliation

A row logged before its fill arrived is corrected by three passes:
`FillReconciliation` has them over one table of rows, `rows[session][order]`.

State. `executions` and `open` are the broker's. `session` is what the daemon's
connection has seen of the day, refilled when it connects (`ib.fills()`); `log`
is `/var/log/daemon.log`, which every session appends to. `archive` holds the
copies of that log in S3, one per session in `archived`; `marked` the sweep
markers. `queue` and `swept` are the running sweep.

Actions. In the session: `Connect`, `PlaceOrder`, `Execute` (one share),
`LogRow` (the daemon stops waiting and logs the status of the moment, or no row
for "Timeout" and "Rejected"), `Tick` (`reconcile_from_ib`), `Disconnect`,
`Close`. After it: `Capture` (`_reconcile_fills`: its own session first, the log
of the day when a row stays unresolved) or `FailCapture`; `PassOver`,
`SweepSession`, `EndSweep` (`sweep_unresolved_sessions`); `KillCapture`;
`ArchiveLog`; `NextSession`. `Reconciled` is `reconcile_unfilled_trades` as a
function of the table, a session and a set of executions.

Abstractions. All orders are of one name and side, the case the symbol and side
filters let through. Rows have an order's status and filled shares; rows without
`requested_shares`, from before that key existed, are not modelled. A retried
order has a row for its last order id only, so earlier ids are orders without a
row. A status "Filled" comes with its executions. The quiet sessions after
`LastDate` are one date.

| run | instance | shows |
|---|---|---|
| fill_ledger | 2 trading sessions, 2 order ids used by both, orders of 2 shares, a sweep of 1 session a night, 1 failure | typing and the cap; rows of the day credited with their own executions only; Filled rows complete; the capture exact; the sweep reaches every archived session |
| fill_archive | 1 order id in 2 sessions, nothing fails | violation: the sweep credits a row with another session's executions |

Two shares make a partial fill; two orders make the capture's second source
depend on one row while it patches another; two sessions and a cap of one make
one session wait for the other. One failure puts a lost connection, a failed or
killed capture, a failed upload or a failed marker at every point.

`SweepDrains` assumes `WF(LogRow)` (the poll window ends), `WF(Close)` (the
market closes) and `WF(AfterClose)` (the scheduled jobs of a session run, and
sessions follow one another). It says that a session is swept or resolved, not
that its rows are: a session is marked also when rows stay open, which is what
the code's negative cache is for. A marker that fails to be written every night
would hold the queue; the run bounds failures.

### Proofs (`FillReconciliationProofs`)

For any number of sessions, order ids, shares of an order and failures, and any
cap: `TypeCorrect`, `LiveRowsStayOwn` (`LiveRowsOwn`), `ClosedRowsComplete`
(`FilledIsComplete`) and `CaptureStaysExact` (`CaptureIsExact`). The inductive
invariant adds two things to the types. `Seen`: the executions of an order are
numbered without gaps, the daemon's session holds executions of its own session
only and is empty after the close, an order that may still execute has not
executed whole, and the queue of a sweep is of earlier sessions. `Fits`: a closed
row has all the shares requested, and later sessions have no rows. `Seen` is what
keeps the passes of the day apart from the sweep: the sweep may credit a row with
another session's executions (fill_archive), but only a row of a session before.
The properties alone are not inductive: a row stays complete only because its
order cannot execute again, which is about `open` and the numbers.
`ConstantsAssumption` is the only assumption.

## 6. The trading day

`TradingDay` has four parts side by side; a behaviour is one of them, the rest
stands still. Each has its own stories: the situations worth telling apart, which
`MCTradingDay` names for TLC and the proofs leave open but for their types.

### Reading (`SignalIntake`)

The run is a sequence of reads, each an action: the upstream gate, the signals
(latest.json, else the days before), the champion pointer, the arm's feed, the
two admission filters, the actionable list, the predictions and their merge, the
de-risk gate, the optimizer's second look, the predictor's verdict. Every
refusal that ends a run is `Abort`. `Produce` replaces a document between two
reads: a new batch, a promotion, a new ledger, two in a run.

The arms are operators over their documents: the latest cohort, the cut of the
predictor, the think tank's selection, the newest shadow artifact; `Picks` makes
entries of a ranked feed. Days are ages; scores are the code's map of ranks; what a
feed measures has no ties in the stories (two alike would share a rank). A document
that cannot be read is `[ok |-> FALSE]`.

- `PicksOfTheArm`: what is served is the best of the arm's latest document, in
  its order, and that document is of the last days of its producer's cadence.
- `RealAlphaKept`: no arm takes away an alpha the predictor has.
- run top_twenty: the arm that ranks the predictor's output is asked before that
  output is read, and can never be served.

### Deciding (`ExitRules`, `EntryRules`, `MorningPlan`)

The facts of a name (`facts`) are what its prices, research and predictions show;
the rules are operators over them, in the code's precedence. Money is in hundredths
of the NAV, prices in small integers; the multipliers of drawdown and regime are
quarters. `DecideEntries` takes name after name, best first, each against the book
those before it left; which of two alike goes first is not told. `MorningPlan` is
the run: `Begin`, `EvaluateExits`, `TakeBook` (load, reset, hard-risk exits),
`PlanEntries`, `PlanExits`, `Optimize`, `Cutover`, `Finalize` (stops, covers, save),
`Fail`. Two runs with a fill between or under them (`LateFill`, `Trade`) show the
second against the book of the first.

- `PositionsWatched`, `HardRiskSold`, `NotSoldAndBought`, `BatchWithinCaps` are
  about the book at the moment it is saved.
- `PositionsWatched` says what the code's "Add stop records for all current
  positions" comes to: a held name that nothing sells has a stop for all that is held,
  an exited one is sold for all it was read to have, none has both, shorts are bought
  back. A name with any urgent exit is skipped by the stops (main.py:1760-1763), so
  the remainder of a REDUCE, and what fills after an EXIT was sized, have neither.
- `HardRiskSold` leaves out the names research says EXIT of while the optimizer owns
  the exits:
  in run plan_floor such a name is left to the optimizer's log, and to nobody when
  that log is not used.

### Solving (`TargetWeights`)

A convex solve is any point its constraints allow, on a grid of 4 %, or one off by
what its verdict excuses (`Near`). A verdict is a solver and a status, since the code
excuses both together (`Tolerance`: nothing to speak of for an optimal point of
CLARABEL, 10 basis points for its inaccurate one, 20 and 50 for those of SCS and OSQP).
What is modelled is what is asked (universe, caps, eligibility, the ADV levels, the
turnover budget and the floor under it), the clip, the governor, the fall-backs, the
band and the trades. The probe of the least turnover is a solve like any other: it
measures nothing, or a least answer off by the noise of whoever gave it (`Measures`).

- `IneligibleSoldWhole`: the trades of a usable log sell whole what may hold no weight
  and is held with the weight of the band or more; less than the band is left as it is,
  and neither is bought.
- `BudgetNeverStarves`: where no sector or volume binds, the effective budget leaves an
  answer to every question that has one without a budget, whatever the probe measured.
  Where they bind the floor does not count them and only the probe does, which may
  measure too little; nothing is claimed there.

### The daemon's day (`DaemonDay`)

`Boot`, `AwaitBook`, `Open`, then per tick `UrgentExits` (once), `Poll` (reload
and merge), `GapStops`, `ForceExits` (the drawdown overlay), `Redeploy`, `Entries`;
`Leave` with the pipeline's start, `Die` anywhere, `Replan` by the planner.
`Attempts` says how a sale may end; `Resolved` is any re-solve. Clocks are the four
that the code tells apart.

- `StoppedStaysOut`: a name stopped in an earlier tick is not bought again by
  that process, from a morning entry, a later plan or the redeployment.
- `PipelineOnce`: however often the daemon dies and comes back, the pipeline
  starts once at most, after the close.
- run same_day_rebuy: in the very tick of the stop, a pending top-up buys the
  name back.

| run | instance | shows |
|---|---|---|
| trading_day | intake: 3 names, every story of each arm and of what the arms share, 2 changes; plan: 1 held name, 2 candidates, the fund, 2 runs, 1 fill; weights: 2 names, fund and cash; session: 1 name and the fund, 2 starts, 1 re-solve | the eleven properties above |
| plan_floor, same_day_rebuy, top_twenty | the same | one violation each |

Two candidates compete for a cap; two runs are what re-planning takes; two names,
one of them ineligible, make the turnover budget bind; two starts are one restart;
two changes put one document on each side of a read.

### Proofs of the plan (`MorningPlanProofs`)

For any finite set of names, any stories of the right types, any settings, runs,
failures and fills, the four properties of the saved book. They speak of one step,
`Finalize`, and none is inductive: what a save keeps was promised stages before. The
invariant is `PlanKept`, a promise per stage:

- `Shaped`: the types, with `IsBook` for the book on disk and the one in the making;
- `Selling`: no sale before the stage that makes it, no cover before the save, and
  the optimizer's sales leave shorts alone;
- `Wished`: the optimizer's log asks for what its weights may ask for;
- `Leaves`: a name below the loss floor (`Doomed`) is signalled as soon as it was
  looked at, and in the book's urgent exits from the stage that makes them;
- `Bought`: the rules' entries are those of the decision, the optimizer's are not
  of names it sells.

From it: `SavedWatches` (`PositionsWatched`: the stops are set for what has no urgent
exit, and what is exited is sold as it was read), `SavedSells` (`HardRiskSold`), `SavedIsOneSided` (`NotSoldAndBought`),
`SavedWithinCaps` (`BatchWithinCaps`), `PlanTypes`. The caps need to know what the
chain of decisions made. It is a function on the sets of names, each deciding its
last name (`LastOf`) against the decision of the rest; that such a function exists
(`DecidesExist`), is the only one on each part (`DecidesOnce`), and approves within
the caps at each name (`ApprovedStep`, `DecisionApproved`) is shown by taking a
smallest counterexample away. `PlanInBook` then says that the entries with what is
held are the book the last decision saw.

### Proofs of the day (`TradingDayProofs`)

For any names, stores, questions and mornings of their types:

- `StoppedStays` (`StoppedStaysOut`), from `Out`: between the reload of a tick and
  its entries, the book holds no entry of a name put out in an earlier tick, and
  what was put out is among what was executed, which the merge of a reload strikes.
- `PipelineStartsOnce` (`PipelineOnce`), from `Ended`: a process that is down has
  forgotten that the market was open, and one that started the pipeline left after
  the close, when none boots.
- `IneligibleSold` (`IneligibleSoldWhole`), from `Accepted`: an answer that is taken
  was clipped, and the clip leaves no weight where none may be, whatever the
  solver's tolerance put there; the change is then the whole weight, which is in the
  band or is not.
- `BudgetSuffices` (`BudgetNeverStarves`), with weights by the basis point. An answer
  is constructed (`Balanced`): the book put into its box, what is missing from the
  whole given to the fund (`RoomToFund`), what is too much sold (`ExcessIsSold`); it
  costs no more than the floor under the budget, whatever the probe adds to that.
- `AlphaSurvivesMerge` (`RealAlphaKept`) and `ArmServesItsBest` (`PicksOfTheArm`):
  what each arm serves (`DirectServes`, `ThinktankServes`, `ShadowServes`) is
  ranked as the feed ranks (`RankIs`, `ScoreIs`, `PicksAre`), is never empty
  (`BestIs`, `BudgetIs`) and is of the newest document of its kind. That documents
  are what they should be when they are read is `IntakeKept`.
- `DayTypes` (`DayTypeOK`), and the plan's properties of a behaviour of the day
  (`DayWatches`, `DaySellsHardRisk`, `DayIsOneSided`, `DayWithinCaps`).

The assumptions say what the inputs are and no more: `PlanAssumption` (finitely many
names, whole shares, positive prices, no weight or score below zero),
`DaemonAssumption`, `WeightsAssumption`, `IntakeAssumption` (each document that can
be read is one of its kind). `Grid`, the step of the weights TLC chooses from, is no
part of the code; `BudgetSuffices` assumes it is 1, because on a coarser grid the
answer it constructs may fall between two steps.

## 7. The evening

`MCEvening` runs two models of it side by side, of the same code at two grains.

`EodLedger` keeps every commit. A benchmark close is a version number; the position
closes of a session are the NAV they give, in basis points, because the checks on the
table of rows ask by how much it moved. A job starts with the audit of the window: each
session is clean, re-struck, rebuilt when it has no row (`CanRebuild`), unsettled, a
gap, or stale in a leg whose close cannot be read, which the code passes in silence
(`AuditBlind`, `unread`; reconcile_audit.py:485-496, 517-519); then the evening's own
strike. A strike (`cur`) goes by the order of its commits: closes, accruals, dividend
timing, the row, the journal of marks to settled, the self-heal, the report and mail,
the gate. `Crash` comes between any two, `Rerun` is the pipeline's retry.

`Heal` is deterministic but for the checks that look at other data: a return off the
NAV before it by more than `Tolerance` is taken over that NAV, or refused beyond
`MaxCorrection` (`Refused`, 1.0 percentage points in the code), and the two chain
checks (`NavDrift`, `ChangeDrift`, to first order) breach beyond the tolerance. So a
re-strike that moves the NAV of a row with a successor by more than a basis point
always raises: the successor's stored NAV change is over the old NAV. The audit then
records the session as apply_failed (`applyFailed`), posts no journal entry and does
not strike the successor.

- `AuditConverges`: when the audit ends, the rows of its window rest on the settled
  closes and on the row now before them, but for the sessions it reports as missed
  and those it passed in silence.
- `CorrectionsCascade`: what is left over a replaced NAV is behind a strike that
  raised. For moves within the tolerance the correction reaches the next row; beyond
  it, the cascade its comment describes (reconcile_audit.py:775-790) never runs.
- `ReturnsOverPrior`: past the self-heal every return is over the NAV before it,
  within the tolerance, or so far off that it is refused and the strike will raise.
- `JournaledUnlessFailed`: restated NAVs are in the journal, but for a session whose
  re-strike raised after its row was written.
- `ReleasedOnce`, `MailedOnce`: what repeats does not book or mail twice.

`SessionBooks` takes a strike for one step and keeps its arithmetic, in cents: a
statement of the broker (`Story` per name, with a mark, a close, a range and a
fill) against the row before it.

- `ResidualIsNamed`: the residual of a session equals the sum of the causes that
  have no sleeve, exactly. The list is what a reader of the report should know:
  unknown cash, interest paid out, a dividend without an accrual or an accrual
  without a dividend, an unanchored name, slippage of a fill whose price is not
  known, a changed NAV basis.
- `CorrectionMovesBoth`, `MarksTrusted`, `NavErrorNotExcused`: the repair of stale
  marks neither hides an error of the total nor moves a mark out of its range.
- `HeldThroughIsOwed`, `IdleCashIsCash`: dividends and idle cash survive trades of
  the day.

| run | instance | shows |
|---|---|---|
| evening | ledger: 4 sessions, a window of 3, 1 revised close that moves the NAV by 1, 2 or 5 (tolerance 1, largest correction 3), 1 failure of 7 kinds; books: 2 sessions of 2 names, 9 lively stories and 2 quiet ones, at most 1 event without a sleeve | the thirteen properties above |

The two models share no variable; `EveningSpec` lets a behaviour be of the one or of
the other, which is why what is proved of `Spec` or of `BooksSpec` holds of it
(`EveningIsBoth`).

Four sessions and a window of three let a correction cascade and one session leave
the window; one revision makes a row stale, by no more than the tolerance, by more,
or by more than the self-heal corrects; one failure breaks the audit at every step.

### Proofs of the ledger (`EodLedgerProofs`)

For any number of sessions, window, fall-back, revisions and failures, every
property of `EodLedger` that the run checks is proved. Each rests on an invariant of
its own, and all on `Control` (which job, which session, what is left in its queue)
and `OldestFirst` (the audit works from the oldest session of its window on):

- `AuditSettles` (`AuditConverges`), from `CheckedAreSettled`: what the audit has
  checked and not passed blind is struck on what is settled, and no later strike of the same audit undoes
  it, since a strike changes its own row and what is measured from it only;
- `CorrectionsReachNext` (`CorrectionsCascade`), from `OffBaseAwaited` and `NoGap`: a
  row off its base is still in the queue, next to the row that was corrected, or the
  strike of that row raised;
- `ReturnsRestated` (`ReturnsOverPrior`): the self-heal follows every write, and what
  it refuses is a breach;
- `RestatedWithEntry` (`JournaledUnlessFailed`), from `JournalInv`: the entries of a
  session no re-strike of which raised add up to the NAV of its row but for the strike
  in hand, and a vendor moves a NAV up only, so that no entry of a session is posted a
  second time;
- `NothingReleasedTwice` (`ReleasedOnce`), from `ReleasedInv`: a row releases no more
  than the accruals settled on its session, and these are disjoint;
- `OneMail` (`MailedOnce`), from `MailInv`; `LedgerTypeCorrect`.

### Proofs of the books (`SessionBooksProofs`)

For any set of names, any stories and any bounds, from `BooksInv`: a statement and a
row are the sums of their own parts (`StatementAddsUp`, `RowAddsUp`), and what went ex
is owed to who held it (`OwedToEntitled`). The properties are then arithmetic:

- `ResidualHasNames` (`ResidualIsNamed`): name by name, the cash of the fills and the
  change in value are the sleeves plus what they miss (`NameBalances`, by whether the
  name is new, kept, grown, trimmed or sold out); the sums follow, and with them the
  four cases of the NAV basis before and after;
- `CorrectionsMatch` (`CorrectionMovesBoth`), `MarksHold` (`MarksTrusted`),
  `ErrorsNotExcused` (`NavErrorNotExcused`: what the explanation leaves out is at most
  the sizes of what it skips), `OwedIsAccrued` (`HeldThroughIsOwed`), `IdleIsCash`
  (`IdleCashIsCash`), and `EveningTypeCorrect` for both models.

`LedgerAssumption` and `BooksAssumption` are the assumptions: the bounds are numbers,
the names finitely many, each story of its type with a finite traded range.

### Sums (`Totals`)

`MapThenSumSet` adds in an order that CHOOSE picks. `Totals` shows that the order does
not matter and that sums add up, compare and split as expected. Each is an induction
over finite sets, done without the induction theorem (see 9): the sets for which the
claim fails have a smallest member by the well-foundedness of strict inclusion, and it
cannot be empty nor lose an element.

## 8. Conventions

- `dry_run` and `allow_shorts = True` are not modelled: they are configuration
  that changes no handler's order of steps.
- Deadlock is not checked: the daemon really stops at the close.
- One session in the entry and exit paths, where the date check of
  `OrderBook.load` never fires; `MorningPlan` has the check.
- Deviations of the source from its own words are violation runs, with the words
  quoted under `findings`.
- Mutants named in `PROJECT.json` are operators defined just before the
  definition they replace; no specification uses them.

## 9. Only model-checked, and not modelled

Liveness (`InDoubtResolves`, `Phase0Ends`, `SweepDrains`) is model-checked only:
TLAPS does not prove fairness-based liveness. Every other property of a passing run
is proved, `BudgetNeverStarves` for the finest grid only. The violation runs show what
the code does; nothing is proved of them.

An induction theorem that takes the claim as an operator cannot be instantiated by the
provers. Where the models recurse over sets (the sums, the ranks, the chain of
decisions) a smallest counterexample is taken away instead.

Not modelled: price series and the features computed from them (facts of a name
in the models), the covariance and the convex solve itself (any feasible point),
S3 formats, mail, charts and dashboards (no state of the trading path depends on
them), the one-off measurement backfills, the shortfall and flag reports, uptime,
operator scripts and provisioning. What is not modelled of a component, and why,
is in its note in `PROJECT.json`.
