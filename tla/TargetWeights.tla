--------------------------- MODULE TargetWeights ---------------------------
(***************************************************************************)
(* The optimizer of the morning and of the daemon's re-solve               *)
(* (executor/optimizer_shadow.py, portfolio_optimizer.py): the book is     *)
(* turned into weights, the constraints are put up, a turnover budget is   *)
(* set from what the others force, a solver answers, its answer is clipped *)
(* and renormalised, a governor looks at it, and trades come out.          *)
(*                                                                         *)
(* Weights are in basis points.  The objective chooses one feasible point, *)
(* so any may come: it is not modelled.  What a solver returns satisfies   *)
(* the constraints up to its tolerance.                                    *)
(***************************************************************************)
EXTENDS Integers, FiniteSets, FiniteSetsExt, Functions

CONSTANTS
  Assets,         \* the names of the universe
  Fund,           \* SPY
  Cash,           \* the cash row
  Asks,           \* what may be asked of the optimizer: see Ask
  Grid            \* step of the weights a solver is given to choose from

Whole == 10000
Sleeve == 300           \* cash_sleeve_pct
Dust == 50              \* min_position_pct
Band == 50              \* rebalance_band_pct
DailyTurnover == 2000   \* max_daily_turnover
Slack == 1              \* _TURNOVER_FLOOR_ABS_SLACK

\* Who accepted a point and how sure of it: _solve_with_fallback takes the first
\* optimal point of CLARABEL, SCS and OSQP, else the first inaccurate one.
\* SCS and OSQP are alike: first_order.
Verdicts == {"CLARABEL", "first_order"} \X {"optimal", "optimal_inaccurate"}

\* _SOLVER_FEASIBILITY_TOL; what CLARABEL is sure of is off by nothing to speak of.
Tolerance ==
  [v \in Verdicts |->
     IF v[1] = "CLARABEL" THEN IF v[2] = "optimal" THEN 0 ELSE 10
     ELSE IF v[2] = "optimal" THEN 20 ELSE 50]

\* prev: weights of the book, known: with a history; eligible; cap: by stance;
\* depth: what may be traded of a name, Whole without a figure; sector: the sum
\* the sector of all names may have; conviction: the share of the daily budget,
\* in hundredths.
Ask ==
  [prev : [Assets \cup {Fund} -> Int], known : SUBSET Assets, eligible : SUBSET Assets,
   cap : Nat, depth : Nat, sector : Nat, conviction : 5 .. 100]

Unsolved == [status |-> "none"]

VARIABLES
  ask,        \* the input
  phase,
  budget,     \* the turnover the solver is allowed
  target,     \* the final weights, over their sum
  trades      \* would_be_trades

vars == <<ask, phase, budget, target, trades>>

Absolute(n) == IF n < 0 THEN -n ELSE n
Larger(m, n) == IF m > n THEN m ELSE n
Smaller(m, n) == IF m < n THEN m ELSE n
Total(S, f(_)) == MapThenSumSet(f, S)

-----------------------------------------------------------------------------
(* The question.                                                           *)

\* _build_universe: a name without a history is left out, held or not.
Universe == ask.known \cup {Fund, Cash}

\* _build_w_prev: what is not in the universe's names is cash, never negative.
Previous ==
  [t \in Universe |->
     IF t # Cash THEN ask.prev[t]
     ELSE Larger(0, Whole - Total(ask.known \cup {Fund}, LAMBDA u : ask.prev[u]))]

\* effective_caps
Cap(t) == IF t \in {Fund, Cash} THEN Whole ELSE IF t \in ask.eligible THEN ask.cap ELSE 0

Turnover2(w, v) == Total(DOMAIN v, LAMBDA t : Absolute(w[t] - v[t]))

\* The weights to choose from: steps of the grid, and leaving a name alone; a
\* name without a figure for its volume is not held to one.
Levels(t) ==
  {n \in {k * Grid : k \in 0 .. Cap(t) \div Grid} \cup {Previous[t]} :
     n \in 0 .. Cap(t) /\ (ask.depth < Whole => Absolute(n - Previous[t]) <= ask.depth)}

\* The constraints but the budget.  The fund takes what the others leave.
Feasible ==
  {w \in {[t \in Universe |->
             IF t = Cash THEN Sleeve
             ELSE IF t = Fund THEN Whole - Sleeve - Total(ask.known, LAMBDA u : w[u])
             ELSE w[t]] : w \in [ask.known -> UNION {Levels(t) : t \in ask.known}]} :
     /\ w[Fund] >= 0
     /\ \A t \in ask.known : w[t] \in Levels(t)
     /\ Total(ask.known, LAMBDA t : w[t]) <= ask.sector}

-----------------------------------------------------------------------------
(* The budget.                                                             *)

Projected(t) ==
  IF t = Cash THEN Sleeve ELSE Larger(0, Smaller(Previous[t], Cap(t)))
Forced2 == Total(Universe, LAMBDA t : Absolute(Projected(t) - Previous[t]))

\* Mutant of Floor2: what the projection leaves over is not counted.
Floor2Unbalanced == Forced2
\* _mandatory_turnover_floor, twice: what the box forces, and what its
\* projection does not sum to.
Floor2 == Forced2 + Absolute(Whole - Total(Universe, Projected))

\* What a point accepted under a verdict may be off by, each weight for itself.
Near(v) ==
  LET n == Tolerance[v]
  IN  {[t \in Universe |-> IF t \in S THEN s * n ELSE 0] : S \in SUBSET Universe, s \in {1, -1}}
      \cup {[t \in Universe |-> IF t = u THEN n ELSE IF t = w THEN -n ELSE 0] :
              u, w \in Universe}
Plus(w, off) == [t \in Universe |-> w[t] + off[t]]

\* _solve_min_attainable_turnover, twice: the turnover of a least answer as the
\* accepting solver has it, which may be less than any answer's; or nothing, when
\* the probe raises or no solver answers.
Least ==
  {w \in Feasible : \A u \in Feasible : Turnover2(w, Previous) <= Turnover2(u, Previous)}
Measures ==
  {0} \cup UNION {{Turnover2(Plus(w, off), Previous) : w \in Least, off \in Near(v)} : v \in Verdicts}

\* _apply_turnover_constraint: the discretionary budget, or what is forced with
\* a slack, whichever is the larger.
EffectiveCap(probed2) ==
  LET binding2 == Larger(Floor2, probed2)
  IN  Larger((DailyTurnover * ask.conviction) \div 100,
             (binding2 + 1) \div 2 + binding2 \div 2000 + Slack)

Init ==
  /\ ask \in Asks /\ phase = "asked"
  /\ budget = 0 /\ target = Unsolved /\ trades = {}

\* _build_and_solve, up to the solve.
Pose ==
  /\ phase = "asked"
  /\ phase' = "posed" /\ \E probed2 \in Measures : budget' = EffectiveCap(probed2)
  /\ UNCHANGED <<ask, target, trades>>

-----------------------------------------------------------------------------
(* The answer.                                                             *)

\* _clip_and_renormalize, before the division: no negative weight, none above
\* its cap, none too small but the cash.
Clipped(w) ==
  [t \in Universe |->
     LET boxed == Larger(0, Smaller(w[t], Cap(t)))
     IN  IF boxed < Dust /\ t # Cash THEN 0 ELSE boxed]

\* Distances of weights over a sum, times the sum.
Apart(w, total, v) == Total(Universe, LAMBDA t : Absolute(w[t] * Whole - v[t] * total))

\* _apply_turnover_governor: it raises, and the book is held, when the answer
\* went over the budget by more than its verdict excuses, or when the clip moved
\* more than what it removed.
Governed(w, v) ==
  LET kept == Clipped(w)
      total == Total(Universe, LAMBDA t : kept[t])
      requested == Apart(kept, total, Previous)
      moved == Apart(kept, total, w)
  IN  /\ Larger(requested - moved, 0) <= 2 * total * (budget + Tolerance[v])
      /\ moved <= 4 * total * Turnover2(kept, w)

\* _solve_with_fallback, the clip and the governor.  What is accepted may be off
\* the budget like any constraint, and by more than is excused.
Solve ==
  /\ phase = "posed"
  /\ \E v \in Verdicts, w \in Feasible :
       /\ Turnover2(w, Previous) <= 2 * (budget + Tolerance[v])
       /\ \E off \in Near(v) :
            LET answer == Plus(w, off)
                kept == Clipped(answer)
            IN  target' = IF Governed(answer, v)
                          THEN [status |-> v[2], weight |-> kept,
                                total |-> Total(Universe, LAMBDA t : kept[t])]
                          ELSE [status |-> "raised"]
  /\ phase' = "solved"
  /\ UNCHANGED <<ask, budget, trades>>

\* No solver answers, which is certain of a question without an answer: the
\* fallback weights are logged under a status no one trades on.
NoAnswer ==
  /\ phase = "posed"
  /\ target' = [status |-> "infeasible_fallback"]
  /\ phase' = "solved"
  /\ UNCHANGED <<ask, budget, trades>>

-----------------------------------------------------------------------------
(* The trades.                                                             *)

\* is_log_usable
Usable == target.status \in {"optimal", "optimal_inaccurate"}

\* The change of a weight, times the sum.
Change(t) == target.weight[t] * Whole - Previous[t] * target.total

\* Mutant of Traded: the band is held against the signed change.
TradedSigned(t) == t # Cash /\ Change(t) >= Band * target.total
\* _compute_trade_deltas: a small change of a name is left.
Traded(t) == t # Cash /\ Absolute(Change(t)) >= Band * target.total

\* whole: the target weight is zero, which sells the position and not an amount.
Trade(t) ==
  [name |-> t, action |-> IF Change(t) > 0 THEN "BUY" ELSE "SELL", whole |-> target.weight[t] = 0]

Compare ==
  /\ phase = "solved"
  /\ phase' = "done"
  /\ trades' = IF Usable THEN {Trade(t) : t \in {u \in Universe : Traded(u)}} ELSE {}
  /\ UNCHANGED <<ask, budget, target>>

Next == Pose \/ Solve \/ NoAnswer \/ Compare

Spec == Init /\ [][Next]_vars

-----------------------------------------------------------------------------
(* Properties.                                                             *)

\* A name that may hold no weight leaves the book, by any answer that is traded:
\* held with the band's weight or more it is sold whole, not down to what a
\* solver's tolerance leaves of it, and held with less it is the band that leaves
\* it as it is.  Neither is bought.
IneligibleSoldWhole ==
  phase = "done" /\ Usable =>
    \A t \in ask.known \ ask.eligible :
      /\ Previous[t] >= Band => [name |-> t, action |-> "SELL", whole |-> TRUE] \in trades
      /\ Previous[t] >= 0 => ~\E x \in trades : x.name = t /\ x.action = "BUY"
      /\ Previous[t] \in 0 .. Band - 1 => ~\E x \in trades : x.name = t

\* Where neither a sector nor a volume binds, the budget leaves an answer whenever
\* the other constraints have one, so that forced sales are not held up by it,
\* whatever the probe measured: what the box forces, and what its projection
\* leaves over, is enough.  (Where they bind it is up to the probe, and a point
\* off the constraints may measure too little.)
BudgetNeverStarves ==
  phase = "posed" /\ Feasible # {} /\ ask.depth >= Whole /\ ask.sector >= Whole =>
    \E w \in Feasible : Turnover2(w, Previous) <= 2 * budget
=============================================================================
