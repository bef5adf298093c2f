----------------------------- MODULE ExitRules -----------------------------
(***************************************************************************)
(* What makes the planner sell (executor/strategies/exit_manager.py,       *)
(* deciders.py): the ladder of rules a held name is put through, the rank  *)
(* that picks the names a drawdown forces out, and the order in which      *)
(* research and strategy signals claim a name.  Prices are whole dollars.  *)
(***************************************************************************)
EXTENDS Integers, FiniteSets

LossFloorPct == -15        \* position_loss_floor_pct
FallbackPct == -10         \* fallback_stop_pct
ProfitPct == 25            \* profit_take_pct
AtrMultiple == 3           \* atr_multiplier
LeadPct == 5               \* sector_relative_outperform_threshold
ReduceDays == 5            \* time_decay_reduce_days
ExitDays == 10             \* time_decay_exit_days
FollowDays == 3            \* catalyst_followthrough_days
NoScore == 0               \* a name without a score

Researches == {"ENTER", "EXIT", "REDUCE", "HOLD"}

\* What the exit rules know of a name.  paid: the average cost, 0 unknown; bars and high: since the entry;
\* history: all bars; lead: over its sector's fund; event: trading days since
\* the catalyst, 0 without one; falling: 20 days and RSI below their bounds.
ExitFacts ==
  [shares : Int, price : Nat, paid : Nat, priced : BOOLEAN, dated : BOOLEAN,
   bars : Nat, history : Nat, high : Nat, atr : Nat, lead : Int, age : Nat, event : Nat,
   falling : BOOLEAN, research : Researches, score : Nat]

AtOrBelow(f, pct) == f.paid > 0 /\ f.price * 100 <= f.paid * (100 + pct)

\* check_position_loss_floor
LossFloor(f) == AtOrBelow(f, LossFloorPct)

\* check_catalyst_hard_exit
CatalystDone(f) == f.event >= FollowDays

\* check_atr_trailing_stop
TrailFires(f) == f.bars >= 2 /\ f.atr > 0 /\ f.price <= f.high - AtrMultiple * f.atr

\* check_sector_relative_veto
SectorVeto(f) == f.history >= 5 /\ f.lead > LeadPct

\* check_fallback_stop
FallbackFires(f) == AtOrBelow(f, FallbackPct)

\* check_profit_take
ProfitFires(f) == f.paid > 0 /\ f.price * 100 >= f.paid * (100 + ProfitPct)

\* check_momentum_exit
MomentumFires(f) == f.history >= 21 /\ f.falling

\* check_time_decay: a name research speaks of does not age.
Ages(f, days) == f.research \notin {"ENTER", "EXIT", "REDUCE"} /\ f.age >= days

\* _evaluate_single_position: the first rule of the ladder that fires.  A
\* trailing stop its sector vetoes takes the fallback stop with it.
Verdict(f) ==
  CASE \/ LossFloor(f) \/ CatalystDone(f)
       \/ TrailFires(f) /\ ~SectorVeto(f)
       \/ ~TrailFires(f) /\ FallbackFires(f) -> "EXIT"
    [] OTHER ->
       IF ProfitFires(f) THEN "REDUCE"
       ELSE IF MomentumFires(f) \/ Ages(f, ExitDays) THEN "EXIT"
       ELSE IF Ages(f, ReduceDays) THEN "REDUCE"
       ELSE "none"

\* A strategy signal.
Signal(t, kind) == [ticker |-> t, kind |-> kind]

\* evaluate_exits: names research already sells, and names without an entry
\* date or a price, are left alone.
StrategyExits(facts, held) ==
  {Signal(t, Verdict(facts[t])) :
     t \in {u \in held : /\ facts[u].dated /\ facts[u].priced
                         /\ facts[u].research \notin {"EXIT", "REDUCE"}
                         /\ Verdict(facts[u]) # "none"}}

ResearchSells(facts, kind) == {t \in DOMAIN facts : facts[t].research = kind}

\* The names the two hard-risk rules take to be leaving already.
Leaving(facts, signals) ==
  ResearchSells(facts, "EXIT") \cup {s.ticker : s \in {x \in signals : x.kind = "EXIT"}}

\* Mutant of LossFloorExits: a name no live price is known for is passed over.
LossFloorExitsPriced(facts, view, signals) ==
  {Signal(t, "EXIT") : t \in {u \in DOMAIN view \ Leaving(facts, signals) :
                                view[u] > 0 /\ facts[u].priced /\ LossFloor(facts[u])}}
\* main.run, the loss floor: whatever the strategies are.  Without a live price
\* the last mark is taken.
LossFloorExits(facts, view, signals) ==
  {Signal(t, "EXIT") : t \in {u \in DOMAIN view \ Leaving(facts, signals) :
                                view[u] > 0 /\ LossFloor(facts[u])}}

\* drawdown_forced_exit: how many names a drawdown multiplier (in quarters)
\* forces out.
ForcedCount(quarters) == IF quarters <= 1 THEN 2 ELSE IF quarters <= 2 THEN 1 ELSE 0

\* The conviction of a name: its score, fifty without one, then its value.
Conviction(f, shares) ==
  (IF f.score = NoScore THEN 50 ELSE f.score) * 10000 + shares * f.price

\* The lowest of the held names; those that leave anyway are not replaced.
ForcedExits(facts, view, signals, quarters) ==
  LET held == {t \in DOMAIN view : view[t] # 0}
      lower(t) == {u \in held : Conviction(facts[u], view[u]) < Conviction(facts[t], view[t])}
  IN  {Signal(t, "EXIT") :
         t \in {u \in held : /\ Cardinality(lower(u)) < ForcedCount(quarters)
                             /\ view[u] > 0 /\ u \notin Leaving(facts, signals)}}

-----------------------------------------------------------------------------
(* decide_exits_and_reduces: research signals are given separately, as they *)
(* are stripped when the optimizer owns the exits.                         *)

\* Half, rounded towards zero.
Half(n) == IF n >= 0 THEN n \div 2 ELSE -((-n) \div 2)

UrgentRecord(t, kind, shares) == [ticker |-> t, kind |-> kind, shares |-> shares]

\* The names the plan sells whole: one record each, whoever asked.
ExitTickers(research, signals) ==
  research.exit \cup {s.ticker : s \in {x \in signals : x.kind = "EXIT"}}

\* A research reduce is not held against the exits, a strategy's is.
ReduceTickers(research, signals) ==
  research.reduce
  \cup ({s.ticker : s \in {x \in signals : x.kind = "REDUCE"}} \ ExitTickers(research, signals))

PlannedSales(research, signals, view) ==
  {UrgentRecord(t, "EXIT", view[t]) :
     t \in {u \in ExitTickers(research, signals) : view[u] # 0}}
  \cup
  {UrgentRecord(t, "REDUCE", Half(view[t])) :
     t \in {u \in ReduceTickers(research, signals) : Half(view[u]) # 0}}
=============================================================================
