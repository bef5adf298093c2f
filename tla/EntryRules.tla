----------------------------- MODULE EntryRules -----------------------------
(***************************************************************************)
(* What makes the planner buy when the optimizer is off                    *)
(* (executor/deciders.py, position_sizer.py, risk_guard.py): candidates    *)
(* are taken in the order of their score, put through the gates, sized,    *)
(* and checked against the book and what was approved before them.  Money  *)
(* is in hundredths of the NAV, a price in dollars.                        *)
(***************************************************************************)
EXTENDS Integers, FiniteSets, FiniteSetsExt, Folds

Unit == 10                \* dollars in a hundredth of the NAV
MinScore == 70            \* min_score_to_enter
MaxPosition == 5          \* max_position_pct
BearMaxPosition == 3      \* bear_max_position_pct
MaxSector == 25           \* max_sector_pct
MaxEquity == 90           \* max_equity_pct
MinDollars == 2           \* min_position_dollar
Unknown == "unknown"
Regimes == {"bull", "neutral", "bear"}
Answers == {"yes", "no", Unknown}

\* What the entry rules know of a name.  momentumVeto, confirmed: the
\* predictor's; slid: the price history's own momentum; weight: the size all
\* factors but the drawdown's ask for; atrWeight: what its range alone allows;
\* adv: what can be traded in a day; listed: in the universe of the signals;
\* like: the names it moves with.
EntryFacts(Names) ==
  [score : Nat, alpha : Int, research : STRING, sector : STRING, listed : BOOLEAN,
   catalyst : {"none", "dated", "undated"}, momentumVeto : Answers, slid : BOOLEAN,
   confirmed : Answers, priced : BOOLEAN, price : Nat, weight : Nat, atrWeight : Nat,
   atrKnown : BOOLEAN, adv : Nat, gbmVeto : BOOLEAN, underweight : BOOLEAN,
   like : SUBSET Names]

Smaller(a, b) == IF a < b THEN a ELSE b
NoOne == [t \in {} |-> 0]

-----------------------------------------------------------------------------
(* The market.                                                             *)

\* compute_drawdown_multiplier, in quarters: the deepest tier reached (percent
\* below the peak), nothing at the circuit breaker.
DrawdownQuarters(drawdown) ==
  CASE drawdown >= 8 -> 0
    [] drawdown >= 6 /\ drawdown < 8 -> 1
    [] drawdown >= 4 /\ drawdown < 6 -> 2
    [] OTHER -> 4

\* main.run: a protective severity of two makes any regime a bear's, and so
\* does the fast signal; neither ever lifts one.
MarketRegime(macro, forcedBear, severity) ==
  IF forcedBear \/ severity >= 2 THEN "bear" ELSE macro

-----------------------------------------------------------------------------
(* One candidate.                                                          *)

\* The momentum gate: an event needs its date, the predictor's veto comes
\* before the price history.
MomentumGate(f) ==
  CASE f.catalyst # "none"        -> f.catalyst = "dated"
    [] f.momentumVeto # Unknown   -> f.momentumVeto = "no"
    [] OTHER                      -> ~f.slid

\* The reversal-confirmation gate; an event does not wait for a reversal.
ReversalGate(f) == f.catalyst # "none" \/ f.confirmed # "no"

\* compute_position_size, the dollars: the drawdown scales, the position cap
\* and a wide range cap, and so does what can be traded in a day.
Dollars(f, quarters) ==
  LET scaled == Smaller((f.weight * quarters) \div 4, MaxPosition)
      tight == Smaller(scaled, (f.atrWeight * quarters) \div 4)
  IN  Smaller(tight, f.adv)

\* compute_position_size, the shares; small orders are not worth placing.
Shares(f, quarters) ==
  IF Dollars(f, quarters) < MinDollars THEN 0 ELSE (Dollars(f, quarters) * Unit) \div f.price

\* The effective position cap, which the sizer does not know.
PositionCap(regime) == IF regime = "bear" THEN BearMaxPosition ELSE MaxPosition

Exposure(book, sector) ==
  MapThenSumSet(LAMBDA t : IF book[t].sector = sector THEN book[t].value ELSE 0, DOMAIN book)
Equity(book) == MapThenSumSet(LAMBDA t : book[t].value, DOMAIN book)

\* check_correlation: a candidate is not in the book it is compared with, so
\* its sector is unknown and the mean is over every name.
Correlated(f, book) ==
  book # NoOne /\ 2 * Cardinality(f.like \cap DOMAIN book) > Cardinality(DOMAIN book)

\* check_order, in the order of its refusals.
CheckOrder(f, dollars, book, regime, quarters) ==
  /\ f.score >= MinScore
  /\ quarters > 0
  /\ dollars <= PositionCap(regime)
  /\ ~(regime = "bear" /\ f.underweight)
  /\ Exposure(book, f.sector) + dollars <= MaxSector
  /\ Equity(book) + dollars <= MaxEquity
  /\ ~Correlated(f, book)

-----------------------------------------------------------------------------
(* The batch.                                                              *)

\* _entry_priority_key: by score, then by the predicted alpha.
Before(facts, t, u) ==
  \/ facts[t].score > facts[u].score
  \/ facts[t].score = facts[u].score /\ facts[t].alpha > facts[u].alpha
\* The one that is taken after all others; which of two alike is not told.
LastOf(facts, S) == CHOOSE t \in S : \A u \in S : ~Before(facts, t, u)

\* A name that passes everything but has no ATR aborts the plan.
Aborts(plan, f) == plan.aborted \/ ~f.atrKnown

Admitted(plan, t, f, held, regime, quarters) ==
  /\ t \notin held
  /\ MomentumGate(f) /\ ReversalGate(f)
  /\ f.priced /\ Shares(f, quarters) > 0
  /\ ~f.gbmVeto
  /\ CheckOrder(f, Dollars(f, quarters), plan.book, regime, quarters)

\* Mutant of Consider: the book is not told of what was approved.
ConsiderAlone(plan, t, f, held, regime, quarters) ==
  IF plan.aborted \/ ~Admitted(plan, t, f, held, regime, quarters) THEN plan
  ELSE [plan EXCEPT !.bought = @ \cup {t}, !.aborted = Aborts(plan, f)]
\* decide_entries, one candidate: an approved one joins the book the next one
\* is checked against.
Consider(plan, t, f, held, regime, quarters) ==
  IF plan.aborted \/ ~Admitted(plan, t, f, held, regime, quarters) THEN plan
  ELSE [plan EXCEPT !.bought = @ \cup {t}, !.aborted = Aborts(plan, f),
                    !.book = [u \in DOMAIN @ \cup {t} |->
                                IF u = t THEN [sector |-> f.sector,
                                               value |-> Dollars(f, quarters)]
                                ELSE @[u]]]

\* decide_entries
DecideEntries(facts, held, book, regime, quarters) ==
  MapThenFoldSet(LAMBDA t, plan : Consider(plan, t, facts[t], held, regime, quarters),
                 [bought |-> {}, aborted |-> FALSE, book |-> book],
                 LAMBDA t : t, LAMBDA S : LastOf(facts, S),
                 {t \in DOMAIN facts : facts[t].research = "ENTER"})
=============================================================================
