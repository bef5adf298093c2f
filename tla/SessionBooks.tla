---------------------------- MODULE SessionBooks ----------------------------
(***************************************************************************)
(* The arithmetic of one strike after another (executor/eod_reconcile.py,  *)
(* pnl_integrity.py, eod_report.py, dividends.py): the broker's marks are  *)
(* compared with the traded range and corrected, the headline NAV is       *)
(* struck, the change since the row before is divided into named sleeves,  *)
(* and the gates look at what is left.                                     *)
(*                                                                         *)
(* The broker's statements are inputs.  They say what truly happened, so   *)
(* what the code leaves unattributed can be compared with what no sleeve   *)
(* should explain.  Money is a whole number; every bound is its dollar     *)
(* floor, the part that grows with the NAV is left out.                    *)
(***************************************************************************)
EXTENDS Integers, FiniteSets, FiniteSetsExt

CONSTANTS
  Tickers,
  Stories,          \* what may happen to each name in a session, see Story
  Sessions,         \* bound on the sessions
  MaxOddities,      \* bound on the events no sleeve explains
  Leak,             \* size of an unexplained cash movement
  Error,            \* size of an error inside the broker's NAV
  Materiality,      \* mark_materiality_usd
  CorrectionBound,  \* mark_correction_bound_usd
  ResidualFloor,    \* NAV_BREACH_RESIDUAL_FLOOR_USD
  GateTolerance,    \* _nav_hard_gate_tolerance_usd
  ResidualBound,    \* residual_per_session_tolerance_usd
  CumulativeBound,  \* residual_cumulative_tolerance_usd
  BasisBound        \* attribution_basis_tolerance_usd

VARIABLES
  session,    \* the number of the session
  statement,  \* the broker's statement of the session, before it is struck
  row,        \* the row of the session before, as it was written
  unsettled,   \* dividend_accruals still open
  owed,       \* what the broker still owes: dividends gone ex last session
  oddities    \* events no sleeve explains so far

books == <<session, statement, row, unsettled, owed, oddities>>

Abs(n) == IF n < 0 THEN -n ELSE n
Lower(a, b) == IF a < b THEN a ELSE b
Higher(a, b) == IF a > b THEN a ELSE b
Sum(op(_)) == MapThenSumSet(op, Tickers)

\* One name in one session: the shares held after the close, the settled
\* close, the broker's mark, the traded range (empty when it is unknown), the
\* price of the session's fill, the price its row was sent at, whether the
\* fill is known, and whether ArcticDB has the close of the session before.
Story == [shares : Nat, close : Nat, mark : Nat, range : SUBSET Nat, fill : Nat,
          arrival : Nat, filled : BOOLEAN, anchored : BOOLEAN]

ASSUME BooksAssumption ==
  /\ IsFiniteSet(Tickers)
  /\ Stories \in [Tickers -> SUBSET Story]
  /\ \A t \in Tickers : \A story \in Stories[t] : IsFiniteSet(story.range)
  /\ Sessions \in Nat /\ MaxOddities \in Nat
  /\ Leak \in Int /\ Error \in Int
  /\ Materiality \in Nat /\ CorrectionBound \in Nat
  /\ ResidualFloor \in Nat /\ GateTolerance \in Nat
  /\ ResidualBound \in Nat /\ CumulativeBound \in Nat /\ BasisBound \in Nat

NoStatement == [kind |-> "none"]
NoTicker == [shares |-> 0, close |-> 0, ibmv |-> 0]
NoBooks == [nav |-> 0, struck |-> FALSE, held |-> [t \in Tickers |-> NoTicker],
          before |-> [t \in Tickers |-> 0]]

BooksInit ==
  /\ session = 0
  /\ statement = NoStatement
  /\ row = NoBooks
  /\ unsettled = [t \in Tickers |-> 0]
  /\ owed = [t \in Tickers |-> 0]
  /\ oddities = 0

-----------------------------------------------------------------------------
(* The broker.                                                             *)

PriorShares(t) == row.held[t].shares

\* Cash that a session's fill of t brings in.
Proceeds(t, story) == (PriorShares(t) - story.shares) * story.fill

\* Shares that receive a dividend gone ex in the session.  Before the first row
\* only the broker knows what was held: one share of a name sold since.
Entitled(t, story) ==
  IF row.struck THEN PriorShares(t) ELSE Higher(1, story.shares)

\* A statement of the evening: what each name did, a unit of interest that
\* accrued, or the accrual paid out, the dividends that went ex and those that arrived, and
\* at most one movement that has no name.
Arrive ==
  /\ statement = NoStatement /\ session < Sessions
  /\ \E book \in [Tickers -> UNION {Stories[t] : t \in Tickers}], ex \in SUBSET Tickers,
        paid \in BOOLEAN, leak \in {0, Leak}, error \in {0, Error},
        basis \in {"ib_netliq", "settled_close"} :
       LET odd == Cardinality({t \in Tickers : ~book[t].filled \/ ~book[t].anchored})
                  + (IF paid THEN 1 ELSE 0) + (IF leak # 0 THEN 1 ELSE 0)
                  + (IF error # 0 THEN 1 ELSE 0)
           cash == (IF row.struck THEN row.cash ELSE 0) + leak
                   + (IF row.struck THEN Sum(LAMBDA t : Proceeds(t, book[t])) ELSE 0)
                   + (IF paid /\ row.struck THEN row.accrued ELSE 0)
                   + Sum(LAMBDA t : owed[t])
           accrued == 1 + (IF paid \/ ~row.struck THEN 0 ELSE row.accrued)
       IN  /\ \A t \in Tickers : book[t] \in Stories[t]
           /\ \A t \in Tickers : row.struck => book[t].shares # 0 \/ PriorShares(t) # 0
           /\ Cardinality(ex) <= 1
           /\ row.struck => basis = row.basis \/ odd = 0
           /\ oddities' = oddities + odd
                          + (IF row.struck /\ basis # row.basis THEN 1 ELSE 0)
           /\ oddities' <= MaxOddities
           /\ statement' =
                [kind |-> "statement", book |-> book, ex |-> ex, paid |-> paid, leak |-> leak,
                 error |-> error, basis |-> basis, cash |-> cash, accrued |-> accrued,
                 arrived |-> Sum(LAMBDA t : owed[t]),
                 nav |-> cash + accrued + error + Sum(LAMBDA t : book[t].shares * book[t].mark)]
           /\ owed' = [t \in Tickers |-> IF t \in ex THEN Entitled(t, book[t]) ELSE 0]
  /\ session' = session + 1
  /\ UNCHANGED <<row, unsettled>>

-----------------------------------------------------------------------------
(* The broker's marks.                                                     *)

Held(s) == {t \in Tickers : s.book[t].shares # 0}

\* check_mark_coverage: names whose mark could be compared with a range.
Checked(s) == {t \in Held(s) : s.book[t].range # {}}

\* _detect_ib_mark_outside_range
Flagged(s) == {t \in Checked(s) : s.book[t].mark \notin Min(s.book[t].range) .. Max(s.book[t].range)}

\* By how much a flagged mark misses the bound it broke.
MarkError(s, t) ==
  LET b == s.book[t]
  IN  b.shares * IF b.mark < Min(b.range) THEN b.mark - Min(b.range) ELSE b.mark - Max(b.range)

\* Mutant of Repairable: a close outside the range is a reference as well.
RepairableAnyClose(s) == Flagged(s)
\* The flagged names whose settled close is itself inside the range.
Repairable(s) ==
  {t \in Flagged(s) : s.book[t].close \in Min(s.book[t].range) .. Max(s.book[t].range)}

CorrectionOf(s, t) == s.book[t].shares * (s.book[t].close - s.book[t].mark)
Correction(s) == MapThenSumSet(LAMBDA t : CorrectionOf(s, t), Repairable(s))

\* plan_nav_mark_correction: the names to reprice, none when the total is more
\* than a stale mark can be.
Corrected(s) == IF Abs(Correction(s)) > CorrectionBound THEN {} ELSE Repairable(s)

\* Mutant of MarkedPositions: NAV is corrected, the positions keep the raw marks.
MarkedRaw(s) ==
  [t \in Tickers |-> [shares |-> s.book[t].shares, close |-> s.book[t].close,
                      ibmv |-> s.book[t].shares * s.book[t].mark]]
\* _apply_mark_correction_to_positions
MarkedPositions(s) ==
  [t \in Tickers |->
    [shares |-> s.book[t].shares, close |-> s.book[t].close,
     ibmv |-> s.book[t].shares * IF t \in Corrected(s) THEN s.book[t].close ELSE s.book[t].mark]]

NavIb(s) == s.nav + MapThenSumSet(LAMBDA t : CorrectionOf(s, t), Corrected(s))

\* check_custodian_marks
CustodianBreaches(s) ==
  {t \in Flagged(s) \ Corrected(s) : Abs(MarkError(s, t)) > Materiality}

-----------------------------------------------------------------------------
(* The headline NAV.                                                       *)

\* _settled_position_value_usd; every held name has its settled close here.
Settled(held) == Sum(LAMBDA t : held[t].shares * held[t].close)
NavSettled(s) == s.cash + s.accrued + Settled(MarkedPositions(s))
Nav(s) == IF s.basis = "settled_close" THEN NavSettled(s) ELSE NavIb(s)

-----------------------------------------------------------------------------
(* The sleeves.                                                            *)

\* _trade_attribution_price: the fill, or the price the row was sent at.
TradePrice(story) == IF story.filled THEN story.fill ELSE story.arrival

Retained(t, story) == Lower(PriorShares(t), story.shares)
Added(t, story) == Higher(0, story.shares - PriorShares(t))
Sold(t, story) == Higher(0, PriorShares(t) - story.shares)
PriorClose(t) == row.held[t].close

\* _compute_daily_return: shares held through earn the day's move, shares
\* added earn from their own price; a new name has the broker's cost; without
\* the close of the session before nothing is computed.
DailyPnl(t, story) ==
  IF PriorShares(t) = 0 THEN (story.close - story.fill) * story.shares
  ELSE IF ~story.anchored THEN 0
  ELSE (story.close - PriorClose(t)) * Retained(t, story)
       + (story.close - TradePrice(story)) * Added(t, story)

\* Mutant of DividendOf: entitlement is read off today's shares.
DividendOfToday(s, t) == IF t \in s.ex /\ t \in Held(s) THEN s.book[t].shares ELSE 0
\* accrue_position_dividends: only names still held, by the prior shares.
DividendOf(s, t) ==
  IF t \in s.ex /\ t \in Held(s)
  THEN IF PriorShares(t) # 0 THEN PriorShares(t) ELSE s.book[t].shares
  ELSE 0

PositionPnl(s) ==
  MapThenSumSet(LAMBDA t : DailyPnl(t, s.book[t]) + DividendOf(s, t), Held(s))

\* Mutant of Rotation: sold shares are realised at the close of the day.
RotationAtClose(s) == Sum(LAMBDA t : (s.book[t].close - PriorClose(t)) * Sold(t, s.book[t]))
\* compute_rotation_realized
Rotation(s) == Sum(LAMBDA t : (TradePrice(s.book[t]) - PriorClose(t)) * Sold(t, s.book[t]))

Interest(s) == s.accrued - row.accrued
Released(s) == Sum(LAMBDA t : unsettled[t])
DividendTiming(s) == Sum(LAMBDA t : DividendOf(s, t)) - Released(s)

\* mark_basis: what the broker's NAV carries beyond the settled rebuild.
MarkBasis(navIb, cash, accrued, held) == navIb - (cash + accrued + Settled(held))
PriorMarkBasis == MarkBasis(row.navIb, row.cash, row.accrued, row.held)
MarkBasisDelta(s) ==
  MarkBasis(NavIb(s), s.cash, s.accrued, MarkedPositions(s)) - PriorMarkBasis
PricingTiming(s) == IF s.basis = "settled_close" THEN 0 ELSE MarkBasisDelta(s)

\* unattributed_true_usd
Residual(s) ==
  Nav(s) - row.nav - PositionPnl(s) - Interest(s) + DividendTiming(s)
    - Rotation(s) - PricingTiming(s)

\* Mutant of HeldBase: shares added today count as held through.
HeldBaseToday(s) == MapThenSumSet(LAMBDA t : PriorClose(t) * s.book[t].shares, Held(s))
\* compute_alpha_attribution: the prior value the held and the sold shares are
\* measured against the benchmark on; the rest of the prior NAV is idle cash.
HeldBase(s) == MapThenSumSet(LAMBDA t : PriorClose(t) * Retained(t, s.book[t]), Held(s))
SoldBase(s) == Sum(LAMBDA t : PriorClose(t) * Sold(t, s.book[t]))
IdleCash(s) == row.nav - HeldBase(s) - SoldBase(s)

-----------------------------------------------------------------------------
(* The gates.                                                              *)

BasisOf(p) == p.ibmv - p.shares * p.close
BasisDelta(s, t) == BasisOf(MarkedPositions(s)[t]) - BasisOf(row.held[t])

\* IB_MARK_OFF_CLOSE_PCT_FLOOR: ten basis points of the settled value.
OffClose(p) == p.shares # 0 /\ Abs(BasisOf(p)) * 1000 >= p.shares * p.close

\* Mutant of ExplainedByMarks: every mark explains, also one that is the close.
ExplainedByAll(s) == MarkBasisDelta(s)
\* _attribute_mark_basis_divergence, explained_usd
ExplainedByMarks(s) ==
  MapThenSumSet(LAMBDA t : BasisDelta(s, t),
                {t \in Tickers : OffClose(MarkedPositions(s)[t]) \/ OffClose(row.held[t])})

\* compute_pricing_timing_by_ticker, summed
FullBook(s) == Sum(LAMBDA t : BasisDelta(s, t))

\* _classify_nav_breach
BreachClass(s) ==
  IF /\ Abs(MarkBasisDelta(s) - ExplainedByMarks(s)) <= ResidualFloor
     /\ Abs(MarkBasisDelta(s) - FullBook(s)) <= ResidualFloor
  THEN "broker_data_quality" ELSE "reconcile_defect"

\* _check_nav_three_way_hard_gate, with the attribution available
HardGate(s) ==
  IF \/ Abs(MarkBasisDelta(s)) > GateTolerance
     \/ Abs(MarkBasisDelta(s) - ExplainedByMarks(s)) > ResidualFloor
  THEN BreachClass(s) ELSE "quiet"

\* check_residual_bounds, the session's own and the window's
ResidualBreaches(residual, trailing) ==
  (IF Abs(residual) > ResidualBound THEN {"per_session"} ELSE {})
  \cup (IF Abs(residual + trailing) > CumulativeBound THEN {"cumulative"} ELSE {})

\* nav_basis_level_usd and check_attribution_closure
ClosureBreaches(s) ==
  IF Abs(MarkBasis(NavIb(s), s.cash, s.accrued, MarkedPositions(s))) > BasisBound
  THEN {"attribution_basis_level"} ELSE {}

StrikeBooks ==
  /\ statement # NoStatement
  /\ LET s == statement
         residual == IF row.struck THEN Residual(s) ELSE 0
         trailing == IF row.struck THEN row.trailing + row.residual ELSE 0
     IN  /\ row' =
              [struck |-> TRUE, nav |-> Nav(s), navIb |-> NavIb(s), basis |-> s.basis,
               cash |-> s.cash, accrued |-> s.accrued, held |-> MarkedPositions(s),
               before |-> [t \in Tickers |-> PriorShares(t)],
               residual |-> residual, trailing |-> trailing, error |-> s.error,
               breaches |-> (IF row.struck THEN ResidualBreaches(residual, trailing) ELSE {})
                            \cup ClosureBreaches(s)
                            \cup (IF CustodianBreaches(s) # {} THEN {"custodian_mark"} ELSE {})]
         /\ unsettled' = [t \in Tickers |-> DividendOf(s, t)]
  /\ statement' = NoStatement
  /\ UNCHANGED <<session, owed, oddities>>

BooksNext == Arrive \/ StrikeBooks
BooksSpec == BooksInit /\ [][BooksNext]_books

-----------------------------------------------------------------------------
(* Properties.  They speak of a statement about to be struck.              *)

BooksTypeOK ==
  /\ session \in 0 .. Sessions
  /\ statement # NoStatement => statement.book \in [Tickers -> Story]
  /\ row.held \in [Tickers -> [shares : Nat, close : Nat, ibmv : Nat]]
  /\ unsettled \in [Tickers -> Nat] /\ owed \in [Tickers -> Nat]
  /\ oddities \in 0 .. MaxOddities

\* A name without the close of the session before shows no return; its P&L is
\* the residual's.
Unanchored(s) ==
  MapThenSumSet(LAMBDA t : (s.book[t].close - PriorClose(t)) * Retained(t, s.book[t])
                           + (s.book[t].close - TradePrice(s.book[t])) * Added(t, s.book[t]),
                {t \in Held(s) : PriorShares(t) # 0 /\ ~s.book[t].anchored})

\* What a row priced at its arrival hides.
Slippage(s) ==
  Sum(LAMBDA t : (PriorShares(t) - s.book[t].shares) * (s.book[t].fill - TradePrice(s.book[t]))
                 * (IF PriorShares(t) = 0 THEN 0 ELSE 1))

\* The residual of a session is the sum of the causes that have no sleeve, to
\* the cent: a movement of cash nobody knows, interest paid out, a dividend
\* that arrived without an accrual or was accrued without arriving, an unknown
\* fill or close, and a changed NAV basis.  Marks and their corrections, errors
\* of the broker's total, rotation, adds, exits, dividends and accruing
\* interest leave nothing.
ResidualIsNamed ==
  statement # NoStatement /\ row.struck =>
    LET s == statement
    IN  Residual(s) =
          s.leak + (IF s.paid THEN row.accrued ELSE 0)
          + (s.arrived - Released(s)) + Unanchored(s) + Slippage(s)
          + (IF s.basis = row.basis THEN 0
             ELSE IF s.basis = "settled_close" THEN -PriorMarkBasis ELSE PriorMarkBasis)

\* What the broker owes for a dividend is what was accrued for it, for every
\* name held at both closes, whatever was traded in between.
HeldThroughIsOwed ==
  statement = NoStatement =>
    \A t \in Tickers : PriorShares(t) # 0 /\ row.before[t] # 0 => unsettled[t] = owed[t]

\* A correction of the marks moves the NAV and the positions by the same
\* amount: what is left between them is the error of the broker's own total.
CorrectionMovesBoth ==
  statement # NoStatement =>
    LET s == statement
    IN  NavIb(s) - s.cash - s.accrued - Sum(LAMBDA t : MarkedPositions(s)[t].ibmv) = s.error

\* A NAV that passes the custodian check carries no mark known to be wrong by
\* more than the materiality, and no mark is moved to a price outside the range.
MarksTrusted ==
  statement # NoStatement /\ CustodianBreaches(statement) = {} =>
    \A t \in Checked(statement) :
      LET p == MarkedPositions(statement)[t]
          r == statement.book[t].range
      IN  \/ p.ibmv \in p.shares * Min(r) - Materiality .. p.shares * Max(r) + Materiality
          \/ t \notin Flagged(statement)

\* An error of the broker's total is never excused as a matter of its marks,
\* and one larger than what small differences can hide is never passed over.
NavErrorNotExcused ==
  statement # NoStatement /\ row.struck =>
    LET s == statement
        new == Abs(s.error - row.error)
        small == Sum(LAMBDA t : IF OffClose(MarkedPositions(s)[t]) \/ OffClose(row.held[t])
                                THEN 0 ELSE Abs(BasisDelta(s, t)))
    IN  /\ new > ResidualFloor => HardGate(s) # "broker_data_quality"
        /\ new > ResidualFloor + small => HardGate(s) = "reconcile_defect"

\* Whatever was bought, trimmed or sold out, the prior NAV the sleeves measure
\* against the benchmark as idle is the cash that was idle, no share's value.
IdleCashIsCash ==
  statement # NoStatement /\ row.struck =>
    IdleCash(statement) =
      row.cash + row.accrued
      + (IF row.basis = "settled_close" THEN 0
         ELSE PriorMarkBasis)
=============================================================================
