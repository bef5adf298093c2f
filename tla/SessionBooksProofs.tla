-------------------------- MODULE SessionBooksProofs --------------------------
(***************************************************************************)
(* Proofs about the arithmetic of a strike, for every set of names, all    *)
(* that may happen to them in a session, and every bound of the gates; and *)
(* the types of the two models of the evening.                             *)
(***************************************************************************)
EXTENDS MCEvening, EodLedgerProofs

-----------------------------------------------------------------------------
(* The invariants.                                                         *)

Bases == {"ib_netliq", "settled_close"}

Statement ==
  [kind : {"statement"}, book : [Tickers -> Story], ex : SUBSET Tickers, paid : BOOLEAN,
   leak : Int, error : Int, basis : Bases, cash : Int, accrued : Int, arrived : Int, nav : Int]

Position == [shares : Nat, close : Nat, ibmv : Nat]

\* What each name adds to a sum: at the broker's mark, at the settled close, as
\* the broker carries it, and the cash of its fills.
MarkValue(book)  == [t \in Tickers |-> book[t].shares * book[t].mark]
CloseValue(held) == [t \in Tickers |-> held[t].shares * held[t].close]
Carried(held)    == [t \in Tickers |-> held[t].ibmv]
TradedCash(book) == [t \in Tickers |-> Proceeds(t, book[t])]

All(F) == Total(F, Tickers)

BooksShape ==
  /\ BooksTypeOK
  /\ statement # NoStatement => statement \in Statement
  /\ statement # NoStatement => \A t \in Tickers : statement.book[t] \in Stories[t]
  /\ row.struck \in BOOLEAN
  /\ row.held \in [Tickers -> Position] /\ row.before \in [Tickers -> Nat]
  /\ row.struck =>
       /\ row.nav \in Int /\ row.navIb \in Int /\ row.cash \in Int /\ row.accrued \in Int
       /\ row.error \in Int /\ row.basis \in Bases

\* The broker's total is its cash and its positions at its own marks, but for
\* its error; its cash is that of the session before and what was moved.
StatementAddsUp ==
  statement # NoStatement =>
    LET s == statement
    IN  /\ s.nav = s.cash + s.accrued + s.error + All(MarkValue(s.book))
        /\ row.struck =>
             s.cash = row.cash + s.leak + All(TradedCash(s.book))
                      + (IF s.paid THEN row.accrued ELSE 0) + s.arrived

\* A row's broker NAV is that of its own positions, but for the error; its
\* headline is one of the two.
RowAddsUp ==
  row.struck =>
    /\ row.navIb = row.cash + row.accrued + row.error + All(Carried(row.held))
    /\ row.nav = IF row.basis = "settled_close"
                 THEN row.cash + row.accrued + All(CloseValue(row.held)) ELSE row.navIb

\* What went ex with the statement in hand is owed to those entitled.
OwedToEntitled ==
  /\ ~row.struck => \A t \in Tickers : PriorShares(t) = 0
  /\ statement # NoStatement =>
       \A t \in Tickers :
         owed[t] = IF t \in statement.ex THEN Entitled(t, statement.book[t]) ELSE 0
  /\ HeldThroughIsOwed

BooksInv == BooksShape /\ StatementAddsUp /\ RowAddsUp /\ OwedToEntitled

-----------------------------------------------------------------------------
(* What arrives.                                                           *)

LEMMA Addends ==
  /\ IsFiniteSet(Tickers)
  /\ \A F \in [Tickers -> Int] : All(F) \in Int
  <1>1. IsFiniteSet(Tickers)
    BY BooksAssumption
  <1>2. ASSUME NEW F \in [Tickers -> Int] PROVE All(F) \in Int
    BY <1>1, TotalFacts DEF All
  <1> QED BY <1>1, <1>2

LEMMA StoryIs ==
  ASSUME NEW t \in Tickers, NEW story \in Stories[t]
  PROVE  story \in Story /\ IsFiniteSet(story.range)
  BY BooksAssumption

LEMMA BookTypes ==
  ASSUME NEW book \in [Tickers -> Story]
  PROVE  /\ MarkValue(book) \in [Tickers -> Int]
         /\ CloseValue(book) \in [Tickers -> Int]
         /\ row.held \in [Tickers -> Position] => TradedCash(book) \in [Tickers -> Int]
  <1>1. \A t \in Tickers : /\ book[t].shares \in Nat /\ book[t].mark \in Nat
                           /\ book[t].close \in Nat /\ book[t].fill \in Nat
    BY DEF Story
  <1>2. row.held \in [Tickers -> Position] => \A t \in Tickers : PriorShares(t) \in Nat
    BY DEF Position, PriorShares
  <1>3. row.held \in [Tickers -> Position] => \A t \in Tickers : Proceeds(t, book[t]) \in Int
    BY <1>1, <1>2 DEF Proceeds
  <1> QED BY <1>1, <1>3 DEF MarkValue, CloseValue, TradedCash

LEMMA HeldTypes ==
  ASSUME NEW held \in [Tickers -> Position]
  PROVE  /\ CloseValue(held) \in [Tickers -> Int] /\ Carried(held) \in [Tickers -> Int]
         /\ \A t \in Tickers : /\ held[t].shares \in Nat /\ held[t].close \in Nat
                               /\ held[t].ibmv \in Nat
  <1>1. \A t \in Tickers : held[t].shares \in Nat /\ held[t].close \in Nat /\ held[t].ibmv \in Nat
    BY DEF Position
  <1> QED BY <1>1 DEF CloseValue, Carried

\* The sums of a statement as totals.
LEMMA SumOfMarks ==
  ASSUME NEW book
  PROVE  Sum(LAMBDA t : book[t].shares * book[t].mark) = All(MarkValue(book))
  <1>1. Sum(LAMBDA t : book[t].shares * book[t].mark)
          = Total([t \in Tickers |-> book[t].shares * book[t].mark], Tickers)
    BY DEF Sum, Total, MapThenSumSet, MapThenFoldSet
  <1> QED BY <1>1 DEF All, MarkValue

LEMMA SumOfTraded ==
  ASSUME NEW book
  PROVE  Sum(LAMBDA t : Proceeds(t, book[t])) = All(TradedCash(book))
  <1>1. Sum(LAMBDA t : Proceeds(t, book[t]))
          = Total([t \in Tickers |-> Proceeds(t, book[t])], Tickers)
    BY DEF Sum, Total, MapThenSumSet, MapThenFoldSet
  <1> QED BY <1>1 DEF All, TradedCash

LEMMA SumOfOwed == Sum(LAMBDA t : owed[t]) = All(owed)
  BY DEF Sum, All, Total, MapThenSumSet, MapThenFoldSet

LEMMA SumOfCloses ==
  ASSUME NEW held
  PROVE  Settled(held) = All(CloseValue(held))
  <1>1. Settled(held) = Total([t \in Tickers |-> held[t].shares * held[t].close], Tickers)
    BY DEF Settled, Sum, Total, MapThenSumSet, MapThenFoldSet
  <1> QED BY <1>1 DEF All, CloseValue

\* A statement is its own sums.
LEMMA ArriveIs ==
  ASSUME BooksShape, Arrive
  PROVE  /\ statement' \in Statement /\ \A t \in Tickers : statement'.book[t] \in Stories[t]
         /\ statement'.nav = statement'.cash + statement'.accrued + statement'.error
                             + All(MarkValue(statement'.book))
         /\ row.struck =>
              statement'.cash = row.cash + statement'.leak + All(TradedCash(statement'.book))
                                + (IF statement'.paid THEN row.accrued ELSE 0) + statement'.arrived
         /\ owed' = [t \in Tickers |-> IF t \in statement'.ex THEN Entitled(t, statement'.book[t]) ELSE 0]
         /\ row' = row /\ unsettled' = unsettled
         /\ session' \in 0 .. Sessions /\ oddities' \in 0 .. MaxOddities
  <1>1. PICK book \in [Tickers -> UNION {Stories[t] : t \in Tickers}], ex \in SUBSET Tickers,
             paid \in BOOLEAN, leak \in {0, Leak}, error \in {0, Error}, basis \in Bases :
          LET odd == Cardinality({t \in Tickers : ~book[t].filled \/ ~book[t].anchored})
                     + (IF paid THEN 1 ELSE 0) + (IF leak # 0 THEN 1 ELSE 0)
                     + (IF error # 0 THEN 1 ELSE 0)
              cash == (IF row.struck THEN row.cash ELSE 0) + leak
                      + (IF row.struck THEN Sum(LAMBDA t : Proceeds(t, book[t])) ELSE 0)
                      + (IF paid /\ row.struck THEN row.accrued ELSE 0)
                      + Sum(LAMBDA t : owed[t])
              accrued == 1 + (IF paid \/ ~row.struck THEN 0 ELSE row.accrued)
          IN  /\ \A t \in Tickers : book[t] \in Stories[t]
              /\ \A t \in Tickers : row.struck => book[t].shares # 0 \/ PriorShares(t) # 0
              /\ Cardinality(ex) <= 1
              /\ row.struck => basis = row.basis \/ odd = 0
              /\ oddities' = oddities + odd
                             + (IF row.struck /\ basis # row.basis THEN 1 ELSE 0)
              /\ oddities' <= MaxOddities
              /\ statement' =
                   [kind |-> "statement", book |-> book, ex |-> ex, paid |-> paid, leak |-> leak,
                    error |-> error, basis |-> basis, cash |-> cash, accrued |-> accrued,
                    arrived |-> Sum(LAMBDA t : owed[t]),
                    nav |-> cash + accrued + error + Sum(LAMBDA t : book[t].shares * book[t].mark)]
              /\ owed' = [t \in Tickers |-> IF t \in ex THEN Entitled(t, book[t]) ELSE 0]
    BY Zenon DEF Arrive, Bases
  <1> DEFINE odd == Cardinality({t \in Tickers : ~book[t].filled \/ ~book[t].anchored})
                    + (IF paid THEN 1 ELSE 0) + (IF leak # 0 THEN 1 ELSE 0)
                    + (IF error # 0 THEN 1 ELSE 0)
             arrived == All(owed)
             moved == All(TradedCash(book))
             value == All(MarkValue(book))
             cash == (IF row.struck THEN row.cash ELSE 0) + leak
                     + (IF row.struck THEN moved ELSE 0)
                     + (IF paid /\ row.struck THEN row.accrued ELSE 0) + arrived
             accrued == 1 + (IF paid \/ ~row.struck THEN 0 ELSE row.accrued)
  <1>2. /\ \A t \in Tickers : book[t] \in Stories[t]
        /\ oddities' = oddities + odd + (IF row.struck /\ basis # row.basis THEN 1 ELSE 0)
        /\ oddities' <= MaxOddities
        /\ owed' = [t \in Tickers |-> IF t \in ex THEN Entitled(t, book[t]) ELSE 0]
    BY <1>1
  <1>3. statement' =
          [kind |-> "statement", book |-> book, ex |-> ex, paid |-> paid, leak |-> leak,
           error |-> error, basis |-> basis, cash |-> cash, accrued |-> accrued,
           arrived |-> arrived, nav |-> cash + accrued + error + value]
    BY <1>1, SumOfMarks, SumOfTraded, SumOfOwed
  <1>4. book \in [Tickers -> Story] /\ leak \in Int /\ error \in Int
    <2>1. \A t \in Tickers : book[t] \in Story
      BY <1>2, StoryIs
    <2>2. leak \in Int /\ error \in Int
      BY BooksAssumption
    <2> QED BY <2>1, <2>2
  <1>5. arrived \in Int /\ moved \in Int /\ value \in Int
    <2>1. owed \in [Tickers -> Int]
      BY DEF BooksShape, BooksTypeOK
    <2> QED BY <1>4, <2>1, BookTypes, Addends DEF BooksShape
  <1>6. odd \in Nat
    <2>1. IsFiniteSet({t \in Tickers : ~book[t].filled \/ ~book[t].anchored})
      BY Addends, FS_Subset
    <2>2. Cardinality({t \in Tickers : ~book[t].filled \/ ~book[t].anchored}) \in Nat
      BY <2>1, FS_CardinalityType
    <2> QED BY <2>2
  <1> HIDE DEF odd, arrived, moved, value
  <1>7. cash \in Int /\ accrued \in Int
    BY <1>4, <1>5 DEF BooksShape
  <1>8. /\ statement'.book = book /\ statement'.ex = ex /\ statement'.nav = cash + accrued + error + value
        /\ statement'.cash = cash /\ statement'.accrued = accrued /\ statement'.error = error
        /\ statement'.leak = leak /\ statement'.paid = paid /\ statement'.arrived = arrived
    BY <1>3
  <1>9. statement' \in Statement
    <2> HIDE DEF cash, accrued
    <2>1. cash + accrued + error + value \in Int
      BY <1>4, <1>5, <1>7
    <2> QED BY <1>3, <1>4, <1>5, <1>7, <2>1 DEF Statement
  <1>10. row.struck => cash = row.cash + leak + moved + (IF paid THEN row.accrued ELSE 0) + arrived
    <2>1. row.struck => row.cash \in Int /\ row.accrued \in Int
      BY DEF BooksShape
    <2> QED BY <1>4, <1>5, <2>1
  <1>11. session' \in 0 .. Sessions /\ oddities' \in 0 .. MaxOddities
    <2>1. session' = session + 1 /\ session < Sessions
      BY DEF Arrive
    <2>2. session \in Nat /\ oddities \in Nat
      BY BooksAssumption DEF BooksShape, BooksTypeOK
    <2>3. oddities' \in Nat
      BY <1>2, <1>6, <2>2
    <2> QED BY <1>2, <2>1, <2>2, <2>3, BooksAssumption
  <1>12. row' = row /\ unsettled' = unsettled
    BY DEF Arrive
  <1> HIDE DEF cash, accrued
  <1>13. statement'.nav = statement'.cash + statement'.accrued + statement'.error
                          + All(MarkValue(statement'.book))
    BY <1>8 DEF value
  <1>14. row.struck =>
              statement'.cash = row.cash + statement'.leak + All(TradedCash(statement'.book))
                                + (IF statement'.paid THEN row.accrued ELSE 0) + statement'.arrived
    BY <1>8, <1>10 DEF moved
  <1>15. /\ \A t \in Tickers : statement'.book[t] \in Stories[t]
         /\ owed' = [t \in Tickers |-> IF t \in statement'.ex THEN Entitled(t, statement'.book[t]) ELSE 0]
    BY <1>2, <1>8
  <1> QED BY <1>9, <1>11, <1>12, <1>13, <1>14, <1>15

-----------------------------------------------------------------------------
(* The marks and the two NAVs.                                             *)

\* What the correction of the marks adds for each name.
CorrectionValue(s) == [t \in Tickers |-> IF t \in Corrected(s) THEN CorrectionOf(s, t) ELSE 0]

LEMMA SumOfCorrections ==
  ASSUME NEW s
  PROVE  MapThenSumSet(LAMBDA t : CorrectionOf(s, t), Corrected(s))
           = Total([t \in Corrected(s) |-> CorrectionOf(s, t)], Corrected(s))
  BY DEF Total, MapThenSumSet, MapThenFoldSet

LEMMA StoryFields ==
  ASSUME NEW s \in Statement, NEW t \in Tickers
  PROVE  /\ s.book[t].shares \in Nat /\ s.book[t].close \in Nat /\ s.book[t].mark \in Nat
         /\ s.book[t].fill \in Nat /\ s.book[t].arrival \in Nat
         /\ s.book[t].filled \in BOOLEAN /\ s.book[t].anchored \in BOOLEAN
         /\ CorrectionOf(s, t) \in Int
  <1>1. s.book[t] \in Story
    BY DEF Statement
  <1>2. /\ s.book[t].shares \in Nat /\ s.book[t].close \in Nat /\ s.book[t].mark \in Nat
        /\ s.book[t].fill \in Nat /\ s.book[t].arrival \in Nat
        /\ s.book[t].filled \in BOOLEAN /\ s.book[t].anchored \in BOOLEAN
    BY <1>1 DEF Story
  <1>3. CorrectionOf(s, t) \in Int
    BY <1>2 DEF CorrectionOf
  <1> QED BY <1>2, <1>3

\* Only flagged names of the book are repriced, at their settled close.
LEMMA MarksAre ==
  ASSUME NEW s \in Statement
  PROVE  /\ Corrected(s) \subseteq Repairable(s) /\ Repairable(s) \subseteq Flagged(s)
         /\ Flagged(s) \subseteq Checked(s) /\ Checked(s) \subseteq Held(s)
         /\ Held(s) \subseteq Tickers
         /\ MarkedPositions(s) \in [Tickers -> Position]
         /\ \A t \in Tickers :
              /\ MarkedPositions(s)[t].shares = s.book[t].shares
              /\ MarkedPositions(s)[t].close = s.book[t].close
              /\ MarkedPositions(s)[t].ibmv =
                   s.book[t].shares * IF t \in Corrected(s) THEN s.book[t].close ELSE s.book[t].mark
  <1>1. /\ Corrected(s) \subseteq Repairable(s) /\ Repairable(s) \subseteq Flagged(s)
        /\ Flagged(s) \subseteq Checked(s) /\ Checked(s) \subseteq Held(s)
        /\ Held(s) \subseteq Tickers
    BY DEF Corrected, Repairable, Flagged, Checked, Held
  <1>2. ASSUME NEW t \in Tickers
        PROVE  s.book[t].shares * (IF t \in Corrected(s) THEN s.book[t].close ELSE s.book[t].mark) \in Nat
    <2>1. s.book[t].shares * s.book[t].close \in Nat /\ s.book[t].shares * s.book[t].mark \in Nat
      BY StoryFields
    <2> QED BY <2>1
  <1>3. \A t \in Tickers :
          MarkedPositions(s)[t] =
            [shares |-> s.book[t].shares, close |-> s.book[t].close,
             ibmv |-> s.book[t].shares * IF t \in Corrected(s) THEN s.book[t].close ELSE s.book[t].mark]
    BY DEF MarkedPositions
  <1>4. ASSUME NEW t \in Tickers PROVE MarkedPositions(s)[t] \in Position
    <2> DEFINE v == s.book[t].shares * (IF t \in Corrected(s) THEN s.book[t].close ELSE s.book[t].mark)
    <2>1. v \in Nat /\ s.book[t].shares \in Nat /\ s.book[t].close \in Nat
      BY <1>2, StoryFields
    <2>2. MarkedPositions(s)[t] = [shares |-> s.book[t].shares, close |-> s.book[t].close, ibmv |-> v]
      BY <1>3
    <2> HIDE DEF v
    <2> QED BY <2>1, <2>2 DEF Position
  <1>5. MarkedPositions(s) = [t \in Tickers |-> MarkedPositions(s)[t]]
    BY DEF MarkedPositions
  <1>6. MarkedPositions(s) \in [Tickers -> Position]
    BY <1>4, <1>5
  <1> QED BY <1>1, <1>3, <1>6

\* The correction moves the NAV and the positions by one amount.
LEMMA CorrectionIs ==
  ASSUME NEW s \in Statement
  PROVE  /\ CorrectionValue(s) \in [Tickers -> Int]
         /\ NavIb(s) = s.nav + All(CorrectionValue(s))
         /\ All(Carried(MarkedPositions(s))) = All(MarkValue(s.book)) + All(CorrectionValue(s))
         /\ NavIb(s) \in Int
  <1>1. CorrectionValue(s) \in [Tickers -> Int]
    BY StoryFields DEF CorrectionValue
  <1> DEFINE F == [t \in Corrected(s) |-> CorrectionOf(s, t)]
             C == CorrectionValue(s)
  <1>2. F \in [Corrected(s) -> Int] /\ Corrected(s) \in SUBSET Tickers
    BY StoryFields, MarksAre
  <1>3. \A t \in Tickers : C[t] = IF t \in Corrected(s) THEN F[t] ELSE 0
    BY DEF CorrectionValue
  <1>4. MapThenSumSet(LAMBDA t : CorrectionOf(s, t), Corrected(s)) = Total(F, Corrected(s))
    BY SumOfCorrections
  <1> HIDE DEF F
  <1>5. Total(F, Corrected(s)) = All(C)
    <2> HIDE DEF C
    <2> QED BY <1>1, <1>2, <1>3, Addends, TotalPart DEF All, C
  <1>6. NavIb(s) = s.nav + All(CorrectionValue(s))
    BY <1>4, <1>5 DEF NavIb
  <1>7. \A t \in Tickers : Carried(MarkedPositions(s))[t] = MarkValue(s.book)[t] + CorrectionValue(s)[t]
    <2> SUFFICES ASSUME NEW t \in Tickers
                 PROVE  Carried(MarkedPositions(s))[t] = MarkValue(s.book)[t] + CorrectionValue(s)[t]
      OBVIOUS
    <2>1. s.book[t].shares \in Nat /\ s.book[t].close \in Nat /\ s.book[t].mark \in Nat
      BY StoryFields
    <2>2. CASE t \in Corrected(s)
      <3>1. Carried(MarkedPositions(s))[t] = s.book[t].shares * s.book[t].close
        BY <2>2, MarksAre DEF Carried
      <3>2. CorrectionValue(s)[t] = s.book[t].shares * (s.book[t].close - s.book[t].mark)
        BY <2>2 DEF CorrectionValue, CorrectionOf
      <3>3. MarkValue(s.book)[t] = s.book[t].shares * s.book[t].mark
        BY DEF MarkValue
      <3> QED BY <2>1, <3>1, <3>2, <3>3
    <2>3. CASE t \notin Corrected(s)
      <3>1. Carried(MarkedPositions(s))[t] = s.book[t].shares * s.book[t].mark
        BY <2>3, MarksAre DEF Carried
      <3>2. CorrectionValue(s)[t] = 0
        BY <2>3 DEF CorrectionValue
      <3>3. MarkValue(s.book)[t] = s.book[t].shares * s.book[t].mark
        BY DEF MarkValue
      <3>4. s.book[t].shares * s.book[t].mark \in Int
        BY <2>1
      <3> QED BY <3>1, <3>2, <3>3, <3>4
    <2> QED BY <2>2, <2>3
  <1>8. Carried(MarkedPositions(s)) \in [Tickers -> Int] /\ MarkValue(s.book) \in [Tickers -> Int]
    BY MarksAre, HeldTypes, BookTypes DEF Statement
  <1>9. All(Carried(MarkedPositions(s))) = All(MarkValue(s.book)) + All(CorrectionValue(s))
    BY <1>1, <1>7, <1>8, Addends, TotalPlus DEF All
  <1>10. s.nav \in Int /\ All(CorrectionValue(s)) \in Int
    BY <1>1, Addends DEF Statement
  <1> QED BY <1>1, <1>6, <1>9, <1>10

\* The row that a strike writes.
LEMMA StrikeIs ==
  ASSUME BooksShape, StatementAddsUp, StrikeBooks
  PROVE  /\ statement \in Statement /\ statement' = NoStatement
         /\ row'.struck = TRUE /\ row'.basis = statement.basis /\ row'.error = statement.error
         /\ row'.cash = statement.cash /\ row'.accrued = statement.accrued
         /\ row'.held = MarkedPositions(statement) /\ row'.before = [t \in Tickers |-> PriorShares(t)]
         /\ row'.navIb = NavIb(statement) /\ row'.nav = Nav(statement)
         /\ unsettled' = [t \in Tickers |-> DividendOf(statement, t)]
         /\ owed' = owed /\ session' = session /\ oddities' = oddities
  <1>1. statement \in Statement /\ statement' = NoStatement
    BY DEF StrikeBooks, BooksShape
  <1>2. PICK residual, trailing, breaches :
          row' = [struck |-> TRUE, nav |-> Nav(statement), navIb |-> NavIb(statement),
                  basis |-> statement.basis, cash |-> statement.cash, accrued |-> statement.accrued,
                  held |-> MarkedPositions(statement),
                  before |-> [t \in Tickers |-> PriorShares(t)],
                  residual |-> residual, trailing |-> trailing, error |-> statement.error,
                  breaches |-> breaches]
    BY Zenon DEF StrikeBooks
  <1>3. /\ unsettled' = [t \in Tickers |-> DividendOf(statement, t)]
        /\ owed' = owed /\ session' = session /\ oddities' = oddities
    BY DEF StrikeBooks
  <1> QED BY <1>1, <1>2, <1>3

LEMMA NavIs ==
  ASSUME NEW s \in Statement
  PROVE  /\ NavSettled(s) = s.cash + s.accrued + All(CloseValue(MarkedPositions(s)))
         /\ NavSettled(s) \in Int /\ NavIb(s) \in Int /\ Nav(s) \in Int
         /\ All(CloseValue(MarkedPositions(s))) \in Int
         /\ All(Carried(MarkedPositions(s))) \in Int
  <1>1. NavSettled(s) = s.cash + s.accrued + All(CloseValue(MarkedPositions(s)))
    BY SumOfCloses DEF NavSettled
  <1>2. /\ All(CloseValue(MarkedPositions(s))) \in Int
        /\ All(Carried(MarkedPositions(s))) \in Int
    BY MarksAre, HeldTypes, Addends
  <1>3. s.cash \in Int /\ s.accrued \in Int
    BY DEF Statement
  <1>4. NavSettled(s) \in Int
    BY <1>1, <1>2, <1>3
  <1> QED BY <1>1, <1>2, <1>4, CorrectionIs DEF Nav

LEMMA DividendIs ==
  ASSUME BooksShape, NEW s \in Statement, NEW t \in Tickers
  PROVE  DividendOf(s, t) \in Nat
  <1>1. s.book[t].shares \in Nat
    BY StoryFields
  <1>2. PriorShares(t) \in Nat
    BY DEF BooksShape, PriorShares, Position
  <1> QED BY <1>1, <1>2 DEF DividendOf

-----------------------------------------------------------------------------
(* The invariants hold.                                                    *)

LEMMA BooksStart == BooksInit => BooksInv
  <1> SUFFICES ASSUME BooksInit PROVE BooksInv
    OBVIOUS
  <1>1. /\ statement = NoStatement /\ row = NoBooks /\ session = 0 /\ oddities = 0
        /\ unsettled = [t \in Tickers |-> 0] /\ owed = [t \in Tickers |-> 0]
    BY DEF BooksInit
  <1>2. /\ row.struck = FALSE /\ row.held = [t \in Tickers |-> NoTicker]
        /\ row.before = [t \in Tickers |-> 0]
    BY <1>1 DEF NoBooks
  <1>3. row.held \in [Tickers -> Position] /\ row.before \in [Tickers -> Nat]
    BY <1>2 DEF NoTicker, Position
  <1>4. BooksTypeOK
    BY <1>1, <1>3, BooksAssumption DEF BooksTypeOK, Position
  <1>5. \A t \in Tickers : PriorShares(t) = 0
    BY <1>2 DEF PriorShares, NoTicker
  <1> QED BY <1>1, <1>2, <1>3, <1>4, <1>5
          DEF BooksInv, BooksShape, StatementAddsUp, RowAddsUp, OwedToEntitled, HeldThroughIsOwed

LEMMA ArriveKeeps == BooksInv /\ Arrive => BooksInv'
  <1> SUFFICES ASSUME BooksInv, Arrive PROVE BooksInv'
    OBVIOUS
  <1>1. BooksShape /\ StatementAddsUp /\ RowAddsUp /\ OwedToEntitled
    BY DEF BooksInv
  <1>2. /\ statement' \in Statement /\ \A t \in Tickers : statement'.book[t] \in Stories[t]
        /\ statement'.nav = statement'.cash + statement'.accrued + statement'.error
                             + All(MarkValue(statement'.book))
        /\ row.struck =>
             statement'.cash = row.cash + statement'.leak + All(TradedCash(statement'.book))
                               + (IF statement'.paid THEN row.accrued ELSE 0) + statement'.arrived
        /\ owed' = [t \in Tickers |-> IF t \in statement'.ex THEN Entitled(t, statement'.book[t]) ELSE 0]
        /\ row' = row /\ unsettled' = unsettled
        /\ session' \in 0 .. Sessions /\ oddities' \in 0 .. MaxOddities
    BY <1>1, ArriveIs
  <1>3. statement'.book \in [Tickers -> Story] /\ statement'.ex \in SUBSET Tickers
    BY <1>2 DEF Statement
  <1>4. \A t \in Tickers : PriorShares(t) \in Nat
    BY <1>1 DEF BooksShape, PriorShares, Position
  <1>5. owed' \in [Tickers -> Nat]
    <2> SUFFICES ASSUME NEW t \in Tickers
                 PROVE  (IF t \in statement'.ex THEN Entitled(t, statement'.book[t]) ELSE 0) \in Nat
      BY <1>2
    <2>1. statement'.book[t].shares \in Nat
      BY <1>3 DEF Story
    <2> QED BY <1>4, <2>1 DEF Entitled, Higher
  <1>6. BooksShape'
    <2>1. BooksTypeOK'
      BY <1>1, <1>2, <1>3, <1>5 DEF BooksShape, BooksTypeOK
    <2> QED BY <1>1, <1>2, <2>1 DEF BooksShape
  <1>7. StatementAddsUp'
    BY <1>2 DEF StatementAddsUp, TradedCash, Proceeds, PriorShares
  <1>8. RowAddsUp'
    BY <1>1, <1>2 DEF RowAddsUp
  <1>9. statement' # NoStatement
    BY <1>2 DEF Statement, NoStatement
  <1>10. OwedToEntitled'
    BY <1>1, <1>2, <1>9 DEF OwedToEntitled, HeldThroughIsOwed, PriorShares, Entitled
  <1> QED BY <1>6, <1>7, <1>8, <1>10 DEF BooksInv

LEMMA StrikeKeeps == BooksInv /\ StrikeBooks => BooksInv'
  <1> SUFFICES ASSUME BooksInv, StrikeBooks PROVE BooksInv'
    OBVIOUS
  <1> DEFINE s == statement
  <1>1. BooksShape /\ StatementAddsUp /\ RowAddsUp /\ OwedToEntitled
    BY DEF BooksInv
  <1>2. /\ s \in Statement /\ statement' = NoStatement
        /\ row'.struck = TRUE /\ row'.basis = s.basis /\ row'.error = s.error
        /\ row'.cash = s.cash /\ row'.accrued = s.accrued
        /\ row'.held = MarkedPositions(s) /\ row'.before = [t \in Tickers |-> PriorShares(t)]
        /\ row'.navIb = NavIb(s) /\ row'.nav = Nav(s)
        /\ unsettled' = [t \in Tickers |-> DividendOf(s, t)]
        /\ owed' = owed /\ session' = session /\ oddities' = oddities
    BY <1>1, StrikeIs
  <1>3. s # NoStatement
    BY DEF StrikeBooks
  <1>4. /\ s.cash \in Int /\ s.accrued \in Int /\ s.error \in Int /\ s.basis \in Bases
        /\ s.book \in [Tickers -> Story]
    BY <1>2 DEF Statement
  <1>5. \A t \in Tickers : PriorShares(t) \in Nat
    BY <1>1 DEF BooksShape, PriorShares, Position
  <1>6. BooksShape'
    <2>1. row'.held \in [Tickers -> Position] /\ row'.before \in [Tickers -> Nat]
      BY <1>2, <1>5, MarksAre
    <2>2. unsettled' \in [Tickers -> Nat]
      BY <1>1, <1>2, DividendIs
    <2>3. BooksTypeOK'
      BY <1>1, <1>2, <2>1, <2>2 DEF BooksShape, BooksTypeOK, Position
    <2>4. row'.nav \in Int /\ row'.navIb \in Int
      BY <1>2, NavIs
    <2> QED BY <1>2, <1>4, <2>1, <2>3, <2>4 DEF BooksShape
  <1>7. StatementAddsUp'
    BY <1>2 DEF StatementAddsUp
  <1>8. RowAddsUp'
    <2>1. s.nav = s.cash + s.accrued + s.error + All(MarkValue(s.book))
      BY <1>1, <1>3 DEF StatementAddsUp
    <2>2. All(MarkValue(s.book)) \in Int /\ All(CorrectionValue(s)) \in Int
      BY <1>2, <1>4, BookTypes, CorrectionIs, Addends
    <2>3. NavIb(s) = s.cash + s.accrued + s.error + All(Carried(MarkedPositions(s)))
      BY <1>2, <1>4, <2>1, <2>2, CorrectionIs
    <2>4. Nav(s) = IF s.basis = "settled_close"
                   THEN s.cash + s.accrued + All(CloseValue(MarkedPositions(s))) ELSE NavIb(s)
      BY <1>2, NavIs DEF Nav
    <2> QED BY <1>2, <2>3, <2>4 DEF RowAddsUp
  <1>9. OwedToEntitled'
    <2>1. HeldThroughIsOwed'
      <3> SUFFICES ASSUME NEW t \in Tickers, row'.held[t].shares # 0, row'.before[t] # 0
                   PROVE  unsettled'[t] = owed'[t]
        BY DEF HeldThroughIsOwed, PriorShares
      <3>1. PriorShares(t) # 0 /\ s.book[t].shares # 0
        BY <1>2, MarksAre
      <3>2. row.struck
        BY <1>1, <3>1 DEF OwedToEntitled
      <3>3. owed[t] = IF t \in s.ex THEN PriorShares(t) ELSE 0
        BY <1>1, <1>3, <3>2 DEF OwedToEntitled, Entitled
      <3>4. t \in Held(s)
        BY <3>1 DEF Held
      <3>5. DividendOf(s, t) = IF t \in s.ex THEN PriorShares(t) ELSE 0
        BY <3>1, <3>4 DEF DividendOf
      <3> QED BY <1>2, <3>3, <3>5
    <2> QED BY <1>2, <2>1 DEF OwedToEntitled
  <1> QED BY <1>6, <1>7, <1>8, <1>9 DEF BooksInv

LEMMA BooksStep == BooksInv /\ [BooksNext]_books => BooksInv'
  <1>1. BooksInv /\ UNCHANGED books => BooksInv'
    BY DEF BooksInv, BooksShape, BooksTypeOK, StatementAddsUp, RowAddsUp, OwedToEntitled,
           HeldThroughIsOwed, PriorShares, Entitled, TradedCash, Proceeds, books
  <1> QED BY <1>1, ArriveKeeps, StrikeKeeps DEF BooksNext

LEMMA BooksHold == BooksSpec => []BooksInv
  BY BooksStart, BooksStep, PTL DEF BooksSpec

\* The evening is both models side by side: what is proved of either holds of it.
LEMMA EveningIsBoth == EveningSpec => Spec /\ BooksSpec
  <1>1. EveningInit => Init /\ BooksInit
    BY DEF EveningInit
  <1>2. [EveningNext]_<<vars, books, part>> => [Next]_vars /\ [BooksNext]_books
    BY DEF EveningNext
  <1> QED BY <1>1, <1>2, PTL DEF EveningSpec, Spec, BooksSpec

\* The tables of the ledger and the books of the strikes keep their types, the
\* audit its window and the books their bounds.
THEOREM EveningTypeCorrect == EveningSpec => []EveningTypeOK
  <1>1. BooksInv => BooksTypeOK
    BY DEF BooksInv, BooksShape
  <1>2. TypeOK /\ BooksTypeOK => EveningTypeOK
    BY DEF EveningTypeOK
  <1> QED BY <1>1, <1>2, EveningIsBoth, LedgerTypeCorrect, BooksHold, PTL

\* What the broker owes for a name held at both closes is what was accrued.
THEOREM OwedIsAccrued == BooksSpec => []HeldThroughIsOwed
  <1>1. BooksInv => HeldThroughIsOwed
    BY DEF BooksInv, OwedToEntitled
  <1> QED BY <1>1, BooksHold, PTL

LEMMA SumOfCarried ==
  ASSUME NEW held
  PROVE  Sum(LAMBDA t : held[t].ibmv) = All(Carried(held))
  <1>1. Sum(LAMBDA t : held[t].ibmv) = Total([t \in Tickers |-> held[t].ibmv], Tickers)
    BY DEF Sum, Total, MapThenSumSet, MapThenFoldSet
  <1> QED BY <1>1 DEF All, Carried

\* A correction of the marks moves the NAV and the positions by one amount.
THEOREM CorrectionsMatch == BooksSpec => []CorrectionMovesBoth
  <1>1. ASSUME BooksInv, statement # NoStatement
        PROVE  NavIb(statement) - statement.cash - statement.accrued
                 - Sum(LAMBDA t : MarkedPositions(statement)[t].ibmv) = statement.error
    <2> DEFINE s == statement
    <2>1. s \in Statement /\ s.nav = s.cash + s.accrued + s.error + All(MarkValue(s.book))
      BY <1>1 DEF BooksInv, BooksShape, StatementAddsUp
    <2>2. /\ s.cash \in Int /\ s.accrued \in Int /\ s.error \in Int
          /\ s.book \in [Tickers -> Story]
      BY <2>1 DEF Statement
    <2>3. All(MarkValue(s.book)) \in Int /\ All(CorrectionValue(s)) \in Int
      BY <2>1, <2>2, BookTypes, CorrectionIs, Addends
    <2>4. Sum(LAMBDA t : MarkedPositions(s)[t].ibmv) = All(MarkValue(s.book)) + All(CorrectionValue(s))
      BY <2>1, SumOfCarried, CorrectionIs
    <2>5. NavIb(s) = s.nav + All(CorrectionValue(s))
      BY <2>1, CorrectionIs
    <2> HIDE DEF s
    <2>6. NavIb(s) - s.cash - s.accrued - Sum(LAMBDA t : MarkedPositions(s)[t].ibmv) = s.error
      BY <2>1, <2>2, <2>3, <2>4, <2>5
    <2> QED BY <2>6 DEF s
  <1>2. BooksInv => CorrectionMovesBoth
    BY <1>1 DEF CorrectionMovesBoth
  <1> QED BY <1>2, BooksHold, PTL

-----------------------------------------------------------------------------
(* The marks that a NAV carries.                                           *)

LEMMA EndsOf ==
  ASSUME NEW R, IsFiniteSet(R), R # {}, R \subseteq Nat
  PROVE  /\ Min(R) \in R /\ \A x \in R : Min(R) <= x
         /\ Max(R) \in R /\ \A x \in R : x <= Max(R)
  <1>1. R \in SUBSET Int
    OBVIOUS
  <1> QED BY <1>1, LeastIs, GreatestIs

LEMMA Times ==
  ASSUME NEW n \in Nat, NEW a \in Int, NEW b \in Int, a <= b
  PROVE  n * a <= n * b /\ n * a \in Int /\ n * b \in Int
  OBVIOUS

\* A NAV that passes the custodian check carries no mark known to be wrong by
\* more than the materiality: a flagged mark was moved into the traded range, or
\* it misses the range by less.
THEOREM MarksHold == BooksSpec => []MarksTrusted
  <1>1. ASSUME BooksInv, statement # NoStatement, CustodianBreaches(statement) = {},
               NEW t \in Checked(statement), t \in Flagged(statement)
        PROVE  LET p == MarkedPositions(statement)[t]
                   r == statement.book[t].range
               IN  p.ibmv \in p.shares * Min(r) - Materiality .. p.shares * Max(r) + Materiality
    <2> DEFINE s == statement
               R == s.book[t].range
               lo == Min(R)
               hi == Max(R)
               n == s.book[t].shares
               m == s.book[t].mark
               c == s.book[t].close
               p == MarkedPositions(s)[t]
    <2>1. s \in Statement /\ s.book[t] \in Stories[t] /\ t \in Tickers /\ R # {}
      BY <1>1, MarksAre DEF BooksInv, BooksShape, Checked, Held
    <2>2. R \subseteq Nat /\ IsFiniteSet(R)
      BY <2>1, StoryIs DEF Story
    <2>3. lo \in Nat /\ hi \in Nat /\ lo <= hi
      BY <2>1, <2>2, EndsOf
    <2>4. n \in Nat /\ m \in Nat /\ c \in Nat
      BY <2>1, StoryFields
    <2>5. p.shares = n /\ p.ibmv = n * IF t \in Corrected(s) THEN c ELSE m
      BY <2>1, MarksAre
    <2>6. Materiality \in Nat
      BY BooksAssumption
    <2>7. n * lo \in Int /\ n * hi \in Int /\ n * lo <= n * hi
      BY <2>3, <2>4, Times
    <2>8. CASE t \in Corrected(s)
      <3>1. c \in lo .. hi
        BY <2>1, <2>8, MarksAre DEF Repairable
      <3>2. n * lo <= n * c /\ n * c <= n * hi /\ n * c \in Int
        BY <2>3, <2>4, <3>1, Times
      <3>3. p.ibmv = n * c
        BY <2>5, <2>8
      <3> HIDE DEF lo, hi, n, c, p
      <3>4. p.ibmv \in p.shares * lo - Materiality .. p.shares * hi + Materiality
        BY <2>5, <2>6, <2>7, <3>2, <3>3
      <3> QED BY <3>4 DEF lo, hi, p
    <2>9. CASE t \notin Corrected(s)
      <3>1. MarkError(s, t) = n * IF m < lo THEN m - lo ELSE m - hi
        BY DEF MarkError
      <3>2. Abs(MarkError(s, t)) <= Materiality
        <4>1. ~(Abs(MarkError(s, t)) > Materiality)
          BY <1>1, <2>9, Zenon DEF CustodianBreaches
        <4>2. Abs(MarkError(s, t)) \in Int
          <5>1. MarkError(s, t) \in Int
            BY <2>3, <2>4, <3>1
          <5> HIDE DEF s
          <5> QED BY <5>1 DEF Abs
        <4> HIDE DEF s
        <4> QED BY <2>6, <4>1, <4>2
      <3>3. m < lo \/ m > hi
        BY <1>1, <2>3, <2>4 DEF Flagged
      <3>4. p.ibmv = n * m /\ n * m \in Int
        BY <2>4, <2>5, <2>9
      <3> HIDE DEF lo, hi, n, m, p
      <3>5. p.ibmv \in p.shares * lo - Materiality .. p.shares * hi + Materiality
        <4>1. CASE m < lo
          <5>1. MarkError(s, t) = n * m - n * lo
            BY <2>3, <2>4, <3>1, <4>1
          <5>2. n * m <= n * hi
            BY <2>3, <2>4, <4>1, Times
          <5> QED BY <2>5, <2>6, <2>7, <3>2, <3>4, <5>1, <5>2 DEF Abs
        <4>2. CASE m > hi
          <5>1. MarkError(s, t) = n * m - n * hi
            BY <2>3, <2>4, <3>1, <4>2
          <5>2. n * lo <= n * m
            BY <2>3, <2>4, <4>2, Times
          <5> QED BY <2>5, <2>6, <2>7, <3>2, <3>4, <5>1, <5>2 DEF Abs
        <4> QED BY <3>3, <4>1, <4>2
      <3> QED BY <3>5 DEF lo, hi, p
    <2> QED BY <2>8, <2>9
  <1>2. BooksInv => MarksTrusted
    BY <1>1, Zenon DEF MarksTrusted
  <1> QED BY <1>2, BooksHold, PTL

-----------------------------------------------------------------------------
(* What the NAV gate excuses.                                              *)

\* What a NAV carries beyond the settled rebuild, name by name.
BasisValue(held) == [t \in Tickers |-> BasisOf(held[t])]
BasisMoves(s) == [t \in Tickers |-> BasisDelta(s, t)]

LEMMA BasisIs ==
  ASSUME NEW held \in [Tickers -> Position]
  PROVE  /\ BasisValue(held) \in [Tickers -> Int]
         /\ All(Carried(held)) = All(CloseValue(held)) + All(BasisValue(held))
         /\ All(BasisValue(held)) \in Int
         /\ \A t \in Tickers : BasisOf(held[t]) \in Int
  <1>1. \A t \in Tickers : BasisOf(held[t]) \in Int
    BY HeldTypes DEF BasisOf
  <1>2. BasisValue(held) \in [Tickers -> Int]
    BY <1>1 DEF BasisValue
  <1>3. ASSUME NEW t \in Tickers PROVE Carried(held)[t] = CloseValue(held)[t] + BasisValue(held)[t]
    <2>1. held[t].shares * held[t].close \in Int /\ held[t].ibmv \in Int
      <3>1. held[t].shares \in Nat /\ held[t].close \in Nat /\ held[t].ibmv \in Nat
        BY HeldTypes
      <3> QED BY <3>1
    <2>2. BasisValue(held)[t] = held[t].ibmv - held[t].shares * held[t].close
      BY DEF BasisValue, BasisOf
    <2> QED BY <2>1, <2>2 DEF Carried, CloseValue
  <1>4. All(Carried(held)) = All(CloseValue(held)) + All(BasisValue(held))
    BY <1>2, <1>3, HeldTypes, Addends, TotalPlus DEF All
  <1> QED BY <1>1, <1>2, <1>4, Addends

LEMMA SumOfMoves ==
  ASSUME NEW s
  PROVE  FullBook(s) = All(BasisMoves(s))
  <1>1. FullBook(s) = Total([t \in Tickers |-> BasisDelta(s, t)], Tickers)
    BY DEF FullBook, Sum, Total, MapThenSumSet, MapThenFoldSet
  <1> QED BY <1>1 DEF All, BasisMoves

\* The change of the whole basis is that of each name's, and of the error.
LEMMA BasisMoveIs ==
  ASSUME BooksInv, statement # NoStatement, row.struck
  PROVE  /\ MarkBasisDelta(statement) = (statement.error - row.error) + FullBook(statement)
         /\ FullBook(statement) \in Int /\ MarkBasisDelta(statement) \in Int
         /\ BasisMoves(statement) \in [Tickers -> Int]
         /\ PriorMarkBasis = row.error + All(BasisValue(row.held))
         /\ PriorMarkBasis \in Int
  <1> DEFINE s == statement
             M == MarkedPositions(s)
  <1>1. s \in Statement /\ s.nav = s.cash + s.accrued + s.error + All(MarkValue(s.book))
    BY DEF BooksInv, BooksShape, StatementAddsUp
  <1>2. /\ s.cash \in Int /\ s.accrued \in Int /\ s.error \in Int
        /\ s.book \in [Tickers -> Story]
    BY <1>1 DEF Statement
  <1>3. /\ row.held \in [Tickers -> Position] /\ row.cash \in Int /\ row.accrued \in Int
        /\ row.error \in Int
        /\ row.navIb = row.cash + row.accrued + row.error + All(Carried(row.held))
    BY DEF BooksInv, BooksShape, RowAddsUp
  <1>4. M \in [Tickers -> Position]
    BY <1>1, MarksAre
  <1> HIDE DEF M
  <1>5. /\ All(Carried(M)) = All(CloseValue(M)) + All(BasisValue(M))
        /\ All(BasisValue(M)) \in Int /\ BasisValue(M) \in [Tickers -> Int]
        /\ All(CloseValue(M)) \in Int /\ All(Carried(M)) \in Int
    BY <1>4, BasisIs, HeldTypes, Addends
  <1>6. /\ All(Carried(row.held)) = All(CloseValue(row.held)) + All(BasisValue(row.held))
        /\ All(BasisValue(row.held)) \in Int /\ BasisValue(row.held) \in [Tickers -> Int]
        /\ All(CloseValue(row.held)) \in Int /\ All(Carried(row.held)) \in Int
    BY <1>3, BasisIs, HeldTypes, Addends
  <1>7. PriorMarkBasis = row.error + All(BasisValue(row.held))
    <2>1. PriorMarkBasis = row.navIb - (row.cash + row.accrued + All(CloseValue(row.held)))
      BY SumOfCloses DEF PriorMarkBasis, MarkBasis
    <2> QED BY <1>3, <1>6, <2>1
  <1>8. MarkBasis(NavIb(s), s.cash, s.accrued, M) = s.error + All(BasisValue(M))
    <2>1. MarkBasis(NavIb(s), s.cash, s.accrued, M) = NavIb(s) - (s.cash + s.accrued + All(CloseValue(M)))
      BY SumOfCloses DEF MarkBasis
    <2>2. NavIb(s) = s.cash + s.accrued + s.error + All(Carried(M))
      <3>1. All(Carried(M)) = All(MarkValue(s.book)) + All(CorrectionValue(s))
        BY <1>1, CorrectionIs DEF M
      <3>2. NavIb(s) = s.nav + All(CorrectionValue(s))
        BY <1>1, CorrectionIs
      <3>3. All(MarkValue(s.book)) \in Int /\ All(CorrectionValue(s)) \in Int
        BY <1>1, <1>2, BookTypes, CorrectionIs, Addends
      <3> QED BY <1>1, <1>2, <3>1, <3>2, <3>3
    <2> HIDE DEF s
    <2> QED BY <1>2, <1>5, <2>1, <2>2
  <1>9. ASSUME NEW t \in Tickers
        PROVE  /\ BasisMoves(s)[t] = BasisOf(M[t]) - BasisOf(row.held[t])
               /\ BasisOf(M[t]) \in Int /\ BasisOf(row.held[t]) \in Int
               /\ BasisValue(M)[t] = BasisOf(M[t]) /\ BasisValue(row.held)[t] = BasisOf(row.held[t])
    BY <1>3, <1>4, BasisIs DEF BasisMoves, BasisDelta, BasisValue, M
  <1>10. BasisMoves(s) \in [Tickers -> Int]
    <2>1. \A t \in Tickers : BasisMoves(s)[t] \in Int
      BY <1>9
    <2> QED BY <2>1 DEF BasisMoves
  <1>11. All(BasisValue(M)) = All(BasisMoves(s)) + All(BasisValue(row.held))
    <2>1. \A t \in Tickers : BasisValue(M)[t] = BasisMoves(s)[t] + BasisValue(row.held)[t]
      BY <1>9
    <2> QED BY <1>5, <1>6, <1>10, <2>1, Addends, TotalPlus DEF All
  <1>12. All(BasisMoves(s)) \in Int /\ FullBook(s) = All(BasisMoves(s))
    BY <1>10, Addends, SumOfMoves
  <1>13. MarkBasisDelta(s) = (s.error + All(BasisValue(M))) - PriorMarkBasis
    BY <1>8 DEF MarkBasisDelta, M
  <1> HIDE DEF s
  <1>14. MarkBasisDelta(s) = (s.error - row.error) + FullBook(s) /\ PriorMarkBasis \in Int
    BY <1>2, <1>3, <1>6, <1>7, <1>11, <1>12, <1>13
  <1>15. MarkBasisDelta(s) \in Int
    BY <1>2, <1>3, <1>12, <1>14
  <1> QED BY <1>7, <1>10, <1>12, <1>14, <1>15 DEF s

\* What the marks that are off the close explain, and what is left.
Off(s) == {t \in Tickers : OffClose(MarkedPositions(s)[t]) \/ OffClose(row.held[t])}
OffMoves(s) == [t \in Tickers |-> IF t \in Off(s) THEN BasisDelta(s, t) ELSE 0]
SmallMoves(s) == [t \in Tickers |-> IF t \in Off(s) THEN 0 ELSE BasisDelta(s, t)]
SmallSizes(s) ==
  [t \in Tickers |-> IF OffClose(MarkedPositions(s)[t]) \/ OffClose(row.held[t])
                     THEN 0 ELSE Abs(BasisDelta(s, t))]

LEMMA SumOfExplained ==
  ASSUME NEW s
  PROVE  ExplainedByMarks(s) = Total([t \in Off(s) |-> BasisDelta(s, t)], Off(s))
  BY DEF ExplainedByMarks, Off, Total, MapThenSumSet, MapThenFoldSet

LEMMA SumOfSizes ==
  ASSUME NEW s
  PROVE  Sum(LAMBDA t : IF OffClose(MarkedPositions(s)[t]) \/ OffClose(row.held[t])
                        THEN 0 ELSE Abs(BasisDelta(s, t))) = All(SmallSizes(s))
  <1>1. Sum(LAMBDA t : IF OffClose(MarkedPositions(s)[t]) \/ OffClose(row.held[t])
                       THEN 0 ELSE Abs(BasisDelta(s, t)))
          = Total([t \in Tickers |-> IF OffClose(MarkedPositions(s)[t]) \/ OffClose(row.held[t])
                                     THEN 0 ELSE Abs(BasisDelta(s, t))], Tickers)
    BY DEF Sum, Total, MapThenSumSet, MapThenFoldSet
  <1> QED BY <1>1 DEF All, SmallSizes

\* What the explanation leaves out is no more than the sizes of what it skips.
LEMMA UnexplainedIsSmall ==
  ASSUME NEW s, BasisMoves(s) \in [Tickers -> Int]
  PROVE  /\ ExplainedByMarks(s) \in Int /\ All(SmallSizes(s)) \in Nat
         /\ FullBook(s) - ExplainedByMarks(s) \in -All(SmallSizes(s)) .. All(SmallSizes(s))
  <1> DEFINE O == Off(s)
             E == [t \in O |-> BasisDelta(s, t)]
             B == BasisMoves(s)
             G == OffMoves(s)
             N == SmallMoves(s)
             A == SmallSizes(s)
             M == [t \in Tickers |-> -N[t]]
             Z == [t \in Tickers |-> 0]
  <1>1. \A t \in Tickers : B[t] \in Int /\ B[t] = BasisDelta(s, t)
    BY DEF BasisMoves
  <1>2. O \in SUBSET Tickers /\ E \in [O -> Int]
    BY <1>1 DEF Off
  <1>3. \A t \in Tickers : /\ G[t] = IF t \in O THEN B[t] ELSE 0
                           /\ N[t] = IF t \in O THEN 0 ELSE B[t]
                           /\ A[t] = IF t \in O THEN 0 ELSE Abs(B[t])
    BY <1>1 DEF OffMoves, SmallMoves, SmallSizes, Off
  <1>4. /\ \A t \in O : E[t] = B[t]
        /\ \A t \in Tickers : M[t] = -N[t] /\ Z[t] = 0
    BY <1>1, <1>2
  <1> HIDE DEF O, E, B
  <1>5. \A t \in Tickers : /\ G[t] \in Int /\ N[t] \in Int /\ A[t] \in Int /\ -N[t] \in Int
                           /\ B[t] = G[t] + N[t] /\ N[t] <= A[t] /\ -N[t] <= A[t] /\ 0 <= A[t]
    <2> SUFFICES ASSUME NEW t \in Tickers
                 PROVE  /\ G[t] \in Int /\ N[t] \in Int /\ A[t] \in Int /\ -N[t] \in Int
                        /\ B[t] = G[t] + N[t] /\ N[t] <= A[t] /\ -N[t] <= A[t] /\ 0 <= A[t]
      OBVIOUS
    <2>1. B[t] \in Int
      BY <1>1
    <2>2. CASE t \in O
      BY <1>3, <2>1, <2>2
    <2>3. CASE t \notin O
      <3>1. G[t] = 0 /\ N[t] = B[t] /\ A[t] = Abs(B[t])
        BY <1>3, <2>3
      <3> QED BY <2>1, <3>1 DEF Abs
    <2> QED BY <2>2, <2>3
  <1>6. /\ G \in [Tickers -> Int] /\ N \in [Tickers -> Int] /\ A \in [Tickers -> Int]
        /\ M \in [Tickers -> Int] /\ Z \in [Tickers -> Int] /\ B \in [Tickers -> Int]
    <2>1. G \in [Tickers -> Int]
      BY <1>5 DEF OffMoves
    <2>2. N \in [Tickers -> Int]
      BY <1>5 DEF SmallMoves
    <2>3. A \in [Tickers -> Int]
      BY <1>5 DEF SmallSizes
    <2>4. M \in [Tickers -> Int]
      BY <1>5
    <2> QED BY <2>1, <2>2, <2>3, <2>4 DEF B
  <1> HIDE DEF G, N, A, M, Z
  <1>7. ExplainedByMarks(s) = All(G)
    <2>1. ExplainedByMarks(s) = Total(E, O)
      BY SumOfExplained DEF E, O
    <2>2. \A t \in Tickers : G[t] = IF t \in O THEN E[t] ELSE 0
      BY <1>3, <1>4
    <2>3. Total(E, O) = Total(G, Tickers)
      BY <1>2, <1>6, <2>2, Addends, TotalPart
    <2> QED BY <2>1, <2>3 DEF All
  <1>8. All(B) = All(G) + All(N)
    BY <1>5, <1>6, Addends, TotalPlus DEF All
  <1>9. All(N) <= All(A) /\ All(M) <= All(A) /\ All(Z) <= All(A)
    BY <1>4, <1>5, <1>6, Addends, TotalLeq DEF All
  <1>10. All(M) = -All(N) /\ All(Z) = 0
    BY <1>4, <1>6, Addends, TotalMinus, TotalZero DEF All
  <1>11. All(B) \in Int /\ All(G) \in Int /\ All(N) \in Int /\ All(A) \in Int
    BY <1>6, Addends
  <1>12. FullBook(s) = All(B)
    BY SumOfMoves DEF B
  <1> QED BY <1>7, <1>8, <1>9, <1>10, <1>11, <1>12 DEF A

\* An error of the broker's total is never excused as a matter of its marks,
\* and one larger than what small differences can hide is never passed over.
THEOREM ErrorsNotExcused == BooksSpec => []NavErrorNotExcused
  <1>1. ASSUME BooksInv, statement # NoStatement, row.struck
        PROVE  LET s == statement
                   new == Abs(s.error - row.error)
                   small == Sum(LAMBDA t : IF OffClose(MarkedPositions(s)[t]) \/ OffClose(row.held[t])
                                           THEN 0 ELSE Abs(BasisDelta(s, t)))
               IN  /\ new > ResidualFloor => HardGate(s) # "broker_data_quality"
                   /\ new > ResidualFloor + small => HardGate(s) = "reconcile_defect"
    <2> DEFINE s == statement
               e == s.error - row.error
               D == MarkBasisDelta(s)
               X == ExplainedByMarks(s)
               B == FullBook(s)
               small == All(SmallSizes(s))
    <2>1. D = e + B /\ B \in Int /\ D \in Int
      BY <1>1, BasisMoveIs
    <2>2. X \in Int /\ small \in Nat /\ B - X \in -small .. small
      BY <1>1, BasisMoveIs, UnexplainedIsSmall
    <2>3. e \in Int
      BY <1>1 DEF BooksInv, BooksShape, Statement
    <2>4. ResidualFloor \in Nat /\ GateTolerance \in Nat
      BY BooksAssumption
    <2>5. HardGate(s) = IF Abs(D) > GateTolerance \/ Abs(D - X) > ResidualFloor
                        THEN IF Abs(D - X) <= ResidualFloor /\ Abs(D - B) <= ResidualFloor
                             THEN "broker_data_quality" ELSE "reconcile_defect"
                        ELSE "quiet"
      BY Zenon DEF HardGate, BreachClass
    <2> HIDE DEF e, D, X, B, small
    <2>6. Abs(e) > ResidualFloor => ~(Abs(D - B) <= ResidualFloor)
      BY <2>1, <2>3, <2>4 DEF Abs
    <2>7. Abs(e) > ResidualFloor + small => Abs(D - X) > ResidualFloor /\ Abs(e) > ResidualFloor
      BY <2>1, <2>2, <2>3, <2>4 DEF Abs
    <2>8. Abs(e) > ResidualFloor => HardGate(s) # "broker_data_quality"
      BY <2>5, <2>6
    <2>9. Abs(e) > ResidualFloor + small => HardGate(s) = "reconcile_defect"
      BY <2>5, <2>6, <2>7
    <2> QED BY <2>8, <2>9, SumOfSizes DEF e, small
  <1>2. BooksInv => NavErrorNotExcused
    BY <1>1, Zenon DEF NavErrorNotExcused
  <1> QED BY <1>2, BooksHold, PTL

-----------------------------------------------------------------------------
(* The prior NAV that the sleeves measure.                                 *)

HeldPart(s) == [t \in Tickers |-> IF t \in Held(s) THEN PriorClose(t) * Retained(t, s.book[t]) ELSE 0]
SoldPart(s) == [t \in Tickers |-> PriorClose(t) * Sold(t, s.book[t])]

LEMMA SumOfHeldBase ==
  ASSUME NEW s
  PROVE  HeldBase(s) = Total([t \in Held(s) |-> PriorClose(t) * Retained(t, s.book[t])], Held(s))
  BY DEF HeldBase, Total, MapThenSumSet, MapThenFoldSet

LEMMA SumOfSoldBase ==
  ASSUME NEW s
  PROVE  SoldBase(s) = All(SoldPart(s))
  <1>1. SoldBase(s) = Total([t \in Tickers |-> PriorClose(t) * Sold(t, s.book[t])], Tickers)
    BY DEF SoldBase, Sum, Total, MapThenSumSet, MapThenFoldSet
  <1> QED BY <1>1 DEF All, SoldPart

\* What a name had and has, as numbers.
LEMMA SharesAre ==
  ASSUME BooksShape, NEW s \in Statement, NEW t \in Tickers
  PROVE  /\ PriorShares(t) \in Nat /\ PriorClose(t) \in Nat
         /\ Retained(t, s.book[t]) \in Nat /\ Sold(t, s.book[t]) \in Nat
         /\ Added(t, s.book[t]) \in Nat
         /\ s.book[t].shares >= PriorShares(t) =>
              /\ Retained(t, s.book[t]) = PriorShares(t) /\ Sold(t, s.book[t]) = 0
              /\ Added(t, s.book[t]) = s.book[t].shares - PriorShares(t)
         /\ s.book[t].shares <= PriorShares(t) =>
              /\ Retained(t, s.book[t]) = s.book[t].shares /\ Added(t, s.book[t]) = 0
              /\ Sold(t, s.book[t]) = PriorShares(t) - s.book[t].shares
         /\ t \in Held(s) <=> s.book[t].shares # 0
         /\ CloseValue(row.held)[t] = PriorShares(t) * PriorClose(t)
  <1>1. PriorShares(t) \in Nat /\ PriorClose(t) \in Nat
    BY DEF BooksShape, PriorShares, PriorClose, Position
  <1>2. s.book[t].shares \in Nat
    BY StoryFields
  <1>3. t \in Held(s) <=> s.book[t].shares # 0
    BY DEF Held
  <1>4. CloseValue(row.held)[t] = PriorShares(t) * PriorClose(t)
    BY DEF CloseValue, PriorShares, PriorClose
  <1>5. /\ Retained(t, s.book[t]) \in Nat /\ Sold(t, s.book[t]) \in Nat
        /\ Added(t, s.book[t]) \in Nat
        /\ s.book[t].shares >= PriorShares(t) =>
             /\ Retained(t, s.book[t]) = PriorShares(t) /\ Sold(t, s.book[t]) = 0
             /\ Added(t, s.book[t]) = s.book[t].shares - PriorShares(t)
        /\ s.book[t].shares <= PriorShares(t) =>
             /\ Retained(t, s.book[t]) = s.book[t].shares /\ Added(t, s.book[t]) = 0
             /\ Sold(t, s.book[t]) = PriorShares(t) - s.book[t].shares
    BY <1>1, <1>2 DEF Retained, Sold, Added, Lower, Higher
  <1> QED BY <1>1, <1>3, <1>4, <1>5

\* Held and sold shares together are the shares of the row before.
LEMMA BasesAddUp ==
  ASSUME BooksShape, NEW s \in Statement
  PROVE  HeldBase(s) + SoldBase(s) = All(CloseValue(row.held)) /\ HeldBase(s) \in Int /\ SoldBase(s) \in Int
  <1> DEFINE E == [t \in Held(s) |-> PriorClose(t) * Retained(t, s.book[t])]
             H == HeldPart(s)
             K == SoldPart(s)
             V == CloseValue(row.held)
  <1>1. ASSUME NEW t \in Tickers
        PROVE  /\ PriorClose(t) * Retained(t, s.book[t]) \in Int
               /\ PriorClose(t) * Sold(t, s.book[t]) \in Int
    BY SharesAre
  <1>2. Held(s) \in SUBSET Tickers /\ E \in [Held(s) -> Int]
    BY <1>1 DEF Held
  <1>3. H \in [Tickers -> Int] /\ K \in [Tickers -> Int]
    BY <1>1 DEF HeldPart, SoldPart
  <1>4. V \in [Tickers -> Int]
    BY HeldTypes DEF BooksShape
  <1>5. \A t \in Tickers : H[t] = IF t \in Held(s) THEN E[t] ELSE 0
    BY DEF HeldPart
  <1>6. ASSUME NEW t \in Tickers PROVE V[t] = H[t] + K[t]
    <2> DEFINE n == PriorShares(t)
               m == s.book[t].shares
               p == PriorClose(t)
    <2>1. /\ H[t] = IF m # 0 THEN p * Retained(t, s.book[t]) ELSE 0
          /\ K[t] = p * Sold(t, s.book[t]) /\ V[t] = n * p
      BY SharesAre DEF HeldPart, SoldPart
    <2>2. n \in Nat /\ m \in Nat /\ p \in Nat
      BY SharesAre, StoryFields
    <2>3. CASE m >= n
      <3>1. Retained(t, s.book[t]) = n /\ Sold(t, s.book[t]) = 0
        BY <2>3, SharesAre
      <3> HIDE DEF n, m, p, H, K, V
      <3>2. H[t] = (IF m # 0 THEN p * n ELSE 0) /\ K[t] = p * 0
        BY <2>1, <3>1
      <3>3. m = 0 => n = 0
        BY <2>2, <2>3
      <3> QED BY <2>1, <2>2, <3>2, <3>3
    <2>4. CASE m <= n
      <3>1. Retained(t, s.book[t]) = m /\ Sold(t, s.book[t]) = n - m
        BY <2>4, SharesAre
      <3> HIDE DEF n, m, p, H, K, V
      <3>2. H[t] = (IF m # 0 THEN p * m ELSE 0) /\ K[t] = p * (n - m)
        BY <2>1, <3>1
      <3>3. H[t] = p * m
        BY <2>2, <3>2
      <3> QED BY <2>1, <2>2, <3>2, <3>3
    <2> QED BY <2>2, <2>3, <2>4
  <1> HIDE DEF E, H, K, V
  <1>7. HeldBase(s) = All(H)
    <2>1. HeldBase(s) = Total(E, Held(s))
      BY SumOfHeldBase DEF E
    <2> QED BY <1>2, <1>3, <1>5, <2>1, Addends, TotalPart DEF All
  <1>8. SoldBase(s) = All(K)
    BY SumOfSoldBase DEF K
  <1>9. All(V) = All(H) + All(K)
    BY <1>3, <1>4, <1>6, Addends, TotalPlus DEF All
  <1>10. All(H) \in Int /\ All(K) \in Int
    BY <1>3, Addends
  <1> QED BY <1>7, <1>8, <1>9, <1>10 DEF V

\* Whatever was bought, trimmed or sold out, the prior NAV that the sleeves take
\* for idle is the cash that was idle.
THEOREM IdleIsCash == BooksSpec => []IdleCashIsCash
  <1>1. ASSUME BooksInv, statement # NoStatement, row.struck
        PROVE  IdleCash(statement) =
                 row.cash + row.accrued + (IF row.basis = "settled_close" THEN 0 ELSE PriorMarkBasis)
    <2> DEFINE V == All(CloseValue(row.held))
               H == HeldBase(statement)
               K == SoldBase(statement)
    <2>1. BooksShape /\ statement \in Statement
      BY <1>1 DEF BooksInv, BooksShape
    <2>2. H + K = V /\ H \in Int /\ K \in Int /\ V \in Int
      BY <2>1, BasesAddUp
    <2>3. /\ row.nav = IF row.basis = "settled_close" THEN row.cash + row.accrued + V ELSE row.navIb
          /\ row.cash \in Int /\ row.accrued \in Int /\ row.navIb \in Int /\ row.nav \in Int
      BY <1>1 DEF BooksInv, BooksShape, RowAddsUp
    <2>4. PriorMarkBasis = row.navIb - (row.cash + row.accrued + V)
      BY SumOfCloses DEF PriorMarkBasis, MarkBasis
    <2>5. IdleCash(statement) = row.nav - H - K
      BY DEF IdleCash
    <2> HIDE DEF V, H, K
    <2>6. CASE row.basis = "settled_close"
      BY <2>2, <2>3, <2>5, <2>6
    <2>7. CASE row.basis # "settled_close"
      BY <2>2, <2>3, <2>4, <2>5, <2>7
    <2> QED BY <2>6, <2>7
  <1>2. BooksInv => IdleCashIsCash
    BY <1>1 DEF IdleCashIsCash
  <1> QED BY <1>2, BooksHold, PTL

-----------------------------------------------------------------------------
(* The residual.                                                           *)

EarnedValue(s) == [t \in Tickers |-> IF t \in Held(s) THEN DailyPnl(t, s.book[t]) + DividendOf(s, t) ELSE 0]
DividendValue(s) == [t \in Tickers |-> DividendOf(s, t)]
RotationValue(s) == [t \in Tickers |-> (TradePrice(s.book[t]) - PriorClose(t)) * Sold(t, s.book[t])]
Blind(s) == {t \in Held(s) : PriorShares(t) # 0 /\ ~s.book[t].anchored}
MissedPnl(t, story) ==
  (story.close - PriorClose(t)) * Retained(t, story) + (story.close - TradePrice(story)) * Added(t, story)
UnanchoredValue(s) == [t \in Tickers |-> IF t \in Blind(s) THEN MissedPnl(t, s.book[t]) ELSE 0]
SlippageValue(s) ==
  [t \in Tickers |-> (PriorShares(t) - s.book[t].shares) * (s.book[t].fill - TradePrice(s.book[t]))
                     * (IF PriorShares(t) = 0 THEN 0 ELSE 1)]

LEMMA SumOfEarned ==
  ASSUME NEW s
  PROVE  PositionPnl(s) = Total([t \in Held(s) |-> DailyPnl(t, s.book[t]) + DividendOf(s, t)], Held(s))
  BY DEF PositionPnl, Total, MapThenSumSet, MapThenFoldSet

LEMMA SumOfMissed ==
  ASSUME NEW s
  PROVE  Unanchored(s) = Total([t \in Blind(s) |-> MissedPnl(t, s.book[t])], Blind(s))
  BY DEF Unanchored, Blind, MissedPnl, Total, MapThenSumSet, MapThenFoldSet

LEMMA SumOfDividends ==
  ASSUME NEW s
  PROVE  Sum(LAMBDA t : DividendOf(s, t)) = All(DividendValue(s))
  <1>1. Sum(LAMBDA t : DividendOf(s, t)) = Total([t \in Tickers |-> DividendOf(s, t)], Tickers)
    BY DEF Sum, Total, MapThenSumSet, MapThenFoldSet
  <1> QED BY <1>1 DEF All, DividendValue

LEMMA SumOfRotation ==
  ASSUME NEW s
  PROVE  Rotation(s) = All(RotationValue(s))
  <1>1. Rotation(s) = Total([t \in Tickers |-> (TradePrice(s.book[t]) - PriorClose(t)) * Sold(t, s.book[t])],
                            Tickers)
    BY DEF Rotation, Sum, Total, MapThenSumSet, MapThenFoldSet
  <1> QED BY <1>1 DEF All, RotationValue

LEMMA SumOfSlippage ==
  ASSUME NEW s
  PROVE  Slippage(s) = All(SlippageValue(s))
  <1>1. Slippage(s)
          = Total([t \in Tickers |->
                     (PriorShares(t) - s.book[t].shares) * (s.book[t].fill - TradePrice(s.book[t]))
                     * (IF PriorShares(t) = 0 THEN 0 ELSE 1)], Tickers)
    BY DEF Slippage, Sum, Total, MapThenSumSet, MapThenFoldSet
  <1> QED BY <1>1 DEF All, SlippageValue

\* The arithmetic of one name: n shares before at p, m now at c, traded at f,
\* its row priced at a.
LEMMA HeldOrGrown ==
  ASSUME NEW n \in Nat, NEW m \in Nat, NEW p \in Nat, NEW c \in Nat, NEW f \in Nat, NEW a \in Nat
  PROVE  (n - m) * f + m * c = n * p + ((c - p) * n + (c - a) * (m - n)) + (n - m) * (f - a)
  OBVIOUS

LEMMA HeldOrTrimmed ==
  ASSUME NEW n \in Nat, NEW m \in Nat, NEW p \in Nat, NEW c \in Nat, NEW f \in Nat, NEW a \in Nat
  PROVE  (n - m) * f + m * c = n * p + (c - p) * m + (a - p) * (n - m) + (n - m) * (f - a)
  OBVIOUS

\* What a name did to the cash and to its value is what its sleeves say, but
\* for what they miss.
LEMMA NameBalances ==
  ASSUME BooksShape, NEW s \in Statement, NEW t \in Tickers
  PROVE  /\ TradedCash(s.book)[t] + CloseValue(MarkedPositions(s))[t] + DividendValue(s)[t]
              = CloseValue(row.held)[t] + EarnedValue(s)[t] + RotationValue(s)[t]
                + UnanchoredValue(s)[t] + SlippageValue(s)[t]
         /\ TradedCash(s.book)[t] \in Int /\ CloseValue(MarkedPositions(s))[t] \in Int
         /\ DividendValue(s)[t] \in Int /\ CloseValue(row.held)[t] \in Int
         /\ EarnedValue(s)[t] \in Int /\ RotationValue(s)[t] \in Int
         /\ UnanchoredValue(s)[t] \in Int /\ SlippageValue(s)[t] \in Int
         /\ MissedPnl(t, s.book[t]) \in Int /\ DailyPnl(t, s.book[t]) + DividendOf(s, t) \in Int
  <1> DEFINE n == PriorShares(t)
             m == s.book[t].shares
             p == PriorClose(t)
             c == s.book[t].close
             f == s.book[t].fill
             a == TradePrice(s.book[t])
             w == s.book[t].anchored
             d == DividendOf(s, t)
             kept == Retained(t, s.book[t])
             new == Added(t, s.book[t])
             sold == Sold(t, s.book[t])
             stray == MissedPnl(t, s.book[t])
             daily == DailyPnl(t, s.book[t])
             T == TradedCash(s.book)[t]
             V == CloseValue(MarkedPositions(s))[t]
             D == DividendValue(s)[t]
             P == CloseValue(row.held)[t]
             E == EarnedValue(s)[t]
             R == RotationValue(s)[t]
             U == UnanchoredValue(s)[t]
             L == SlippageValue(s)[t]
  <1>1. /\ n \in Nat /\ m \in Nat /\ p \in Nat /\ c \in Nat /\ f \in Nat /\ a \in Nat
        /\ w \in BOOLEAN /\ d \in Nat /\ kept \in Nat /\ new \in Nat /\ sold \in Nat
    <2>1. s.book[t].arrival \in Nat /\ s.book[t].filled \in BOOLEAN /\ f \in Nat
      BY StoryFields
    <2>2. a \in Nat
      BY <2>1 DEF TradePrice
    <2> QED BY <2>1, <2>2, StoryFields, SharesAre, DividendIs
  <1>2. /\ m >= n => kept = n /\ sold = 0 /\ new = m - n
        /\ m <= n => kept = m /\ new = 0 /\ sold = n - m
    BY SharesAre
  <1>3. t \in Held(s) <=> m # 0
    BY SharesAre
  <1>4. T = (n - m) * f
    BY DEF TradedCash, Proceeds
  <1>5. V = m * c
    BY MarksAre DEF CloseValue
  <1>6. P = n * p
    BY SharesAre
  <1>7. D = d
    BY DEF DividendValue
  <1>8. R = (a - p) * sold
    BY DEF RotationValue
  <1>9. stray = (c - p) * kept + (c - a) * new
    BY DEF MissedPnl
  <1>10. U = IF m # 0 /\ n # 0 /\ ~w THEN stray ELSE 0
    BY <1>3 DEF UnanchoredValue, Blind
  <1>11. L = (n - m) * (f - a) * (IF n = 0 THEN 0 ELSE 1)
    BY DEF SlippageValue
  <1>12. daily = IF n = 0 THEN (c - f) * m ELSE IF ~w THEN 0 ELSE stray
    BY <1>9 DEF DailyPnl
  <1>13. E = IF m # 0 THEN daily + d ELSE 0
    BY <1>3 DEF EarnedValue
  <1>14. m = 0 => d = 0
    BY <1>3 DEF DividendOf
  <1> HIDE DEF n, m, p, c, f, a, w, d, kept, new, sold, stray, daily, T, V, D, P, E, R, U, L
  <1>15. /\ stray \in Int /\ daily \in Int /\ T \in Int /\ V \in Int /\ P \in Int /\ R \in Int
         /\ (n - m) * (f - a) \in Int
    <2>1. stray \in Int
      BY <1>1, <1>9
    <2>2. (c - f) * m \in Int
      BY <1>1
    <2>3. daily \in Int
      BY <1>12, <2>1, <2>2
    <2>4. /\ T \in Int /\ V \in Int /\ P \in Int /\ R \in Int
          /\ (n - m) * (f - a) \in Int
      BY <1>1, <1>4, <1>5, <1>6, <1>8
    <2> QED BY <2>1, <2>3, <2>4
  <1>16. L = IF n = 0 THEN 0 ELSE (n - m) * (f - a)
    <2>1. CASE n = 0
      BY <1>11, <1>15, <2>1
    <2>2. CASE n # 0
      BY <1>11, <1>15, <2>2
    <2> QED BY <2>1, <2>2
  <1>17. D \in Int /\ E \in Int /\ U \in Int /\ L \in Int /\ daily + d \in Int
    BY <1>1, <1>7, <1>10, <1>13, <1>15, <1>16
  <1>18. T + V + D = P + E + R + U + L
    <2>1. CASE n = 0
      <3>1. R = 0 /\ L = 0 /\ U = 0 /\ P = 0
        <4>1. sold = 0
          BY <1>1, <1>2, <2>1
        <4>2. R = 0
          BY <1>1, <1>8, <4>1
        <4>3. P = 0
          BY <1>1, <1>6, <2>1
        <4> QED BY <1>10, <1>16, <2>1, <4>2, <4>3
      <3>2. T + V = (c - f) * m
        BY <1>1, <1>4, <1>5, <2>1
      <3>3. CASE m = 0
        <4>1. (c - f) * m = 0
          BY <1>1, <3>3
        <4>2. D = 0 /\ E = 0
          BY <1>7, <1>13, <1>14, <3>3
        <4> QED BY <1>15, <3>1, <3>2, <4>1, <4>2
      <3>4. CASE m # 0
        <4>1. E = (c - f) * m + d
          BY <1>12, <1>13, <2>1, <3>4
        <4>2. (c - f) * m \in Int
          BY <1>1
        <4> QED BY <1>1, <1>7, <1>15, <3>1, <3>2, <4>1, <4>2
      <3> QED BY <3>3, <3>4
    <2>2. CASE n # 0 /\ m >= n
      <3>1. T + V = P + stray + L
        <4>1. stray = (c - p) * n + (c - a) * (m - n)
          BY <1>2, <1>9, <2>2
        <4>2. L = (n - m) * (f - a)
          BY <1>16, <2>2
        <4>3. (n - m) * f + m * c = n * p + ((c - p) * n + (c - a) * (m - n)) + (n - m) * (f - a)
          BY <1>1, HeldOrGrown
        <4> QED BY <1>4, <1>5, <1>6, <4>1, <4>2, <4>3
      <3>2. R = 0
        BY <1>1, <1>2, <1>8, <2>2
      <3>3. m # 0
        BY <1>1, <2>2
      <3>4. E + U = stray + d
        BY <1>1, <1>10, <1>12, <1>13, <1>15, <2>2, <3>3
      <3> QED BY <1>1, <1>7, <1>15, <1>17, <3>1, <3>2, <3>4
    <2>3. CASE n # 0 /\ m < n
      <3>0. kept = m /\ new = 0 /\ sold = n - m
        BY <1>1, <1>2, <2>3
      <3>1. T + V = P + stray + R + L
        <4>1. stray = (c - p) * m
          <5>1. (c - p) * m \in Int /\ (c - a) * 0 = 0
            BY <1>1
          <5> QED BY <1>9, <3>0, <5>1
        <4>2. L = (n - m) * (f - a) /\ R = (a - p) * (n - m)
          BY <1>8, <1>16, <2>3, <3>0
        <4>3. (n - m) * f + m * c = n * p + (c - p) * m + (a - p) * (n - m) + (n - m) * (f - a)
          BY <1>1, HeldOrTrimmed
        <4> QED BY <1>4, <1>5, <1>6, <4>1, <4>2, <4>3
      <3>2. CASE m = 0
        <4>1. stray = 0
          <5>1. (c - p) * 0 = 0 /\ (c - a) * 0 = 0
            BY <1>1
          <5> QED BY <1>9, <3>0, <3>2, <5>1
        <4>2. E = 0 /\ U = 0 /\ D = 0
          BY <1>7, <1>10, <1>13, <1>14, <3>2
        <4> QED BY <1>15, <1>17, <3>1, <4>1, <4>2
      <3>3. CASE m # 0
        <4>1. E + U = stray + d
          BY <1>1, <1>10, <1>12, <1>13, <1>15, <2>3, <3>3
        <4> QED BY <1>1, <1>7, <1>15, <1>17, <3>1, <4>1
      <3> QED BY <3>2, <3>3
    <2> QED BY <1>1, <2>1, <2>2, <2>3
  <1> QED BY <1>15, <1>17, <1>18 DEF T, V, D, P, E, R, U, L, stray, daily, d

LEMMA BookBalances ==
  ASSUME BooksShape, NEW s \in Statement
  PROVE  /\ All(TradedCash(s.book)) + All(CloseValue(MarkedPositions(s))) + All(DividendValue(s))
              = All(CloseValue(row.held)) + PositionPnl(s) + Rotation(s) + Unanchored(s) + Slippage(s)
         /\ All(TradedCash(s.book)) \in Int /\ All(CloseValue(MarkedPositions(s))) \in Int
         /\ All(DividendValue(s)) \in Int /\ All(CloseValue(row.held)) \in Int
         /\ PositionPnl(s) \in Int /\ Rotation(s) \in Int
         /\ Unanchored(s) \in Int /\ Slippage(s) \in Int
  <1> DEFINE T == TradedCash(s.book)
             V == CloseValue(MarkedPositions(s))
             D == DividendValue(s)
             P == CloseValue(row.held)
             E == EarnedValue(s)
             R == RotationValue(s)
             U == UnanchoredValue(s)
             L == SlippageValue(s)
             earned == [t \in Held(s) |-> DailyPnl(t, s.book[t]) + DividendOf(s, t)]
             stray == [t \in Blind(s) |-> MissedPnl(t, s.book[t])]
  <1>1. \A t \in Tickers :
          /\ T[t] + V[t] + D[t] = P[t] + E[t] + R[t] + U[t] + L[t]
          /\ T[t] \in Int /\ V[t] \in Int /\ D[t] \in Int /\ P[t] \in Int
          /\ E[t] \in Int /\ R[t] \in Int /\ U[t] \in Int /\ L[t] \in Int
    BY NameBalances
  <1>2. Held(s) \in SUBSET Tickers /\ Blind(s) \in SUBSET Tickers
    BY DEF Held, Blind
  <1>3. earned \in [Held(s) -> Int] /\ stray \in [Blind(s) -> Int]
    <2>1. \A t \in Tickers : MissedPnl(t, s.book[t]) \in Int /\ DailyPnl(t, s.book[t]) + DividendOf(s, t) \in Int
      BY NameBalances
    <2> QED BY <1>2, <2>1
  <1>4. /\ \A t \in Tickers : E[t] = IF t \in Held(s) THEN earned[t] ELSE 0
        /\ \A t \in Tickers : U[t] = IF t \in Blind(s) THEN stray[t] ELSE 0
    BY DEF EarnedValue, UnanchoredValue
  <1>5. T \in [Tickers -> Int] /\ V \in [Tickers -> Int] /\ D \in [Tickers -> Int] /\ P \in [Tickers -> Int]
    BY <1>1 DEF TradedCash, CloseValue, DividendValue
  <1>6. E \in [Tickers -> Int] /\ R \in [Tickers -> Int] /\ U \in [Tickers -> Int] /\ L \in [Tickers -> Int]
    BY <1>1 DEF EarnedValue, RotationValue, UnanchoredValue, SlippageValue
  <1> HIDE DEF T, V, D, P, E, R, U, L, earned, stray
  <1>7. PositionPnl(s) = All(E)
    <2>1. PositionPnl(s) = Total(earned, Held(s))
      BY SumOfEarned DEF earned
    <2> QED BY <1>2, <1>3, <1>4, <1>6, <2>1, Addends, TotalPart DEF All
  <1>8. Unanchored(s) = All(U)
    <2>1. Unanchored(s) = Total(stray, Blind(s))
      BY SumOfMissed DEF stray
    <2> QED BY <1>2, <1>3, <1>4, <1>6, <2>1, Addends, TotalPart DEF All
  <1>9. Rotation(s) = All(R) /\ Slippage(s) = All(L)
    BY SumOfRotation, SumOfSlippage DEF R, L
  <1>10. All(T) + All(V) + All(D) = All(P) + All(E) + All(R) + All(U) + All(L)
    <2>1. \A t \in Tickers : T[t] + V[t] + D[t] = P[t] + E[t] + R[t] + U[t] + L[t]
      BY <1>1
    <2> DEFINE TV == Plus(T, V, Tickers)
               got == Plus(TV, D, Tickers)
               PE == Plus(P, E, Tickers)
               PR == Plus(PE, R, Tickers)
               PU == Plus(PR, U, Tickers)
               said == Plus(PU, L, Tickers)
    <2>2. /\ TV \in [Tickers -> Int] /\ \A t \in Tickers : TV[t] = T[t] + V[t]
          /\ All(TV) = All(T) + All(V)
      BY <1>5, Addends, TotalOfPlus DEF All
    <2>3. /\ PE \in [Tickers -> Int] /\ \A t \in Tickers : PE[t] = P[t] + E[t]
          /\ All(PE) = All(P) + All(E)
      BY <1>5, <1>6, Addends, TotalOfPlus DEF All
    <2> HIDE DEF TV, PE
    <2>4. /\ got \in [Tickers -> Int] /\ \A t \in Tickers : got[t] = TV[t] + D[t]
          /\ All(got) = All(TV) + All(D)
      BY <1>5, <2>2, Addends, TotalOfPlus DEF All
    <2>5. /\ PR \in [Tickers -> Int] /\ \A t \in Tickers : PR[t] = PE[t] + R[t]
          /\ All(PR) = All(PE) + All(R)
      BY <1>6, <2>3, Addends, TotalOfPlus DEF All
    <2> HIDE DEF PR
    <2>6. /\ PU \in [Tickers -> Int] /\ \A t \in Tickers : PU[t] = PR[t] + U[t]
          /\ All(PU) = All(PR) + All(U)
      BY <1>6, <2>5, Addends, TotalOfPlus DEF All
    <2> HIDE DEF PU
    <2>7. /\ said \in [Tickers -> Int] /\ \A t \in Tickers : said[t] = PU[t] + L[t]
          /\ All(said) = All(PU) + All(L)
      BY <1>6, <2>6, Addends, TotalOfPlus DEF All
    <2> HIDE DEF got, said
    <2>8. \A t \in Tickers : got[t] = said[t]
      BY <2>1, <2>2, <2>3, <2>4, <2>5, <2>6, <2>7
    <2>9. got = said
      BY <2>4, <2>7, <2>8
    <2> QED BY <2>2, <2>3, <2>4, <2>5, <2>6, <2>7, <2>9
  <1>11. /\ All(T) \in Int /\ All(V) \in Int /\ All(D) \in Int /\ All(P) \in Int
         /\ All(E) \in Int /\ All(R) \in Int /\ All(U) \in Int /\ All(L) \in Int
    BY <1>5, <1>6, Addends
  <1> QED BY <1>7, <1>8, <1>9, <1>10, <1>11 DEF T, V, D, P

LEMMA SumOfReleased == \A s : Released(s) = All(unsettled)
  BY DEF Released, Sum, All, Total, MapThenSumSet, MapThenFoldSet

\* The residual of a session is the sum of the causes that have no sleeve, to
\* the cent, whatever was traded, marked, corrected or paid.
THEOREM ResidualHasNames == BooksSpec => []ResidualIsNamed
  <1>1. ASSUME BooksInv, statement # NoStatement, row.struck
        PROVE  LET s == statement
               IN  Residual(s) =
                     s.leak + (IF s.paid THEN row.accrued ELSE 0)
                     + (s.arrived - Released(s)) + Unanchored(s) + Slippage(s)
                     + (IF s.basis = row.basis THEN 0
                        ELSE IF s.basis = "settled_close" THEN -PriorMarkBasis ELSE PriorMarkBasis)
    <2> DEFINE s == statement
               T == All(TradedCash(s.book))
               V == All(CloseValue(MarkedPositions(s)))
               D == All(DividendValue(s))
               P == All(CloseValue(row.held))
               E == PositionPnl(s)
               R == Rotation(s)
               U == Unanchored(s)
               L == Slippage(s)
               released == Released(s)
               paid == IF s.paid THEN row.accrued ELSE 0
               ib == NavIb(s)
               basis == PriorMarkBasis
               now == s.cash + s.accrued + V
               before == row.cash + row.accrued + P
               named == s.leak + paid + (s.arrived - released) + U + L
    <2>1. BooksShape /\ s \in Statement
      BY <1>1 DEF BooksInv, BooksShape
    <2>2. /\ T + V + D = P + E + R + U + L
          /\ T \in Int /\ V \in Int /\ D \in Int /\ P \in Int
          /\ E \in Int /\ R \in Int /\ U \in Int /\ L \in Int
      BY <2>1, BookBalances
    <2>3. /\ s.leak \in Int /\ s.cash \in Int /\ s.accrued \in Int /\ s.arrived \in Int
          /\ s.paid \in BOOLEAN /\ s.basis \in Bases
      BY <2>1 DEF Statement
    <2>4. /\ row.nav \in Int /\ row.navIb \in Int /\ row.cash \in Int /\ row.accrued \in Int
          /\ row.basis \in Bases
          /\ row.nav = IF row.basis = "settled_close" THEN before ELSE row.navIb
      BY <1>1 DEF BooksInv, BooksShape, RowAddsUp
    <2>5. s.cash = row.cash + s.leak + T + paid + s.arrived
      BY <1>1 DEF BooksInv, StatementAddsUp
    <2>6. released \in Int
      <3>1. unsettled \in [Tickers -> Int]
        BY <2>1 DEF BooksShape, BooksTypeOK
      <3> QED BY <3>1, SumOfReleased, Addends
    <2>7. ib \in Int /\ Nav(s) = IF s.basis = "settled_close" THEN now ELSE ib
      BY <2>1, NavIs DEF Nav
    <2>8. basis = row.navIb - before
      BY SumOfCloses DEF PriorMarkBasis, MarkBasis
    <2>9. PricingTiming(s) = IF s.basis = "settled_close" THEN 0 ELSE (ib - now) - basis
      BY SumOfCloses DEF PricingTiming, MarkBasisDelta, MarkBasis
    <2>10. DividendTiming(s) = D - released
      BY SumOfDividends DEF DividendTiming
    <2>11. Residual(s) = Nav(s) - row.nav - E - (s.accrued - row.accrued) + (D - released) - R - PricingTiming(s)
      BY <2>10 DEF Residual, Interest
    <2>12. paid \in Int
      BY <2>3, <2>4
    <2> HIDE DEF s, T, V, D, P, E, R, U, L, released, paid, ib, basis
    <2>13. now - before - E - (s.accrued - row.accrued) + (D - released) - R = named
      <3>1. now - before = (s.leak + T + paid + s.arrived) + (s.accrued - row.accrued) + (V - P)
        BY <2>2, <2>3, <2>4, <2>5, <2>12
      <3>2. T + V - P = E + R + U + L - D
        BY <2>2
      <3> HIDE DEF now, before
      <3>3. now - before \in Int
        BY <2>2, <2>3, <2>4, <2>12, <3>1
      <3> DEFINE z == now - before
                 y == E + R + U + L - D
                 x == s.accrued - row.accrued
                 k == s.leak + paid + s.arrived
      <3>4. z \in Int /\ y \in Int /\ x \in Int /\ k \in Int
        BY <2>2, <2>3, <2>4, <2>12, <3>3
      <3>5. z = (s.leak + T + paid + s.arrived) + x + (V - P) /\ T + V - P = y
        BY <3>1, <3>2
      <3>6. s.leak + T + paid + s.arrived = T + k
        BY <2>2, <2>3, <2>12
      <3>7. z = k + x + y
        <4> HIDE DEF z, y, x, k
        <4> QED BY <2>2, <3>4, <3>5, <3>6
      <3> HIDE DEF z
      <3>8. z - E - (s.accrued - row.accrued) + (D - released) - R = named
        BY <2>2, <2>3, <2>4, <2>6, <2>12, <3>7 DEF z
      <3> QED BY <3>8 DEF z
    <2>14. now \in Int /\ before \in Int /\ basis \in Int /\ named \in Int
      BY <2>2, <2>3, <2>4, <2>6, <2>8, <2>12
    <2>15. Residual(s) = named + (IF s.basis = row.basis THEN 0
                                  ELSE IF s.basis = "settled_close" THEN -basis ELSE basis)
      <3> DEFINE moved == IF s.basis = row.basis THEN 0
                          ELSE IF s.basis = "settled_close" THEN -basis ELSE basis
                 rest == E + (s.accrued - row.accrued) - (D - released) + R
      <3>1. rest \in Int /\ now - before - rest = named
        BY <2>2, <2>3, <2>4, <2>6, <2>13, <2>14
      <3>2. Residual(s) = Nav(s) - row.nav - rest - PricingTiming(s)
        <4>1. Nav(s) \in Int /\ PricingTiming(s) \in Int
          BY <2>3, <2>7, <2>9, <2>14
        <4> HIDE DEF now, before
        <4> QED BY <2>2, <2>3, <2>4, <2>6, <2>11, <4>1
      <3> HIDE DEF now, before, named, rest, moved
      <3>3. CASE s.basis = "settled_close" /\ row.basis = "settled_close"
        <4>1. moved = 0
          BY <3>3 DEF moved
        <4>2. Residual(s) = now - before - rest - 0
          BY <2>4, <2>7, <2>9, <3>2, <3>3
        <4> QED BY <2>14, <3>1, <4>1, <4>2 DEF moved
      <3>4. CASE s.basis = "settled_close" /\ row.basis = "ib_netliq"
        <4>1. moved = -basis
          BY <3>4 DEF moved
        <4>2. Residual(s) = now - row.navIb - rest - 0
          BY <2>4, <2>7, <2>9, <3>2, <3>4
        <4>3. Residual(s) = named + moved
          BY <2>4, <2>8, <2>14, <3>1, <4>1, <4>2
        <4> QED BY <4>3 DEF moved
      <3>5. CASE s.basis = "ib_netliq" /\ row.basis = "settled_close"
        <4>1. moved = basis
          BY <3>5 DEF moved
        <4>2. Residual(s) = ib - before - rest - ((ib - now) - basis)
          BY <2>4, <2>7, <2>9, <3>2, <3>5
        <4>3. Residual(s) = named + moved
          BY <2>4, <2>7, <2>14, <3>1, <4>1, <4>2
        <4> QED BY <4>3 DEF moved
      <3>6. CASE s.basis = "ib_netliq" /\ row.basis = "ib_netliq"
        <4>1. moved = 0
          BY <3>6 DEF moved
        <4>2. Residual(s) = ib - row.navIb - rest - ((ib - now) - basis)
          BY <2>4, <2>7, <2>9, <3>2, <3>6
        <4>3. Residual(s) = named + moved
          BY <2>4, <2>7, <2>8, <2>14, <3>1, <4>1, <4>2
        <4> QED BY <4>3 DEF moved
      <3> QED BY <2>3, <2>4, <3>3, <3>4, <3>5, <3>6 DEF Bases
    <2> QED BY <2>15 DEF s, U, L, released, paid, basis
  <1>2. BooksInv => ResidualIsNamed
    BY <1>1, Zenon DEF ResidualIsNamed
  <1> QED BY <1>2, BooksHold, PTL
=============================================================================
