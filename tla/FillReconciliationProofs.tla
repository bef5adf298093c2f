---------------------- MODULE FillReconciliationProofs ----------------------
(***************************************************************************)
(* Proofs about FillReconciliation, for every number of sessions, orders,  *)
(* shares and failures, and every cap of the sweep.                        *)
(***************************************************************************)
EXTENDS FillReconciliation, FiniteSetTheorems, WellFoundedInduction, TLAPS

-----------------------------------------------------------------------------
(* The inductive invariant.                                                *)

\* The executions in X of one order.
Of(X, d, id) == {e \in X : e.date = d /\ e.id = id}

\* The rows R of session d fit the executions X: none is credited with more than
\* its order's, a closed one with all of them, and later sessions have no rows.
Fits(R, d, X) ==
  /\ R \in [Dates -> [OrderIds -> Row]]
  /\ \A id \in OrderIds :
       /\ R[d][id].filled <= Cardinality(Of(X, d, id))
       /\ R[d][id].st = "Filled" => R[d][id].filled = Requested
       /\ R[d][id].st = "none" => R[d][id] = NoRow
  /\ \A c \in Dates, id \in OrderIds : c > d => R[c][id] = NoRow

\* The executions of an order are numbered, none is seen that was not made, and
\* what is seen of a session is its own.
Seen ==
  /\ log \subseteq executions
  /\ session \subseteq executions /\ \A e \in session : e.date = date
  /\ phase # "trading" => session = {} /\ open = {}
  /\ \A id \in open : Cardinality(Of(executions, date, id)) < Requested
  /\ \A d \in Dates, id \in OrderIds : \A e \in Of(executions, d, id) :
       e.n <= Cardinality(Of(executions, d, id))
  /\ \A d \in queue : d < date

IInv == TypeOK /\ Seen /\ Fits(rows, date, executions)

-----------------------------------------------------------------------------
(* Counting executions.                                                    *)

\* An order has at most as many executions as it asks for shares.
LEMMA OfBounded ==
  ASSUME NEW X \in SUBSET Execution, NEW d, NEW id
  PROVE  /\ IsFiniteSet(Of(X, d, id))
         /\ Cardinality(Of(X, d, id)) \in Nat
         /\ Cardinality(Of(X, d, id)) <= Requested
  <1> DEFINE S == Of(X, d, id)
  <1> DEFINE f == [e \in S |-> e.n]
  <1>1. f \in Injection(S, 1 .. Requested)
    <2>1. f \in [S -> 1 .. Requested]
      BY DEF Of, Execution
    <2>2. ASSUME NEW a \in S, NEW b \in S, f[a] = f[b] PROVE a = b
      BY <2>2 DEF Of, Execution
    <2> QED BY <2>1, <2>2 DEF Injection, IsInjective
  <1>2. Requested \in Nat /\ Requested >= 1
    BY ConstantsAssumption
  <1>3. IsFiniteSet(1 .. Requested) /\ Cardinality(1 .. Requested) = Requested
    BY <1>2, FS_Interval
  <1> HIDE DEF f
  <1> QED BY <1>1, <1>3, FS_Injection, FS_CardinalityType

\* What a source holds under one order id is finite, whatever sessions it mixes.
LEMMA MatchingFinite ==
  ASSUME NEW E \in SUBSET Execution, NEW id
  PROVE  IsFiniteSet(Matching(E, id)) /\ Cardinality(Matching(E, id)) \in Nat
  <1> DEFINE S == Matching(E, id)
  <1> DEFINE T == Dates \X (1 .. Requested)
  <1> DEFINE f == [e \in S |-> <<e.date, e.n>>]
  <1>1. f \in Injection(S, T)
    <2>1. f \in [S -> T]
      BY DEF Matching, Execution
    <2>2. ASSUME NEW a \in S, NEW b \in S, f[a] = f[b] PROVE a = b
      BY <2>2 DEF Matching, Execution
    <2> QED BY <2>1, <2>2 DEF Injection, IsInjective
  <1>2. IsFiniteSet(T)
    <2>1. IsFiniteSet(Dates) /\ IsFiniteSet(1 .. Requested)
      BY ConstantsAssumption, FS_Interval DEF Dates
    <2> QED BY <2>1, FS_Product
  <1> HIDE DEF f, T
  <1> QED BY <1>1, <1>2, FS_Injection, FS_CardinalityType

\* The oldest session of a queue is one of it.
LEMMA OldestQueued ==
  ASSUME NEW Q \in SUBSET Dates, Q # {}
  PROVE  Min(Q) \in Q
  <1>1. Q \subseteq Nat
    BY ConstantsAssumption DEF Dates
  <1> DEFINE below(x) == {y \in Q : y < x}
  <1> DEFINE D == {below(x) : x \in Q}
  <1>2. IsFiniteSet(Dates)
    BY ConstantsAssumption, FS_Interval DEF Dates
  <1>3. D \subseteq FiniteSubsetsOf(Dates) /\ D # {}
    <2>1. ASSUME NEW x \in Q PROVE below(x) \in FiniteSubsetsOf(Dates)
      BY <1>2, FS_Subset DEF FiniteSubsetsOf
    <2> QED BY <2>1
  <1>4. PICK S \in D : \A T \in D : ~(<<T, S>> \in StrictSubsetOrdering(Dates))
    <2> HIDE DEF D
    <2> QED BY <1>3, FS_StrictSubsetOrderingWellFounded, WFMin
  <1>5. PICK x \in Q : S = below(x)
    OBVIOUS
  <1>6. ASSUME NEW y \in Q, y < x PROVE FALSE
    <2>1. below(y) \subseteq below(x) /\ y \in below(x) /\ y \notin below(y)
      <3>1. y \in Int /\ x \in Int /\ ~(y < y)
        BY <1>1
      <3>2. \A z \in Q : z < y => z < x
        BY <1>1, <1>6, <3>1
      <3> QED BY <1>6, <3>1, <3>2
    <2>2. <<below(y), below(x)>> \in StrictSubsetOrdering(Dates)
      BY <2>1 DEF StrictSubsetOrdering
    <2> QED BY <1>4, <1>5, <2>2
  <1>7. \A y \in Q : x <= y
    BY <1>1, <1>6
  <1> QED BY <1>7 DEF Min

-----------------------------------------------------------------------------
(* A pass over the rows.                                                   *)

\* A pass over a session's rows from executions of that session.
LEMMA ReconciledFits ==
  ASSUME NEW X \in SUBSET Execution, NEW d \in Dates, NEW R, Fits(R, d, X),
         NEW E \in SUBSET X, \A e \in E : e.date = d
  PROVE  Fits(Reconciled(R, d, E), d, X)
  <1> DEFINE P == Reconciled(R, d, E)
  <1>1. ASSUME NEW id \in OrderIds
        PROVE  /\ Cardinality(Matching(E, id)) \in Nat
               /\ Cardinality(Matching(E, id)) <= Cardinality(Of(X, d, id))
               /\ Cardinality(Matching(E, id)) <= Requested
    <2>1. Matching(E, id) \subseteq Of(X, d, id)
      BY DEF Matching, Of
    <2>2. E \in SUBSET Execution
      OBVIOUS
    <2>3. Requested \in Nat
      BY ConstantsAssumption
    <2> QED BY <2>1, <2>2, <2>3, OfBounded, MatchingFinite, FS_Subset
  <1>2. R \in [Dates -> [OrderIds -> Row]]
    BY DEF Fits
  <1>3. ASSUME NEW id \in OrderIds
        PROVE  /\ P[d][id] \in Row
               /\ P[d][id].filled <= Cardinality(Of(X, d, id))
               /\ P[d][id].st = "Filled" => P[d][id].filled = Requested
               /\ P[d][id].st = "none" => P[d][id] = NoRow
    <2> DEFINE n == Cardinality(Matching(E, id))
    <2>1. P[d][id] = IF id \in OpenRows(R, d) /\ n > 0
                     THEN [st |-> NewStatus(R[d][id], n), filled |-> n]
                     ELSE R[d][id]
      BY <1>2 DEF Reconciled
    <2>2. n \in Nat /\ n <= Cardinality(Of(X, d, id)) /\ n <= Requested
      BY <1>1
    <2> HIDE DEF n, P
    <2>3. CASE id \in OpenRows(R, d) /\ n > 0
      <3>1. P[d][id] = [st |-> NewStatus(R[d][id], n), filled |-> n]
        BY <2>1, <2>3
      <3>2. /\ NewStatus(R[d][id], n) \in {"PartialFill", "Filled"}
            /\ NewStatus(R[d][id], n) = "Filled" => n = Requested
        BY <2>2, ConstantsAssumption DEF NewStatus
      <3> QED BY <3>1, <3>2, <2>2 DEF Row, Statuses
    <2>4. CASE ~(id \in OpenRows(R, d) /\ n > 0)
      <3>1. P[d][id] = R[d][id]
        BY <2>1, <2>4
      <3> QED BY <3>1, <1>2 DEF Fits
    <2> QED BY <2>3, <2>4
  <1>4. \A c \in Dates : c # d => P[c] = R[c]
    BY <1>2 DEF Reconciled
  <1>5. P \in [Dates -> [OrderIds -> Row]]
    <2>1. P[d] \in [OrderIds -> Row]
      <3>1. P[d] = [id \in OrderIds |-> P[d][id]]
        BY <1>2 DEF Reconciled
      <3> HIDE DEF P
      <3> QED BY <3>1, <1>3
    <2>2. P = [c \in Dates |-> P[c]]
      BY <1>2 DEF Reconciled
    <2> HIDE DEF P
    <2> QED BY <2>1, <2>2, <1>2, <1>4
  <1>6. \A c \in Dates : c > d => c # d
    BY ConstantsAssumption DEF Dates
  <1>7. \A c \in Dates, id \in OrderIds : c > d => P[c][id] = NoRow
    <2> HIDE DEF P
    <2>1. ASSUME NEW c \in Dates, NEW id \in OrderIds, c > d PROVE P[c][id] = NoRow
      <3>1. P[c] = R[c]
        BY <2>1, <1>4, <1>6
      <3>2. R[c][id] = NoRow
        BY <2>1 DEF Fits
      <3> QED BY <3>1, <3>2
    <2> QED BY <2>1
  <1> HIDE DEF P
  <1>8. Fits(P, d, X)
    BY <1>3, <1>5, <1>7 DEF Fits
  <1> QED BY <1>8 DEF P

\* A pass over an earlier session leaves the rows of this one alone, whatever it
\* reads.
LEMMA SweptFits ==
  ASSUME NEW X, NEW d \in Dates, NEW R, Fits(R, d, X),
         NEW c \in Dates, c < d, NEW E \in SUBSET Execution
  PROVE  Fits(Reconciled(R, c, E), d, X)
  <1> DEFINE P == Reconciled(R, c, E)
  <1>1. R \in [Dates -> [OrderIds -> Row]]
    BY DEF Fits
  <1>2. \A b \in Dates : b # c => P[b] = R[b]
    BY <1>1 DEF Reconciled
  <1>3. c # d /\ \A b \in Dates : b > d => b # c
    BY ConstantsAssumption DEF Dates
  <1>4. P \in [Dates -> [OrderIds -> Row]]
    <2>1. ASSUME NEW id \in OrderIds PROVE P[c][id] \in Row
      <3> DEFINE n == Cardinality(Matching(E, id))
      <3>1. P[c][id] = IF id \in OpenRows(R, c) /\ n > 0
                       THEN [st |-> NewStatus(R[c][id], n), filled |-> n]
                       ELSE R[c][id]
        BY <1>1 DEF Reconciled
      <3>2. n \in Nat
        BY MatchingFinite
      <3>3. NewStatus(R[c][id], n) \in Statuses
        BY DEF NewStatus, Statuses
      <3> HIDE DEF n, P
      <3> QED BY <1>1, <3>1, <3>2, <3>3 DEF Row
    <2>2. P[c] = [id \in OrderIds |-> P[c][id]] /\ P = [b \in Dates |-> P[b]]
      BY <1>1 DEF Reconciled
    <2> HIDE DEF P
    <2>3. P[c] \in [OrderIds -> Row]
      BY <2>1, <2>2
    <2> QED BY <2>2, <2>3, <1>1, <1>2
  <1> HIDE DEF P
  <1>5. P[d] = R[d]
    BY <1>2, <1>3
  <1>6. ASSUME NEW b \in Dates, NEW id \in OrderIds, b > d PROVE P[b][id] = NoRow
    <2>1. P[b] = R[b]
      BY <1>6, <1>2, <1>3
    <2> QED BY <1>6, <2>1 DEF Fits
  <1>7. Fits(P, d, X)
    BY <1>4, <1>5, <1>6 DEF Fits
  <1> QED BY <1>7 DEF P

-----------------------------------------------------------------------------
(* The invariant is inductive.                                             *)

\* The invariant counts what the properties count.
LEMMA OwnIsOf == \A d, id : Own(d, id) = Of(executions, d, id)
  BY DEF Own, Of

\* Before the first session there is nothing.
LEMMA Starts == Init => IInv
  <1> SUFFICES ASSUME Init PROVE IInv
    OBVIOUS
  <1> USE ConstantsAssumption
  <1>1. TypeOK
    <2>1. NoRow \in Row
      BY DEF NoRow, Row, Statuses
    <2>2. 1 \in Dates
      BY DEF Dates
    <2>3. 0 \in 0 .. SweepCap /\ 0 \in 0 .. MaxFailures
      OBVIOUS
    <2>4. rows \in [Dates -> [OrderIds -> Row]] /\ archive \in [Dates -> SUBSET Execution]
      BY <2>1 DEF Init
    <2> QED BY <2>2, <2>3, <2>4 DEF Init, TypeOK, Phases
  <1>2. \A d, id : Of(executions, d, id) = {} /\ Cardinality({}) = 0
    BY FS_EmptySet DEF Init, Of
  <1>3. Seen
    BY <1>2 DEF Init, Seen
  <1>4. Fits(rows, date, executions)
    BY <1>1, <1>2 DEF Init, Fits, TypeOK, NoRow
  <1> QED BY <1>1, <1>3, <1>4 DEF IInv

\* An order executes for one share more.
LEMMA Executes ==
  ASSUME IInv, NEW id \in OrderIds, Execute(id)
  PROVE  IInv'
  <1> DEFINE n == Cardinality(Of(executions, date, id)) + 1
  <1> DEFINE e == [date |-> date, id |-> id, n |-> n]
  <1> USE ConstantsAssumption
  <1>1. /\ executions' = executions \cup {e}
        /\ open' = IF n = Requested THEN open \ {id} ELSE open
        /\ \/ session' = session \cup {e} /\ log' = log \cup {e}
           \/ session' = session /\ log' = log
        /\ phase = "trading" /\ id \in open
        /\ UNCHANGED <<date, phase, rows, waiting, connected, s3, sweep, failures>>
    BY OwnIsOf DEF Execute
  <1>2. n \in 1 .. Requested /\ date \in Dates
    BY <1>1, OfBounded DEF IInv, TypeOK, Seen
  <1>3. e \in Execution
    BY <1>2 DEF Execution
  <1> HIDE DEF n
  <1>4. /\ \A d, i : d # date \/ i # id => Of(executions', d, i) = Of(executions, d, i)
        /\ Of(executions', date, id) = Of(executions, date, id) \cup {e}
    BY <1>1 DEF Of
  <1>5. n = Cardinality(Of(executions, date, id)) + 1
    BY DEF n
  <1>6. e \notin Of(executions, date, id)
    <2>1. ASSUME e \in Of(executions, date, id) PROVE FALSE
      <3>1. n <= Cardinality(Of(executions, date, id))
        BY <1>2, <2>1 DEF IInv, Seen
      <3> QED BY <1>5, <3>1, OfBounded DEF IInv, TypeOK
    <2> QED BY <2>1
  <1>7. Cardinality(Of(executions', date, id)) = n
    BY <1>4, <1>5, <1>6, OfBounded, FS_AddElement DEF IInv, TypeOK
  <1>8. executions' \in SUBSET Execution
    BY <1>1, <1>3 DEF IInv, TypeOK
  <1> HIDE DEF e
  <1>9. TypeOK'
    BY <1>1, <1>3, <1>8 DEF IInv, TypeOK, s3, sweep
  <1>10. e.n = n /\ e.date = date
    BY DEF e
  <1>11. Seen'
    <2>1. log' \subseteq executions' /\ session' \subseteq executions'
          /\ \A x \in session' : x.date = date'
      BY <1>1, <1>10 DEF IInv, Seen
    <2>2. \A i \in open' : Cardinality(Of(executions', date', i)) < Requested
      <3>1. ASSUME NEW i \in open' PROVE Cardinality(Of(executions', date, i)) < Requested
        <4>1. CASE i = id
          BY <1>1, <1>2, <1>7, <3>1, <4>1
        <4>2. CASE i # id
          BY <1>1, <1>4, <3>1, <4>2 DEF IInv, Seen
        <4> QED BY <4>1, <4>2
      <3> QED BY <1>1, <3>1
    <2>3. ASSUME NEW d \in Dates, NEW i \in OrderIds, NEW x \in Of(executions', d, i)
          PROVE  x.n <= Cardinality(Of(executions', d, i))
      <3>1. CASE d = date /\ i = id
        <4>1. Cardinality(Of(executions, date, id)) \in Nat
          BY OfBounded DEF IInv, TypeOK
        <4>2. CASE x = e
          BY <1>2, <1>7, <1>10, <3>1, <4>2
        <4>3. CASE x \in Of(executions, date, id)
          <5>1. x.n <= Cardinality(Of(executions, date, id))
            BY <1>2, <4>3 DEF IInv, Seen
          <5>2. x.n \in Nat
            BY <4>3 DEF Of, Execution, IInv, TypeOK
          <5> QED BY <1>5, <1>7, <3>1, <4>1, <5>1, <5>2
        <4> QED BY <1>4, <3>1, <4>2, <4>3
      <3>2. CASE ~(d = date /\ i = id)
        BY <1>4, <3>2 DEF IInv, Seen
      <3> QED BY <3>1, <3>2
    <2> QED BY <1>1, <2>1, <2>2, <2>3 DEF IInv, Seen, sweep
  <1>12. Fits(rows, date, executions')
    <2>1. ASSUME NEW i \in OrderIds
          PROVE rows[date][i].filled <= Cardinality(Of(executions', date, i))
      <3>1. rows[date][i].filled <= Cardinality(Of(executions, date, i))
        BY DEF IInv, Fits
      <3>2. CASE i = id
        <4>1. rows[date][i].filled \in Nat
          BY <1>2 DEF IInv, TypeOK, Row
        <4>2. Cardinality(Of(executions, date, id)) \in Nat
          BY OfBounded DEF IInv, TypeOK
        <4> QED BY <1>5, <1>7, <3>1, <3>2, <4>1, <4>2
      <3>3. CASE i # id
        BY <1>4, <3>1, <3>3
      <3> QED BY <3>2, <3>3
    <2> QED BY <2>1 DEF IInv, Fits
  <1> QED BY <1>1, <1>9, <1>11, <1>12 DEF IInv

\* The connection and the orders.
LEMMA Connections ==
  ASSUME IInv, Connect \/ Disconnect \/ Close \/ \E id \in OrderIds : PlaceOrder(id)
  PROVE  IInv'
  <1>1. UNCHANGED <<date, executions, rows, s3, sweep>>
    BY DEF Connect, Disconnect, Close, PlaceOrder, market
  <1>2. Fits(rows, date, executions)'
    BY <1>1 DEF IInv
  <1>3. CASE Connect
    <2>1. session' \subseteq executions /\ \A e \in session' : e.date = date
      BY <1>3 DEF Connect, OfSession
    <2>2. /\ log' = log \cup session' /\ connected' = TRUE /\ phase = "trading"
          /\ UNCHANGED <<phase, open, waiting, failures>>
      BY <1>3 DEF Connect, market
    <2>3. TypeOK'
      BY <1>1, <2>1, <2>2 DEF IInv, TypeOK, s3, sweep
    <2>4. Seen'
      BY <1>1, <2>1, <2>2 DEF IInv, Seen, sweep
    <2> QED BY <1>2, <2>3, <2>4 DEF IInv
  <1>4. CASE Disconnect
    <2>1. /\ connected' = FALSE /\ session' = {} /\ waiting' = NoOrder
          /\ UNCHANGED <<phase, open, log>>
      BY <1>4 DEF Disconnect, market
    <2>2. failures' \in 0 .. MaxFailures
      BY <1>4, ConstantsAssumption DEF Disconnect, IInv, TypeOK
    <2>3. TypeOK'
      BY <1>1, <2>1, <2>2 DEF IInv, TypeOK, s3, sweep
    <2>4. Seen'
      BY <1>1, <2>1 DEF IInv, Seen, sweep
    <2> QED BY <1>2, <2>3, <2>4 DEF IInv
  <1>5. CASE Close
    <2>1. TypeOK'
      BY <1>1, <1>5 DEF Close, IInv, TypeOK, Phases, s3, sweep
    <2>2. Seen'
      BY <1>1, <1>5 DEF Close, IInv, Seen, sweep
    <2> QED BY <1>2, <2>1, <2>2 DEF IInv
  <1>6. ASSUME NEW id \in OrderIds, PlaceOrder(id) PROVE IInv'
    <2>1. /\ open' = open \cup {id} /\ waiting' = id /\ phase = "trading"
          /\ Own(date, id) = {}
          /\ UNCHANGED <<phase, connected, session, log, failures>>
      BY <1>6 DEF PlaceOrder
    <2>2. TypeOK'
      BY <1>1, <2>1 DEF IInv, TypeOK, s3, sweep
    <2>3. Cardinality(Of(executions, date, id)) < Requested
      BY <2>1, OwnIsOf, FS_EmptySet, ConstantsAssumption
    <2>4. Seen'
      BY <1>1, <2>1, <2>3 DEF IInv, Seen, sweep
    <2> QED BY <1>2, <2>2, <2>4 DEF IInv
  <1> QED BY <1>3, <1>4, <1>5, <1>6

\* The rows of the session are written when an order is done with, and patched.
LEMMA LogsRow ==
  ASSUME IInv, LogRow
  PROVE  IInv'
  <1> DEFINE n == Cardinality(Of(executions, date, waiting))
  <1>1. /\ UNCHANGED <<date, phase, executions, open, connected, session, log, s3, sweep,
                       failures>>
        /\ waiting' = NoOrder /\ waiting \in OrderIds /\ date \in Dates
    BY DEF LogRow, market, IInv, TypeOK
  <1>2. \/ rows' = rows
        \/ \E st \in {"Filled", "PartialFill", "Working"} :
             /\ rows' = [rows EXCEPT ![date][waiting] = [st |-> st, filled |-> n]]
             /\ st = "Filled" => n = Requested
    BY OwnIsOf, Zenon DEF LogRow
  <1>3. n \in Nat
    BY OfBounded DEF IInv, TypeOK
  <1>4. Fits(rows', date, executions)
    <2>1. CASE rows' = rows
      BY <2>1 DEF IInv
    <2>2. ASSUME NEW st \in {"Filled", "PartialFill", "Working"},
                 rows' = [rows EXCEPT ![date][waiting] = [st |-> st, filled |-> n]],
                 st = "Filled" => n = Requested
          PROVE  Fits(rows', date, executions)
      <3> DEFINE r == [st |-> st, filled |-> n]
      <3>1. r \in Row
        BY <1>3 DEF Row, Statuses
      <3>2. r.filled = n /\ r.st = st
        OBVIOUS
      <3> HIDE DEF r
      <3>3. rows \in [Dates -> [OrderIds -> Row]]
        BY DEF IInv, TypeOK
      <3>4. /\ rows' \in [Dates -> [OrderIds -> Row]]
            /\ rows'[date][waiting] = r
            /\ \A id \in OrderIds : id # waiting => rows'[date][id] = rows[date][id]
            /\ \A c \in Dates : c # date => rows'[c] = rows[c]
        BY <1>1, <2>2, <3>1, <3>3 DEF r
      <3>5. \A id \in OrderIds :
              /\ rows'[date][id].filled <= Cardinality(Of(executions, date, id))
              /\ rows'[date][id].st = "Filled" => rows'[date][id].filled = Requested
              /\ rows'[date][id].st = "none" => rows'[date][id] = NoRow
        <4>1. ASSUME NEW id \in OrderIds, id = waiting
              PROVE  /\ rows'[date][id].filled <= Cardinality(Of(executions, date, id))
                     /\ rows'[date][id].st = "Filled" => rows'[date][id].filled = Requested
                     /\ rows'[date][id].st = "none" => rows'[date][id] = NoRow
          BY <1>3, <2>2, <3>2, <3>4, <4>1
        <4>2. ASSUME NEW id \in OrderIds, id # waiting
              PROVE  /\ rows'[date][id].filled <= Cardinality(Of(executions, date, id))
                     /\ rows'[date][id].st = "Filled" => rows'[date][id].filled = Requested
                     /\ rows'[date][id].st = "none" => rows'[date][id] = NoRow
          BY <3>4, <4>2 DEF IInv, Fits
        <4> QED BY <4>1, <4>2
      <3>6. \A c \in Dates : c > date => c # date
        BY <1>1, ConstantsAssumption DEF Dates
      <3>7. ASSUME NEW c \in Dates, NEW id \in OrderIds, c > date PROVE rows'[c][id] = NoRow
        <4>1. rows'[c] = rows[c]
          BY <3>4, <3>6, <3>7
        <4> QED BY <3>7, <4>1 DEF IInv, Fits
      <3> QED BY <3>4, <3>5, <3>7 DEF Fits
    <2> HIDE DEF n
    <2> QED BY <1>2, <2>1, <2>2
  <1>5. TypeOK'
    BY <1>1, <1>4 DEF IInv, TypeOK, Fits, s3, sweep
  <1>6. Seen'
    BY <1>1 DEF IInv, Seen, sweep
  <1> QED BY <1>1, <1>4, <1>5, <1>6 DEF IInv

\* The daemon's tick reads its own session only.
LEMMA Ticks ==
  ASSUME IInv, Tick
  PROVE  IInv'
  <1>1. /\ rows' = Reconciled(rows, date, session)
        /\ UNCHANGED <<date, phase, executions, open, waiting, connected, session, log, s3,
                       sweep, failures>>
    BY DEF Tick, market, daemon
  <1>2. Fits(rows', date, executions)
    BY <1>1, ReconciledFits DEF IInv, TypeOK, Seen
  <1>3. TypeOK'
    BY <1>1, <1>2 DEF IInv, TypeOK, Fits, s3, sweep
  <1>4. Seen'
    BY <1>1 DEF IInv, Seen, sweep
  <1> QED BY <1>1, <1>2, <1>3, <1>4 DEF IInv

\* The capture, done or given up, starts the sweep of the sessions before.
LEMMA Captures ==
  ASSUME IInv, Capture \/ FailCapture
  PROVE  IInv'
  <1>1. /\ UNCHANGED <<date, executions, open, waiting, connected, session, log, s3>>
        /\ phase = "capture" /\ phase' = "sweep" /\ swept' = 0
        /\ queue' \subseteq Dates /\ \A d \in queue' : d < date
        /\ failures' \in 0 .. MaxFailures
    BY ConstantsAssumption
       DEF Capture, FailCapture, StartSweep, market, daemon, IInv, TypeOK
  <1>2. Fits(rows', date, executions)
    <2> DEFINE today == OfSession(log, date)
    <2>1. /\ today \in SUBSET executions /\ \A e \in today : e.date = date
          /\ executions \in SUBSET Execution /\ date \in Dates
      BY DEF IInv, Seen, TypeOK, OfSession
    <2>2. CASE FailCapture
      BY <2>2 DEF FailCapture, IInv
    <2>3. CASE Capture
      <3>1. PICK seen \in {{}, OfSession(executions, date)} :
              rows' = IF Unresolved(rows, date, seen) # {}
                      THEN Reconciled(Reconciled(rows, date, seen), date, today)
                      ELSE Reconciled(rows, date, seen)
        BY <2>3 DEF Capture
      <3>2. seen \in SUBSET executions /\ \A e \in seen : e.date = date
        BY <3>1 DEF OfSession
      <3>3. Fits(Reconciled(rows, date, seen), date, executions)
        BY <2>1, <3>2, ReconciledFits DEF IInv
      <3> HIDE DEF today
      <3>4. Fits(Reconciled(Reconciled(rows, date, seen), date, today), date, executions)
        BY <2>1, <3>3, ReconciledFits
      <3> QED BY <3>1, <3>3, <3>4
    <2> QED BY <2>2, <2>3
  <1>3. TypeOK'
    BY <1>1, <1>2, ConstantsAssumption DEF IInv, TypeOK, Fits, Phases, s3
  <1>4. Seen'
    BY <1>1 DEF IInv, Seen
  <1> QED BY <1>1, <1>2, <1>3, <1>4 DEF IInv

\* The sweep of the earlier sessions, step by step, and its end.
LEMMA Sweeps ==
  ASSUME IInv, PassOver \/ SweepSession \/ EndSweep \/ KillCapture
  PROVE  IInv'
  <1>1. UNCHANGED <<date, executions, open, waiting, connected, session, log, archive, archived>>
    BY DEF PassOver, SweepSession, EndSweep, KillCapture, market, daemon, s3
  <1>2. phase' \in Phases /\ phase # "trading"
    BY DEF PassOver, SweepSession, EndSweep, KillCapture, IInv, TypeOK, Phases
  <1>3. queue' \subseteq queue
    BY DEF PassOver, SweepSession, EndSweep, KillCapture
  <1>4. swept' \in 0 .. SweepCap
    BY ConstantsAssumption DEF PassOver, SweepSession, EndSweep, KillCapture, IInv, TypeOK
  <1>5. failures' \in 0 .. MaxFailures
    BY ConstantsAssumption DEF PassOver, SweepSession, EndSweep, KillCapture, IInv, TypeOK
  <1>6. Fits(rows', date, executions) /\ marked' \subseteq Dates
    <2>1. CASE PassOver \/ EndSweep \/ KillCapture
      BY <2>1 DEF PassOver, EndSweep, KillCapture, s3, IInv, TypeOK
    <2>2. CASE SweepSession
      <3> DEFINE d == Min(queue)
      <3>1. /\ queue # {} /\ d \in archived
            /\ rows' = Reconciled(rows, d, archive[d])
            /\ marked' \in {marked, marked \cup {d}}
        BY <2>2 DEF SweepSession
      <3>2. queue \subseteq Dates /\ archived \subseteq Dates /\ marked \subseteq Dates
        BY DEF IInv, TypeOK
      <3>3. d \in queue
        BY <3>1, <3>2, OldestQueued
      <3> HIDE DEF d
      <3>4. d \in Dates /\ d < date /\ archive[d] \in SUBSET Execution /\ date \in Dates
        BY <3>2, <3>3 DEF IInv, TypeOK, Seen
      <3>5. Fits(rows', date, executions)
        BY <3>1, <3>4, SweptFits DEF IInv
      <3> QED BY <3>1, <3>2, <3>4, <3>5
    <2> QED BY <2>1, <2>2
  <1>7. TypeOK'
    BY <1>1, <1>2, <1>3, <1>4, <1>5, <1>6 DEF IInv, TypeOK, Fits
  <1>8. Seen'
    BY <1>1, <1>2, <1>3 DEF IInv, Seen
  <1> QED BY <1>1, <1>6, <1>7, <1>8 DEF IInv

\* The archive of the log, and the next session.
LEMMA Nights ==
  ASSUME IInv, ArchiveLog \/ NextSession
  PROVE  IInv'
  <1>1. UNCHANGED <<executions, open, waiting, connected, session, log, rows, marked, sweep>>
        /\ phase # "trading" /\ phase' \in Phases
    BY DEF ArchiveLog, NextSession, market, daemon, s3, Phases
  <1>2. CASE ArchiveLog
    <2>1. date' = date
      BY <1>2 DEF ArchiveLog
    <2>2. archive' \in [Dates -> SUBSET Execution] /\ archived' \subseteq Dates
      BY <1>2 DEF ArchiveLog, IInv, TypeOK
    <2>3. failures' \in 0 .. MaxFailures
      BY <1>2, ConstantsAssumption DEF ArchiveLog, IInv, TypeOK
    <2>4. TypeOK'
      BY <1>1, <2>1, <2>2, <2>3 DEF IInv, TypeOK, sweep
    <2>5. Seen'
      BY <1>1, <2>1 DEF IInv, Seen, sweep
    <2> QED BY <1>1, <2>1, <2>4, <2>5 DEF IInv
  <1>3. CASE NextSession
    <2>1. date \in Dates /\ date' \in Dates /\ date' \in {date, date + 1} /\ date \in Nat
      BY <1>3, ConstantsAssumption DEF NextSession, IInv, TypeOK, Dates
    <2>2. UNCHANGED <<archive, archived, failures>> /\ session = {} /\ open = {}
      BY <1>1, <1>3 DEF NextSession, s3, IInv, Seen
    <2>3. TypeOK'
      BY <1>1, <2>1, <2>2 DEF IInv, TypeOK, sweep
    <2>4. \A d \in Dates : d < date => d < date'
      BY <2>1, ConstantsAssumption DEF Dates
    <2>5. Seen'
      BY <1>1, <2>2, <2>4 DEF IInv, Seen, sweep, TypeOK
    <2>6. CASE date' = date
      BY <1>1, <2>3, <2>5, <2>6 DEF IInv
    <2>7. CASE date' = date + 1
      <3>1. date' > date /\ \A c \in Dates : c > date' => c > date
        BY <2>1, <2>7, ConstantsAssumption DEF Dates
      <3>2. ASSUME NEW c \in Dates, NEW id \in OrderIds, c > date PROVE rows[c][id] = NoRow
        BY <3>2 DEF IInv, Fits
      <3>3. ASSUME NEW id \in OrderIds
            PROVE  /\ rows[date'][id].filled <= Cardinality(Of(executions, date', id))
                   /\ rows[date'][id].st = "Filled" => rows[date'][id].filled = Requested
                   /\ rows[date'][id].st = "none" => rows[date'][id] = NoRow
        <4>1. rows[date'][id] = NoRow
          BY <2>1, <3>1, <3>2
        <4>2. Cardinality(Of(executions, date', id)) \in Nat
          BY OfBounded DEF IInv, TypeOK
        <4> QED BY <4>1, <4>2 DEF NoRow
      <3>4. Fits(rows, date', executions)
        BY <3>1, <3>2, <3>3 DEF IInv, Fits
      <3> QED BY <1>1, <2>3, <2>5, <3>4 DEF IInv
    <2> QED BY <2>1, <2>6, <2>7
  <1> QED BY <1>2, <1>3

\* Every step keeps it.
LEMMA Preserved == IInv /\ [Next]_vars => IInv'
  <1>1. ASSUME IInv, UNCHANGED vars PROVE IInv'
    BY <1>1 DEF vars, market, daemon, s3, sweep, IInv, TypeOK, Seen
  <1>2. ASSUME IInv, Next PROVE IInv'
    BY <1>2, Executes, Connections, LogsRow, Ticks, Captures, Sweeps, Nights
       DEF Next, Trading, AfterClose
  <1> QED BY <1>1, <1>2

LEMMA Always == Spec => []IInv
  BY Starts, Preserved, PTL DEF Spec

-----------------------------------------------------------------------------
(* The theorems.                                                           *)

\* Every variable keeps its shape, the numbers of executions and the cap of the
\* sweep included.
THEOREM TypeCorrect == Spec => []TypeOK
  <1>1. IInv => TypeOK
    BY DEF IInv
  <1> QED BY <1>1, Always, PTL

\* No pass of the session credits a row with executions that are not its
\* order's, whatever sessions use the same order ids.
THEOREM LiveRowsStayOwn == Spec => []LiveRowsOwn
  <1>1. IInv => LiveRowsOwn
    BY OwnIsOf DEF IInv, Fits, LiveRowsOwn
  <1> QED BY <1>1, Always, PTL

\* A row that no later pass looks at is the row of a complete order.
THEOREM ClosedRowsComplete == Spec => []FilledIsComplete
  <1>1. ASSUME IInv, NEW id \in OrderIds, rows[date][id].st = "Filled"
        PROVE  Cardinality(Own(date, id)) = Requested
    <2>1. /\ rows[date][id].filled = Requested
          /\ rows[date][id].filled <= Cardinality(Of(executions, date, id))
      BY <1>1 DEF IInv, Fits
    <2>2. /\ Cardinality(Of(executions, date, id)) \in Nat
          /\ Cardinality(Of(executions, date, id)) <= Requested
      BY <1>1, OfBounded DEF IInv, TypeOK
    <2> QED BY <2>1, <2>2, OwnIsOf, ConstantsAssumption
  <1>2. IInv => FilledIsComplete
    BY <1>1 DEF FilledIsComplete
  <1> QED BY <1>2, Always, PTL

-----------------------------------------------------------------------------
(* What the capture leaves behind.                                         *)

\* A row that no pass looks at any more is exact.
LEMMA ClosedIsExact ==
  ASSUME NEW X \in SUBSET Execution, NEW d \in Dates, NEW R, Fits(R, d, X),
         NEW id \in OrderIds, R[d][id] # NoRow, R[d][id].st \notin NonTerminal
  PROVE  R[d][id].filled = Cardinality(Of(X, d, id))
  <1>1. R[d][id].st = "Filled"
    BY DEF Fits, Row, Statuses, NonTerminal
  <1>2. R[d][id].filled = Requested /\ R[d][id].filled <= Cardinality(Of(X, d, id))
    BY <1>1 DEF Fits
  <1> QED BY <1>2, OfBounded, ConstantsAssumption

\* A pass keeps a row, and makes it exact when the source has all of its order's
\* executions.
LEMMA PassIsExact ==
  ASSUME NEW X \in SUBSET Execution, NEW d \in Dates, NEW R, Fits(R, d, X),
         NEW E \in SUBSET X, \A e \in E : e.date = d,
         NEW id \in OrderIds, R[d][id] # NoRow
  PROVE  /\ Reconciled(R, d, E)[d][id] # NoRow
         /\ Of(X, d, id) \subseteq E =>
              Reconciled(R, d, E)[d][id].filled = Cardinality(Of(X, d, id))
  <1> DEFINE n == Cardinality(Matching(E, id))
  <1> DEFINE k == Cardinality(Of(X, d, id))
  <1> DEFINE r == Reconciled(R, d, E)[d][id]
  <1>1. R[d][id] \in Row /\ R[d][id].st \in Statuses /\ R[d][id].filled \in Nat
    BY DEF Fits, Row
  <1>2. r = IF id \in OpenRows(R, d) /\ n > 0
            THEN [st |-> NewStatus(R[d][id], n), filled |-> n]
            ELSE R[d][id]
    BY DEF Reconciled, Fits
  <1>3. n \in Nat /\ k \in Nat /\ k <= Requested
    BY MatchingFinite, OfBounded
  <1>4. R[d][id].filled <= k
    BY DEF Fits
  <1>5. id \in OpenRows(R, d) <=> R[d][id].st \in NonTerminal
    BY DEF OpenRows
  <1>6. NewStatus(R[d][id], n) # "none"
    BY DEF NewStatus
  <1>7. Of(X, d, id) \subseteq E => n = k
    <2>1. ASSUME Of(X, d, id) \subseteq E PROVE Matching(E, id) = Of(X, d, id)
      BY <2>1 DEF Matching, Of
    <2> QED BY <2>1
  <1> HIDE DEF n, k, r
  <1>8. r # NoRow
    BY <1>2, <1>6 DEF NoRow
  <1>9. CASE id \notin OpenRows(R, d)
    <2>1. R[d][id].filled = Cardinality(Of(X, d, id))
      BY <1>5, <1>9, ClosedIsExact
    <2> QED BY <1>2, <1>8, <1>9, <2>1 DEF r
  <1>10. CASE id \in OpenRows(R, d)
    <2>1. ASSUME n = k PROVE r.filled = k
      <3>1. CASE n > 0
        BY <1>2, <1>10, <2>1, <3>1
      <3>2. CASE ~(n > 0)
        BY <1>1, <1>2, <1>3, <1>4, <2>1, <3>2
      <3> QED BY <3>1, <3>2
    <2> QED BY <1>5, <1>7, <1>8, <1>10, <2>1 DEF r, k
  <1> QED BY <1>9, <1>10

\* The capture, with whatever its own session shows it: the log is read when a
\* row is left without an execution, and has what the session did not show.
LEMMA CaptureExact ==
  ASSUME IInv, Capture, NEW id \in OrderIds,
         rows[date][id] # NoRow, Own(date, id) \subseteq log
  PROVE  rows'[date][id].filled = Cardinality(Own(date, id))
  <1> DEFINE today == OfSession(log, date)
  <1>1. PICK seen \in {{}, OfSession(executions, date)} :
          rows' = IF Unresolved(rows, date, seen) # {}
                  THEN Reconciled(Reconciled(rows, date, seen), date, today)
                  ELSE Reconciled(rows, date, seen)
    BY DEF Capture
  <1>2. /\ executions \in SUBSET Execution /\ date \in Dates
        /\ today \in SUBSET executions /\ \A e \in today : e.date = date
        /\ seen \in SUBSET executions /\ \A e \in seen : e.date = date
        /\ Fits(rows, date, executions)
    BY <1>1 DEF IInv, TypeOK, Seen, OfSession
  <1>3. Own(date, id) = Of(executions, date, id) /\ Of(executions, date, id) \subseteq today
    BY OwnIsOf DEF Of, OfSession
  <1> HIDE DEF today
  <1> DEFINE P == Reconciled(rows, date, seen)
  <1>4. P[date][id] # NoRow /\ Fits(P, date, executions)
    BY <1>2, PassIsExact, ReconciledFits
  <1>5. Reconciled(P, date, today)[date][id].filled = Cardinality(Of(executions, date, id))
    <2> HIDE DEF P
    <2> QED BY <1>2, <1>3, <1>4, PassIsExact
  <1>6. ASSUME Unresolved(rows, date, seen) = {}
        PROVE  P[date][id].filled = Cardinality(Of(executions, date, id))
    <2>1. CASE seen = {}
      <3>1. id \notin OpenRows(rows, date)
        BY <1>6, <2>1 DEF Unresolved, Matching
      <3>2. rows[date][id].st \notin NonTerminal
        BY <3>1 DEF OpenRows
      <3>3. rows[date][id].filled = Cardinality(Of(executions, date, id))
        BY <1>2, <3>2, ClosedIsExact
      <3>4. rows \in [Dates -> [OrderIds -> Row]]
        BY DEF IInv, TypeOK
      <3>5. P[date][id] = rows[date][id]
        BY <1>2, <3>1, <3>4 DEF Reconciled
      <3> QED BY <3>3, <3>5
    <2>2. CASE seen = OfSession(executions, date)
      <3>1. Of(executions, date, id) \subseteq seen
        BY <2>2 DEF Of, OfSession
      <3> QED BY <1>2, <3>1, PassIsExact
    <2> QED BY <1>1, <2>1, <2>2
  <1> QED BY <1>1, <1>3, <1>5, <1>6

\* After the capture a row of the day holds all of its order's executions if the
\* daemon's log has them, however the daemon's own passes fell.
THEOREM CaptureStaysExact == Spec => CaptureIsExact
  <1>1. IInv /\ [Next]_vars =>
          (Capture => \A id \in OrderIds :
             rows[date][id] # NoRow /\ Own(date, id) \subseteq log =>
               rows'[date][id].filled = Cardinality(Own(date, id)))
    BY CaptureExact
  <1>2. ASSUME IInv, UNCHANGED vars
        PROVE  ~Capture
    BY <1>2 DEF vars, Capture, StartSweep
  <1> QED BY <1>1, <1>2, Always, PTL DEF Spec, CaptureIsExact
=============================================================================
