------------------------ MODULE EntryExecutionProofs ------------------------
(***************************************************************************)
(* Proofs about EntryExecution, for every set of tickers, lot, number of   *)
(* retries, crashes and planner runs: its safety, and that it implements   *)
(* EntryPromise.                                                           *)
(***************************************************************************)
EXTENDS EntryExecution, TLAPS

USE DEF PcValues, EntryStates

-----------------------------------------------------------------------------
(* The inductive invariants.                                               *)

Busy == pc \in {"wal", "placed", "rejected", "settle", "logged"}

\* What the daemon's position says of the entry in hand.
Control ==
  /\ Busy  => cur \in Tickers /\ cur \notin queue
  /\ ~Busy => attempt = 0
  /\ pc \in {"down", "boot", "poll", "closed"} => queue = {}
  /\ pc = "wal"    => attempt < MaxOrderRetries
  /\ pc = "placed" => orders[cur] # << >>

\* Nothing on the daemon's table was traded by this process.
Fresh ==
  /\ queue \cap traded = {}
  /\ Busy => cur \notin traded

\* A running daemon knows every logged fill, but for the one it is about to
\* record.
Seeded ==
  pc \notin {"down", "boot", "closed"} =>
    tradesDb \subseteq traded \cup (IF pc = "logged" THEN {cur} ELSE {})

\* The faults under which an order's status tells what will become of it,
\* and no planner rewrites the book under the daemon.
BrokerAnswers ==
  /\ Bracket = FALSE
  /\ Faults \cap {"silent", "partial_cancel"} = {}
  /\ MaxReplans = 0

\* An order is working, filled, or cancelled with nothing filled.
Definite(o) ==
  \/ o.st = "working"
  \/ o.st = "filled" /\ o.filled > 0
  \/ o.st = "cancelled" /\ o.filled = 0

\* Pending means nothing at the broker, on disk and in memory; while an
\* entry is in hand its record on disk is in doubt, and at most its last
\* order is exposed.
WriteAhead ==
  /\ ~planning
  /\ \A t \in Tickers : \A i \in DOMAIN orders[t] : Definite(orders[t][i])
  /\ \A t \in PendingEntries(disk) \cup PendingEntries(mem) : ~ExposedTicker(t)
  /\ queue \subseteq PendingEntries(mem)
  /\ Busy => disk = mem /\ mem.entry[cur] = "executing"
  /\ pc \in {"wal", "rejected"} => ~ExposedTicker(cur)
  /\ pc = "placed" =>
       \A i \in 1 .. Len(orders[cur]) - 1 : ~Exposed(orders[cur][i])

\* The trades database or the book b knows of the ticker's order.
Known(t, b) ==
  t \in tradesDb \/ t \in b.executed \/ b.entry[t] = "executing"

\* What the daemon holds in memory, or refuses to look at again, is as well
\* known as what is on disk.
Accounted ==
  /\ pc = "boot" => mem = disk
  /\ pc = "entries" =>
       /\ mem.executed = disk.executed
       /\ \A t \in Tickers : ExposedTicker(t) => Known(t, mem)
  /\ \A t \in Tickers : ExposedTicker(t) => Known(t, disk)
  /\ \A t \in traded : ExposedTicker(t) => t \in tradesDb \/ t \in disk.executed

-----------------------------------------------------------------------------
(* The operations of the order book and of the broker stay within their    *)
(* types.                                                                  *)

LEMMA EmptyBookType == EmptyBook \in Book
  BY DEF EmptyBook, Book

LEMMA PlannedBookType ==
  ASSUME NEW S, NEW E \in SUBSET Tickers, NEW H \in SUBSET Tickers
  PROVE  PlannedBook(S, E, H) \in Book
  BY DEF PlannedBook, Book

LEMMA EntryOperationsType ==
  ASSUME NEW b \in Book, NEW t \in Tickers
  PROVE  /\ AddStop(b, t) \in Book
         /\ MarkEntryExecuting(b, t) \in Book
         /\ RevertEntryToPending(b, t) \in Book
         /\ MarkEntryExecuted(b, t) \in Book
  <1>1. AddStop(b, t) \in Book
    BY DEF AddStop, Book
  <1>2. MarkEntryExecuting(b, t) \in Book
    BY DEF MarkEntryExecuting, Book
  <1>3. RevertEntryToPending(b, t) \in Book
    BY DEF RevertEntryToPending, Book
  <1>4. MarkEntryExecuted(b, t) \in Book
    <2>1. ASSUME b.entry[t] # "none"
          PROVE  MarkEntryExecuted(b, t)
                   = [entry    |-> [b.entry EXCEPT ![t] = "none"],
                      stops    |-> b.stops,
                      executed |-> b.executed \cup {t}]
      BY <2>1 DEF MarkEntryExecuted, Book
    <2>2. ASSUME b.entry[t] = "none"
          PROVE  MarkEntryExecuted(b, t) = b
      BY <2>2 DEF MarkEntryExecuted
    <2> QED
      BY <2>1, <2>2 DEF Book
  <1> QED
    BY <1>1, <1>2, <1>3, <1>4

LEMMA MergeType ==
  ASSUME NEW b \in Book, NEW S
  PROVE  MergeExecuted(b, S) \in Book
  BY DEF MergeExecuted, Book

LEMMA ReconcileType ==
  ASSUME NEW b \in Book, NEW R \in SUBSET Tickers
  PROVE  ReconcileBook(b, R) \in Book
  BY DEF ReconcileBook, Book

LEMMA SetOrderType ==
  ASSUME TypeOK, NEW t \in Tickers, NEW i \in DOMAIN orders[t],
         NEW st \in OrderStates, NEW q \in 0 .. Lot, SetOrder(t, i, st, q)
  PROVE  TypeOK'
  <1>1. [st |-> st, filled |-> q] \in Order
    BY DEF Order
  <1>2. [orders[t] EXCEPT ![i] = [st |-> st, filled |-> q]] \in Seq(Order)
    BY <1>1 DEF TypeOK
  <1>3. orders' \in [Tickers -> Seq(Order)]
    BY <1>2 DEF SetOrder, TypeOK
  <1> QED
    BY <1>3 DEF SetOrder, TypeOK, daemon, bounds

-----------------------------------------------------------------------------
(* Type correctness.                                                       *)

LEMMA TypeInit == Init => TypeOK /\ Control
  <1> SUFFICES ASSUME Init PROVE TypeOK /\ Control
    OBVIOUS
  <1> USE ConstantsAssumption
  <1>1. disk \in Book /\ mem \in Book
    BY PlannedBookType, EmptyBookType DEF Init
  <1>2. orders \in [Tickers -> Seq(Order)]
    BY DEF Init
  <1>3. /\ attempt \in 0 .. MaxOrderRetries
        /\ crashes \in 0 .. MaxCrashes
        /\ replans \in 0 .. MaxReplans
    BY DEF Init
  <1>4. withheld \in BOOLEAN /\ planning \in BOOLEAN
    BY DEF Init
  <1> QED
    BY <1>1, <1>2, <1>3, <1>4 DEF Init, TypeOK, Control, Busy

LEMMA TypeNext == TypeOK /\ Control /\ [Next]_vars => TypeOK' /\ Control'
  <1> SUFFICES ASSUME TypeOK, Control, [Next]_vars PROVE TypeOK' /\ Control'
    OBVIOUS
  <1> USE ConstantsAssumption DEF Control, Busy
  <1>1. CASE Boot
    BY <1>1 DEF Boot, TypeOK, durable, bounds
  <1>2. CASE Reconcile
    <2>1. ExecutingEntries(mem) \subseteq Tickers
      BY DEF ExecutingEntries
    <2>2. mem' \in Book
      BY <1>2, <2>1, ReconcileType DEF Reconcile, TypeOK
    <2>3. disk' \in Book
      BY <1>2, <2>2 DEF Reconcile, TypeOK
    <2>4. traded' \subseteq Tickers
      BY <1>2, <2>2 DEF Reconcile, TypeOK, SeedTraded, ExecutingEntries, Book
    <2> QED
      BY <1>2, <2>2, <2>3, <2>4 DEF Reconcile, TypeOK, bounds
  <1>3. CASE Tick
    <2>1. mem' \in Book
      BY <1>3, MergeType DEF Tick, TypeOK
    <2> QED
      BY <1>3, <2>1 DEF Tick, TypeOK, PendingEntries, bounds
  <1>4. CASE EndTick
    BY <1>4 DEF EndTick, TypeOK, durable, bounds
  <1>5. ASSUME NEW t \in Tickers, NoTrigger(t)
        PROVE  TypeOK' /\ Control'
    BY <1>5 DEF NoTrigger, TypeOK, durable, bounds
  <1>6. ASSUME NEW t \in Tickers, RefuseEntry(t)
        PROVE  TypeOK' /\ Control'
    BY <1>6 DEF RefuseEntry, TypeOK, durable, bounds
  <1>7. ASSUME NEW t \in Tickers, BeginEntry(t)
        PROVE  TypeOK' /\ Control'
    <2>1. mem' \in Book
      BY <1>7, EntryOperationsType DEF BeginEntry, TypeOK
    <2> QED
      BY <1>7, <2>1 DEF BeginEntry, TypeOK, bounds
  <1>8. CASE PlaceOrder
    <2>1. PICK st \in {"working"} \cup (Faults \cap {"silent"}) :
            orders' = [orders EXCEPT ![cur] = Append(@, [st |-> st, filled |-> 0])]
      BY <1>8 DEF PlaceOrder
    <2>2. [st |-> st, filled |-> 0] \in Order
      BY DEF Order, OrderStates, LiveStates
    <2>3. /\ Append(orders[cur], [st |-> st, filled |-> 0]) \in Seq(Order)
          /\ Append(orders[cur], [st |-> st, filled |-> 0]) # << >>
      BY <1>8, <2>2 DEF PlaceOrder, TypeOK
    <2>4. orders' \in [Tickers -> Seq(Order)] /\ orders'[cur] # << >>
      BY <1>8, <2>1, <2>3 DEF PlaceOrder, TypeOK
    <2> QED
      BY <1>8, <2>4 DEF PlaceOrder, TypeOK, bounds
  <1>9. CASE FailQualification
    BY <1>9 DEF FailQualification, TypeOK, durable, bounds
  <1>10. CASE RetryOrder
    <2>1. orders' \in [Tickers -> Seq(Order)]
      <3> DEFINE n == Len(orders[cur])
      <3>1. orders[cur] \in Seq(Order) /\ n \in DOMAIN orders[cur]
        BY <1>10 DEF RetryOrder, TypeOK
      <3>2. orders[cur][n] \in Order
        BY <3>1
      <3>3. [orders[cur][n] EXCEPT !.st = "cancelling"] \in Order
        BY <3>2 DEF Order, OrderStates, LiveStates
      <3>4. [orders[cur] EXCEPT ![n].st = "cancelling"] \in Seq(Order)
        BY <3>1, <3>3
      <3> QED
        BY <1>10, <3>4 DEF RetryOrder, TypeOK
    <2> QED
      BY <1>10, <2>1 DEF RetryOrder, TypeOK, bounds
  <1>11. CASE RejectedEntry
    <2>1. mem' \in Book
      BY <1>11, EntryOperationsType DEF RejectedEntry, TypeOK
    <2> QED
      BY <1>11, <2>1 DEF RejectedEntry, EntryDone, TypeOK, bounds
  <1>12. CASE TimeoutEntry
    BY <1>12 DEF TimeoutEntry, TypeOK, EntryDone, bounds
  <1>13. CASE AcceptedEntry
    BY <1>13 DEF AcceptedEntry, TypeOK, bounds
  <1>14. CASE LogTrade
    BY <1>14 DEF LogTrade, TypeOK, bounds
  <1>15. CASE FinalizeEntry
    <2>1. mem' \in Book
      BY <1>15, EntryOperationsType DEF FinalizeEntry, TypeOK
    <2> QED
      BY <1>15, <2>1 DEF FinalizeEntry, EntryDone, TypeOK, bounds
  <1>16. CASE LoseConnection
    BY <1>16 DEF LoseConnection, TypeOK, durable, bounds
  <1>17. CASE Crash
    <2>1. withheld' \in BOOLEAN /\ mem' \in Book
      BY <1>17, EmptyBookType DEF Crash
    <2>2. crashes' \in 0 .. MaxCrashes
      BY <1>17 DEF Crash, TypeOK
    <2> QED
      BY <1>17, <2>1, <2>2 DEF Crash, TypeOK, durable
  <1>18. CASE Close
    BY <1>18 DEF Close, TypeOK, durable, bounds
  <1>19. CASE StartReplan
    BY <1>19 DEF StartReplan, TypeOK, Book, durable, daemon
  <1>20. CASE FinishReplan
    <2>1. disk' \in Book
      <3>1. {t \in Tickers : Held(t)} \in SUBSET Tickers
        OBVIOUS
      <3> QED
        BY <1>20, <3>1, PlannedBookType DEF FinishReplan, TypeOK
    <2> QED
      BY <1>20, <2>1 DEF FinishReplan, TypeOK, daemon
  <1>21. CASE BrokerStep
    <2>0. PICK t \in Tickers : \E i \in DOMAIN orders[t] :
            Acknowledge(t, i) \/ Fill(t, i) \/ CancelAtBroker(t, i)
      BY <1>21 DEF BrokerStep
    <2>1. PICK i \in DOMAIN orders[t] :
            Acknowledge(t, i) \/ Fill(t, i) \/ CancelAtBroker(t, i)
      BY <2>0
    <2>2. PICK st \in OrderStates, q \in 0 .. Lot : SetOrder(t, i, st, q)
      <3>1. orders[t][i] \in Order
        BY DEF TypeOK
      <3> QED
        BY <2>1, <3>1 DEF Acknowledge, Fill, CancelAtBroker, Order, OrderStates, LiveStates
    <2>3. TypeOK'
      BY <2>2, SetOrderType
    <2>4. \A u \in Tickers : orders[u] # << >> => orders'[u] # << >>
      BY <2>2 DEF SetOrder, TypeOK
    <2> QED
      BY <2>2, <2>3, <2>4 DEF SetOrder, daemon, TypeOK
  <1>22. CASE UNCHANGED vars
    BY <1>22 DEF vars, durable, daemon, bounds, TypeOK
  <1> QED
    BY <1>1, <1>2, <1>3, <1>4, <1>5, <1>6, <1>7, <1>8, <1>9, <1>10, <1>11,
       <1>12, <1>13, <1>14, <1>15, <1>16, <1>17, <1>18, <1>19, <1>20, <1>21,
       <1>22 DEF Next, DaemonStep, Planning

\* Every reachable state of the entry path keeps its shape, whatever fails.
THEOREM TypeCorrect == Spec => []TypeOK
  <1>1. TypeOK /\ Control /\ [Next]_vars => TypeOK' /\ Control'
    BY TypeNext
  <1> QED
    BY TypeInit, <1>1, PTL DEF Spec

-----------------------------------------------------------------------------
(* No process starts an entry that trades.db has a fill of.                *)

LEMMA FreshNext == TypeOK /\ Control /\ Fresh /\ [Next]_vars => Fresh'
  <1> SUFFICES ASSUME TypeOK, Control, Fresh, [Next]_vars PROVE Fresh'
    OBVIOUS
  <1> USE DEF Control, Busy, Fresh
  <1>1. CASE Boot
    BY <1>1 DEF Boot, durable, daemon, bounds
  <1>2. CASE Reconcile
    BY <1>2 DEF Reconcile, durable, daemon, bounds
  <1>3. CASE Tick
    <2>1. \A t \in PendingEntries(mem') : t \notin traded
      BY <1>3 DEF Tick, PendingEntries, MergeExecuted, Book, TypeOK
    <2> QED
      BY <1>3, <2>1 DEF Tick, bounds
  <1>4. CASE EndTick
    BY <1>4 DEF EndTick, durable, daemon, bounds
  <1>5. ASSUME NEW t \in Tickers, NoTrigger(t)
        PROVE  Fresh'
    BY <1>5 DEF NoTrigger, durable, daemon, bounds
  <1>6. ASSUME NEW t \in Tickers, RefuseEntry(t)
        PROVE  Fresh'
    BY <1>6 DEF RefuseEntry, durable, daemon, bounds
  <1>7. ASSUME NEW t \in Tickers, BeginEntry(t)
        PROVE  Fresh'
    BY <1>7 DEF BeginEntry, durable, daemon, bounds
  <1>8. CASE PlaceOrder
    BY <1>8 DEF PlaceOrder, durable, daemon, bounds
  <1>9. CASE FailQualification
    BY <1>9 DEF FailQualification, durable, daemon, bounds
  <1>10. CASE RetryOrder
    BY <1>10 DEF RetryOrder, durable, daemon, bounds
  <1>11. CASE RejectedEntry
    BY <1>11 DEF RejectedEntry, EntryDone, durable, daemon, bounds
  <1>12. CASE TimeoutEntry
    BY <1>12 DEF TimeoutEntry, EntryDone, durable, daemon, bounds
  <1>13. CASE AcceptedEntry
    BY <1>13 DEF AcceptedEntry, durable, daemon, bounds
  <1>14. CASE LogTrade
    BY <1>14 DEF LogTrade, durable, daemon, bounds
  <1>15. CASE FinalizeEntry
    BY <1>15 DEF FinalizeEntry, EntryDone, durable, daemon, bounds
  <1>16. CASE LoseConnection
    BY <1>16 DEF LoseConnection, durable, daemon, bounds
  <1>17. CASE Crash
    BY <1>17 DEF Crash, durable, daemon, bounds
  <1>18. CASE Close
    BY <1>18 DEF Close, durable, daemon, bounds
  <1>19. CASE StartReplan
    BY <1>19 DEF StartReplan, durable, daemon, bounds
  <1>20. CASE FinishReplan
    BY <1>20 DEF FinishReplan, durable, daemon, bounds
  <1>21. CASE BrokerStep
    BY <1>21 DEF BrokerStep, Acknowledge, Fill, CancelAtBroker, SetOrder, durable, daemon, bounds
  <1>22. CASE UNCHANGED vars
    BY <1>22 DEF vars, durable, daemon, bounds
  <1> QED
    BY <1>1, <1>2, <1>3, <1>4, <1>5, <1>6, <1>7, <1>8, <1>9, <1>10, <1>11, <1>12, <1>13, <1>14, <1>15, <1>16, <1>17, <1>18, <1>19, <1>20, <1>21, <1>22
       DEF Next, DaemonStep, Planning

LEMMA SeededNext ==
  ASSUME "db" \notin Faults
  PROVE  TypeOK /\ Control /\ Seeded /\ [Next]_vars => Seeded'
  <1> SUFFICES ASSUME TypeOK, Control, Seeded, [Next]_vars PROVE Seeded'
    OBVIOUS
  <1> USE DEF Control, Busy, Seeded
  <1>1. CASE Boot
    BY <1>1 DEF Boot, durable, daemon, bounds
  <1>2. CASE Reconcile
    BY <1>2 DEF Reconcile, SeedTraded, bounds
  <1>3. CASE Tick
    BY <1>3 DEF Tick, durable, daemon, bounds
  <1>4. CASE EndTick
    BY <1>4 DEF EndTick, durable, daemon, bounds
  <1>5. ASSUME NEW t \in Tickers, NoTrigger(t)
        PROVE  Seeded'
    BY <1>5 DEF NoTrigger, durable, daemon, bounds
  <1>6. ASSUME NEW t \in Tickers, RefuseEntry(t)
        PROVE  Seeded'
    BY <1>6 DEF RefuseEntry, durable, daemon, bounds
  <1>7. ASSUME NEW t \in Tickers, BeginEntry(t)
        PROVE  Seeded'
    BY <1>7 DEF BeginEntry, durable, daemon, bounds
  <1>8. CASE PlaceOrder
    BY <1>8 DEF PlaceOrder, durable, daemon, bounds
  <1>9. CASE FailQualification
    BY <1>9 DEF FailQualification, durable, daemon, bounds
  <1>10. CASE RetryOrder
    BY <1>10 DEF RetryOrder, durable, daemon, bounds
  <1>11. CASE RejectedEntry
    BY <1>11 DEF RejectedEntry, EntryDone, durable, daemon, bounds
  <1>12. CASE TimeoutEntry
    BY <1>12 DEF TimeoutEntry, EntryDone, durable, daemon, bounds
  <1>13. CASE AcceptedEntry
    BY <1>13 DEF AcceptedEntry, durable, daemon, bounds
  <1>14. CASE LogTrade
    BY <1>14 DEF LogTrade, durable, daemon, bounds
  <1>15. CASE FinalizeEntry
    BY <1>15 DEF FinalizeEntry, EntryDone, durable, daemon, bounds
  <1>16. CASE LoseConnection
    BY <1>16 DEF LoseConnection, durable, daemon, bounds
  <1>17. CASE Crash
    BY <1>17 DEF Crash, durable, daemon, bounds
  <1>18. CASE Close
    BY <1>18 DEF Close, durable, daemon, bounds
  <1>19. CASE StartReplan
    BY <1>19 DEF StartReplan, durable, daemon, bounds
  <1>20. CASE FinishReplan
    BY <1>20 DEF FinishReplan, durable, daemon, bounds
  <1>21. CASE BrokerStep
    BY <1>21 DEF BrokerStep, Acknowledge, Fill, CancelAtBroker, SetOrder, durable, daemon, bounds
  <1>22. CASE UNCHANGED vars
    BY <1>22 DEF vars, durable, daemon, bounds
  <1> QED
    BY <1>1, <1>2, <1>3, <1>4, <1>5, <1>6, <1>7, <1>8, <1>9, <1>10, <1>11, <1>12, <1>13, <1>14, <1>15, <1>16, <1>17, <1>18, <1>19, <1>20, <1>21, <1>22
       DEF Next, DaemonStep, Planning

\* While trades.db can be read at startup, LoggedFillNotRebought holds
\* whatever else fails, with any number of crashes and planner re-runs.
THEOREM LoggedFillSafe ==
  ASSUME "db" \notin Faults
  PROVE  Spec => LoggedFillNotRebought
  <1> DEFINE Inv == TypeOK /\ Control /\ Fresh /\ Seeded
  <1>1. Init => Inv
    BY TypeInit DEF Init, Fresh, Seeded, Busy
  <1>2. Inv /\ [Next]_vars => Inv'
    BY TypeNext, FreshNext, SeededNext
  <1>3. Inv => \A t \in Tickers : BeginEntry(t) => t \notin tradesDb
    BY DEF Fresh, Seeded, BeginEntry
  <1> QED
    BY <1>1, <1>2, <1>3, PTL DEF Spec, LoggedFillNotRebought

-----------------------------------------------------------------------------
(* The write-ahead record.                                                 *)

LEMMA PendingAfter ==
  ASSUME NEW b \in Book, NEW t \in Tickers
  PROVE  /\ PendingEntries(MarkEntryExecuting(b, t)) = PendingEntries(b) \ {t}
         /\ PendingEntries(RevertEntryToPending(b, t)) \subseteq PendingEntries(b) \cup {t}
         /\ b.entry[t] # "pending" =>
              PendingEntries(AddStop(MarkEntryExecuted(b, t), t)) = PendingEntries(b)
  <1>1. PendingEntries(MarkEntryExecuting(b, t)) = PendingEntries(b) \ {t}
    BY DEF PendingEntries, MarkEntryExecuting, Book
  <1>2. PendingEntries(RevertEntryToPending(b, t)) \subseteq PendingEntries(b) \cup {t}
    BY DEF PendingEntries, RevertEntryToPending, Book
  <1>3. ASSUME b.entry[t] # "pending"
        PROVE  PendingEntries(MarkEntryExecuted(b, t)) = PendingEntries(b)
    BY <1>3 DEF PendingEntries, MarkEntryExecuted, Book
  <1>4. \A c \in Book : PendingEntries(AddStop(c, t)) = PendingEntries(c)
    BY DEF PendingEntries, AddStop, Book
  <1> QED
    BY <1>1, <1>2, <1>3, <1>4, EntryOperationsType

LEMMA PendingAfterMerge ==
  ASSUME NEW b \in Book, NEW S
  PROVE  PendingEntries(MergeExecuted(b, S)) \subseteq PendingEntries(b)
  BY DEF PendingEntries, MergeExecuted, Book

LEMMA PendingAfterReconcile ==
  ASSUME TypeOK, NEW R \in SUBSET Tickers,
         \A t \in PendingEntries(mem) : ~ExposedTicker(t),
         NEW t \in PendingEntries(ReconcileBook(mem, R))
  PROVE  ~ExposedTicker(t)
  <1>1. CASE t \in R
    <2>1. ~Held(t) /\ ~WorkingBuy(t)
      BY <1>1 DEF PendingEntries, ReconcileBook, Book, TypeOK
    <2> QED
      BY <2>1 DEF Held, WorkingBuy, ExposedTicker, Exposed
  <1>2. CASE t \notin R
    <2>1. t \in PendingEntries(mem)
      BY <1>2 DEF PendingEntries, ReconcileBook, Book, TypeOK
    <2> QED
      BY <2>1
  <1> QED
    BY <1>1, <1>2

\* A broker step exposes no order that was not exposed, and leaves every
\* order definite.
LEMMA BrokerExposesNothing ==
  ASSUME BrokerAnswers, TypeOK, BrokerStep,
         \A t \in Tickers : \A i \in DOMAIN orders[t] : Definite(orders[t][i])
  PROVE  \A t \in Tickers :
           /\ DOMAIN orders'[t] = DOMAIN orders[t]
           /\ Len(orders'[t]) = Len(orders[t])
           /\ \A i \in DOMAIN orders'[t] :
                /\ Definite(orders'[t][i])
                /\ Exposed(orders'[t][i]) => Exposed(orders[t][i])
  <1>1. PICK t \in Tickers : \E i \in DOMAIN orders[t] :
          Acknowledge(t, i) \/ Fill(t, i) \/ CancelAtBroker(t, i)
    BY DEF BrokerStep
  <1>2. PICK i \in DOMAIN orders[t] :
          Acknowledge(t, i) \/ Fill(t, i) \/ CancelAtBroker(t, i)
    BY <1>1
  <1>3. orders[t][i] \in Order /\ Definite(orders[t][i])
    BY DEF TypeOK
  <1>4. Live(orders[t][i])
    BY <1>2 DEF Acknowledge, Fill, CancelAtBroker, Live, LiveStates
  <1>5. PICK o \in Order : /\ Definite(o)
                           /\ orders' = [orders EXCEPT ![t][i] = o]
    <2>1. CASE Acknowledge(t, i)
      BY <2>1, <1>3 DEF Acknowledge, Definite
    <2>2. CASE Fill(t, i)
      <3>1. PICK q \in orders[t][i].filled + 1 .. Lot :
              SetOrder(t, i, IF q = Lot THEN "filled"
                             ELSE IF orders[t][i].st = "silent" THEN "working"
                             ELSE orders[t][i].st, q)
        BY <2>2 DEF Fill
      <3>2. orders[t][i].st = "working"
        BY <1>3, <1>4 DEF Definite, Live, LiveStates
      <3>3. q \in 0 .. Lot /\ q > 0
        BY <1>3, ConstantsAssumption DEF Order
      <3>4. [st |-> IF q = Lot THEN "filled" ELSE "working", filled |-> q] \in Order
        BY <3>3 DEF Order, OrderStates, LiveStates
      <3> QED
        BY <3>1, <3>2, <3>3, <3>4 DEF SetOrder, Definite
    <2>3. CASE CancelAtBroker(t, i)
      <3>1. orders[t][i].filled = 0
        BY <2>3, <1>3 DEF CancelAtBroker, BrokerAnswers, Order
      <3>2. [st |-> "cancelled", filled |-> 0] \in Order
        BY <1>3, <3>1 DEF Order, OrderStates
      <3> QED
        BY <2>3, <3>1, <3>2 DEF CancelAtBroker, SetOrder, Definite
    <2> QED
      BY <1>2, <2>1, <2>2, <2>3
  <1>6. orders[t] \in Seq(Order)
    BY DEF TypeOK
  <1>7. /\ orders'[t] = [orders[t] EXCEPT ![i] = o]
        /\ \A u \in Tickers \ {t} : orders'[u] = orders[u]
    BY <1>5 DEF TypeOK
  <1>8. Exposed(orders[t][i])
    BY <1>4 DEF Exposed
  <1> QED
    BY <1>5, <1>6, <1>7, <1>8

LEMMA WriteAheadInit ==
  ASSUME BrokerAnswers
  PROVE  Init => WriteAhead /\ AtMostOneExposedOrder
  <1> SUFFICES ASSUME Init PROVE WriteAhead /\ AtMostOneExposedOrder
    OBVIOUS
  <1>1. \A t \in Tickers : orders[t] = << >> /\ ~ExposedTicker(t)
    BY DEF Init, ExposedTicker
  <1>2. AtMostOneExposedOrder
    BY <1>1 DEF AtMostOneExposedOrder
  <1>3. WriteAhead
    BY <1>1 DEF Init, WriteAhead, Busy, PendingEntries
  <1> QED
    BY <1>2, <1>3

\* Steps that send, change and complete no order.
LEMMA SameOrders ==
  ASSUME WriteAhead, AtMostOneExposedOrder, UNCHANGED orders
  PROVE  /\ AtMostOneExposedOrder'
         /\ \A t \in Tickers : \A i \in DOMAIN orders'[t] : Definite(orders'[t][i])
         /\ \A t \in Tickers : ExposedTicker(t)' <=> ExposedTicker(t)
  BY DEF WriteAhead, AtMostOneExposedOrder, ExposedTicker

\* A rejected entry has nothing at the broker.
LEMMA RejectedNotExposed ==
  ASSUME TypeOK, Control, WriteAhead, RejectedEntry
  PROVE  ~ExposedTicker(cur)
  <1>1. cur \in Tickers /\ orders[cur] \in Seq(Order)
    BY DEF RejectedEntry, Control, TypeOK, Busy
  <1>2. CASE pc = "rejected"
    BY <1>2 DEF WriteAhead
  <1>3. CASE pc = "placed" /\ LastResult = "Rejected"
    <2> DEFINE n == Len(orders[cur])
    <2>1. n \in DOMAIN orders[cur] /\ n \in Nat /\ n > 0 /\ DOMAIN orders[cur] = 1 .. n
      BY <1>3, <1>1 DEF Control
    <2>2. Definite(orders[cur][n]) /\ orders[cur][n] \in Order
      BY <1>1, <2>1 DEF WriteAhead
    <2>3. orders[cur][n].st = "cancelled" /\ orders[cur][n].filled = 0
      BY <1>3, <2>2 DEF LastResult, Result, Definite, Order
    <2> QED
      BY <1>3, <2>1, <2>3 DEF WriteAhead, ExposedTicker, Exposed, Live, LiveStates
  <1> QED
    BY <1>2, <1>3 DEF RejectedEntry

LEMMA WriteAheadNext ==
  ASSUME BrokerAnswers, TypeOK, Control, WriteAhead, AtMostOneExposedOrder,
         [Next]_vars
  PROVE  WriteAhead' /\ AtMostOneExposedOrder'
  <1> USE DEF Busy
  <1>1. CASE Boot
    <2>1. UNCHANGED <<orders, disk, planning, queue, cur>> /\ mem' = disk /\ pc' = "boot"
      BY <1>1 DEF Boot, durable, bounds
    <2> QED
      BY <1>1, <2>1, SameOrders DEF Boot, WriteAhead, Control, PendingEntries
  <1>2. CASE Reconcile
    <2>1. PICK R \in SUBSET ExecutingEntries(mem) :
            mem' = ReconcileBook(mem, R) /\ (disk' = mem' \/ disk' = disk)
      BY <1>2 DEF Reconcile
    <2>2. R \in SUBSET Tickers
      BY DEF ExecutingEntries
    <2>3. \A t \in PendingEntries(mem') : ~ExposedTicker(t)
      BY <2>1, <2>2, PendingAfterReconcile DEF WriteAhead
    <2>4. PendingEntries(disk') \cup PendingEntries(mem') \subseteq Tickers
      BY DEF PendingEntries
    <2>5. \A t \in PendingEntries(disk') \cup PendingEntries(mem') : ~ExposedTicker(t)
      BY <2>1, <2>3 DEF WriteAhead
    <2>6. UNCHANGED <<orders, planning, queue>> /\ pc' = "poll" /\ queue = {}
      BY <1>2 DEF Reconcile, bounds, Control
    <2>7. \A t \in (PendingEntries(disk) \cup PendingEntries(mem))' : ~ExposedTicker(t)'
      BY <2>4, <2>5, <2>6, SameOrders DEF PendingEntries
    <2> QED
      BY <2>6, <2>7, SameOrders DEF WriteAhead
  <1>3. CASE Tick
    <2>1. PendingEntries(mem') \subseteq PendingEntries(disk)
      BY <1>3, PendingAfterMerge DEF Tick, TypeOK
    <2>2. PendingEntries(disk') \subseteq PendingEntries(disk)
      BY <1>3, <2>1 DEF Tick
    <2>3. UNCHANGED <<orders, planning>> /\ pc' = "entries" /\ queue' = PendingEntries(mem')
      BY <1>3 DEF Tick, bounds
    <2>4. \A t \in (PendingEntries(disk) \cup PendingEntries(mem))' : ~ExposedTicker(t)'
      BY <2>1, <2>2, <2>3, SameOrders DEF WriteAhead, PendingEntries
    <2> QED
      BY <2>3, <2>4, SameOrders DEF WriteAhead, PendingEntries
  <1>4. CASE EndTick
    BY <1>4, SameOrders DEF EndTick, WriteAhead, PendingEntries, durable, bounds
  <1>5. ASSUME NEW t \in Tickers, NoTrigger(t)
        PROVE  WriteAhead' /\ AtMostOneExposedOrder'
    BY <1>5, SameOrders DEF NoTrigger, WriteAhead, PendingEntries, durable, bounds
  <1>6. ASSUME NEW t \in Tickers, RefuseEntry(t)
        PROVE  WriteAhead' /\ AtMostOneExposedOrder'
    BY <1>6, SameOrders DEF RefuseEntry, WriteAhead, PendingEntries, durable, bounds
  <1>7. ASSUME NEW t \in Tickers, BeginEntry(t)
        PROVE  WriteAhead' /\ AtMostOneExposedOrder'
    <2>1. UNCHANGED <<orders, planning>> /\ pc' = "wal" /\ cur' = t /\ disk' = mem'
      BY <1>7 DEF BeginEntry, bounds
    <2>2. t \in PendingEntries(mem)
      BY <1>7 DEF BeginEntry, WriteAhead
    <2>3. mem'.entry[t] = "executing"
      BY <1>7, <2>2 DEF BeginEntry, MarkEntryExecuting, PendingEntries, TypeOK, Book
    <2>4. PendingEntries(mem') = PendingEntries(mem) \ {t}
      BY <1>7, PendingAfter DEF BeginEntry, TypeOK
    <2>5. PendingEntries(mem)' = PendingEntries(mem) \ {t}
      BY <2>4 DEF PendingEntries
    <2>6. PendingEntries(disk)' = PendingEntries(mem) \ {t}
      BY <2>1, <2>5 DEF PendingEntries
    <2>7. queue' = queue \ {t}
      BY <1>7 DEF BeginEntry
    <2>8. PendingEntries(mem) \subseteq Tickers
      BY DEF PendingEntries
    <2> QED
      BY <2>1, <2>2, <2>3, <2>5, <2>6, <2>7, <2>8, SameOrders DEF WriteAhead
  <1>8. CASE PlaceOrder
    <2>1. orders' = [orders EXCEPT ![cur] = Append(@, [st |-> "working", filled |-> 0])]
      BY <1>8 DEF PlaceOrder, BrokerAnswers
    <2>2. cur \in Tickers /\ orders[cur] \in Seq(Order)
      BY <1>8 DEF PlaceOrder, Control, TypeOK
    <2>3. /\ orders'[cur] = Append(orders[cur], [st |-> "working", filled |-> 0])
          /\ \A t \in Tickers \ {cur} : orders'[t] = orders[t]
      BY <2>1, <2>2 DEF TypeOK
    <2>4. \A i \in 1 .. Len(orders[cur]) : ~Exposed(orders[cur][i])
      BY <1>8, <2>2 DEF PlaceOrder, WriteAhead, ExposedTicker
    <2>5. /\ Len(orders'[cur]) = Len(orders[cur]) + 1
          /\ \A i \in 1 .. Len(orders[cur]) : orders'[cur][i] = orders[cur][i]
          /\ orders'[cur][Len(orders[cur]) + 1] = [st |-> "working", filled |-> 0]
          /\ DOMAIN orders'[cur] = 1 .. Len(orders[cur]) + 1
      BY <2>2, <2>3
    <2>6. AtMostOneExposedOrder'
      <3>1. \A i, j \in DOMAIN orders'[cur] :
              Exposed(orders'[cur][i]) /\ Exposed(orders'[cur][j]) => i = j
        BY <2>2, <2>4, <2>5
      <3> QED
        BY <2>3, <3>1 DEF AtMostOneExposedOrder
    <2>7. \A t \in Tickers : \A i \in DOMAIN orders'[t] : Definite(orders'[t][i])
      BY <2>2, <2>3, <2>5 DEF WriteAhead, Definite
    <2>8. UNCHANGED <<disk, mem, queue, planning, cur>> /\ pc' = "placed"
      BY <1>8 DEF PlaceOrder, bounds
    <2>9. \A t \in Tickers \ {cur} : ExposedTicker(t)' <=> ExposedTicker(t)
      BY <2>3 DEF ExposedTicker
    <2>10. cur \notin PendingEntries(disk) \cup PendingEntries(mem)
      BY <1>8 DEF PlaceOrder, WriteAhead, PendingEntries
    <2>11. \A t \in (PendingEntries(disk) \cup PendingEntries(mem))' : ~ExposedTicker(t)'
      BY <2>8, <2>9, <2>10 DEF WriteAhead, PendingEntries
    <2>12. \A i \in 1 .. Len(orders'[cur]) - 1 : ~Exposed(orders'[cur][i])
      BY <2>2, <2>4, <2>5
    <2> QED
      BY <1>8, <2>6, <2>7, <2>8, <2>11, <2>12 DEF WriteAhead, PlaceOrder, PendingEntries
  <1>9. CASE FailQualification
    BY <1>9, SameOrders DEF FailQualification, WriteAhead, PendingEntries, Control, durable, bounds
  <1>10. CASE RetryOrder
    <2>1. cur \in Tickers /\ orders[cur] \in Seq(Order) /\ orders[cur] # << >>
      BY <1>10 DEF RetryOrder, Control, TypeOK
    <2> DEFINE n == Len(orders[cur])
    <2>2. n \in DOMAIN orders[cur] /\ n \in Nat /\ n > 0 /\ DOMAIN orders[cur] = 1 .. n
      BY <2>1
    <2>3. Definite(orders[cur][n]) /\ orders[cur][n] \in Order
      BY <2>1, <2>2 DEF WriteAhead
    <2>4. orders[cur][n].st = "cancelled" /\ orders[cur][n].filled = 0
      BY <1>10, <2>3 DEF RetryOrder, LastResult, Retryable, Result, Live, LiveStates,
                         Definite, BrokerAnswers, Order
    <2>5. UNCHANGED orders
      BY <1>10, <2>4 DEF RetryOrder, LastResult, Result
    <2>6. ~ExposedTicker(cur)
      BY <1>10, <2>1, <2>2, <2>4 DEF RetryOrder, WriteAhead, ExposedTicker, Exposed, Live, LiveStates
    <2> QED
      BY <1>10, <2>1, <2>5, <2>6, SameOrders DEF RetryOrder, WriteAhead, PendingEntries, bounds
  <1>11. CASE RejectedEntry
    <2>1. cur \in Tickers /\ orders[cur] \in Seq(Order)
      BY <1>11 DEF RejectedEntry, Control, TypeOK
    <2>2. ~ExposedTicker(cur)
      BY <1>11, RejectedNotExposed
    <2>3. UNCHANGED <<orders, queue, planning>> /\ pc' = "entries" /\ disk' = mem'
      BY <1>11 DEF RejectedEntry, EntryDone, bounds
    <2>4. PendingEntries(mem') \subseteq PendingEntries(mem) \cup {cur}
      BY <1>11, <2>1, PendingAfter DEF RejectedEntry, TypeOK
    <2>5. PendingEntries(mem)' \subseteq PendingEntries(mem) \cup {cur}
      BY <2>4 DEF PendingEntries
    <2>6. PendingEntries(disk)' \subseteq PendingEntries(mem) \cup {cur}
      BY <2>3, <2>5 DEF PendingEntries
    <2>7. PendingEntries(mem) \subseteq Tickers
      BY DEF PendingEntries
    <2>8. PendingEntries(mem) \subseteq PendingEntries(mem)'
      BY <1>11, <2>1 DEF RejectedEntry, PendingEntries, RevertEntryToPending, TypeOK, Book
    <2> QED
      BY <2>1, <2>2, <2>3, <2>5, <2>6, <2>7, <2>8, SameOrders DEF WriteAhead
  <1>12. CASE TimeoutEntry
    <2>1. UNCHANGED <<orders, mem, queue, planning>> /\ pc' = "entries" /\ disk' = mem
      BY <1>12 DEF TimeoutEntry, EntryDone, bounds
    <2> QED
      BY <2>1, SameOrders DEF WriteAhead, PendingEntries
  <1>13. CASE AcceptedEntry
    BY <1>13, SameOrders DEF AcceptedEntry, WriteAhead, PendingEntries, bounds
  <1>14. CASE LogTrade
    BY <1>14, SameOrders DEF LogTrade, WriteAhead, PendingEntries, bounds
  <1>15. CASE FinalizeEntry
    <2>1. UNCHANGED <<orders, queue, planning>> /\ pc' = "entries" /\ disk' = mem'
      BY <1>15 DEF FinalizeEntry, EntryDone, bounds
    <2>2. cur \in Tickers /\ mem.entry[cur] = "executing"
      BY <1>15 DEF FinalizeEntry, Control, WriteAhead
    <2>3. PendingEntries(mem') = PendingEntries(mem)
      BY <1>15, <2>2, PendingAfter DEF FinalizeEntry, TypeOK
    <2>4. PendingEntries(mem)' = PendingEntries(mem) /\ PendingEntries(disk)' = PendingEntries(mem)
      BY <2>1, <2>3 DEF PendingEntries
    <2>5. PendingEntries(mem) \subseteq Tickers
      BY DEF PendingEntries
    <2> QED
      BY <2>1, <2>4, <2>5, SameOrders DEF WriteAhead
  <1>16. CASE LoseConnection
    BY <1>16, SameOrders DEF LoseConnection, WriteAhead, PendingEntries, durable, bounds
  <1>17. CASE Crash
    <2>1. PendingEntries(mem)' = {}
      BY <1>17 DEF Crash, PendingEntries, EmptyBook
    <2> QED
      BY <1>17, <2>1, SameOrders DEF Crash, WriteAhead, PendingEntries, durable
  <1>18. CASE Close
    BY <1>18, SameOrders DEF Close, WriteAhead, PendingEntries, durable, bounds
  <1>19. CASE Planning
    BY <1>19 DEF Planning, StartReplan, FinishReplan, BrokerAnswers, WriteAhead, TypeOK
  <1>20. CASE BrokerStep
    <2>1. \A t \in Tickers :
            /\ DOMAIN orders'[t] = DOMAIN orders[t]
            /\ Len(orders'[t]) = Len(orders[t])
            /\ \A i \in DOMAIN orders'[t] :
                 /\ Definite(orders'[t][i])
                 /\ Exposed(orders'[t][i]) => Exposed(orders[t][i])
      BY <1>20, BrokerExposesNothing DEF WriteAhead
    <2>2. AtMostOneExposedOrder'
      BY <2>1 DEF AtMostOneExposedOrder
    <2>3. \A t \in Tickers : ExposedTicker(t)' => ExposedTicker(t)
      BY <2>1 DEF ExposedTicker
    <2>4. UNCHANGED <<disk, mem, queue, planning, cur, pc>>
      BY <1>20 DEF BrokerStep, Acknowledge, Fill, CancelAtBroker, SetOrder, daemon, bounds
    <2>5. PendingEntries(disk) \cup PendingEntries(mem) \subseteq Tickers
      BY DEF PendingEntries
    <2>6. pc = "placed" =>
            \A i \in 1 .. Len(orders'[cur]) - 1 : ~Exposed(orders'[cur][i])
      <3> SUFFICES ASSUME pc = "placed", NEW i \in 1 .. Len(orders'[cur]) - 1
                   PROVE  ~Exposed(orders'[cur][i])
        OBVIOUS
      <3>1. cur \in Tickers /\ orders[cur] \in Seq(Order)
        BY DEF Control, TypeOK
      <3>2. i \in 1 .. Len(orders[cur]) - 1 /\ i \in DOMAIN orders[cur]
        BY <2>1, <3>1
      <3> QED
        BY <2>1, <3>1, <3>2 DEF WriteAhead
    <2>7. pc \in {"wal", "rejected"} => ~ExposedTicker(cur)'
      BY <2>3, <2>4 DEF WriteAhead, Control, ExposedTicker
    <2>8. \A t \in (PendingEntries(disk) \cup PendingEntries(mem))' : ~ExposedTicker(t)'
      BY <2>3, <2>4, <2>5 DEF WriteAhead, PendingEntries
    <2> QED
      BY <2>1, <2>2, <2>4, <2>6, <2>7, <2>8 DEF WriteAhead, PendingEntries, ExposedTicker
  <1>21. CASE UNCHANGED vars
    <2>1. UNCHANGED <<disk, orders, mem, queue, cur, pc, planning>>
      BY <1>21 DEF vars, durable, daemon, bounds
    <2> QED
      BY <2>1, SameOrders DEF WriteAhead, PendingEntries, ExposedTicker
  <1> QED
    BY <1>1, <1>2, <1>3, <1>4, <1>5, <1>6, <1>7, <1>8, <1>9, <1>10, <1>11,
       <1>12, <1>13, <1>14, <1>15, <1>16, <1>17, <1>18, <1>19, <1>20, <1>21
       DEF Next, DaemonStep

\* While the broker's answers are definite (no bracket placement, no silent
\* order, no cancelled partial fill) and no planner rewrites the book, an
\* entry is bought at most once, whatever crashes, restarts, unreadable
\* broker states, lost connections and rejections come between.
THEOREM EntryBoughtOnce ==
  ASSUME BrokerAnswers
  PROVE  Spec => []AtMostOneExposedOrder
  <1> DEFINE Inv == TypeOK /\ Control /\ WriteAhead /\ AtMostOneExposedOrder
  <1>1. Init => Inv
    BY TypeInit, WriteAheadInit
  <1>2. Inv /\ [Next]_vars => Inv'
    BY TypeNext, WriteAheadNext
  <1>3. Inv => AtMostOneExposedOrder
    OBVIOUS
  <1> QED
    BY <1>1, <1>2, <1>3, PTL DEF Spec

-----------------------------------------------------------------------------
(* Every order is accounted for.                                           *)

LEMMA KnownAfter ==
  ASSUME NEW b \in Book, NEW t \in Tickers, NEW u \in Tickers, NEW S
  PROVE  /\ Known(u, b) => Known(u, MarkEntryExecuting(b, t))
         /\ MarkEntryExecuting(b, t).executed = b.executed
         /\ u # t /\ Known(u, b) => Known(u, RevertEntryToPending(b, t))
         /\ RevertEntryToPending(b, t).executed = b.executed
         /\ u \notin S /\ Known(u, b) => Known(u, MergeExecuted(b, S))
  <1>1. Known(u, b) => Known(u, MarkEntryExecuting(b, t))
    BY DEF Known, MarkEntryExecuting, Book
  <1>2. MarkEntryExecuting(b, t).executed = b.executed
    BY DEF MarkEntryExecuting, Book
  <1>3. u # t /\ Known(u, b) => Known(u, RevertEntryToPending(b, t))
    BY DEF Known, RevertEntryToPending, Book
  <1>4. RevertEntryToPending(b, t).executed = b.executed
    BY DEF RevertEntryToPending, Book
  <1>5. u \notin S /\ Known(u, b) => Known(u, MergeExecuted(b, S))
    BY DEF Known, MergeExecuted, Book
  <1> QED
    BY <1>1, <1>2, <1>3, <1>4, <1>5

LEMMA KnownAfterFinalize ==
  ASSUME NEW b \in Book, NEW t \in Tickers, NEW u \in Tickers,
         b.entry[t] = "executing"
  PROVE  LET c == AddStop(MarkEntryExecuted(b, t), t)
         IN  /\ c.executed = b.executed \cup {t}
             /\ Known(u, b) => Known(u, c)
  <1>1. MarkEntryExecuted(b, t) = [entry    |-> [b.entry EXCEPT ![t] = "none"],
                                   stops    |-> b.stops,
                                   executed |-> b.executed \cup {t}]
    BY DEF MarkEntryExecuted, Book
  <1>2. AddStop(MarkEntryExecuted(b, t), t) = [entry    |-> [b.entry EXCEPT ![t] = "none"],
                                               stops    |-> b.stops \cup {t},
                                               executed |-> b.executed \cup {t}]
    BY <1>1 DEF AddStop
  <1> QED
    BY <1>2 DEF Known, Book

\* A reconciliation that read everything leaves no exposed order in doubt.
LEMMA ReconcileSettles ==
  ASSUME TypeOK, NEW t \in Tickers, ExposedTicker(t), Known(t, mem),
         \A i \in DOMAIN orders[t] : Definite(orders[t][i])
  PROVE  t \in tradesDb \/ t \in ReconcileBook(mem, ExecutingEntries(mem)).executed
  <1>1. Held(t) \/ WorkingBuy(t)
    BY DEF ExposedTicker, Exposed, Held, WorkingBuy
  <1>2. ReconcileBook(mem, ExecutingEntries(mem)).executed
          = mem.executed \cup {u \in ExecutingEntries(mem) : Held(u) \/ WorkingBuy(u)}
    BY DEF ReconcileBook, TypeOK, Book
  <1>3. mem.entry[t] = "executing" => t \in ExecutingEntries(mem)
    BY DEF ExecutingEntries
  <1> QED
    BY <1>1, <1>2, <1>3 DEF Known

LEMMA NoTimeout ==
  ASSUME BrokerAnswers, TypeOK, Control, WriteAhead, pc = "placed"
  PROVE  LastResult # "Timeout"
  <1>1. cur \in Tickers /\ orders[cur] \in Seq(Order) /\ orders[cur] # << >>
    BY DEF Control, TypeOK, Busy
  <1> DEFINE o == orders[cur][Len(orders[cur])]
  <1>2. Len(orders[cur]) \in DOMAIN orders[cur]
    BY <1>1
  <1>3. o \in Order /\ Definite(o)
    BY <1>1, <1>2 DEF WriteAhead
  <1> QED
    BY <1>3 DEF LastResult, Result, Live, LiveStates, Definite, BrokerAnswers, Order

\* The steps after which the disk, the trades database and the traded
\* tickers are what they were, outside the "entries" and "boot" states.
LEMMA SameStores ==
  ASSUME Accounted, UNCHANGED <<disk, tradesDb>>, traded' \subseteq traded,
         \A t \in Tickers : ExposedTicker(t)' => ExposedTicker(t),
         traded \subseteq Tickers,
         pc' \notin {"boot", "entries"}
  PROVE  Accounted'
  BY DEF Accounted, Known

LEMMA AccountedNext ==
  ASSUME BrokerAnswers, "unreadable" \notin Faults,
         TypeOK, Control, Fresh, WriteAhead, AtMostOneExposedOrder, Accounted,
         [Next]_vars
  PROVE  Accounted'
  <1> USE DEF Busy
  <1>1. ASSUME UNCHANGED orders
        PROVE  \A t \in Tickers : ExposedTicker(t)' <=> ExposedTicker(t)
    BY <1>1, SameOrders
  <1>2. traded \subseteq Tickers /\ disk \in Book /\ mem \in Book
    BY DEF TypeOK
  <1>3. CASE Boot
    BY <1>1, <1>2, <1>3 DEF Boot, durable, Accounted, Known
  <1>4. CASE Reconcile
    <2>1. ReconcileBook(mem, {}) = mem
      <3>1. [t \in Tickers |-> mem.entry[t]] = mem.entry
        BY <1>2 DEF Book
      <3>2. ReconcileBook(mem, {}) = [mem EXCEPT !.entry = mem.entry,
                                                !.executed = mem.executed]
        BY <3>1 DEF ReconcileBook
      <3> QED
        BY <1>2, <3>2 DEF Book
    <2>2. /\ mem' = ReconcileBook(mem, ExecutingEntries(mem))
          /\ UNCHANGED <<orders, tradesDb>> /\ pc' = "poll"
          /\ disk' = IF ExecutingEntries(mem) # {} THEN mem' ELSE disk
      BY <1>4 DEF Reconcile
    <2>3. mem = disk
      BY <1>4 DEF Reconcile, Accounted
    <2>4. disk' = mem'
      BY <2>1, <2>2, <2>3
    <2>5. \A t \in Tickers : ExposedTicker(t) => t \in tradesDb \/ t \in disk'.executed
      BY <2>2, <2>3, <2>4, ReconcileSettles DEF Accounted, WriteAhead
    <2>6. traded' \subseteq Tickers
      BY <1>4, TypeNext DEF TypeOK
    <2> QED
      BY <1>1, <2>2, <2>5, <2>6 DEF Accounted, Known
  <1>5. CASE Tick
    <2>1. /\ mem' = MergeExecuted(disk, traded) /\ disk' \in {mem', disk}
          /\ UNCHANGED <<orders, tradesDb, traded>> /\ pc' = "entries"
      BY <1>5 DEF Tick
    <2>2. mem'.executed = disk.executed /\ disk'.executed = disk.executed
      BY <1>2, <2>1 DEF MergeExecuted, Book
    <2>3. \A t \in Tickers : ExposedTicker(t) => Known(t, mem')
      <3> SUFFICES ASSUME NEW t \in Tickers, ExposedTicker(t) PROVE Known(t, mem')
        OBVIOUS
      <3>1. CASE t \in traded
        BY <2>2, <3>1 DEF Accounted, Known
      <3>2. CASE t \notin traded
        BY <1>2, <2>1, <3>2, KnownAfter DEF Accounted
      <3> QED
        BY <3>1, <3>2
    <2>4. \A t \in Tickers : ExposedTicker(t) => Known(t, disk')
      BY <2>1, <2>3 DEF Accounted
    <2> QED
      BY <1>1, <1>2, <2>1, <2>2, <2>3, <2>4 DEF Accounted, Known
  <1>6. CASE EndTick
    BY <1>1, <1>2, <1>6, SameStores DEF EndTick, durable
  <1>7. ASSUME NEW t \in Tickers, NoTrigger(t)
        PROVE  Accounted'
    BY <1>1, <1>2, <1>7 DEF NoTrigger, durable, Accounted, Known
  <1>8. ASSUME NEW t \in Tickers, RefuseEntry(t)
        PROVE  Accounted'
    <2>1. ~ExposedTicker(t)
      BY <1>8 DEF RefuseEntry, WriteAhead
    <2> QED
      BY <1>1, <1>2, <1>8, <2>1 DEF RefuseEntry, durable, Accounted, Known
  <1>9. ASSUME NEW t \in Tickers, BeginEntry(t)
        PROVE  Accounted'
    <2>1. /\ mem' = MarkEntryExecuting(mem, t) /\ disk' = mem' /\ pc = "entries"
          /\ UNCHANGED <<orders, tradesDb, traded>> /\ pc' = "wal"
      BY <1>9 DEF BeginEntry
    <2>2. mem'.executed = mem.executed
      BY <1>2, <2>1, KnownAfter
    <2>3. \A u \in Tickers : Known(u, mem) => Known(u, mem')
      BY <1>2, <2>1, KnownAfter
    <2> QED
      BY <1>1, <1>2, <2>1, <2>2, <2>3 DEF Accounted, Known
  <1>10. CASE PlaceOrder
    <2>1. /\ UNCHANGED <<disk, tradesDb, traded>> /\ pc' = "placed"
          /\ \A t \in Tickers \ {cur} : orders'[t] = orders[t]
      BY <1>10 DEF PlaceOrder, TypeOK
    <2>2. cur \notin traded /\ Known(cur, disk)
      BY <1>10 DEF PlaceOrder, Fresh, WriteAhead, Known
    <2>3. \A t \in Tickers \ {cur} : ExposedTicker(t)' <=> ExposedTicker(t)
      BY <2>1 DEF ExposedTicker
    <2> QED
      BY <1>2, <2>1, <2>2, <2>3 DEF Accounted, Known
  <1>11. CASE FailQualification
    BY <1>1, <1>2, <1>11, SameStores DEF FailQualification, durable
  <1>12. CASE RetryOrder
    <2>1. UNCHANGED orders
      BY <1>12, NoTimeout DEF RetryOrder
    <2> QED
      BY <1>1, <1>2, <1>12, <2>1, SameStores DEF RetryOrder
  <1>13. CASE RejectedEntry
    <2>1. cur \in Tickers /\ disk = mem
      BY <1>13 DEF RejectedEntry, Control, WriteAhead
    <2>2. ~ExposedTicker(cur)
      BY <1>13, RejectedNotExposed
    <2>3. /\ mem' = RevertEntryToPending(mem, cur) /\ disk' = mem'
          /\ UNCHANGED <<orders, tradesDb>> /\ traded' = traded \cup {cur}
          /\ pc' = "entries"
      BY <1>13 DEF RejectedEntry, EntryDone
    <2>4. /\ mem'.executed = mem.executed
          /\ \A u \in Tickers \ {cur} : Known(u, mem) => Known(u, mem')
      BY <1>2, <2>1, <2>3, KnownAfter
    <2> QED
      BY <1>1, <1>2, <2>1, <2>2, <2>3, <2>4 DEF Accounted, Known
  <1>14. CASE TimeoutEntry
    BY <1>14, NoTimeout DEF TimeoutEntry
  <1>15. CASE AcceptedEntry
    BY <1>1, <1>2, <1>15, SameStores DEF AcceptedEntry
  <1>16. CASE LogTrade
    BY <1>1, <1>2, <1>16 DEF LogTrade, Accounted, Known
  <1>17. CASE FinalizeEntry
    <2>1. cur \in Tickers /\ disk = mem /\ mem.entry[cur] = "executing"
      BY <1>17 DEF FinalizeEntry, Control, WriteAhead
    <2>2. /\ mem' = AddStop(MarkEntryExecuted(mem, cur), cur) /\ disk' = mem'
          /\ UNCHANGED <<orders, tradesDb>> /\ traded' = traded \cup {cur}
          /\ pc' = "entries"
      BY <1>17 DEF FinalizeEntry, EntryDone
    <2>3. /\ mem'.executed = mem.executed \cup {cur}
          /\ \A u \in Tickers : Known(u, mem) => Known(u, mem')
      BY <1>2, <2>1, <2>2, KnownAfterFinalize
    <2> QED
      BY <1>1, <1>2, <2>1, <2>2, <2>3 DEF Accounted, Known
  <1>18. CASE LoseConnection
    BY <1>1, <1>2, <1>18, SameStores DEF LoseConnection, durable
  <1>19. CASE Crash
    BY <1>1, <1>2, <1>19, SameStores DEF Crash, durable
  <1>20. CASE Close
    BY <1>1, <1>2, <1>20, SameStores DEF Close, durable
  <1>21. CASE Planning
    BY <1>21 DEF Planning, StartReplan, FinishReplan, BrokerAnswers, WriteAhead, TypeOK
  <1>22. CASE BrokerStep
    <2>1. \A t \in Tickers : ExposedTicker(t)' => ExposedTicker(t)
      BY <1>22, BrokerExposesNothing DEF WriteAhead, ExposedTicker
    <2>2. UNCHANGED <<disk, tradesDb, mem, traded, pc>>
      BY <1>22 DEF BrokerStep, Acknowledge, Fill, CancelAtBroker, SetOrder, daemon
    <2> QED
      BY <1>2, <2>1, <2>2 DEF Accounted, Known
  <1>23. CASE UNCHANGED vars
    BY <1>1, <1>2, <1>23 DEF vars, durable, daemon, Accounted, Known
  <1> QED
    BY <1>3, <1>4, <1>5, <1>6, <1>7, <1>8, <1>9, <1>10, <1>11, <1>12, <1>13,
       <1>14, <1>15, <1>16, <1>17, <1>18, <1>19, <1>20, <1>21, <1>22, <1>23
       DEF Next, DaemonStep

\* With a broker whose answers are definite and can be read, every order that
\* is or may become a position is in the trades database, in executed_today or
\* under an in-doubt record on disk, through any crashes and restarts.
THEOREM EntryAccounted ==
  ASSUME BrokerAnswers, "unreadable" \notin Faults
  PROVE  Spec => []EveryOrderAccounted
  <1> DEFINE Inv == /\ TypeOK /\ Control /\ Fresh
                    /\ WriteAhead /\ AtMostOneExposedOrder /\ Accounted
  <1>1. Init => Inv
    <2>1. Init => Fresh /\ Accounted
      BY DEF Init, Fresh, Accounted, ExposedTicker, Busy
    <2> QED
      BY <2>1, TypeInit, WriteAheadInit
  <1>2. Inv /\ [Next]_vars => Inv'
    BY TypeNext, FreshNext, WriteAheadNext, AccountedNext
  <1>3. Inv => EveryOrderAccounted
    BY DEF Accounted, Known, EveryOrderAccounted
  <1> QED
    BY <1>1, <1>2, <1>3, PTL DEF Spec

-----------------------------------------------------------------------------
(* The promise: EntryExecution implements EntryPromise with a broker that  *)
(* answers and can be read.                                                *)

\* The daemon always learns what became of an order it sent.
BrokerReadable == BrokerAnswers /\ Faults \cap {"unreadable", "connlost"} = {}

\* At most one entry is claimed on disk: the one in hand, or the one a crash
\* left.  No claimed entry is executed, and a running daemon knows what is.
OneClaim ==
  /\ \A t, u \in ExecutingEntries(disk) : t = u
  /\ ExecutingEntries(disk) \cap disk.executed = {}
  /\ pc = "boot" => mem = disk
  /\ pc \in {"poll", "entries"} => ExecutingEntries(disk) = {} /\ ExecutingEntries(mem) = {}
  /\ pc = "entries" => mem.executed = disk.executed
  /\ Busy => ExecutingEntries(disk) = {cur}
  /\ pc = "poll" \/ pc = "entries" \/ Busy => disk.executed \subseteq traded

\* What each step does to the executing records and the executed tickers.
LEMMA BooksAfter ==
  ASSUME NEW b \in Book, NEW t \in Tickers
  PROVE  /\ b.entry[t] = "pending" =>
              ExecutingEntries(MarkEntryExecuting(b, t)) = ExecutingEntries(b) \cup {t}
         /\ ExecutingEntries(RevertEntryToPending(b, t)) = ExecutingEntries(b) \ {t}
         /\ MarkEntryExecuting(b, t).executed = b.executed
         /\ RevertEntryToPending(b, t).executed = b.executed
  <1>1. /\ b.entry[t] = "pending" =>
             ExecutingEntries(MarkEntryExecuting(b, t)) = ExecutingEntries(b) \cup {t}
        /\ MarkEntryExecuting(b, t).executed = b.executed
    BY DEF ExecutingEntries, MarkEntryExecuting, Book
  <1>2. /\ ExecutingEntries(RevertEntryToPending(b, t)) = ExecutingEntries(b) \ {t}
        /\ RevertEntryToPending(b, t).executed = b.executed
    BY DEF ExecutingEntries, RevertEntryToPending, Book
  <1> QED
    BY <1>1, <1>2

LEMMA BookAfterMerge ==
  ASSUME NEW b \in Book, NEW S
  PROVE  /\ ExecutingEntries(MergeExecuted(b, S)) = ExecutingEntries(b) \ S
         /\ MergeExecuted(b, S).executed = b.executed
  BY DEF ExecutingEntries, MergeExecuted, Book

LEMMA BookAfterFinalize ==
  ASSUME NEW b \in Book, NEW t \in Tickers, b.entry[t] = "executing"
  PROVE  LET c == AddStop(MarkEntryExecuted(b, t), t)
         IN  /\ ExecutingEntries(c) = ExecutingEntries(b) \ {t}
             /\ c.executed = b.executed \cup {t}
  <1>1. MarkEntryExecuted(b, t) = [entry    |-> [b.entry EXCEPT ![t] = "none"],
                                   stops    |-> b.stops,
                                   executed |-> b.executed \cup {t}]
    BY DEF MarkEntryExecuted, Book
  <1>2. AddStop(MarkEntryExecuted(b, t), t) = [entry    |-> [b.entry EXCEPT ![t] = "none"],
                                               stops    |-> b.stops \cup {t},
                                               executed |-> b.executed \cup {t}]
    BY <1>1 DEF AddStop
  <1> QED
    BY <1>2 DEF ExecutingEntries, Book

\* A reconciliation that can read the broker settles every record in doubt.
LEMMA BookAfterReconcile ==
  ASSUME NEW b \in Book
  PROVE  LET c == ReconcileBook(b, ExecutingEntries(b))
         IN  /\ ExecutingEntries(c) = {}
             /\ c.executed = b.executed \cup
                  {t \in ExecutingEntries(b) : Held(t) \/ WorkingBuy(t)}
  BY DEF ReconcileBook, ExecutingEntries, Book

\* What a step from the entry loop or an executing entry leaves alone.
LEMMA ReconcileReads ==
  ASSUME BrokerReadable, TypeOK, OneClaim, Reconcile
  PROVE  /\ mem = disk
         /\ mem' = ReconcileBook(mem, ExecutingEntries(mem))
         /\ disk' = mem' \/ (ExecutingEntries(mem) = {} /\ disk' = mem)
         /\ ExecutingEntries(disk)' = {} /\ ExecutingEntries(mem)' = {}
         /\ disk'.executed = mem'.executed
         /\ mem'.executed \subseteq traded'
         /\ UNCHANGED orders /\ pc' = "poll"
  <1>1. /\ mem = disk
        /\ mem' = ReconcileBook(mem, ExecutingEntries(mem))
        /\ disk' = IF ExecutingEntries(mem) # {} THEN mem' ELSE disk
        /\ UNCHANGED orders /\ pc' = "poll"
    BY DEF BrokerReadable, Reconcile, OneClaim
  <1>2. mem'.executed \subseteq traded'
    BY DEF Reconcile, SeedTraded
  <1>3. mem \in Book
    BY DEF TypeOK
  <1>4. /\ ExecutingEntries(mem') = {}
        /\ mem'.executed = mem.executed \cup
             {t \in ExecutingEntries(mem) : Held(t) \/ WorkingBuy(t)}
    BY <1>1, <1>3, BookAfterReconcile
  <1>5. ExecutingEntries(mem)' = {} /\ ExecutingEntries(disk)' = {}
    BY <1>1, <1>4 DEF ExecutingEntries
  <1>6. disk'.executed = mem'.executed
    BY <1>1, <1>4
  <1> QED
    BY <1>1, <1>2, <1>5, <1>6

\* An entry about to be claimed is neither executed nor at the broker.
LEMMA BeginsFree ==
  ASSUME TypeOK, Fresh, WriteAhead, OneClaim, NEW t \in Tickers, BeginEntry(t)
  PROVE  /\ mem.entry[t] = "pending" /\ ~ExposedTicker(t)
         /\ t \notin disk.executed /\ t \notin mem.executed
         /\ ExecutingEntries(disk) = {} /\ ExecutingEntries(mem) = {}
         /\ mem.executed = disk.executed
         /\ disk' = mem' /\ mem' = MarkEntryExecuting(mem, t)
         /\ ExecutingEntries(disk)' = {t} /\ ExecutingEntries(mem)' = {t}
         /\ disk'.executed = disk.executed
         /\ UNCHANGED <<orders, traded>> /\ pc' = "wal" /\ cur' = t
  <1>1. pc = "entries" /\ t \in PendingEntries(mem)
    BY DEF BeginEntry, WriteAhead
  <1>2. mem.entry[t] = "pending" /\ ~ExposedTicker(t)
    BY <1>1 DEF WriteAhead, PendingEntries
  <1>3. t \notin disk.executed /\ mem.executed = disk.executed
    BY <1>1 DEF BeginEntry, Fresh, OneClaim
  <1>4. ExecutingEntries(disk) = {} /\ ExecutingEntries(mem) = {}
    BY <1>1 DEF OneClaim
  <1>5. /\ disk' = mem' /\ mem' = MarkEntryExecuting(mem, t)
        /\ UNCHANGED <<orders, traded>> /\ pc' = "wal" /\ cur' = t
    BY DEF BeginEntry
  <1>6. ExecutingEntries(mem') = {t} /\ mem'.executed = mem.executed
    BY <1>2, <1>4, <1>5, BooksAfter DEF TypeOK
  <1>7. ExecutingEntries(mem)' = {t} /\ ExecutingEntries(disk)' = {t}
    BY <1>5, <1>6 DEF ExecutingEntries
  <1> QED
    BY <1>2, <1>3, <1>4, <1>5, <1>6, <1>7

LEMMA OneClaimInit == Init => OneClaim
  BY DEF Init, OneClaim, ExecutingEntries, PlannedBook, EmptyBook, Busy

LEMMA OneClaimNext ==
  ASSUME BrokerReadable, TypeOK, Control, Fresh, WriteAhead, OneClaim, [Next]_vars
  PROVE  OneClaim'
  <1> USE DEF Busy
  <1>0. disk \in Book /\ mem \in Book
    BY DEF TypeOK
  <1>1. CASE Boot
    BY <1>1 DEF Boot, durable, OneClaim, ExecutingEntries
  <1>2. CASE Reconcile
    BY <1>2, ReconcileReads DEF OneClaim
  <1>3. CASE Tick
    <2>1. /\ ExecutingEntries(disk) = {} /\ disk.executed \subseteq traded
          /\ mem' = MergeExecuted(disk, traded) /\ disk' \in {mem', disk}
          /\ pc' = "entries" /\ UNCHANGED traded
      BY <1>3 DEF Tick, OneClaim
    <2>2. ExecutingEntries(mem') = {} /\ mem'.executed = disk.executed
      BY <1>0, <2>1, BookAfterMerge
    <2>3. ExecutingEntries(mem)' = {} /\ ExecutingEntries(disk)' = {}
      BY <2>1, <2>2 DEF ExecutingEntries
    <2> QED
      BY <2>1, <2>2, <2>3 DEF OneClaim
  <1>4. CASE EndTick
    BY <1>4 DEF EndTick, durable, OneClaim, ExecutingEntries
  <1>5. ASSUME NEW t \in Tickers, NoTrigger(t)
        PROVE  OneClaim'
    BY <1>5 DEF NoTrigger, durable, OneClaim, ExecutingEntries
  <1>6. ASSUME NEW t \in Tickers, RefuseEntry(t)
        PROVE  OneClaim'
    BY <1>6 DEF RefuseEntry, durable, OneClaim, ExecutingEntries
  <1>7. ASSUME NEW t \in Tickers, BeginEntry(t)
        PROVE  OneClaim'
    <2>1. disk.executed \subseteq traded
      BY <1>7 DEF BeginEntry, OneClaim
    <2> QED
      BY <1>7, <2>1, BeginsFree DEF OneClaim
  <1>8. CASE PlaceOrder
    BY <1>8 DEF PlaceOrder, OneClaim, ExecutingEntries
  <1>9. CASE FailQualification
    BY <1>9 DEF FailQualification, durable, OneClaim, ExecutingEntries
  <1>10. CASE RetryOrder
    BY <1>10 DEF RetryOrder, OneClaim, ExecutingEntries
  <1>11. CASE RejectedEntry
    <2>1. /\ disk = mem /\ cur \in Tickers /\ ExecutingEntries(disk) = {cur}
          /\ ExecutingEntries(disk) \cap disk.executed = {}
          /\ disk.executed \subseteq traded
      BY <1>11 DEF RejectedEntry, WriteAhead, Control, OneClaim
    <2>2. /\ mem' = RevertEntryToPending(mem, cur) /\ disk' = mem'
          /\ pc' = "entries" /\ traded' = traded \cup {cur}
      BY <1>11 DEF RejectedEntry, EntryDone
    <2>3. ExecutingEntries(mem') = {} /\ mem'.executed = mem.executed
      BY <1>0, <2>1, <2>2, BooksAfter
    <2>4. ExecutingEntries(mem)' = {} /\ ExecutingEntries(disk)' = {}
      BY <2>2, <2>3 DEF ExecutingEntries
    <2> QED
      BY <2>1, <2>2, <2>3, <2>4 DEF OneClaim
  <1>12. CASE TimeoutEntry
    BY <1>12, NoTimeout DEF TimeoutEntry, BrokerReadable
  <1>13. CASE AcceptedEntry
    BY <1>13 DEF AcceptedEntry, OneClaim, ExecutingEntries
  <1>14. CASE LogTrade
    BY <1>14 DEF LogTrade, OneClaim, ExecutingEntries
  <1>15. CASE FinalizeEntry
    <2>1. /\ disk = mem /\ cur \in Tickers /\ ExecutingEntries(disk) = {cur}
          /\ mem.entry[cur] = "executing" /\ disk.executed \subseteq traded
      BY <1>15 DEF FinalizeEntry, WriteAhead, Control, OneClaim
    <2>2. /\ mem' = AddStop(MarkEntryExecuted(mem, cur), cur) /\ disk' = mem'
          /\ pc' = "entries" /\ traded' = traded \cup {cur}
      BY <1>15 DEF FinalizeEntry, EntryDone
    <2>3. ExecutingEntries(mem') = {} /\ mem'.executed = mem.executed \cup {cur}
      BY <1>0, <2>1, <2>2, BookAfterFinalize
    <2>4. ExecutingEntries(mem)' = {} /\ ExecutingEntries(disk)' = {}
      BY <2>2, <2>3 DEF ExecutingEntries
    <2> QED
      BY <2>1, <2>2, <2>3, <2>4 DEF OneClaim
  <1>16. CASE LoseConnection
    BY <1>16 DEF LoseConnection, BrokerReadable
  <1>17. CASE Crash
    BY <1>17 DEF Crash, durable, OneClaim, ExecutingEntries
  <1>18. CASE Close
    BY <1>18 DEF Close, durable, OneClaim, ExecutingEntries
  <1>19. CASE Planning
    BY <1>19 DEF Planning, StartReplan, FinishReplan, BrokerReadable, BrokerAnswers,
                 WriteAhead, TypeOK
  <1>20. CASE BrokerStep
    BY <1>20 DEF BrokerStep, Acknowledge, Fill, CancelAtBroker, SetOrder, daemon,
                 OneClaim, ExecutingEntries
  <1>21. CASE UNCHANGED vars
    BY <1>21 DEF vars, durable, daemon, OneClaim, ExecutingEntries
  <1> QED
    BY <1>1, <1>2, <1>3, <1>4, <1>5, <1>6, <1>7, <1>8, <1>9, <1>10, <1>11,
       <1>12, <1>13, <1>14, <1>15, <1>16, <1>17, <1>18, <1>19, <1>20, <1>21
       DEF Next, DaemonStep

-----------------------------------------------------------------------------
(* Each step is a step of the promise, or none.                            *)

\* What the books and the broker say of one ticker.
Seen(t) == <<ClaimOn(t), WorkingBuy(t), SharesOf(t)>>

Untouched(t) == ~WorkingBuy(t) /\ SharesOf(t) = 0

\* A step that leaves the books' claims and the orders alone is a stutter.
LEMMA NothingSeen ==
  ASSUME \A t \in Tickers : Seen(t)' = Seen(t)
  PROVE  UNCHANGED Promise!vars
  BY DEF Promise!vars, Seen

\* A step that changes what is seen of one ticker, in one of the ways the
\* promise allows.
LEMMA OneSeen ==
  ASSUME NEW t \in Tickers,
         \A u \in Tickers \ {t} : Seen(u)' = Seen(u),
         \/ ClaimOn(t) = "free" /\ Untouched(t) /\ ClaimOn(t)' = "claimed"
            /\ (WorkingBuy(t)' <=> WorkingBuy(t)) /\ SharesOf(t)' = SharesOf(t)
         \/ ClaimOn(t) = "claimed" /\ Untouched(t) /\ ClaimOn(t)' = "free"
            /\ (WorkingBuy(t)' <=> WorkingBuy(t)) /\ SharesOf(t)' = SharesOf(t)
         \/ ClaimOn(t) = "claimed" /\ ClaimOn(t)' = "done"
            /\ (WorkingBuy(t)' <=> WorkingBuy(t)) /\ SharesOf(t)' = SharesOf(t)
         \/ ClaimOn(t) = "claimed" /\ Untouched(t) /\ WorkingBuy(t)'
            /\ ClaimOn(t)' = ClaimOn(t) /\ SharesOf(t)' = SharesOf(t)
         \/ /\ WorkingBuy(t) /\ ClaimOn(t)' = ClaimOn(t)
            /\ \E n \in SharesOf(t) + 1 .. Lot :
                 SharesOf(t)' = n /\ (WorkingBuy(t)' <=> n < Lot)
         \/ WorkingBuy(t) /\ SharesOf(t) = 0 /\ ~WorkingBuy(t)'
            /\ ClaimOn(t)' = ClaimOn(t) /\ SharesOf(t)' = SharesOf(t)
  PROVE  Promise!Next
  <1> DEFINE C == [u \in Tickers |-> ClaimOn(u)]
             W == [u \in Tickers |-> WorkingBuy(u)]
             B == [u \in Tickers |-> SharesOf(u)]
  <1>1. /\ C' = [C EXCEPT ![t] = ClaimOn(t)']
        /\ W' = [W EXCEPT ![t] = WorkingBuy(t)']
        /\ B' = [B EXCEPT ![t] = SharesOf(t)']
    BY DEF Seen
  <1>b. WorkingBuy(t) \in BOOLEAN /\ WorkingBuy(t)' \in BOOLEAN
    BY DEF WorkingBuy
  <1>2. C[t] = ClaimOn(t) /\ W[t] = WorkingBuy(t) /\ B[t] = SharesOf(t)
    OBVIOUS
  <1>3. /\ ClaimOn(t)' = ClaimOn(t) => C' = C
        /\ (WorkingBuy(t)' <=> WorkingBuy(t)) => W' = W
        /\ SharesOf(t)' = SharesOf(t) => B' = B
    BY <1>1, <1>b
  <1> HIDE DEF C, W, B
  <1>4. CASE ClaimOn(t) = "free" /\ Untouched(t) /\ ClaimOn(t)' = "claimed"
             /\ (WorkingBuy(t)' <=> WorkingBuy(t)) /\ SharesOf(t)' = SharesOf(t)
    <2>1. Promise!Claim(t)
      BY <1>1, <1>2, <1>3, <1>b, <1>4 DEF Promise!Claim, Promise!Untouched, Untouched, C, W, B
    <2> QED
      BY <2>1 DEF Promise!Next
  <1>5. CASE ClaimOn(t) = "claimed" /\ Untouched(t) /\ ClaimOn(t)' = "free"
             /\ (WorkingBuy(t)' <=> WorkingBuy(t)) /\ SharesOf(t)' = SharesOf(t)
    <2>1. Promise!Release(t)
      BY <1>1, <1>2, <1>3, <1>b, <1>5 DEF Promise!Release, Promise!Untouched, Untouched, C, W, B
    <2> QED
      BY <2>1 DEF Promise!Next
  <1>6. CASE ClaimOn(t) = "claimed" /\ ClaimOn(t)' = "done"
             /\ (WorkingBuy(t)' <=> WorkingBuy(t)) /\ SharesOf(t)' = SharesOf(t)
    <2>1. Promise!Settle(t)
      BY <1>1, <1>2, <1>3, <1>b, <1>6 DEF Promise!Settle, C, W, B
    <2> QED
      BY <2>1 DEF Promise!Next
  <1>7. CASE ClaimOn(t) = "claimed" /\ Untouched(t) /\ WorkingBuy(t)'
             /\ ClaimOn(t)' = ClaimOn(t) /\ SharesOf(t)' = SharesOf(t)
    <2>1. Promise!Submit(t)
      BY <1>1, <1>2, <1>3, <1>b, <1>7 DEF Promise!Submit, Promise!Untouched, Untouched, C, W, B
    <2> QED
      BY <2>1 DEF Promise!Next
  <1>8. CASE /\ WorkingBuy(t) /\ ClaimOn(t)' = ClaimOn(t)
             /\ \E n \in SharesOf(t) + 1 .. Lot :
                  SharesOf(t)' = n /\ (WorkingBuy(t)' <=> n < Lot)
    <2>1. PICK n \in SharesOf(t) + 1 .. Lot :
            SharesOf(t)' = n /\ (WorkingBuy(t)' <=> n < Lot)
      BY <1>8
    <2>2. WorkingBuy(t)' = (n < Lot)
      BY <1>b, <2>1
    <2>3. B' = [B EXCEPT ![t] = n] /\ W' = [W EXCEPT ![t] = n < Lot]
      BY <1>1, <2>1, <2>2
    <2>4. W[t] /\ n \in B[t] + 1 .. Lot /\ C' = C
      BY <1>2, <1>3, <1>8, <2>1
    <2>5. Promise!Fill(t)
      BY <2>3, <2>4 DEF Promise!Fill, C, W, B
    <2> QED
      BY <2>5 DEF Promise!Next
  <1>9. CASE WorkingBuy(t) /\ SharesOf(t) = 0 /\ ~WorkingBuy(t)'
             /\ ClaimOn(t)' = ClaimOn(t) /\ SharesOf(t)' = SharesOf(t)
    <2>1. Promise!Reject(t)
      BY <1>1, <1>2, <1>3, <1>b, <1>9 DEF Promise!Reject, C, W, B
    <2> QED
      BY <2>1 DEF Promise!Next
  <1> QED
    BY <1>4, <1>5, <1>6, <1>7, <1>8, <1>9

LEMMA ClaimSeen ==
  ASSUME NEW t \in Tickers
  PROVE  /\ ClaimOn(t) = IF t \in ExecutingEntries(disk) THEN "claimed"
                         ELSE IF t \in disk.executed THEN "done" ELSE "free"
         /\ ClaimOn(t)' = IF t \in ExecutingEntries(disk)' THEN "claimed"
                          ELSE IF t \in disk'.executed THEN "done" ELSE "free"
  BY DEF ClaimOn, ExecutingEntries

LEMMA OrdersSeen ==
  ASSUME NEW t \in Tickers, orders'[t] = orders[t]
  PROVE  WorkingBuy(t)' = WorkingBuy(t) /\ SharesOf(t)' = SharesOf(t)
  <1>1. WorkingBuy(t)' = WorkingBuy(t)
    BY DEF WorkingBuy
  <1>2. Buys(t)' = Buys(t)
    BY DEF Buys
  <1>3. SharesOf(t)' = SharesOf(t)
    BY <1>2 DEF SharesOf
  <1> QED
    BY <1>1, <1>3

\* A step that changes neither the claims on disk nor the orders.
LEMMA Stutters ==
  ASSUME UNCHANGED orders, ExecutingEntries(disk)' = ExecutingEntries(disk),
         disk'.executed = disk.executed
  PROVE  UNCHANGED Promise!vars
  <1>1. \A t \in Tickers : ClaimOn(t)' = ClaimOn(t)
    BY ClaimSeen
  <1>2. \A t \in Tickers : WorkingBuy(t)' = WorkingBuy(t) /\ SharesOf(t)' = SharesOf(t)
    BY OrdersSeen
  <1> QED
    BY <1>1, <1>2, NothingSeen DEF Seen

LEMMA UnexposedUntouched ==
  ASSUME TypeOK, NEW t \in Tickers, ~ExposedTicker(t)
  PROVE  Untouched(t)
  <1>1. ~WorkingBuy(t)
    BY DEF WorkingBuy, ExposedTicker, Exposed
  <1>2. Buys(t) = {}
    BY DEF Buys, ExposedTicker, Exposed
  <1> QED
    BY <1>1, <1>2 DEF Untouched, SharesOf

\* The one order of a ticker that is or may become a position.
LEMMA TheOrderSeen ==
  ASSUME NEW t \in Tickers, orders[t] \in Seq(Order), NEW i \in DOMAIN orders[t],
         \A j \in DOMAIN orders[t] : Exposed(orders[t][j]) => j = i
  PROVE  /\ SharesOf(t) = orders[t][i].filled
         /\ WorkingBuy(t) <=> Live(orders[t][i])
  <1>1. orders[t][i] \in Order
    OBVIOUS
  <1>2. orders[t][i].filled \in Nat
    BY <1>1, ConstantsAssumption DEF Order
  <1>3. Buys(t) = IF orders[t][i].filled = 0 THEN {} ELSE {i}
    BY <1>2 DEF Buys, Exposed
  <1>4. SharesOf(t) = orders[t][i].filled
    <2>1. CASE orders[t][i].filled = 0
      BY <1>3, <2>1 DEF SharesOf
    <2>2. CASE orders[t][i].filled # 0
      <3>1. Buys(t) = {i} /\ (CHOOSE j \in {i} : TRUE) = i
        BY <1>3, <2>2
      <3> QED
        BY <3>1 DEF SharesOf
    <2> QED
      BY <2>1, <2>2
  <1>5. WorkingBuy(t) <=> Live(orders[t][i])
    BY DEF WorkingBuy, Exposed
  <1> QED
    BY <1>4, <1>5

LEMMA PromiseInit == Init => Promise!Init
  <1> SUFFICES ASSUME Init PROVE Promise!Init
    OBVIOUS
  <1>1. \A t \in Tickers : orders[t] = << >>
    BY DEF Init
  <1>2. \A t \in Tickers : ClaimOn(t) = "free"
    BY DEF Init, ClaimOn, PlannedBook
  <1>3. \A t \in Tickers : WorkingBuy(t) = FALSE
    BY <1>1 DEF WorkingBuy
  <1>4. \A t \in Tickers : Buys(t) = {}
    BY <1>1 DEF Buys
  <1>5. \A t \in Tickers : SharesOf(t) = 0
    BY <1>4 DEF SharesOf
  <1> QED
    BY <1>2, <1>3, <1>5 DEF Promise!Init

LEMMA BrokerKeeps ==
  ASSUME BrokerReadable, TypeOK, WriteAhead, AtMostOneExposedOrder, BrokerStep
  PROVE  Promise!Next
  <1>1. PICK t \in Tickers : \E i \in DOMAIN orders[t] :
          Acknowledge(t, i) \/ Fill(t, i) \/ CancelAtBroker(t, i)
    BY DEF BrokerStep
  <1>2. PICK i \in DOMAIN orders[t] :
          Acknowledge(t, i) \/ Fill(t, i) \/ CancelAtBroker(t, i)
    BY <1>1
  <1>3. /\ orders[t] \in Seq(Order) /\ orders[t][i] \in Order
        /\ Definite(orders[t][i])
    BY DEF TypeOK, WriteAhead
  <1>4. ~Acknowledge(t, i)
    BY <1>3 DEF Acknowledge, Definite
  <1>5. orders[t][i].st = "working" /\ Live(orders[t][i])
    BY <1>2, <1>3, <1>4 DEF Fill, CancelAtBroker, Live, LiveStates, Definite
  <1>6. \A j \in DOMAIN orders[t] : Exposed(orders[t][j]) => j = i
    BY <1>5 DEF AtMostOneExposedOrder, Exposed
  <1>7. SharesOf(t) = orders[t][i].filled /\ WorkingBuy(t)
    BY <1>3, <1>5, <1>6, TheOrderSeen
  <1>8. PICK o \in Order :
          /\ UNCHANGED disk /\ orders' = [orders EXCEPT ![t][i] = o]
          /\ \/ \E n \in orders[t][i].filled + 1 .. Lot :
                  o = [st |-> IF n = Lot THEN "filled" ELSE "working", filled |-> n]
             \/ orders[t][i].filled = 0 /\ o = [st |-> "cancelled", filled |-> 0]
    <2>1. CASE Fill(t, i)
      <3>1. PICK n \in orders[t][i].filled + 1 .. Lot :
              SetOrder(t, i, IF n = Lot THEN "filled"
                             ELSE IF orders[t][i].st = "silent" THEN "working"
                             ELSE orders[t][i].st, n)
        BY <2>1 DEF Fill
      <3> DEFINE p == [st |-> IF n = Lot THEN "filled" ELSE "working", filled |-> n]
      <3>2. n \in 0 .. Lot
        BY <1>3, ConstantsAssumption DEF Order
      <3>3. p \in Order
        BY <3>2 DEF Order, OrderStates, LiveStates
      <3>4. UNCHANGED disk /\ orders' = [orders EXCEPT ![t][i] = p]
        BY <1>5, <3>1 DEF SetOrder
      <3> QED
        BY <3>3, <3>4
    <2>2. CASE CancelAtBroker(t, i)
      <3>1. orders[t][i].filled = 0
        BY <2>2, <1>3, ConstantsAssumption DEF CancelAtBroker, BrokerReadable, BrokerAnswers, Order
      <3>2. [st |-> "cancelled", filled |-> 0] \in Order
        BY ConstantsAssumption DEF Order, OrderStates
      <3> QED
        BY <2>2, <3>1, <3>2 DEF CancelAtBroker, SetOrder
    <2> QED
      BY <1>2, <1>4, <2>1, <2>2
  <1>9. /\ orders'[t] = [orders[t] EXCEPT ![i] = o]
        /\ \A u \in Tickers \ {t} : orders'[u] = orders[u]
    BY <1>8 DEF TypeOK
  <1>10. /\ orders'[t] \in Seq(Order) /\ DOMAIN orders'[t] = DOMAIN orders[t]
         /\ orders'[t][i] = o
         /\ \A j \in DOMAIN orders'[t] : Exposed(orders'[t][j]) => j = i
    BY <1>3, <1>6, <1>8, <1>9
  <1>11. SharesOf(t)' = o.filled /\ (WorkingBuy(t)' <=> Live(o))
    <2>1. Buys(t)' = IF o.filled = 0 THEN {} ELSE {i}
      BY <1>8, <1>10, ConstantsAssumption DEF Buys, Exposed, Order
    <2>2. SharesOf(t)' = o.filled
      <3>1. CASE o.filled = 0
        BY <2>1, <3>1 DEF SharesOf
      <3>2. CASE o.filled # 0
        <4>1. Buys(t)' = {i} /\ (CHOOSE j \in {i} : TRUE) = i
          BY <2>1, <3>2
        <4> QED
          BY <1>10, <4>1 DEF SharesOf
      <3> QED
        BY <3>1, <3>2
    <2>3. WorkingBuy(t)' <=> Live(o)
      BY <1>10 DEF WorkingBuy, Exposed
    <2> QED
      BY <2>2, <2>3
  <1>12. ClaimOn(t)' = ClaimOn(t) /\ \A u \in Tickers \ {t} : Seen(u)' = Seen(u)
    BY <1>8, <1>9, OrdersSeen DEF ClaimOn, Seen
  <1>13. CASE \E n \in orders[t][i].filled + 1 .. Lot :
                o = [st |-> IF n = Lot THEN "filled" ELSE "working", filled |-> n]
    <2>1. PICK n \in orders[t][i].filled + 1 .. Lot :
            o = [st |-> IF n = Lot THEN "filled" ELSE "working", filled |-> n]
      BY <1>13
    <2>2. (Live(o) <=> n < Lot) /\ o.filled = n
      BY <1>3, <2>1, ConstantsAssumption DEF Live, LiveStates, Order
    <2> QED
      BY <1>7, <1>11, <1>12, <2>1, <2>2, OneSeen
  <1>14. CASE orders[t][i].filled = 0 /\ o = [st |-> "cancelled", filled |-> 0]
    <2>1. ~Live(o) /\ o.filled = 0
      BY <1>14 DEF Live, LiveStates
    <2> QED
      BY <1>7, <1>11, <1>12, <1>14, <2>1, OneSeen
  <1> QED
    BY <1>8, <1>13, <1>14

LEMMA StepKeeps ==
  ASSUME BrokerReadable, TypeOK, Control, Fresh, WriteAhead, AtMostOneExposedOrder,
         OneClaim, [Next]_vars
  PROVE  Promise!Next \/ UNCHANGED Promise!vars
  <1> USE DEF Busy
  <1>0. disk \in Book /\ mem \in Book
    BY DEF TypeOK
  <1>a. ASSUME UNCHANGED <<disk, orders>>
        PROVE  UNCHANGED Promise!vars
    BY <1>a, Stutters DEF ExecutingEntries
  <1>1. CASE Boot
    BY <1>1, <1>a DEF Boot, durable
  <1>2. CASE Reconcile
    <2>1. CASE ExecutingEntries(disk) = {}
      <3>1. mem'.executed = mem.executed
        <4>1. mem' = ReconcileBook(mem, ExecutingEntries(mem)) /\ ExecutingEntries(mem) = {}
          BY <1>2, <2>1, ReconcileReads
        <4>2. mem'.executed = mem.executed \cup
                {t \in ExecutingEntries(mem) : Held(t) \/ WorkingBuy(t)}
          BY <1>0, <4>1, BookAfterReconcile
        <4> QED
          BY <4>1, <4>2
      <3> QED
        BY <1>2, <2>1, <3>1, ReconcileReads, Stutters
    <2>2. CASE ExecutingEntries(disk) # {}
      <3>1. PICK t \in Tickers : ExecutingEntries(disk) = {t}
        BY <2>2 DEF OneClaim, ExecutingEntries
      <3>2. /\ mem = disk /\ ExecutingEntries(disk)' = {} /\ UNCHANGED orders
            /\ disk'.executed = ReconcileBook(mem, ExecutingEntries(mem)).executed
        BY <1>2, ReconcileReads
      <3>3. disk'.executed = disk.executed \cup {u \in {t} : Held(u) \/ WorkingBuy(u)}
        BY <1>0, <3>1, <3>2, BookAfterReconcile
      <3>4. \A u \in Tickers \ {t} : Seen(u)' = Seen(u)
        <4>1. \A u \in Tickers \ {t} : ClaimOn(u)' = ClaimOn(u)
          BY <3>1, <3>2, <3>3, ClaimSeen
        <4> QED
          BY <3>2, <4>1, OrdersSeen DEF Seen
      <3>5. ClaimOn(t) = "claimed" /\ t \notin disk.executed
        BY <3>1, ClaimSeen DEF OneClaim
      <3>6. WorkingBuy(t)' = WorkingBuy(t) /\ SharesOf(t)' = SharesOf(t)
        BY <3>2, OrdersSeen
      <3>7. CASE Held(t) \/ WorkingBuy(t)
        <4>1. ClaimOn(t)' = "done"
          BY <3>2, <3>3, <3>7, ClaimSeen
        <4> QED
          BY <3>4, <3>5, <3>6, <4>1, OneSeen
      <3>8. CASE ~(Held(t) \/ WorkingBuy(t))
        <4>1. ClaimOn(t)' = "free"
          BY <3>2, <3>3, <3>5, <3>8, ClaimSeen
        <4>2. Untouched(t)
          BY <3>8, UnexposedUntouched DEF ExposedTicker, Exposed, Held, WorkingBuy, WriteAhead
        <4> QED
          BY <3>4, <3>5, <3>6, <4>1, <4>2, OneSeen
      <3> QED
        BY <3>7, <3>8
    <2> QED
      BY <2>1, <2>2
  <1>3. CASE Tick
    <2>1. /\ ExecutingEntries(disk) = {} /\ mem' = MergeExecuted(disk, traded)
          /\ disk' \in {mem', disk} /\ UNCHANGED orders
      BY <1>3 DEF Tick, OneClaim
    <2>2. ExecutingEntries(mem') = {} /\ mem'.executed = disk.executed
      BY <1>0, <2>1, BookAfterMerge
    <2>3. ExecutingEntries(disk)' = {} /\ disk'.executed = disk.executed
      BY <2>1, <2>2 DEF ExecutingEntries
    <2> QED
      BY <2>1, <2>3, Stutters
  <1>4. CASE EndTick
    BY <1>4, <1>a DEF EndTick, durable
  <1>5. ASSUME NEW t \in Tickers, NoTrigger(t)
        PROVE  UNCHANGED Promise!vars
    BY <1>5, <1>a DEF NoTrigger, durable
  <1>6. ASSUME NEW t \in Tickers, RefuseEntry(t)
        PROVE  UNCHANGED Promise!vars
    BY <1>6, <1>a DEF RefuseEntry, durable
  <1>7. ASSUME NEW t \in Tickers, BeginEntry(t)
        PROVE  Promise!Next
    <2>1. /\ ~ExposedTicker(t) /\ t \notin disk.executed /\ ExecutingEntries(disk) = {}
          /\ ExecutingEntries(disk)' = {t} /\ disk'.executed = disk.executed
          /\ UNCHANGED orders
      BY <1>7, BeginsFree
    <2>2. ClaimOn(t) = "free" /\ ClaimOn(t)' = "claimed" /\ Untouched(t)
      BY <2>1, ClaimSeen, UnexposedUntouched
    <2>3. \A u \in Tickers \ {t} : ClaimOn(u)' = ClaimOn(u)
      BY <2>1, ClaimSeen
    <2>4. \A u \in Tickers : WorkingBuy(u)' = WorkingBuy(u) /\ SharesOf(u)' = SharesOf(u)
      BY <2>1, OrdersSeen
    <2>5. \A u \in Tickers \ {t} : Seen(u)' = Seen(u)
      BY <2>3, <2>4 DEF Seen
    <2> QED
      BY <2>2, <2>4, <2>5, OneSeen
  <1>8. CASE PlaceOrder
    <2>1. /\ cur \in Tickers /\ ~ExposedTicker(cur) /\ UNCHANGED disk
          /\ ExecutingEntries(disk) = {cur}
          /\ orders' = [orders EXCEPT ![cur] = Append(@, [st |-> "working", filled |-> 0])]
      BY <1>8 DEF PlaceOrder, Control, WriteAhead, OneClaim, BrokerReadable, BrokerAnswers
    <2>0. PICK t \in Tickers : t = cur
      BY <2>1
    <2> DEFINE n == Len(orders[t])
    <2>2. /\ orders[t] \in Seq(Order)
          /\ orders'[t] = Append(orders[t], [st |-> "working", filled |-> 0])
          /\ \A u \in Tickers \ {t} : orders'[u] = orders[u]
      BY <2>0, <2>1 DEF TypeOK
    <2>3. /\ n \in Nat /\ DOMAIN orders[t] = 1 .. n /\ DOMAIN orders'[t] = 1 .. n + 1
          /\ \A i \in 1 .. n : orders'[t][i] = orders[t][i]
          /\ orders'[t][n + 1] = [st |-> "working", filled |-> 0]
      BY <2>2
    <2>4. WorkingBuy(t)'
      BY <2>3 DEF WorkingBuy, Live, LiveStates
    <2>5. Buys(t)' = {}
      BY <2>0, <2>1, <2>2, <2>3 DEF Buys, ExposedTicker, Exposed
    <2>6. SharesOf(t)' = 0 /\ Untouched(t)
      BY <2>0, <2>1, <2>5, UnexposedUntouched DEF SharesOf
    <2>7. \A u \in Tickers : ClaimOn(u)' = ClaimOn(u)
      BY <2>0, <2>1 DEF ClaimOn
    <2>8. ClaimOn(t) = "claimed"
      BY <2>0, <2>1, ClaimSeen
    <2>9. \A u \in Tickers \ {t} : Seen(u)' = Seen(u)
      BY <2>2, <2>7, OrdersSeen DEF Seen
    <2> QED
      BY <2>0, <2>1, <2>4, <2>6, <2>7, <2>8, <2>9, OneSeen DEF Untouched
  <1>9. CASE FailQualification
    BY <1>9, <1>a DEF FailQualification, durable
  <1>10. CASE RetryOrder
    BY <1>10, <1>a, NoTimeout DEF RetryOrder, BrokerReadable
  <1>11. CASE RejectedEntry
    <2>1. /\ disk = mem /\ cur \in Tickers /\ ExecutingEntries(disk) = {cur}
          /\ ExecutingEntries(disk) \cap disk.executed = {}
      BY <1>11 DEF RejectedEntry, WriteAhead, Control, OneClaim
    <2>2. disk' = RevertEntryToPending(mem, cur) /\ UNCHANGED orders
      BY <1>11 DEF RejectedEntry, EntryDone
    <2>3. ExecutingEntries(disk') = {} /\ disk'.executed = disk.executed
      BY <1>0, <2>1, <2>2, BooksAfter
    <2>4. ExecutingEntries(disk)' = {}
      BY <2>3 DEF ExecutingEntries
    <2>0. PICK t \in Tickers : t = cur
      BY <2>1
    <2>5. ClaimOn(t) = "claimed" /\ ClaimOn(t)' = "free"
      BY <2>0, <2>1, <2>3, <2>4, ClaimSeen
    <2>6. Untouched(t)
      BY <1>11, <2>0, <2>1, RejectedNotExposed, UnexposedUntouched
    <2>7. \A u \in Tickers \ {t} : ClaimOn(u)' = ClaimOn(u)
      BY <2>0, <2>1, <2>3, <2>4, ClaimSeen
    <2>8. \A u \in Tickers : WorkingBuy(u)' = WorkingBuy(u) /\ SharesOf(u)' = SharesOf(u)
      BY <2>2, OrdersSeen
    <2>9. \A u \in Tickers \ {t} : Seen(u)' = Seen(u)
      BY <2>7, <2>8 DEF Seen
    <2> QED
      BY <2>0, <2>1, <2>5, <2>6, <2>8, <2>9, OneSeen
  <1>12. CASE TimeoutEntry
    BY <1>12, NoTimeout DEF TimeoutEntry, BrokerReadable
  <1>13. CASE AcceptedEntry
    BY <1>13, <1>a DEF AcceptedEntry
  <1>14. CASE LogTrade
    BY <1>14, <1>a DEF LogTrade
  <1>15. CASE FinalizeEntry
    <2>1. /\ disk = mem /\ cur \in Tickers /\ ExecutingEntries(disk) = {cur}
          /\ mem.entry[cur] = "executing"
      BY <1>15 DEF FinalizeEntry, WriteAhead, Control, OneClaim
    <2>2. disk' = AddStop(MarkEntryExecuted(mem, cur), cur) /\ UNCHANGED orders
      BY <1>15 DEF FinalizeEntry, EntryDone
    <2>3. ExecutingEntries(disk') = {} /\ disk'.executed = disk.executed \cup {cur}
      BY <1>0, <2>1, <2>2, BookAfterFinalize
    <2>4. ExecutingEntries(disk)' = {}
      BY <2>3 DEF ExecutingEntries
    <2>0. PICK t \in Tickers : t = cur
      BY <2>1
    <2>5. ClaimOn(t) = "claimed" /\ ClaimOn(t)' = "done"
      BY <2>0, <2>1, <2>3, <2>4, ClaimSeen
    <2>6. \A u \in Tickers \ {t} : ClaimOn(u)' = ClaimOn(u)
      BY <2>0, <2>1, <2>3, <2>4, ClaimSeen
    <2>7. \A u \in Tickers : WorkingBuy(u)' = WorkingBuy(u) /\ SharesOf(u)' = SharesOf(u)
      BY <2>2, OrdersSeen
    <2>8. \A u \in Tickers \ {t} : Seen(u)' = Seen(u)
      BY <2>6, <2>7 DEF Seen
    <2> QED
      BY <2>0, <2>1, <2>5, <2>7, <2>8, OneSeen
  <1>16. CASE LoseConnection
    BY <1>16 DEF LoseConnection, BrokerReadable
  <1>17. CASE Crash
    BY <1>17, <1>a DEF Crash, durable
  <1>18. CASE Close
    BY <1>18, <1>a DEF Close, durable
  <1>19. CASE Planning
    BY <1>19 DEF Planning, StartReplan, FinishReplan, BrokerReadable, BrokerAnswers,
                 WriteAhead, TypeOK
  <1>20. CASE BrokerStep
    BY <1>20, BrokerKeeps
  <1>21. CASE UNCHANGED vars
    BY <1>21, <1>a DEF vars, durable
  <1> QED
    BY <1>1, <1>2, <1>3, <1>4, <1>5, <1>6, <1>7, <1>8, <1>9, <1>10, <1>11,
       <1>12, <1>13, <1>14, <1>15, <1>16, <1>17, <1>18, <1>19, <1>20, <1>21
       DEF Next, DaemonStep

\* Through any crashes and restarts, rejected orders and refused entries, what
\* the daemon, its book and the broker do is what EntryPromise allows: an entry
\* is claimed on disk before its order, buys once, and is offered again only
\* when nothing was bought and nothing works.
THEOREM EntryKeepsPromise ==
  ASSUME BrokerReadable
  PROVE  Spec => KeepsPromise
  <1> DEFINE Inv == /\ TypeOK /\ Control /\ Fresh
                    /\ WriteAhead /\ AtMostOneExposedOrder /\ OneClaim
  <1>0. BrokerAnswers
    BY DEF BrokerReadable
  <1>1. Init => Inv
    <2>1. Init => Fresh
      BY DEF Init, Fresh, Busy
    <2> QED
      BY <1>0, <2>1, TypeInit, WriteAheadInit, OneClaimInit
  <1>2. Inv /\ [Next]_vars => Inv'
    BY <1>0, TypeNext, FreshNext, WriteAheadNext, OneClaimNext
  <1>3. Inv /\ [Next]_vars => [Promise!Next]_(Promise!vars)
    BY StepKeeps
  <1>4. Init => Promise!Init
    BY PromiseInit
  <1> QED
    BY <1>1, <1>2, <1>3, <1>4, PTL DEF Spec, KeepsPromise, Promise!Spec
=============================================================================
