------------------------ MODULE ExitExecutionProofs ------------------------
(***************************************************************************)
(* Proofs about ExitExecution, for every set of tickers, position size,    *)
(* number of urgent exits, retries and crashes.                            *)
(***************************************************************************)
EXTENDS ExitExecution, TLAPS

-----------------------------------------------------------------------------
(* The inductive invariants.                                               *)

Executing == pc \in {"placing", "placed"}

\* What the daemon's position says of the exit in hand.
Control ==
  /\ Executing <=> cur # NoExit
  /\ ~Executing => order = NoOrder /\ attempt = 0
  /\ pc = "placing" => order = NoOrder /\ attempt < MaxOrderRetries
  /\ Executing /\ cur.kind # "COVER" => cur.held > 0
  /\ Executing /\ ~cur.urgent => cur.kind # "COVER"

InPhase0 == pc = "phase0" \/ (Executing /\ cur.urgent)

\* What the exit in hand may still trade.
InHand == IF pc = "placing" THEN cur.shares ELSE order.left

Reserved(t) ==
  OpenSells(t) + (IF Executing /\ cur.ticker = t /\ cur.kind # "COVER"
                  THEN InHand ELSE 0)

Covering(t) ==
  working[t].cover + (IF Executing /\ cur.ticker = t /\ cur.kind = "COVER"
                      THEN InHand ELSE 0)

\* Under a broker that tells, an order is working, filled whole, or
\* cancelled with nothing filled, and none is given up alive.
Definite ==
  /\ \A t \in Tickers : working[t].stray = 0
  /\ pc = "placed" =>
       \/ order.st = "working" /\ order.left \in 1 .. cur.shares
       \/ order.st = "filled" /\ order.left = 0
       \/ order.st = "cancelled" /\ order.left = cur.shares

\* What is being sold is held, and what is being covered is short.
Backed ==
  \A t \in Tickers :
    /\ Reserved(t) > 0 => Reserved(t) <= pos[t]
    /\ Covering(t) > 0 => Covering(t) <= - pos[t]

\* A plan has at most one urgent exit of a ticker, on the side of its position.
OnePerTicker(U) == \A u, v \in U : u.ticker = v.ticker => u = v
RightSide(U) ==
  \A u \in U : IF u.kind = "COVER" THEN u.shares = - pos[u.ticker]
               ELSE pos[u.ticker] >= 0

\* Before the first Phase 0 nothing is at the broker.
Untouched ==
  crashes = 0 /\ pc \in {"down", "waiting"} =>
    /\ \A t \in Tickers, k \in OrderKinds : working[t][k] = 0
    /\ LET U == IF pc = "down" THEN disk.urgent ELSE mem.urgent
       IN  OnePerTicker(U) /\ RightSide(U)

\* A book that may see a crash holds one sell at most.
OneSell(U) == \A u, v \in U : u = v /\ u.kind # "COVER"
Lone ==
  "crash" \in faults /\ "several" \notin faults =>
    /\ \A t \in Tickers : pos[t] >= 0 /\ working[t].cover = 0
    /\ OneSell(disk.urgent) /\ OneSell(mem.urgent)
    /\ InPhase0 => OneSell(queue)
    /\ Executing => cur.kind # "COVER"
    /\ Executing /\ cur.urgent => queue = {}

\* For an urgent exit still to come the cache of positions is exact.
Phase0Exact ==
  InPhase0 =>
    /\ queue \subseteq UrgentRecord
    /\ OnePerTicker(queue)
    /\ RightSide(queue)
    /\ \A u \in queue :
         /\ cached[u.ticker] = pos[u.ticker]
         /\ cur # NoExit => cur.ticker # u.ticker
         /\ crashes = 0 \/ cur # NoExit =>
              \A k \in OrderKinds : working[u.ticker][k] = 0

SalesHold == Definite /\ Backed /\ Untouched /\ Lone /\ Phase0Exact
SalesInv == RepeatIsSafe /\ BrokerTells => SalesHold

\* A name that is being entered is not short, and not on its way out.
Entering(t) == t \in disk.entries \/ t \in mem.entries \/ working[t].buy > 0
EntriesLong ==
  \A t \in Tickers :
    Entering(t) =>
      /\ pos[t] >= 0
      /\ \A u \in disk.urgent \cup mem.urgent : u.ticker # t
      /\ InPhase0 => \A u \in queue : u.ticker # t
EntriesInv == RepeatIsSafe /\ BrokerTells => EntriesLong

CrashInv == crashes > 0 => "crash" \in faults

\* What of a position is not being sold by an order at the broker.
Kept(t) == pos[t] - OpenSells(t)

WatchCase == RepeatIsSafe /\ BrokerTells /\ RecordTells

\* Each of the records watches no less than is kept of its ticker.
WatchKept(R) == \A r \in R : r.shares >= Kept(r.ticker)

\* A name with an urgent full exit has no stop record.
Unwatched(U) == \A u \in U : u.kind = "EXIT" => ~Watches(disk, u.ticker)

\* The running daemon watches what is on disk, and an exit in hand sells all
\* that its records watch.
Watching ==
  /\ pc # "down" => mem.stops = disk.stops
  /\ WatchKept(disk.stops)
  /\ ~InPhase0 => queue \subseteq StopRecord /\ WatchKept(queue)
  /\ Unwatched(disk.urgent) /\ Unwatched(mem.urgent)
  /\ InPhase0 => Unwatched(queue)
  /\ Executing /\ cur.urgent /\ cur.kind = "EXIT" => ~Watches(disk, cur.ticker)
  /\ Executing /\ ~cur.urgent =>
       /\ cur.held >= Kept(cur.ticker)
       /\ cur.kind = "EXIT" => InHand >= Kept(cur.ticker)

\* When the records tell, an entry fills at once, of a name with no shares and
\* no record.
EntryFresh ==
  \A t \in Tickers :
    /\ working[t].buy = 0
    /\ t \in disk.entries \cup mem.entries => pos[t] = 0 /\ ~Watches(disk, t)

WatchInv == WatchCase => Watching /\ EntryFresh

-----------------------------------------------------------------------------
(* The operations of the order book and of the broker stay within their    *)
(* types.                                                                  *)

USE DEF PcValues, OrderKinds, ExitKinds

LEMMA BookOperationsType ==
  ASSUME NEW b \in Book, NEW t \in Tickers
  PROVE  /\ \A r \in StopRecord : AddStop(b, r) \in Book
         /\ RemoveStop(b, t) \in Book
         /\ \A kind : MarkUrgentExecuted(b, t, kind) \in Book
         /\ MarkEntryExecuted(b, t) \in Book
  <1>1. ASSUME NEW r \in StopRecord PROVE AddStop(b, r) \in Book
    BY DEF AddStop, Book
  <1>2. RemoveStop(b, t) \in Book
    BY DEF RemoveStop, Book
  <1>4. ASSUME NEW kind PROVE MarkUrgentExecuted(b, t, kind) \in Book
    <2> DEFINE done == {u \in b.urgent : u.ticker = t /\ u.kind = kind}
    <2>1. {u.ticker : u \in done} \subseteq Tickers
      BY DEF Book, UrgentRecord
    <2>2. ASSUME NEW D, NEW E \in SUBSET Tickers
          PROVE  [b EXCEPT !.urgent = @ \ D, !.executed = @ \cup E] \in Book
      BY DEF Book
    <2> QED BY <2>1, <2>2 DEF MarkUrgentExecuted
  <1>5. MarkEntryExecuted(b, t) \in Book
    BY DEF MarkEntryExecuted, Book
  <1> QED BY <1>1, <1>2, <1>4, <1>5

LEMMA EnqueueCoversType ==
  ASSUME TypeOK, NEW b \in Book, NEW place, \A t \in Short : place[t] \in Nat
  PROVE  EnqueueCovers(b, place) \in Book
  <1> DEFINE U == {[ticker |-> t, kind |-> "COVER", shares |-> - pos[t],
                    at |-> place[t]] : t \in Short}
  <1>1. U \subseteq UrgentRecord
    BY DEF UrgentRecord, Short, TypeOK
  <1> HIDE DEF U
  <1>2. AddUrgentExits(b, U) \in Book
    BY <1>1 DEF AddUrgentExits, Book
  <1> QED BY <1>2 DEF EnqueueCovers, U

LEMMA ProfitTakeType ==
  ASSUME NEW S \in SUBSET StopRecord, NEW t \in Tickers, NEW n \in Nat \ {0}
  PROVE  MarkProfitTakeExecuted(UpdateStopShares(S, t, n), t) \in SUBSET StopRecord
  <1>1. UpdateStopShares(S, t, n) \subseteq StopRecord
    BY DEF UpdateStopShares, StopRecord
  <1>2. ASSUME NEW T \in SUBSET StopRecord
        PROVE  MarkProfitTakeExecuted(T, t) \subseteq StopRecord
    BY DEF MarkProfitTakeExecuted, StopRecord
  <1> HIDE DEF UpdateStopShares
  <1> QED BY <1>1, <1>2

\* An order of the exit in hand left at the broker adds its open shares to
\* one kind.
LEMMA LeaveAsAdds ==
  ASSUME TypeOK, Control, Executing, NEW kind \in OrderKinds
  PROVE  /\ LeaveAs(kind) \in [Tickers -> [OrderKinds -> Nat]]
         /\ \A t \in Tickers, k \in OrderKinds :
              LeaveAs(kind)[t][k] = working[t][k] +
                (IF Live(order) /\ t = cur.ticker /\ k = kind THEN order.left ELSE 0)
  <1>1. cur.ticker \in Tickers /\ order.left \in Nat
    BY DEF TypeOK, Control, Exit, Order
  <1>2. working \in [Tickers -> [OrderKinds -> Nat]]
    BY DEF TypeOK
  <1> QED BY <1>1, <1>2 DEF LeaveAs

-----------------------------------------------------------------------------
(* Type correctness.                                                       *)

LEMMA PlannedBookType ==
  ASSUME NEW p \in [Tickers -> Int], NEW U \in SUBSET PlannedUrgents(p)
  PROVE  \A E \in SUBSET Enterable(p, U) :
           [urgent |-> U, stops |-> PlannedStops(p, U), entries |-> E, executed |-> {}]
             \in Book
  <1>1. UNION {1 .. n : n \in Longs \cup Shorts} \subseteq Nat \ {0}
    BY ConstantsAssumption
  <1>2. U \subseteq UrgentRecord
    <2>1. 1 .. MaxUrgents \subseteq Nat
      BY ConstantsAssumption
    <2> QED BY <1>1, <2>1 DEF PlannedUrgents, UrgentRecord
  <1>3. PlannedStops(p, U) \subseteq StopRecord
    <2>1. ASSUME NEW t \in Tickers, p[t] > 0
          PROVE  [ticker |-> t, by |-> "planner", shares |-> p[t], taken |-> FALSE]
                   \in StopRecord
      BY <2>1 DEF StopRecord
    <2> QED BY <2>1 DEF PlannedStops
  <1> QED BY <1>2, <1>3 DEF Book, Enterable

LEMMA TypeInit == Init => TypeOK /\ Control /\ CrashInv
  <1> SUFFICES ASSUME Init PROVE TypeOK /\ Control /\ CrashInv
    OBVIOUS
  <1>1. pos \in [Tickers -> Int]
    <2>1. Longs \cup {- n : n \in Shorts} \subseteq Int
      <3>1. ASSUME NEW n \in Shorts PROVE - n \in Int
        BY ConstantsAssumption
      <3>2. {- n : n \in Shorts} \subseteq Int
        BY <3>1
      <3>3. Longs \subseteq Int
        BY ConstantsAssumption
      <3> QED BY <3>2, <3>3
    <2> QED BY <2>1 DEF Init
  <1>2. disk \in Book
    <2>1. PICK U \in SUBSET PlannedUrgents(pos) :
            \E E \in SUBSET Enterable(pos, U) :
              disk = [urgent |-> U, stops |-> PlannedStops(pos, U), entries |-> E,
                      executed |-> {}]
      BY DEF Init
    <2> QED BY <1>1, <2>1, PlannedBookType
  <1>3. mem \in Book
    BY DEF Init, EmptyBook, Book
  <1>4. working \in [Tickers -> [OrderKinds -> Nat]]
    BY DEF Init
  <1>5. order \in Order
    BY DEF Init, NoOrder, Order, OrderStates
  <1>6. crashes \in 0 .. MaxCrashes /\ attempt \in 0 .. MaxOrderRetries
    BY ConstantsAssumption DEF Init
  <1>7. TypeOK
    <2>1. cached \in [Tickers -> Int]
      BY DEF Init
    <2>2. useOptimizer \in BOOLEAN /\ saveUrgent \in BOOLEAN /\ pc \in PcValues
      BY Zenon DEF Init, PcValues
    <2> QED BY <1>1, <1>2, <1>3, <1>4, <1>5, <1>6, <2>1, <2>2 DEF Init, TypeOK
  <1> QED BY <1>7, ConstantsAssumption DEF Init, Control, Executing, CrashInv

\* The shares a sell is validated for are within what is held and asked for.
LEMMA Validated ==
  ASSUME NEW held \in Int, NEW shares \in Nat, NEW pending \in Nat
  PROVE  LET n == ValidatedShares(held, shares, pending)
         IN  /\ n \in Nat
             /\ n <= shares
             /\ n > 0 => n <= held - pending /\ held > 0
             /\ n > 0 => n = shares \/ n = held - pending
             /\ n = 0 => shares = 0 \/ held - pending <= 0
  BY DEF ValidatedShares, Lesser

LEMMA PendingType ==
  ASSUME TypeOK, NEW t \in Tickers
  PROVE  PendingSells(t) \subseteq Nat /\ OpenSells(t) \in Nat
  BY DEF TypeOK, PendingSells, OpenSells

LEMMA TypePhase0 ==
  ASSUME TypeOK, Control, CrashInv,
         \/ Boot \/ OpenPhase0 \/ EndPhase0
         \/ \E u \in queue \cap UrgentRecord : SkipUrgent(u) \/ BeginUrgent(u)
  PROVE  TypeOK' /\ Control' /\ CrashInv'
  <1>1. CASE Boot
    <2>1. disk.executed \subseteq Tickers
      BY DEF TypeOK, Book
    <2> QED BY <1>1, <2>1 DEF Boot, TypeOK, Control, Executing, CrashInv, broker, config
  <1>2. CASE OpenPhase0
    <2>1. mem' \in Book
      <3>1. PICK place \in [Short -> 1 .. MaxUrgents + Cardinality(Tickers)] :
              mem' = EnqueueCovers(mem, place)
        BY <1>2 DEF OpenPhase0
      <3>2. \A t \in Short : place[t] \in Nat
        OBVIOUS
      <3> QED BY <3>1, <3>2, EnqueueCoversType DEF TypeOK
    <2>2. mem'.urgent \subseteq UrgentRecord
      BY <2>1 DEF Book
    <2> QED BY <1>2, <2>1, <2>2 DEF OpenPhase0, TypeOK, Control, Executing, CrashInv, broker, config
  <1>3. CASE EndPhase0
    BY <1>3 DEF EndPhase0, TypeOK, Control, Executing, CrashInv, broker, config
  <1>4. ASSUME NEW u \in queue \cap UrgentRecord, SkipUrgent(u)
        PROVE  TypeOK' /\ Control' /\ CrashInv'
    <2>1. u.ticker \in Tickers
      BY DEF UrgentRecord
    <2>2. mem' \in Book
      <3>1. SkipUrgent(u) => mem' = MarkUrgentExecuted(mem, u.ticker, u.kind)
        BY DEF SkipUrgent
      <3>2. mem \in Book
        BY DEF TypeOK
      <3> QED BY <1>4, <2>1, <3>1, <3>2, BookOperationsType
    <2> QED BY <1>4, <2>2 DEF SkipUrgent, TypeOK, Control, Executing, CrashInv, broker, config
  <1>5. ASSUME NEW u \in queue \cap UrgentRecord, BeginUrgent(u)
        PROVE  TypeOK' /\ Control' /\ CrashInv'
    <2>1. u.ticker \in Tickers /\ u.kind \in ExitKinds /\ u.shares \in Nat \ {0}
      BY DEF UrgentRecord
    <2>2. cur' \in Exit /\ (cur'.kind # "COVER" => cur'.held > 0) /\ cur'.urgent
      <3>1. PICK pending \in PendingSells(u.ticker) :
              LET n == IF u.kind = "COVER" THEN u.shares
                       ELSE ValidatedShares(cached[u.ticker], u.shares, pending)
              IN  n > 0 /\ cur' = [ticker |-> u.ticker, kind |-> u.kind, shares |-> n,
                                   held |-> cached[u.ticker], urgent |-> TRUE]
        BY <1>5 DEF BeginUrgent
      <3>2. pending \in Nat /\ cached[u.ticker] \in Int
        BY <2>1, <3>1, PendingType DEF TypeOK
      <3> DEFINE n == IF u.kind = "COVER" THEN u.shares
                      ELSE ValidatedShares(cached[u.ticker], u.shares, pending)
      <3>3. n \in Nat \ {0} /\ (u.kind # "COVER" => cached[u.ticker] > 0)
        <4>1. CASE u.kind = "COVER"
          BY <2>1, <4>1
        <4>2. CASE u.kind # "COVER"
          <5> DEFINE v == ValidatedShares(cached[u.ticker], u.shares, pending)
          <5>1. v \in Nat /\ (v > 0 => cached[u.ticker] > 0)
            BY <2>1, <3>2, Validated
          <5>2. n = v /\ v > 0
            BY <3>1, <4>2
          <5> HIDE DEF v
          <5> QED BY <5>1, <5>2
        <4> QED BY <4>1, <4>2
      <3>4. cur' = [ticker |-> u.ticker, kind |-> u.kind, shares |-> n,
                    held |-> cached[u.ticker], urgent |-> TRUE]
        BY <3>1
      <3> HIDE DEF n
      <3> QED BY <2>1, <3>2, <3>3, <3>4 DEF Exit
    <2>3. order = NoOrder /\ attempt = 0
      BY <1>5 DEF BeginUrgent, Control, Executing
    <2>4. cur' # NoExit
      BY <2>2, NoExitAssumption
    <2>5. TypeOK'
      BY <1>5, <2>2 DEF BeginUrgent, TypeOK, broker, config
    <2> QED BY <1>5, <2>2, <2>3, <2>4, <2>5, ConstantsAssumption
            DEF BeginUrgent, Control, Executing, CrashInv, config
  <1> QED BY <1>1, <1>2, <1>3, <1>4, <1>5

\* What _execute_exit begins is well typed, and never a cover.
LEMMA BeginExitType ==
  ASSUME TypeOK, Control, NEW x,
         x.ticker \in Tickers, x.kind \in {"EXIT", "REDUCE"}, x.shares \in Nat \ {0},
         BeginExit(x)
  PROVE  cur' \in Exit /\ cur'.held > 0 /\ ~cur'.urgent /\ cur'.kind # "COVER"
  <1>1. PICK pending \in PendingSells(x.ticker) :
          LET n == ValidatedShares(pos[x.ticker], x.shares, pending)
          IN  n > 0 /\ cur' = [ticker |-> x.ticker, kind |-> x.kind, shares |-> n,
                               held |-> pos[x.ticker], urgent |-> FALSE]
    BY DEF BeginExit
  <1>2. pending \in Nat /\ pos[x.ticker] \in Int
    BY <1>1, PendingType DEF TypeOK
  <1> DEFINE n == ValidatedShares(pos[x.ticker], x.shares, pending)
  <1>3. n \in Nat /\ (n > 0 => pos[x.ticker] > 0)
    BY <1>2, Validated
  <1>4. n > 0 /\ cur' = [ticker |-> x.ticker, kind |-> x.kind, shares |-> n,
                         held |-> pos[x.ticker], urgent |-> FALSE]
    BY <1>1
  <1> HIDE DEF n
  <1> QED BY <1>2, <1>3, <1>4 DEF Exit

LEMMA SignalsType ==
  ASSUME NEW r \in StopRecord, NEW x \in Signals(r)
  PROVE  /\ x.ticker = r.ticker /\ x.ticker \in Tickers
         /\ x.kind \in {"EXIT", "REDUCE"} /\ x.shares \in Nat \ {0}
         /\ x.kind = "EXIT" => x.shares = r.shares
  BY DEF Signals, StopRecord

LEMMA TypeBegin ==
  ASSUME TypeOK, Control, CrashInv, NEW x,
         x.ticker \in Tickers, x.kind \in {"EXIT", "REDUCE"}, x.shares \in Nat \ {0},
         pc = "exits", SkipExit(x) \/ BeginExit(x), queue' \subseteq queue
  PROVE  TypeOK' /\ Control' /\ CrashInv'
  <1>1. CASE SkipExit(x)
    <2>1. mem' \in Book
      BY <1>1, BookOperationsType DEF SkipExit, TypeOK
    <2>2. traded' \subseteq Tickers /\ stopped' \subseteq Tickers
      BY <1>1 DEF SkipExit, MarkExited, TypeOK
    <2> QED BY <1>1, <2>1, <2>2 DEF SkipExit, TypeOK, Control, Executing, CrashInv, broker, config
  <1>2. CASE BeginExit(x)
    <2>1. cur' \in Exit /\ cur'.held > 0 /\ ~cur'.urgent /\ cur'.kind # "COVER"
      BY <1>2, BeginExitType
    <2>2. order = NoOrder /\ attempt = 0
      BY DEF Control, Executing
    <2>3. cur' # NoExit
      BY <2>1, NoExitAssumption
    <2>4. TypeOK'
      BY <1>2, <2>1 DEF BeginExit, TypeOK, broker, config
    <2> QED BY <1>2, <2>1, <2>2, <2>3, <2>4, ConstantsAssumption
            DEF BeginExit, Control, Executing, CrashInv, config
  <1> QED BY <1>1, <1>2

LEMMA BuyAndStop ==
  ASSUME NEW w \in [OrderKinds -> Nat], NEW a \in Nat, NEW b \in Nat
  PROVE  LET z == [w EXCEPT !.buy = @ + a, !.stop = @ + b]
         IN  /\ z \in [OrderKinds -> Nat]
             /\ z.buy = w.buy + a /\ z.stop = w.stop + b
             /\ z.sell = w.sell /\ z.stray = w.stray /\ z.cover = w.cover
  <1> DEFINE x == [w EXCEPT !["buy"] = w["buy"] + a]
             y == [x EXCEPT !["stop"] = x["stop"] + b]
  <1>1. /\ x \in [OrderKinds -> Nat] /\ x["buy"] = w["buy"] + a /\ x["stop"] = w["stop"]
        /\ x["sell"] = w["sell"] /\ x["stray"] = w["stray"] /\ x["cover"] = w["cover"]
    OBVIOUS
  <1>2. y = [w EXCEPT !.buy = @ + a, !.stop = @ + b]
    OBVIOUS
  <1>3. /\ y \in [OrderKinds -> Nat] /\ y["buy"] = x["buy"] /\ y["stop"] = x["stop"] + b
        /\ y["sell"] = x["sell"] /\ y["stray"] = x["stray"] /\ y["cover"] = x["cover"]
    <2> HIDE DEF x
    <2> QED BY <1>1
  <1> HIDE DEF x, y
  <1> QED BY <1>1, <1>2, <1>3

LEMMA EntryLeavesType ==
  ASSUME TypeOK, NEW t \in Tickers, NEW a \in Nat, NEW b \in Nat
  PROVE  /\ EntryLeaves(t, a, b) \in [Tickers -> [OrderKinds -> Nat]]
         /\ \A s \in Tickers : s # t => EntryLeaves(t, a, b)[s] = working[s]
         /\ EntryLeaves(t, a, b)[t].buy = working[t].buy + a
         /\ EntryLeaves(t, a, b)[t].stop = working[t].stop + b
         /\ EntryLeaves(t, a, b)[t].sell = working[t].sell
         /\ EntryLeaves(t, a, b)[t].stray = working[t].stray
         /\ EntryLeaves(t, a, b)[t].cover = working[t].cover
  <1> DEFINE z == [working[t] EXCEPT !.buy = @ + a, !.stop = @ + b]
  <1>1. /\ z \in [OrderKinds -> Nat]
        /\ z.buy = working[t].buy + a /\ z.stop = working[t].stop + b
        /\ z.sell = working[t].sell /\ z.stray = working[t].stray /\ z.cover = working[t].cover
    <2>1. working[t] \in [OrderKinds -> Nat]
      BY DEF TypeOK
    <2> QED BY <2>1, BuyAndStop
  <1>2. EntryLeaves(t, a, b) = [working EXCEPT ![t] = z]
    BY DEF EntryLeaves
  <1> HIDE DEF z
  <1> QED BY <1>1, <1>2 DEF TypeOK

\* What an entry may do: fewer shares only when entries are slow, and a stop at
\* the broker only when it filled whole.
LEMMA EntryOutcome ==
  ASSUME TypeOK, NEW t \in Tickers, EntryAccepted(t)
  PROVE  \E n \in 0 .. Lot, stop \in {0, Lot} :
           /\ "slow_entry" \in faults \/ n = Lot
           /\ stop > 0 => n = Lot
           /\ pos' = [pos EXCEPT ![t] = @ + n]
           /\ working' \in [Tickers -> [OrderKinds -> Nat]]
           /\ \A s \in Tickers : s # t => working'[s] = working[s]
           /\ working'[t].buy = working[t].buy + (Lot - n)
           /\ working'[t].stop = working[t].stop + stop
           /\ working'[t].sell = working[t].sell /\ working'[t].stray = working[t].stray
           /\ working'[t].cover = working[t].cover
           /\ mem' = AddStop(MarkEntryExecuted(mem, t),
                             [ticker |-> t, by |-> "daemon",
                              shares |-> IF n = 0 THEN Lot ELSE n, taken |-> FALSE])
  <1>1. PICK n \in (IF "slow_entry" \in faults THEN 0 .. Lot ELSE {Lot}),
             stop \in {0, Lot} :
          /\ stop > 0 => n = Lot
          /\ pos' = [pos EXCEPT ![t] = @ + n]
          /\ working' = EntryLeaves(t, Lot - n, stop)
          /\ mem' = AddStop(MarkEntryExecuted(mem, t),
                            [ticker |-> t, by |-> "daemon",
                             shares |-> IF n = 0 THEN Lot ELSE n, taken |-> FALSE])
    BY Zenon DEF EntryAccepted
  <1>2. n \in 0 .. Lot /\ ("slow_entry" \in faults \/ n = Lot)
    BY <1>1, ConstantsAssumption
  <1>3. Lot - n \in Nat /\ stop \in Nat
    BY <1>2, ConstantsAssumption
  <1> DEFINE open == Lot - n
  <1> DEFINE next == EntryLeaves(t, open, stop)
  <1>4. open \in Nat /\ stop \in Nat /\ working' = next
    BY <1>1, <1>3
  <1> HIDE DEF open
  <1>7. ASSUME NEW a \in Nat, NEW b \in Nat
        PROVE  /\ EntryLeaves(t, a, b) \in [Tickers -> [OrderKinds -> Nat]]
               /\ \A s \in Tickers : s # t => EntryLeaves(t, a, b)[s] = working[s]
               /\ EntryLeaves(t, a, b)[t].buy = working[t].buy + a
               /\ EntryLeaves(t, a, b)[t].stop = working[t].stop + b
               /\ EntryLeaves(t, a, b)[t].sell = working[t].sell
               /\ EntryLeaves(t, a, b)[t].stray = working[t].stray
               /\ EntryLeaves(t, a, b)[t].cover = working[t].cover
    BY EntryLeavesType
  <1>5. /\ next \in [Tickers -> [OrderKinds -> Nat]]
        /\ \A s \in Tickers : s # t => next[s] = working[s]
        /\ next[t].buy = working[t].buy + open
        /\ next[t].stop = working[t].stop + stop
        /\ next[t].sell = working[t].sell
        /\ next[t].stray = working[t].stray
        /\ next[t].cover = working[t].cover
    BY <1>4, <1>7
  <1> HIDE DEF next
  <1>6. /\ working' \in [Tickers -> [OrderKinds -> Nat]]
        /\ \A s \in Tickers : s # t => working'[s] = working[s]
        /\ working'[t].buy = working[t].buy + (Lot - n)
        /\ working'[t].stop = working[t].stop + stop
        /\ working'[t].sell = working[t].sell /\ working'[t].stray = working[t].stray
        /\ working'[t].cover = working[t].cover
    BY <1>4, <1>5 DEF open
  <1> QED BY <1>1, <1>2, <1>6

LEMMA TypeTick ==
  ASSUME TypeOK, Control, CrashInv,
         \/ Tick \/ EndTick \/ Close
         \/ \E r \in queue \cap StopRecord : NoSignal(r) \/ SignalExit(r)
         \/ \E t \in Tickers : ForceExit(t) \/ EntryAccepted(t)
  PROVE  TypeOK' /\ Control' /\ CrashInv'
  <1>1. CASE Tick
    <2>1. mem' \in Book
      <3>1. mem' = MergeExecuted(disk, traded)
        BY <1>1 DEF Tick
      <3>2. disk \in Book
        BY DEF TypeOK
      <3>3. MergeExecuted(disk, traded) \in Book
        BY <3>2 DEF MergeExecuted, Book
      <3> QED BY <3>1, <3>3
    <2>2. mem'.stops \subseteq StopRecord
      BY <2>1 DEF Book
    <2>3. disk' \in Book
      BY <1>1, <2>1 DEF Tick, TypeOK
    <2> QED BY <1>1, <2>1, <2>2, <2>3 DEF Tick, TypeOK, Control, Executing, CrashInv, broker, config
  <1>2. CASE EndTick \/ Close
    BY <1>2 DEF EndTick, Close, TypeOK, Control, Executing, CrashInv, broker, config
  <1>3. ASSUME NEW r \in queue \cap StopRecord, NoSignal(r)
        PROVE  TypeOK' /\ Control' /\ CrashInv'
    BY <1>3 DEF NoSignal, TypeOK, Control, Executing, CrashInv, broker, config
  <1>4. ASSUME NEW r \in queue \cap StopRecord, SignalExit(r)
        PROVE  TypeOK' /\ Control' /\ CrashInv'
    <2>1. PICK x \in Signals(r) : SkipExit(x) \/ BeginExit(x)
      BY <1>4 DEF SignalExit
    <2>2. pc = "exits" /\ queue' \subseteq queue
      BY <1>4 DEF SignalExit
    <2> QED BY <2>1, <2>2, SignalsType, TypeBegin
  <1>5. ASSUME NEW t \in Tickers, ForceExit(t)
        PROVE  TypeOK' /\ Control' /\ CrashInv'
    <2> DEFINE x == [ticker |-> t, kind |-> "EXIT", shares |-> pos[t]]
    <2>1. pc = "exits" /\ queue' \subseteq queue /\ pos[t] > 0 /\ (SkipExit(x) \/ BeginExit(x))
      BY <1>5 DEF ForceExit
    <2>2. x.ticker \in Tickers /\ x.kind \in {"EXIT", "REDUCE"} /\ x.shares \in Nat \ {0}
      BY <2>1 DEF TypeOK
    <2> HIDE DEF x
    <2> QED BY <2>1, <2>2, TypeBegin
  <1>6. ASSUME NEW t \in Tickers, EntryAccepted(t)
        PROVE  TypeOK' /\ Control' /\ CrashInv'
    <2>1. PICK n \in 0 .. Lot, stop \in {0, Lot} :
            /\ pos' = [pos EXCEPT ![t] = @ + n]
            /\ working' \in [Tickers -> [OrderKinds -> Nat]]
            /\ mem' = AddStop(MarkEntryExecuted(mem, t),
                              [ticker |-> t, by |-> "daemon",
                               shares |-> IF n = 0 THEN Lot ELSE n, taken |-> FALSE])
      BY <1>6, EntryOutcome
    <2>2. mem' \in Book
      <3> DEFINE r == [ticker |-> t, by |-> "daemon",
                       shares |-> IF n = 0 THEN Lot ELSE n, taken |-> FALSE]
      <3>1. r \in StopRecord
        BY ConstantsAssumption DEF StopRecord
      <3>2. MarkEntryExecuted(mem, t) \in Book
        BY BookOperationsType DEF TypeOK
      <3>3. mem' = AddStop(MarkEntryExecuted(mem, t), r)
        BY <2>1
      <3> HIDE DEF r
      <3> QED BY <3>1, <3>2, <3>3, BookOperationsType
    <2>3. pos' \in [Tickers -> Int]
      BY <2>1, ConstantsAssumption DEF TypeOK
    <2>5. disk' = mem' /\ traded' \subseteq Tickers
      BY <1>6 DEF EntryAccepted, TypeOK
    <2>6. UNCHANGED <<config, stopped, cached, saveUrgent, queue, cur, order, attempt,
                      pc, crashes>>
      BY <1>6 DEF EntryAccepted
    <2> QED BY <2>1, <2>2, <2>3, <2>5, <2>6 DEF TypeOK, Control, Executing, CrashInv, config
  <1> QED BY <1>1, <1>2, <1>3, <1>4, <1>5, <1>6

LEMMA TypeExitDone ==
  ASSUME TypeOK, Control, CrashInv, pc = "placed",
         NEW kind \in OrderKinds, ExitDone(kind),
         disk' \in Book, mem' \in Book, traded' \subseteq Tickers, stopped' \subseteq Tickers,
         cached' \in [Tickers -> Int]
  PROVE  TypeOK' /\ Control' /\ CrashInv'
  <1>1. working' \in [Tickers -> [OrderKinds -> Nat]]
    BY LeaveAsAdds DEF ExitDone, Executing
  <1>2. order' \in Order /\ attempt' \in 0 .. MaxOrderRetries
    BY ConstantsAssumption DEF ExitDone, NoOrder, Order, OrderStates
  <1>3. pc' \in {"phase0", "exits"} /\ cur' = NoExit
    BY DEF ExitDone
  <1>4. UNCHANGED <<pos, config, saveUrgent, queue, crashes>>
    BY DEF ExitDone
  <1>5. TypeOK'
    BY <1>1, <1>2, <1>3, <1>4 DEF TypeOK, config
  <1> QED BY <1>3, <1>4, <1>5 DEF ExitDone, Control, Executing, CrashInv, config

LEMMA TypeFinish ==
  ASSUME TypeOK, Control, CrashInv, FailExit \/ FinishUrgent \/ FinishExit
  PROVE  TypeOK' /\ Control' /\ CrashInv'
  <1>1. SideKind \in OrderKinds /\ GivenUp \in OrderKinds
    BY DEF SideKind, GivenUp
  <1>2. pc = "placed"
    BY DEF FailExit, FinishUrgent, FinishExit, Accepted
  <1>3. cur \in Exit
    BY <1>2 DEF TypeOK, Control, Executing
  <1>4. cur.ticker \in Tickers /\ cur.shares \in Nat \ {0} /\ cur.held \in Int
        /\ (cur.kind # "COVER" => cur.held > 0)
    BY <1>2, <1>3 DEF Exit, Control, Executing
  <1>5. CASE FailExit
    <2>1. disk' \in Book /\ mem' \in Book /\ cached' \in [Tickers -> Int]
      BY <1>5 DEF FailExit, TypeOK
    <2>2. traded' \subseteq Tickers /\ stopped' \subseteq Tickers
      BY <1>4, <1>5 DEF FailExit, MarkExited, TypeOK
    <2> QED BY <1>1, <1>2, <1>5, <2>1, <2>2, TypeExitDone DEF FailExit
  <1>6. CASE FinishUrgent
    <2>1. mem' \in Book
      <3>1. MarkUrgentExecuted(mem, cur.ticker, cur.kind) \in Book
        BY <1>4, BookOperationsType DEF TypeOK
      <3>2. RemoveStop(MarkUrgentExecuted(mem, cur.ticker, cur.kind), cur.ticker) \in Book
        BY <1>4, <3>1, BookOperationsType
      <3> QED BY <1>6, <3>1, <3>2 DEF FinishUrgent
    <2>2. disk' \in Book /\ stopped' \subseteq Tickers
      BY <1>6 DEF FinishUrgent, TypeOK
    <2>3. cached' \in [Tickers -> Int]
      BY <1>4, <1>6 DEF FinishUrgent, TypeOK
    <2>4. traded' \subseteq Tickers
      BY <1>4, <1>6 DEF FinishUrgent, TypeOK
    <2> QED BY <1>1, <1>2, <1>6, <2>1, <2>2, <2>3, <2>4, TypeExitDone DEF FinishUrgent
  <1>7. CASE FinishExit
    <2>1. mem' \in Book
      <3>1. RemoveStop(mem, cur.ticker) \in Book
        BY <1>4, BookOperationsType DEF TypeOK
      <3>2. cur.held \in Nat \ {0}
        BY <1>2, <1>4, <1>7 DEF FinishExit, Control, Executing
      <3> DEFINE S == MarkProfitTakeExecuted(
                        UpdateStopShares(mem.stops, cur.ticker, cur.held), cur.ticker)
      <3>3. S \subseteq StopRecord
        BY <1>4, <3>2, ProfitTakeType DEF TypeOK, Book
      <3>4. mem' = IF cur.kind = "EXIT" THEN RemoveStop(mem, cur.ticker)
                   ELSE [mem EXCEPT !.stops = S]
        BY <1>7 DEF FinishExit
      <3> HIDE DEF S
      <3>5. [mem EXCEPT !.stops = S] \in Book
        BY <3>3 DEF TypeOK, Book
      <3> QED BY <3>1, <3>4, <3>5
    <2>2. disk' \in Book /\ cached' \in [Tickers -> Int]
      BY <1>7, <2>1 DEF FinishExit, TypeOK
    <2>3. traded' \subseteq Tickers /\ stopped' \subseteq Tickers
      BY <1>4, <1>7 DEF FinishExit, MarkExited, TypeOK
    <2> QED BY <1>1, <1>2, <1>7, <2>1, <2>2, <2>3, TypeExitDone DEF FinishExit
  <1> QED BY <1>5, <1>6, <1>7

LEMMA TypeOrder ==
  ASSUME TypeOK, Control, CrashInv,
         PlaceOrder \/ FailQualification \/ RetryOrder \/ LoseConnection
  PROVE  TypeOK' /\ Control' /\ CrashInv'
  <1>1. Executing
    BY DEF PlaceOrder, FailQualification, RetryOrder, LoseConnection, Executing
  <1>2. cur \in Exit /\ cur.shares \in Nat \ {0}
    BY <1>1 DEF TypeOK, Control, Exit
  <1>3. NoOrder \in Order
    BY DEF NoOrder, Order, OrderStates
  <1>4. CASE PlaceOrder \/ FailQualification
    <2>1. order' \in Order
      BY <1>2, <1>4 DEF PlaceOrder, FailQualification, Order, OrderStates
    <2>2. attempt' = attempt + 1 /\ pc = "placing" /\ pc' = "placed"
      BY <1>4 DEF PlaceOrder, FailQualification
    <2>3. attempt' \in 0 .. MaxOrderRetries
      BY <2>2, ConstantsAssumption DEF TypeOK, Control
    <2>4. UNCHANGED <<broker, disk, config, mem, traded, stopped, cached, saveUrgent, queue,
                      cur, crashes>>
      BY <1>4 DEF PlaceOrder, FailQualification
    <2> QED BY <1>1, <2>1, <2>2, <2>3, <2>4 DEF TypeOK, Control, Executing, CrashInv, broker, config
  <1>5. CASE RetryOrder
    <2>1. GivenUp \in OrderKinds
      BY DEF GivenUp
    <2>2. working' \in [Tickers -> [OrderKinds -> Nat]]
      BY <1>1, <1>5, <2>1, LeaveAsAdds DEF RetryOrder
    <2> QED BY <1>1, <1>3, <1>5, <2>2 DEF RetryOrder, TypeOK, Control, Executing, CrashInv, config
  <1>6. CASE LoseConnection
    <2>1. working' \in [Tickers -> [OrderKinds -> Nat]]
      BY <1>1, <1>6, LeaveAsAdds DEF LoseConnection
    <2> QED BY <1>3, <1>6, <2>1, ConstantsAssumption
            DEF LoseConnection, TypeOK, Control, Executing, CrashInv, config
  <1> QED BY <1>4, <1>5, <1>6

LEMMA TypeCrash ==
  ASSUME TypeOK, Control, CrashInv, Crash
  PROVE  TypeOK' /\ Control' /\ CrashInv'
  <1>1. SideKind \in OrderKinds
    BY DEF SideKind
  <1>2. working' \in [Tickers -> [OrderKinds -> Nat]]
    <2>1. CASE cur = NoExit
      BY <2>1 DEF Crash, TypeOK
    <2>2. CASE cur # NoExit
      BY <1>1, <2>2, LeaveAsAdds DEF Crash, Control
    <2> QED BY <2>1, <2>2
  <1>3. NoOrder \in Order
    BY DEF NoOrder, Order, OrderStates
  <1>4. EmptyBook \in Book
    BY DEF EmptyBook, Book
  <1>5. cached' \in [Tickers -> Int]
    BY DEF Crash
  <1>6. crashes' \in 0 .. MaxCrashes /\ "crash" \in faults
    BY ConstantsAssumption DEF Crash, TypeOK
  <1>7. mem' = EmptyBook /\ order' = NoOrder /\ cur' = NoExit /\ pc' = "down" /\ attempt' = 0
    BY DEF Crash
  <1>8. TypeOK'
    <2>1. traded' = {} /\ stopped' = {} /\ queue' = {} /\ saveUrgent' = FALSE
      BY DEF Crash
    <2>2. pos' = pos /\ disk' = disk /\ useOptimizer' = useOptimizer /\ faults' = faults
      BY DEF Crash, config
    <2>3. attempt' \in 0 .. MaxOrderRetries
      BY <1>7, ConstantsAssumption
    <2> QED BY <1>2, <1>3, <1>4, <1>5, <1>6, <1>7, <2>1, <2>2, <2>3 DEF TypeOK
  <1>9. Control'
    BY <1>7 DEF Control, Executing
  <1> QED BY <1>6, <1>8, <1>9 DEF CrashInv, Crash, config

\* A fill moves the position of one ticker by what its order loses.
LEMMA FillOrderMoves ==
  ASSUME TypeOK, FillOrder
  PROVE  \E n \in Nat \ {0} :
           /\ n <= order.left
           /\ order' = [st |-> IF n = order.left THEN "filled" ELSE "working",
                        left |-> order.left - n]
           /\ cur.kind = "COVER" => pos' = [pos EXCEPT ![cur.ticker] = @ + n]
           /\ cur.kind # "COVER" => pos' = [pos EXCEPT ![cur.ticker] = @ - n]
  <1>1. PICK n \in 1 .. order.left :
          /\ order' = [st |-> IF n = order.left THEN "filled" ELSE "working",
                       left |-> order.left - n]
          /\ pos' = [pos EXCEPT ![cur.ticker] = @ + Sign(cur.kind = "COVER") * n]
    BY DEF FillOrder
  <1>2. order.left \in Nat /\ n \in Nat \ {0} /\ n <= order.left
    BY <1>1 DEF TypeOK, Order
  <1>3. ASSUME cur.kind = "COVER" PROVE pos' = [pos EXCEPT ![cur.ticker] = @ + n]
    <2>1. Sign(cur.kind = "COVER") = 1
      BY <1>3 DEF Sign
    <2>2. 1 * n = n
      BY <1>2
    <2> QED BY <1>1, <2>1, <2>2
  <1>4. ASSUME cur.kind # "COVER" PROVE pos' = [pos EXCEPT ![cur.ticker] = @ - n]
    <2>1. Sign(cur.kind = "COVER") = -1
      BY <1>4 DEF Sign
    <2>2. \A i \in Int : i + (-1) * n = i - n
      BY <1>2
    <2>3. cur.ticker \in Tickers => pos[cur.ticker] \in Int
      BY DEF TypeOK
    <2>4. pos' = [pos EXCEPT ![cur.ticker] = pos[cur.ticker] + (-1) * n]
      BY <1>1, <2>1
    <2> QED BY <1>2, <2>2, <2>3, <2>4 DEF TypeOK
  <1> QED BY <1>1, <1>2, <1>3, <1>4

Buys(kind) == kind \in {"cover", "buy"}

LEMMA FillWorkingMoves ==
  ASSUME TypeOK, NEW t \in Tickers, NEW kind \in OrderKinds, FillWorking(t, kind)
  PROVE  \E n \in Nat \ {0} :
           /\ n <= working[t][kind]
           /\ working' = [working EXCEPT ![t][kind] = @ - n]
           /\ Buys(kind) => pos' = [pos EXCEPT ![t] = @ + n]
           /\ ~Buys(kind) => pos' = [pos EXCEPT ![t] = @ - n]
  <1>1. PICK n \in 1 .. working[t][kind] :
          /\ working' = [working EXCEPT ![t][kind] = @ - n]
          /\ pos' = [pos EXCEPT ![t] = @ + Sign(Buys(kind)) * n]
    BY DEF FillWorking, Buys
  <1>2. n \in Nat \ {0} /\ n <= working[t][kind]
    BY <1>1 DEF TypeOK
  <1>3. ASSUME Buys(kind) PROVE pos' = [pos EXCEPT ![t] = @ + n]
    <2>1. Sign(Buys(kind)) = 1
      BY <1>3 DEF Sign
    <2>2. 1 * n = n
      BY <1>2
    <2> QED BY <1>1, <2>1, <2>2
  <1>4. ASSUME ~Buys(kind) PROVE pos' = [pos EXCEPT ![t] = @ - n]
    <2>1. Sign(Buys(kind)) = -1
      BY <1>4 DEF Sign
    <2>2. pos[t] + (-1) * n = pos[t] - n
      BY <1>2 DEF TypeOK
    <2>3. pos' = [pos EXCEPT ![t] = pos[t] + (-1) * n]
      BY <1>1, <2>1
    <2> QED BY <2>2, <2>3
  <1> QED BY <1>1, <1>2, <1>3, <1>4

LEMMA TypeBroker ==
  ASSUME TypeOK, Control, CrashInv, BrokerStep
  PROVE  TypeOK' /\ Control' /\ CrashInv'
  <1>1. CASE FillOrder
    <2>1. PICK n \in Nat \ {0} :
            /\ n <= order.left
            /\ order' = [st |-> IF n = order.left THEN "filled" ELSE "working",
                         left |-> order.left - n]
            /\ cur.kind = "COVER" => pos' = [pos EXCEPT ![cur.ticker] = @ + n]
            /\ cur.kind # "COVER" => pos' = [pos EXCEPT ![cur.ticker] = @ - n]
      BY <1>1, FillOrderMoves
    <2>2. order.left \in Nat
      BY DEF TypeOK, Order
    <2>3. order' \in Order
      BY <2>1, <2>2 DEF Order, OrderStates
    <2>4. pos' \in [Tickers -> Int]
      BY <2>1, <2>2 DEF TypeOK
    <2> QED BY <1>1, <2>3, <2>4 DEF FillOrder, TypeOK, Control, Executing, CrashInv, config
  <1>2. CASE CancelOrder \/ AcknowledgeOrder
    <2>1. order' \in Order
      BY <1>2 DEF CancelOrder, AcknowledgeOrder, TypeOK, Order, OrderStates
    <2> QED BY <1>2, <2>1
            DEF CancelOrder, AcknowledgeOrder, TypeOK, Control, Executing, CrashInv, broker, config
  <1>3. ASSUME NEW t \in Tickers, NEW kind \in OrderKinds, FillWorking(t, kind)
        PROVE  TypeOK' /\ Control' /\ CrashInv'
    <2>1. PICK n \in Nat \ {0} :
            /\ n <= working[t][kind]
            /\ working' = [working EXCEPT ![t][kind] = @ - n]
            /\ Buys(kind) => pos' = [pos EXCEPT ![t] = @ + n]
            /\ ~Buys(kind) => pos' = [pos EXCEPT ![t] = @ - n]
      BY <1>3, FillWorkingMoves
    <2>3. working' \in [Tickers -> [OrderKinds -> Nat]]
      BY <2>1 DEF TypeOK
    <2>4. pos' \in [Tickers -> Int]
      BY <2>1 DEF TypeOK
    <2> QED BY <1>3, <2>3, <2>4 DEF FillWorking, TypeOK, Control, Executing, CrashInv, config, daemon
  <1>4. ASSUME NEW t \in Tickers, NEW kind \in OrderKinds, CancelWorking(t, kind)
        PROVE  TypeOK' /\ Control' /\ CrashInv'
    <2>1. working' \in [Tickers -> [OrderKinds -> Nat]]
      BY <1>4 DEF CancelWorking, TypeOK
    <2> QED BY <1>4, <2>1 DEF CancelWorking, TypeOK, Control, Executing, CrashInv, config, daemon
  <1> QED BY <1>1, <1>2, <1>3, <1>4 DEF BrokerStep

LEMMA TypeNext ==
  ASSUME TypeOK, Control, CrashInv, [Next]_vars
  PROVE  TypeOK' /\ Control' /\ CrashInv'
  <1>1. CASE Next
    BY <1>1, TypePhase0, TypeTick, TypeFinish, TypeOrder, TypeCrash, TypeBroker
       DEF Next, DaemonStep
  <1>2. CASE UNCHANGED vars
    BY <1>2 DEF vars, broker, config, daemon, TypeOK, Control, Executing, CrashInv
  <1> QED BY <1>1, <1>2

\* Every reachable state is well typed: no retry runs past its limit, a profit
\* take never writes a record without shares, and no order has fewer than no
\* shares left, whatever the broker answers.
THEOREM TypeCorrect == Spec => []TypeOK
  <1>1. Spec => [](TypeOK /\ Control /\ CrashInv)
    BY TypeInit, TypeNext, PTL DEF Spec
  <1> QED BY <1>1, PTL

-----------------------------------------------------------------------------
(* No share is sold that is not held.                                      *)

LEMMA WorkingType ==
  ASSUME TypeOK, NEW t \in Tickers
  PROVE  /\ working[t].sell \in Nat /\ working[t].stray \in Nat
         /\ working[t].stop \in Nat /\ working[t].cover \in Nat
         /\ working[t].buy \in Nat
         /\ OpenSells(t) \in Nat
         /\ pos[t] \in Int
  <1>1. working[t] \in [OrderKinds -> Nat] /\ pos[t] \in Int
    BY DEF TypeOK
  <1> QED BY <1>1 DEF OpenSells

\* Without an exit in hand only the orders left at the broker count.
LEMMA IdleReserves ==
  ASSUME TypeOK, ~Executing, NEW t \in Tickers
  PROVE  Reserved(t) = OpenSells(t) /\ Covering(t) = working[t].cover
  <1>1. Reserved(t) = OpenSells(t) + 0
    BY DEF Reserved
  <1>2. Covering(t) = working[t].cover + 0
    BY DEF Covering
  <1> QED BY <1>1, <1>2, WorkingType

\* The same after a step.
LEMMA WorkingTypeNext ==
  ASSUME TypeOK', NEW t \in Tickers
  PROVE  /\ working'[t].sell \in Nat /\ working'[t].stray \in Nat
         /\ working'[t].stop \in Nat /\ working'[t].cover \in Nat
         /\ working'[t].buy \in Nat
         /\ OpenSells(t)' \in Nat
         /\ pos'[t] \in Int
  <1>1. working'[t] \in [OrderKinds -> Nat] /\ pos'[t] \in Int
    BY DEF TypeOK
  <1> QED BY <1>1 DEF OpenSells

LEMMA IdleReservesNext ==
  ASSUME TypeOK', ~Executing', NEW t \in Tickers
  PROVE  Reserved(t)' = OpenSells(t)' /\ Covering(t)' = working'[t].cover
  <1>1. Reserved(t)' = OpenSells(t)' + 0
    BY DEF Reserved
  <1>2. Covering(t)' = working'[t].cover + 0
    BY DEF Covering
  <1> QED BY <1>1, <1>2, WorkingTypeNext

LEMMA SalesInit == Init => SalesInv
  <1> SUFFICES ASSUME Init, RepeatIsSafe, BrokerTells PROVE SalesHold
    BY DEF SalesInv
  <1>1. TypeOK /\ Control
    BY TypeInit
  <1>2. \A t \in Tickers, k \in OrderKinds : working[t][k] = 0
    BY DEF Init
  <1>3. pc = "down" /\ ~Executing /\ crashes = 0 /\ mem = EmptyBook
    BY DEF Init, Executing
  <1>4. \A t \in Tickers : Reserved(t) = 0 /\ Covering(t) = 0
    <2>1. ASSUME NEW t \in Tickers PROVE Reserved(t) = 0 /\ Covering(t) = 0
      <3>1. /\ working[t].sell = 0 /\ working[t].stray = 0
            /\ working[t].stop = 0 /\ working[t].cover = 0
        BY <1>2
      <3>2. OpenSells(t) = 0
        BY <3>1 DEF OpenSells
      <3> QED BY <1>1, <1>3, <3>1, <3>2, IdleReserves
    <2> QED BY <2>1
  <1>5. Definite /\ Backed
    BY <1>2, <1>3, <1>4 DEF Definite, Backed
  <1>6. PICK U \in SUBSET PlannedUrgents(pos) :
          /\ \A u, v \in U : u.ticker = v.ticker => u = v
          /\ disk.urgent = U
    BY DEF Init
  <1>7. RightSide(disk.urgent)
    <2>1. ASSUME NEW u \in U
          PROVE IF u.kind = "COVER" THEN u.shares = - pos[u.ticker] ELSE pos[u.ticker] >= 0
      <3>1. u.ticker \in Tickers /\ u.kind \in ExitKinds /\ u.shares \in Nat
            /\ pos[u.ticker] \in Int
        <4>1. UNION {1 .. n : n \in Longs \cup Shorts} \subseteq Nat
          BY ConstantsAssumption
        <4> QED BY <4>1, <1>1 DEF PlannedUrgents, TypeOK
      <3>2. \/ u.kind = "EXIT"   /\ u.shares = pos[u.ticker]
            \/ u.kind = "REDUCE" /\ u.shares < pos[u.ticker]
            \/ u.kind = "COVER"  /\ u.shares = - pos[u.ticker]
        BY DEF PlannedUrgents
      <3> QED BY <3>1, <3>2
    <2> QED BY <1>6, <2>1 DEF RightSide
  <1>8. Untouched
    BY <1>2, <1>3, <1>6, <1>7 DEF Untouched, OnePerTicker
  <1>9. Lone
    <2> SUFFICES ASSUME "crash" \in faults, "several" \notin faults
                 PROVE  /\ \A t \in Tickers : pos[t] >= 0 /\ working[t].cover = 0
                        /\ \A u, v \in disk.urgent : u = v /\ u.kind # "COVER"
      BY <1>3 DEF Lone, OneSell, EmptyBook, InPhase0
    <2>1. \A t \in Tickers : pos[t] >= 0
      BY DEF Init
    <2>3. \A u, v \in disk.urgent : u = v
      BY DEF Init
    <2>4. \A u \in disk.urgent : u.kind # "COVER"
      <3>1. disk.urgent \subseteq UrgentRecord
        BY <1>1 DEF TypeOK, Book
      <3> QED BY <2>1, <1>7, <1>1, <3>1 DEF RightSide, UrgentRecord, TypeOK
    <2> QED BY <1>2, <2>1, <2>3, <2>4
  <1>10. Phase0Exact
    BY <1>3 DEF Phase0Exact, InPhase0
  <1> QED BY <1>5, <1>8, <1>9, <1>10 DEF SalesHold

\* The case the invariant is about is one that every later state keeps.
LEMMA CaseWasSafe ==
  ASSUME TypeOK, TypeOK', [Next]_vars
  PROVE  /\ faults' = faults
         /\ crashes = 0 => crashes' = 0 \/ Crash
         /\ crashes' = 0 => crashes = 0
         /\ BrokerTells' => BrokerTells
         /\ RepeatIsSafe' => RepeatIsSafe
  <1>1. CASE Next
    <2>1. CASE UNCHANGED <<faults, crashes>>
      BY <2>1 DEF BrokerTells, RepeatIsSafe
    <2>2. CASE Crash
      <3>1. crashes \in Nat /\ crashes' = crashes + 1 /\ faults' = faults
        BY <2>2 DEF TypeOK, Crash, config
      <3>2. crashes' # 0
        BY <3>1
      <3> QED BY <2>2, <3>1, <3>2 DEF BrokerTells, RepeatIsSafe
    <2>3. UNCHANGED <<faults, crashes>> \/ Crash
      <3>1. CASE DaemonStep
        BY <1>1, <3>1 DEF DaemonStep, Boot, OpenPhase0, EndPhase0, Tick, EndTick,
             SkipUrgent, BeginUrgent, NoSignal, SignalExit, SkipExit, BeginExit,
             ForceExit, EntryAccepted, PlaceOrder, FailQualification, RetryOrder,
             FailExit, FinishUrgent, FinishExit, ExitDone, config
      <3>2. CASE LoseConnection \/ Close
        BY <3>2 DEF LoseConnection, Close, config
      <3>3. CASE BrokerStep
        BY <3>3 DEF BrokerStep, FillOrder, CancelOrder, AcknowledgeOrder,
             FillWorking, CancelWorking, config
      <3> QED BY <1>1, <3>1, <3>2, <3>3 DEF Next
    <2> QED BY <2>1, <2>2, <2>3
  <1>2. CASE UNCHANGED vars
    BY <1>2 DEF vars, config, BrokerTells, RepeatIsSafe
  <1> QED BY <1>1, <1>2

LEMMA QuietKeepsBacked ==
  ASSUME TypeOK, TypeOK', Definite, Backed, UNCHANGED broker, ~Executing, ~Executing'
  PROVE  Definite' /\ Backed'
  <1>1. Definite'
    BY DEF Definite, broker, Executing
  <1>2. ASSUME NEW t \in Tickers
        PROVE  Reserved(t)' = Reserved(t) /\ Covering(t)' = Covering(t) /\ pos'[t] = pos[t]
    <2>1. Reserved(t)' = OpenSells(t)' /\ Covering(t)' = working'[t].cover
      BY IdleReservesNext
    <2>2. OpenSells(t)' = OpenSells(t)
      BY DEF OpenSells, broker
    <2> QED BY <2>1, <2>2, IdleReserves DEF broker
  <1> QED BY <1>1, <1>2 DEF Backed

LEMMA QuietKeepsLone ==
  ASSUME Lone, UNCHANGED <<pos, working, faults>>, ~Executing, ~Executing',
         disk'.urgent \subseteq disk.urgent \/ disk'.urgent \subseteq mem.urgent,
         mem'.urgent \subseteq disk.urgent \/ mem'.urgent \subseteq mem.urgent,
         InPhase0' => \/ queue' \subseteq mem.urgent
                      \/ InPhase0 /\ queue' \subseteq queue
  PROVE  Lone'
  BY DEF Lone, OneSell

LEMMA QuietUrgents ==
  ASSUME NEW b, NEW t
  PROVE  /\ RemoveStop(b, t).urgent = b.urgent
         /\ \A S : MergeExecuted(b, S).urgent \subseteq b.urgent
         /\ \A kind : MarkUrgentExecuted(b, t, kind).urgent \subseteq b.urgent
  BY DEF RemoveStop, MergeExecuted, MarkUrgentExecuted

\* A cover is added only for a short that has none, so one record per ticker
\* remains.
LEMMA CoversAddedOnce ==
  ASSUME NEW U, NEW V \in SUBSET UrgentRecord, NEW place, OnePerTicker(U),
         \A u \in U : pos[u.ticker] < 0 => u.kind = "COVER",
         \A u \in V : u \in U
            \/ (u.kind = "COVER" /\ u.ticker \in Tickers /\ pos[u.ticker] < 0
                /\ u.shares = - pos[u.ticker]
                /\ u.at = place[u.ticker]
                /\ ~\E v \in U : v.ticker = u.ticker /\ v.kind = "COVER")
  PROVE  OnePerTicker(V)
  <1> SUFFICES ASSUME NEW u \in V, NEW v \in V, u.ticker = v.ticker PROVE u = v
    BY DEF OnePerTicker
  <1>1. CASE u \in U /\ v \in U
    BY <1>1 DEF OnePerTicker
  <1>2. CASE u \notin U /\ v \notin U
    BY <1>2 DEF UrgentRecord
  <1>3. CASE u \in U /\ v \notin U
    BY <1>3
  <1>4. CASE u \notin U /\ v \in U
    BY <1>4
  <1> QED BY <1>1, <1>2, <1>3, <1>4

\* The steps that leave the broker alone and have no exit in hand.
LEMMA SalesQuiet ==
  ASSUME TypeOK, TypeOK', Control, CrashInv, RepeatIsSafe, SalesHold,
         \/ Boot \/ OpenPhase0 \/ EndPhase0 \/ Tick \/ EndTick \/ Close
         \/ \E u \in queue \cap UrgentRecord : SkipUrgent(u)
         \/ \E r \in queue \cap StopRecord : NoSignal(r)
         \/ \E x : SkipExit(x) /\ pc = "exits"
  PROVE  SalesHold'
  <1> USE DEF SalesHold
  <1>1. CASE Boot
    <2>1. ~Executing /\ ~Executing' /\ UNCHANGED broker /\ UNCHANGED <<pos, working, faults>>
      BY <1>1 DEF Boot, Executing, broker, config
    <2>2. Untouched'
      BY <1>1 DEF Boot, Untouched, broker, OnePerTicker, RightSide
    <2>3. Lone'
      BY <1>1, <2>1, QuietKeepsLone DEF Boot, InPhase0
    <2>4. Phase0Exact'
      BY <1>1, <2>1 DEF Boot, Phase0Exact, InPhase0
    <2> QED BY <2>1, <2>2, <2>3, <2>4, QuietKeepsBacked
  <1>2. CASE OpenPhase0
    <2>1. ~Executing /\ ~Executing' /\ UNCHANGED broker /\ UNCHANGED <<pos, working, faults>>
      BY <1>2 DEF OpenPhase0, Executing, broker, config
    <2>2. Untouched'
      BY <1>2 DEF OpenPhase0, Untouched
    <2>3. queue' = mem'.urgent /\ mem'.urgent \subseteq UrgentRecord
      BY <1>2 DEF OpenPhase0, TypeOK, Book
    <2>0. PICK place : mem' = EnqueueCovers(mem, place)
      BY <1>2 DEF OpenPhase0
    <2>4. \A u \in mem'.urgent : u \in mem.urgent
             \/ (u.kind = "COVER" /\ u.ticker \in Tickers /\ pos[u.ticker] < 0
                 /\ u.shares = - pos[u.ticker]
                 /\ u.at = place[u.ticker]
                 /\ ~\E v \in mem.urgent : v.ticker = u.ticker /\ v.kind = "COVER")
      BY <2>0 DEF EnqueueCovers, Short, AddUrgentExits, TypeOK, Book
    <2>5. Lone'
      <3> SUFFICES ASSUME "crash" \in faults, "several" \notin faults PROVE Lone'
        BY <2>1 DEF Lone
      <3>1. \A t \in Tickers : pos[t] >= 0
        BY DEF Lone
      <3>2. mem'.urgent \subseteq mem.urgent
        BY <2>4, <3>1 DEF TypeOK
      <3>3. disk'.urgent \subseteq disk.urgent \/ disk'.urgent \subseteq mem.urgent
        BY <1>2, <3>2 DEF OpenPhase0
      <3> QED BY <2>1, <2>3, <3>2, <3>3, QuietKeepsLone
    <2>6. Phase0Exact'
      <3>1. cur' = NoExit /\ cached' = pos' /\ pos' = pos /\ working' = working
            /\ crashes' = crashes /\ faults' = faults
        BY <1>2 DEF OpenPhase0, Control, Executing, broker, config
      <3>2. \A u \in queue' : u.ticker \in Tickers
        BY <2>3 DEF UrgentRecord
      <3>3. CASE crashes = 0
        <4>1. /\ \A t \in Tickers, k \in OrderKinds : working[t][k] = 0
              /\ OnePerTicker(mem.urgent) /\ RightSide(mem.urgent)
          BY <1>2, <3>3 DEF Untouched, OpenPhase0
        <4>2. \A u \in mem.urgent : pos[u.ticker] < 0 => u.kind = "COVER"
          <5>1. \A u \in mem.urgent : pos[u.ticker] \in Int
            BY DEF TypeOK, Book, UrgentRecord
          <5> QED BY <4>1, <5>1 DEF RightSide
        <4>3. OnePerTicker(queue')
          BY <2>3, <2>4, <4>1, <4>2, CoversAddedOnce
        <4>4. RightSide(queue)'
          BY <2>3, <2>4, <3>1, <4>1 DEF RightSide
        <4> QED BY <2>3, <3>1, <3>2, <4>1, <4>3, <4>4 DEF Phase0Exact, OnePerTicker
      <3>4. CASE crashes # 0
        <4>1. "crash" \in faults /\ "several" \notin faults
          BY <3>4 DEF RepeatIsSafe, CrashInv, TypeOK
        <4>2. /\ \A t \in Tickers : pos[t] >= 0
              /\ OneSell(mem.urgent)
          BY <4>1 DEF Lone
        <4>3. queue' \subseteq mem.urgent
          BY <2>3, <2>4, <4>2 DEF TypeOK
        <4>4. OneSell(queue')
          BY <4>2, <4>3 DEF OneSell
        <4>5. RightSide(queue)' /\ OnePerTicker(queue')
          BY <3>1, <3>2, <4>2, <4>4 DEF OneSell, RightSide, OnePerTicker
        <4> QED BY <2>3, <3>1, <3>2, <3>4, <4>4, <4>5 DEF Phase0Exact, OnePerTicker
      <3> QED BY <3>3, <3>4
    <2> QED BY <2>1, <2>2, <2>5, <2>6, QuietKeepsBacked
  <1>3. CASE EndPhase0 \/ Tick \/ EndTick \/ Close
    <2>1. ~Executing /\ ~Executing' /\ UNCHANGED broker /\ UNCHANGED <<pos, working, faults>>
          /\ ~InPhase0'
      BY <1>3 DEF EndPhase0, Tick, EndTick, Close, Executing, broker, config, InPhase0
    <2>2. Untouched'
      BY <1>3 DEF EndPhase0, Tick, EndTick, Close, Untouched
    <2>3. Lone'
      <3>1. MergeExecuted(disk, traded).urgent \subseteq disk.urgent
        BY QuietUrgents
      <3>2. disk'.urgent \subseteq disk.urgent \/ disk'.urgent \subseteq mem.urgent
        BY <1>3, <3>1 DEF EndPhase0, Tick, EndTick, Close
      <3>3. mem'.urgent \subseteq disk.urgent \/ mem'.urgent \subseteq mem.urgent
        BY <1>3, <3>1 DEF EndPhase0, Tick, EndTick, Close
      <3> QED BY <2>1, <3>2, <3>3, QuietKeepsLone
    <2>4. Phase0Exact'
      BY <2>1 DEF Phase0Exact
    <2> QED BY <2>1, <2>2, <2>3, <2>4, QuietKeepsBacked
  <1>4. ASSUME NEW u \in queue \cap UrgentRecord, SkipUrgent(u) PROVE SalesHold'
    <2>1. ~Executing /\ ~Executing' /\ UNCHANGED broker /\ UNCHANGED <<pos, working, faults>>
          /\ InPhase0 /\ InPhase0' /\ cur = NoExit
      BY <1>4 DEF SkipUrgent, Executing, broker, config, InPhase0, Control
    <2>2. Untouched'
      BY <1>4 DEF SkipUrgent, Untouched
    <2>3. Lone'
      BY <1>4, <2>1, QuietKeepsLone, QuietUrgents DEF SkipUrgent
    <2>4. Phase0Exact'
      BY <1>4, <2>1 DEF SkipUrgent, Phase0Exact, OnePerTicker, RightSide, broker
    <2> QED BY <2>1, <2>2, <2>3, <2>4, QuietKeepsBacked
  <1>5. ASSUME NEW r \in queue \cap StopRecord, NoSignal(r) PROVE SalesHold'
    <2>1. ~Executing /\ ~Executing' /\ UNCHANGED broker /\ UNCHANGED <<pos, working, faults>>
          /\ ~InPhase0'
      BY <1>5 DEF NoSignal, Executing, broker, config, InPhase0
    <2>2. Untouched' /\ Phase0Exact'
      BY <1>5, <2>1 DEF NoSignal, Untouched, Phase0Exact
    <2>3. Lone'
      BY <1>5, <2>1, QuietKeepsLone DEF NoSignal
    <2> QED BY <2>1, <2>2, <2>3, QuietKeepsBacked
  <1>6. ASSUME NEW x, SkipExit(x), pc = "exits" PROVE SalesHold'
    <2>1. ~Executing /\ ~Executing' /\ UNCHANGED broker /\ UNCHANGED <<pos, working, faults>>
          /\ ~InPhase0'
      BY <1>6 DEF SkipExit, Executing, broker, config, InPhase0
    <2>2. Untouched' /\ Phase0Exact'
      BY <1>6, <2>1 DEF SkipExit, Untouched, Phase0Exact
    <2>3. Lone'
      BY <1>6, <2>1, QuietKeepsLone, QuietUrgents DEF SkipExit
    <2> QED BY <2>1, <2>2, <2>3, QuietKeepsBacked
  <1> QED BY <1>1, <1>2, <1>3, <1>4, <1>5, <1>6

\* An exit in hand counts on the side and the ticker it is of.
LEMMA HandReserves ==
  ASSUME TypeOK, Control, Executing, NEW t \in Tickers
  PROVE  /\ InHand \in Nat
         /\ cur.ticker = t /\ cur.kind # "COVER" =>
              Reserved(t) = OpenSells(t) + InHand /\ Covering(t) = working[t].cover
         /\ cur.ticker = t /\ cur.kind = "COVER" =>
              Reserved(t) = OpenSells(t) /\ Covering(t) = working[t].cover + InHand
         /\ cur.ticker # t =>
              Reserved(t) = OpenSells(t) /\ Covering(t) = working[t].cover
  <1>1. cur.shares \in Nat /\ order.left \in Nat
    BY DEF TypeOK, Control, Exit, Order
  <1>2. InHand \in Nat
    BY <1>1 DEF InHand
  <1>3. OpenSells(t) + 0 = OpenSells(t) /\ working[t].cover + 0 = working[t].cover
    BY WorkingType
  <1> QED BY <1>2, <1>3 DEF Reserved, Covering

LEMMA HandReservesNext ==
  ASSUME TypeOK', Control', Executing', NEW t \in Tickers
  PROVE  /\ InHand' \in Nat
         /\ cur'.ticker = t /\ cur'.kind # "COVER" =>
              Reserved(t)' = OpenSells(t)' + InHand' /\ Covering(t)' = working'[t].cover
         /\ cur'.ticker = t /\ cur'.kind = "COVER" =>
              Reserved(t)' = OpenSells(t)' /\ Covering(t)' = working'[t].cover + InHand'
         /\ cur'.ticker # t =>
              Reserved(t)' = OpenSells(t)' /\ Covering(t)' = working'[t].cover
  <1>1. cur'.shares \in Nat /\ order'.left \in Nat
    BY DEF TypeOK, Control, Exit, Order
  <1>2. InHand' \in Nat
    BY <1>1 DEF InHand
  <1>3. OpenSells(t)' + 0 = OpenSells(t)' /\ working'[t].cover + 0 = working'[t].cover
    BY WorkingTypeNext
  <1> QED BY <1>2, <1>3 DEF Reserved, Covering

\* A broker that tells lets the daemon see what is being sold.
LEMMA SeenSells ==
  ASSUME BrokerTells, NEW t
  PROVE  PendingSells(t) = {OpenSells(t)}
  BY DEF BrokerTells, PendingSells

\* An exit is begun within what its ticker can still give.
LEMMA SalesBegin ==
  ASSUME TypeOK, TypeOK', Control, Control', Definite, Backed,
         UNCHANGED broker, ~Executing, pc' = "placing",
         cur'.kind # "COVER" =>
           cur'.shares + OpenSells(cur'.ticker) <= pos[cur'.ticker],
         cur'.kind = "COVER" =>
           working[cur'.ticker].cover = 0 /\ cur'.shares <= - pos[cur'.ticker]
  PROVE  Definite' /\ Backed'
  <1>1. Executing' /\ InHand' = cur'.shares
    BY DEF Executing, InHand
  <1>2. cur'.ticker \in Tickers /\ cur'.shares \in Nat
    BY <1>1 DEF TypeOK, Control, Exit
  <1>3. Definite'
    BY DEF Definite, broker
  <1>4. ASSUME NEW t \in Tickers
        PROVE  /\ Reserved(t)' > 0 => Reserved(t)' <= pos'[t]
               /\ Covering(t)' > 0 => Covering(t)' <= - pos'[t]
    <2>1. OpenSells(t)' = OpenSells(t) /\ pos'[t] = pos[t] /\ working'[t].cover = working[t].cover
      BY DEF OpenSells, broker
    <2>2. /\ OpenSells(t) > 0 => OpenSells(t) <= pos[t]
          /\ working[t].cover > 0 => working[t].cover <= - pos[t]
      BY IdleReserves DEF Backed
    <2>3. OpenSells(t) \in Nat /\ working[t].cover \in Nat /\ pos[t] \in Int
      BY WorkingType
    <2>4. CASE cur'.ticker = t /\ cur'.kind # "COVER"
      <3>1. Reserved(t)' = OpenSells(t) + cur'.shares /\ Covering(t)' = working[t].cover
        BY <1>1, <2>1, <2>4, HandReservesNext
      <3> QED BY <1>2, <2>1, <2>2, <2>3, <2>4, <3>1
    <2>5. CASE cur'.ticker = t /\ cur'.kind = "COVER"
      <3>1. Reserved(t)' = OpenSells(t) /\ Covering(t)' = working[t].cover + cur'.shares
        BY <1>1, <2>1, <2>5, HandReservesNext
      <3> QED BY <1>2, <2>1, <2>2, <2>3, <2>5, <3>1
    <2>6. CASE cur'.ticker # t
      <3>1. Reserved(t)' = OpenSells(t) /\ Covering(t)' = working[t].cover
        BY <1>1, <2>1, <2>6, HandReservesNext
      <3> QED BY <2>1, <2>2, <3>1
    <2> QED BY <2>4, <2>5, <2>6
  <1> QED BY <1>3, <1>4 DEF Backed

LEMMA SalesBeginUrgent ==
  ASSUME TypeOK, TypeOK', Control, Control', CrashInv, RepeatIsSafe, BrokerTells, SalesHold,
         NEW u \in queue \cap UrgentRecord, BeginUrgent(u)
  PROVE  SalesHold'
  <1> USE DEF SalesHold
  <1>1. /\ pc = "phase0" /\ ~Executing /\ cur = NoExit /\ InPhase0
        /\ pc' = "placing" /\ queue' = queue \ {u}
        /\ UNCHANGED broker /\ pos' = pos /\ working' = working /\ cached' = cached
        /\ crashes' = crashes /\ faults' = faults /\ disk' = disk /\ mem' = mem
    BY DEF BeginUrgent, Executing, Control, InPhase0, broker, config
  <1>2. u.ticker \in Tickers /\ u.shares \in Nat /\ cached[u.ticker] = pos[u.ticker]
    BY <1>1 DEF UrgentRecord, Phase0Exact
  <1>3. cur'.ticker = u.ticker /\ cur'.kind = u.kind /\ cur'.urgent
    BY DEF BeginUrgent
  <1>4. u.kind = "COVER" => cur'.shares = u.shares
    BY DEF BeginUrgent
  <1>5. u.kind # "COVER" => cur'.shares + OpenSells(u.ticker) <= pos[u.ticker]
    <2> SUFFICES ASSUME u.kind # "COVER"
                 PROVE  cur'.shares + OpenSells(u.ticker) <= pos[u.ticker]
      OBVIOUS
    <2> DEFINE n == ValidatedShares(pos[u.ticker], u.shares, OpenSells(u.ticker))
    <2>1. cur'.shares = n /\ n > 0
      BY <1>2, SeenSells DEF BeginUrgent
    <2>2. OpenSells(u.ticker) \in Nat /\ pos[u.ticker] \in Int
      BY <1>2, WorkingType
    <2>3. n \in Nat /\ (n > 0 => n <= pos[u.ticker] - OpenSells(u.ticker))
      BY <1>2, <2>2, Validated
    <2> HIDE DEF n
    <2> QED BY <2>1, <2>2, <2>3
  <1>6. crashes # 0 => OneSell(queue)
    BY <1>1 DEF RepeatIsSafe, CrashInv, TypeOK, Lone
  <1>7. u.kind = "COVER" => working[u.ticker].cover = 0 /\ u.shares <= - pos[u.ticker]
    <2> SUFFICES ASSUME u.kind = "COVER"
                 PROVE  working[u.ticker].cover = 0 /\ u.shares <= - pos[u.ticker]
      OBVIOUS
    <2>1. crashes = 0
      BY <1>6 DEF OneSell
    <2>2. \A k \in OrderKinds : working[u.ticker][k] = 0
      BY <1>1, <2>1 DEF Phase0Exact
    <2>3. u.shares = - pos[u.ticker]
      BY <1>1 DEF Phase0Exact, RightSide
    <2> QED BY <1>2, <2>2, <2>3, WorkingType
  <1>8. Definite' /\ Backed'
    BY <1>1, <1>3, <1>4, <1>5, <1>7, SalesBegin
  <1>9. Untouched'
    BY <1>1 DEF Untouched
  <1>10. Lone'
    <2> SUFFICES ASSUME "crash" \in faults, "several" \notin faults PROVE Lone'
      BY <1>1 DEF Lone
    <2>1. OneSell(queue)
      BY <1>1 DEF Lone
    <2>2. queue' = {} /\ cur'.kind # "COVER"
      BY <1>1, <1>3, <2>1 DEF OneSell
    <2> QED BY <1>1, <2>2 DEF Lone, OneSell
  <1>11. Phase0Exact'
    <2>1. OnePerTicker(queue) /\ RightSide(queue)
      BY <1>1 DEF Phase0Exact
    <2>2. OnePerTicker(queue') /\ RightSide(queue)'
      BY <1>1, <2>1 DEF OnePerTicker, RightSide
    <2>3. ASSUME NEW v \in queue'
          PROVE  /\ cached'[v.ticker] = pos'[v.ticker]
                 /\ cur'.ticker # v.ticker
                 /\ \A k \in OrderKinds : working'[v.ticker][k] = 0
      <3>1. v \in queue /\ v # u
        BY <1>1
      <3>2. crashes = 0
        BY <1>6, <3>1 DEF OneSell
      <3> QED BY <1>1, <1>3, <2>1, <3>1, <3>2 DEF Phase0Exact, OnePerTicker
    <2>4. queue' \subseteq UrgentRecord
      BY <1>1 DEF Phase0Exact
    <2> QED BY <2>2, <2>3, <2>4 DEF Phase0Exact
  <1> QED BY <1>8, <1>9, <1>10, <1>11

\* Under a broker that tells, an order that may be retried was cancelled with
\* nothing filled.
LEMMA RetryableIsDead ==
  ASSUME TypeOK, Control, Definite, pc = "placed", Retryable
  PROVE  ~Live(order) /\ order.st = "cancelled" /\ order.left = cur.shares
  <1>1. order.left \in Nat /\ cur.shares \in Nat
    BY DEF TypeOK, Control, Executing, Exit, Order
  <1>2. CASE order.st = "working"
    <2>1. Live(order)
      BY <1>2 DEF Live
    <2>2. order.left <= cur.shares
      BY <1>1, <1>2 DEF Definite
    <2>3. Result = "PartialFill" \/ Result = "Working"
      BY <1>1, <1>2, <2>1, <2>2 DEF Result
    <2> QED BY <2>3 DEF Retryable
  <1>3. CASE order.st = "filled"
    BY <1>3 DEF Retryable, Result
  <1>4. CASE order.st = "cancelled" /\ order.left = cur.shares
    BY <1>4 DEF Live
  <1> QED BY <1>2, <1>3, <1>4 DEF Definite

LEMMA SalesBeginExit ==
  ASSUME TypeOK, TypeOK', Control, Control', BrokerTells, SalesHold, NEW x,
         x.ticker \in Tickers, x.kind \in {"EXIT", "REDUCE"}, x.shares \in Nat \ {0},
         pc = "exits", BeginExit(x)
  PROVE  /\ cur'.shares + OpenSells(x.ticker) <= pos[x.ticker]
         /\ SalesHold'
  <1> USE DEF SalesHold
  <1>1. /\ ~Executing /\ Executing' /\ pc' = "placing" /\ UNCHANGED broker
        /\ pos' = pos /\ working' = working
        /\ crashes' = crashes /\ faults' = faults /\ disk' = disk /\ mem' = mem
    BY DEF BeginExit, Executing, broker, config
  <1>2. cur'.ticker = x.ticker /\ cur'.kind = x.kind /\ ~cur'.urgent
    BY DEF BeginExit
  <1>3. cur'.shares + OpenSells(x.ticker) <= pos[x.ticker]
    <2> DEFINE n == ValidatedShares(pos[x.ticker], x.shares, OpenSells(x.ticker))
    <2>1. cur'.shares = n /\ n > 0
      BY SeenSells DEF BeginExit
    <2>2. OpenSells(x.ticker) \in Nat /\ pos[x.ticker] \in Int
      BY WorkingType
    <2>3. n \in Nat /\ (n > 0 => n <= pos[x.ticker] - OpenSells(x.ticker))
      BY <2>2, Validated
    <2> HIDE DEF n
    <2> QED BY <2>1, <2>2, <2>3
  <1>4. Definite' /\ Backed'
    BY <1>1, <1>2, <1>3, SalesBegin
  <1>5. ~InPhase0'
    BY <1>1, <1>2 DEF InPhase0
  <1>6. Untouched' /\ Phase0Exact'
    BY <1>1, <1>5 DEF Untouched, Phase0Exact
  <1>7. Lone'
    BY <1>1, <1>2, <1>5 DEF Lone
  <1> QED BY <1>3, <1>4, <1>6, <1>7

LEMMA SalesEntry ==
  ASSUME TypeOK, TypeOK', Control, SalesHold, EntriesLong, NEW t \in Tickers,
         EntryAccepted(t)
  PROVE  SalesHold'
  <1> USE DEF SalesHold
  <1>1. /\ ~Executing /\ ~Executing' /\ ~InPhase0' /\ pc' = "exits"
        /\ faults' = faults /\ crashes' = crashes
    BY DEF EntryAccepted, Executing, InPhase0, config
  <1>2. pos[t] >= 0
    BY DEF EntryAccepted, EntriesLong, Entering
  <1>3. PICK n \in 0 .. Lot, stop \in {0, Lot} :
           /\ "slow_entry" \in faults \/ n = Lot
           /\ stop > 0 => n = Lot
           /\ pos' = [pos EXCEPT ![t] = @ + n]
           /\ working' \in [Tickers -> [OrderKinds -> Nat]]
           /\ \A s \in Tickers : s # t => working'[s] = working[s]
           /\ working'[t].buy = working[t].buy + (Lot - n)
           /\ working'[t].stop = working[t].stop + stop
           /\ working'[t].sell = working[t].sell /\ working'[t].stray = working[t].stray
           /\ working'[t].cover = working[t].cover
           /\ mem' = AddStop(MarkEntryExecuted(mem, t),
                             [ticker |-> t, by |-> "daemon",
                              shares |-> IF n = 0 THEN Lot ELSE n, taken |-> FALSE])
    BY EntryOutcome
  <1>4. n \in Nat /\ stop \in Nat /\ stop <= n
    BY <1>3, ConstantsAssumption
  <1>10. \A s \in Tickers : pos'[s] = IF s = t THEN pos[t] + n ELSE pos[s]
    BY <1>3 DEF TypeOK
  <1>11. \A s \in Tickers :
          /\ working'[s].sell = working[s].sell /\ working'[s].stray = working[s].stray
          /\ working'[s].cover = working[s].cover
          /\ working'[s].stop = IF s = t THEN working[s].stop + stop ELSE working[s].stop
    BY <1>3
  <1>5. Definite'
    BY <1>1, <1>11 DEF Definite, Executing
  <1>6. ASSUME NEW s \in Tickers
        PROVE  /\ Reserved(s)' > 0 => Reserved(s)' <= pos'[s]
               /\ Covering(s)' > 0 => Covering(s)' <= - pos'[s]
    <2>1. /\ Reserved(s)' = OpenSells(s)' /\ Covering(s)' = working'[s].cover
          /\ Reserved(s) = OpenSells(s) /\ Covering(s) = working[s].cover
      BY <1>1, IdleReserves, IdleReservesNext
    <2>2. /\ OpenSells(s) > 0 => OpenSells(s) <= pos[s]
          /\ working[s].cover > 0 => working[s].cover <= - pos[s]
      BY <2>1 DEF Backed
    <2>3. /\ working[s].sell \in Nat /\ working[s].stray \in Nat /\ working[s].stop \in Nat
          /\ working[s].cover \in Nat /\ pos[s] \in Int
      BY WorkingType
    <2>4. CASE s # t
      <3>1. OpenSells(s)' = OpenSells(s) /\ pos'[s] = pos[s] /\ working'[s].cover = working[s].cover
        BY <1>10, <1>11, <2>4 DEF OpenSells
      <3> QED BY <2>1, <2>2, <3>1
    <2>5. CASE s = t
      <3>1. OpenSells(s)' = OpenSells(s) + stop
        BY <1>4, <1>11, <2>3, <2>5 DEF OpenSells
      <3>2. pos'[s] = pos[s] + n /\ working'[s].cover = working[s].cover /\ pos[s] >= 0
        BY <1>2, <1>10, <1>11, <2>5
      <3>3. OpenSells(s) \in Nat
        BY WorkingType
      <3> QED BY <1>4, <2>1, <2>2, <2>3, <3>1, <3>2, <3>3
    <2> QED BY <2>4, <2>5
  <1>7. Backed'
    BY <1>6 DEF Backed
  <1>8. Untouched' /\ Phase0Exact'
    BY <1>1 DEF Untouched, Phase0Exact
  <1>9. Lone'
    <2>1. disk'.urgent = mem.urgent /\ mem'.urgent = mem.urgent
      <3>1. \A r : AddStop(MarkEntryExecuted(mem, t), r).urgent = mem.urgent
        BY DEF AddStop, MarkEntryExecuted, TypeOK, Book
      <3>2. disk' = mem' /\ \E r : mem' = AddStop(MarkEntryExecuted(mem, t), r)
        <4>1. disk' = mem'
          BY DEF EntryAccepted
        <4> QED BY <4>1, EntryOutcome
      <3> QED BY <3>1, <3>2
    <2>2. (\A s \in Tickers : pos[s] >= 0 /\ working[s].cover = 0) =>
            \A s \in Tickers : pos'[s] >= 0 /\ working'[s].cover = 0
      BY <1>4, <1>10, <1>11 DEF TypeOK
    <2> QED BY <1>1, <2>1, <2>2 DEF Lone
  <1> QED BY <1>5, <1>7, <1>8, <1>9

\* An order goes out for the shares in hand; what a retry gives up holds
\* nothing any more.
LEMMA SalesOrder ==
  ASSUME TypeOK, TypeOK', Control, Control', BrokerTells, SalesHold,
         PlaceOrder \/ FailQualification \/ RetryOrder
  PROVE  SalesHold'
  <1> USE DEF SalesHold
  <1>1. /\ Executing /\ Executing' /\ cur' = cur /\ pos' = pos /\ mem' = mem /\ disk' = disk
        /\ queue' = queue /\ faults' = faults /\ crashes' = crashes /\ cached' = cached
    BY DEF PlaceOrder, FailQualification, RetryOrder, Executing, broker, config
  <1>2. cur \in Exit /\ cur.shares \in Nat \ {0}
    BY <1>1 DEF TypeOK, Control, Exit
  <1>3. working' = working
    <2>1. CASE PlaceOrder \/ FailQualification
      BY <2>1 DEF PlaceOrder, FailQualification, broker
    <2>2. CASE RetryOrder
      <3>1. pc = "placed" /\ Retryable /\ working' = LeaveAs(GivenUp)
        BY <2>2 DEF RetryOrder
      <3>2. ~Live(order)
        BY <3>1, RetryableIsDead
      <3> QED BY <3>1, <3>2 DEF LeaveAs
    <2> QED BY <2>1, <2>2
  <1>4. InHand' = cur.shares /\ InHand = cur.shares
    <2>1. CASE PlaceOrder \/ FailQualification
      BY <2>1 DEF PlaceOrder, FailQualification, InHand
    <2>2. CASE RetryOrder
      <3>1. pc = "placed" /\ Retryable /\ pc' = "placing"
        BY <2>2 DEF RetryOrder
      <3>2. order.left = cur.shares
        BY <3>1, RetryableIsDead
      <3> QED BY <1>1, <3>1, <3>2 DEF InHand
    <2> QED BY <2>1, <2>2
  <1>5. Definite'
    <2>1. "silent" \notin faults
      BY DEF BrokerTells
    <2>2. CASE PlaceOrder \/ FailQualification
      BY <1>2, <1>3, <1>1, <2>1, <2>2 DEF PlaceOrder, FailQualification, Definite
    <2>3. CASE RetryOrder
      BY <1>3, <2>3 DEF RetryOrder, Definite
    <2> QED BY <2>2, <2>3
  <1>6. Backed'
    BY <1>1, <1>3, <1>4 DEF Backed, Reserved, Covering, OpenSells
  <1>7. InPhase0' <=> InPhase0
    <2>1. pc # "phase0" /\ pc' # "phase0"
      BY <1>1 DEF Executing
    <2> QED BY <1>1, <2>1 DEF InPhase0
  <1>8. Untouched'
    BY <1>1 DEF Untouched, Executing
  <1>9. Lone' /\ Phase0Exact'
    BY <1>1, <1>3, <1>7 DEF Lone, Phase0Exact, RightSide
  <1> QED BY <1>5, <1>6, <1>8, <1>9

\* What leaves the daemon's hands stays counted at the broker.
LEMMA LeaveKeepsBacked ==
  ASSUME TypeOK, TypeOK', Control, Definite, Backed, Executing, ~Executing',
         working' = LeaveAs(SideKind), pos' = pos
  PROVE  /\ Definite' /\ Backed'
         /\ \A t \in Tickers : t # cur.ticker => working'[t] = working[t]
         /\ cur.kind # "COVER" => \A t \in Tickers : working'[t].cover = working[t].cover
  <1>1. cur.ticker \in Tickers /\ order.left \in Nat /\ cur.shares \in Nat
    BY DEF TypeOK, Control, Exit, Order
  <1>2. SideKind \in {"sell", "cover"} /\ (SideKind = "cover" <=> cur.kind = "COVER")
    BY DEF SideKind
  <1> DEFINE n == IF Live(order) THEN order.left ELSE 0
  <1>3. n \in Nat /\ n <= InHand
    <2>1. CASE pc = "placing"
      BY <1>1, <2>1 DEF Control, NoOrder, Live, InHand
    <2>2. CASE pc = "placed"
      BY <1>1, <2>2 DEF InHand
    <2> QED BY <2>1, <2>2 DEF Executing
  <1>4. \A t \in Tickers, k \in OrderKinds :
          working'[t][k] = working[t][k] + (IF t = cur.ticker /\ k = SideKind THEN n ELSE 0)
    BY <1>1, <1>2, LeaveAsAdds
  <1> HIDE DEF n
  <1>5. ASSUME NEW t \in Tickers, t # cur.ticker
        PROVE  working'[t] = working[t]
    BY <1>5 DEF LeaveAs, TypeOK
  <1>6. ASSUME NEW t \in Tickers
        PROVE  /\ working'[t].stray = working[t].stray
               /\ working'[t].stop = working[t].stop
               /\ working'[t].sell = working[t].sell
                    + (IF t = cur.ticker /\ SideKind = "sell" THEN n ELSE 0)
               /\ working'[t].cover = working[t].cover
                    + (IF t = cur.ticker /\ SideKind = "cover" THEN n ELSE 0)
    <2>1. /\ working'[t]["stray"] = working[t]["stray"] + 0
          /\ working'[t]["stop"] = working[t]["stop"] + 0
          /\ working'[t]["sell"] = working[t]["sell"]
               + (IF t = cur.ticker /\ SideKind = "sell" THEN n ELSE 0)
          /\ working'[t]["cover"] = working[t]["cover"]
               + (IF t = cur.ticker /\ SideKind = "cover" THEN n ELSE 0)
      BY <1>2, <1>4
    <2> QED BY <2>1, WorkingType
  <1>7. Definite'
    BY <1>6 DEF Definite, Executing
  <1>8. ASSUME NEW t \in Tickers
        PROVE  /\ Reserved(t)' > 0 => Reserved(t)' <= pos'[t]
               /\ Covering(t)' > 0 => Covering(t)' <= - pos'[t]
    <2>1. Reserved(t)' = OpenSells(t)' /\ Covering(t)' = working'[t].cover
      BY IdleReservesNext
    <2>2. /\ Reserved(t) > 0 => Reserved(t) <= pos[t]
          /\ Covering(t) > 0 => Covering(t) <= - pos[t]
      BY DEF Backed
    <2>3. /\ working[t].sell \in Nat /\ working[t].stray \in Nat /\ working[t].stop \in Nat
          /\ working[t].cover \in Nat /\ pos[t] \in Int /\ OpenSells(t) \in Nat
      BY WorkingType
    <2>4. CASE t # cur.ticker
      <3>1. OpenSells(t)' = OpenSells(t) /\ working'[t].cover = working[t].cover
        BY <1>5, <2>4 DEF OpenSells
      <3>2. Reserved(t) = OpenSells(t) /\ Covering(t) = working[t].cover
        BY <2>4, HandReserves
      <3> QED BY <2>1, <2>2, <3>1, <3>2
    <2>5. CASE t = cur.ticker /\ cur.kind # "COVER"
      <3>1. working'[t].sell = working[t].sell + n /\ working'[t].stray = working[t].stray
            /\ working'[t].stop = working[t].stop /\ working'[t].cover = working[t].cover
        BY <1>2, <1>6, <2>3, <2>5
      <3>2. OpenSells(t)' = OpenSells(t) + n
        BY <1>3, <2>3, <3>1 DEF OpenSells
      <3>3. Reserved(t) = OpenSells(t) + InHand /\ Covering(t) = working[t].cover /\ InHand \in Nat
        BY <2>5, HandReserves
      <3> QED BY <1>3, <2>1, <2>2, <2>3, <3>1, <3>2, <3>3
    <2>6. CASE t = cur.ticker /\ cur.kind = "COVER"
      <3>1. working'[t].sell = working[t].sell /\ working'[t].stray = working[t].stray
            /\ working'[t].stop = working[t].stop /\ working'[t].cover = working[t].cover + n
        BY <1>2, <1>6, <2>3, <2>6
      <3>2. OpenSells(t)' = OpenSells(t)
        BY <3>1 DEF OpenSells
      <3>3. Reserved(t) = OpenSells(t) /\ Covering(t) = working[t].cover + InHand /\ InHand \in Nat
        BY <2>6, HandReserves
      <3> QED BY <1>3, <2>1, <2>2, <2>3, <3>1, <3>2, <3>3
    <2> QED BY <2>4, <2>5, <2>6
  <1>9. cur.kind # "COVER" => \A t \in Tickers : working'[t].cover = working[t].cover
    BY <1>2, <1>6, WorkingType
  <1> QED BY <1>5, <1>7, <1>8, <1>9 DEF Backed

\* An exit ends, or its connection is lost.
LEMMA SalesDone ==
  ASSUME TypeOK, TypeOK', Control, SalesHold,
         Executing, pc' \in {"phase0", "exits", "poll"}, cur' = NoExit,
         pc' = "phase0" => cur.urgent /\ queue' = queue,
         working' = LeaveAs(SideKind), UNCHANGED <<pos, faults, crashes>>,
         \A t \in Tickers : t # cur.ticker => cached'[t] = cached[t],
         mem'.urgent \subseteq mem.urgent,
         disk'.urgent \subseteq mem.urgent \/ disk'.urgent = disk.urgent
  PROVE  SalesHold'
  <1> USE DEF SalesHold
  <1>1. ~Executing' /\ (InPhase0' => InPhase0 /\ queue' = queue)
    BY DEF Executing, InPhase0
  <1>2. /\ Definite' /\ Backed'
        /\ \A t \in Tickers : t # cur.ticker => working'[t] = working[t]
        /\ cur.kind # "COVER" => \A t \in Tickers : working'[t].cover = working[t].cover
    BY <1>1, LeaveKeepsBacked
  <1>3. Untouched'
    BY DEF Untouched
  <1>4. Lone'
    BY <1>1, <1>2 DEF Lone, OneSell
  <1>5. Phase0Exact'
    <2> SUFFICES ASSUME InPhase0' PROVE Phase0Exact'
      BY DEF Phase0Exact
    <2>1. /\ queue \subseteq UrgentRecord /\ OnePerTicker(queue) /\ RightSide(queue)
          /\ \A u \in queue :
               /\ cached[u.ticker] = pos[u.ticker]
               /\ cur # NoExit => cur.ticker # u.ticker
               /\ crashes = 0 \/ cur # NoExit =>
                    \A k \in OrderKinds : working[u.ticker][k] = 0
      BY <1>1 DEF Phase0Exact
    <2>2. cur # NoExit
      BY DEF Control
    <2>3. ASSUME NEW u \in queue
          PROVE  /\ cached'[u.ticker] = pos'[u.ticker]
                 /\ \A k \in OrderKinds : working'[u.ticker][k] = 0
      <3>1. u.ticker \in Tickers /\ u.ticker # cur.ticker
        BY <2>1, <2>2 DEF UrgentRecord
      <3> QED BY <1>2, <2>1, <2>2, <3>1
    <2> QED BY <1>1, <2>1, <2>3 DEF Phase0Exact, RightSide
  <1> QED BY <1>2, <1>3, <1>4, <1>5

LEMMA SalesFinish ==
  ASSUME TypeOK, TypeOK', Control, SalesHold,
         FailExit \/ FinishUrgent \/ FinishExit \/ LoseConnection
  PROVE  SalesHold'
  <1>1. Executing
    BY DEF FailExit, FinishUrgent, FinishExit, Accepted, LoseConnection, Executing
  <1>2. cur.ticker \in Tickers
    BY <1>1 DEF TypeOK, Control, Exit
  <1>3. CASE FailExit
    <2>1. pc = "placed" /\ Retryable /\ ExitDone(GivenUp)
      BY <1>3 DEF FailExit
    <2>2. ~Live(order)
      BY <2>1, RetryableIsDead DEF SalesHold
    <2>3. working' = LeaveAs(SideKind)
      BY <2>1, <2>2 DEF ExitDone, LeaveAs
    <2> QED BY <1>1, <1>3, <2>1, <2>3, SalesDone DEF FailExit, ExitDone, config
  <1>4. CASE FinishUrgent
    <2>1. ExitDone(SideKind)
      BY <1>4 DEF FinishUrgent
    <2>2. mem'.urgent \subseteq mem.urgent
      <3>1. MarkUrgentExecuted(mem, cur.ticker, cur.kind).urgent \subseteq mem.urgent
        BY QuietUrgents
      <3>2. \A b : RemoveStop(b, cur.ticker).urgent = b.urgent
        BY QuietUrgents
      <3> QED BY <1>4, <3>1, <3>2 DEF FinishUrgent
    <2>3. \A t \in Tickers : t # cur.ticker => cached'[t] = cached[t]
      BY <1>4 DEF FinishUrgent, TypeOK
    <2> QED BY <1>1, <1>4, <2>1, <2>2, <2>3, SalesDone DEF FinishUrgent, ExitDone, config
  <1>5. CASE FinishExit
    <2>1. ExitDone(SideKind) /\ ~cur.urgent /\ disk' = mem' /\ cached' = cached
      BY <1>5 DEF FinishExit
    <2>2. mem'.urgent = mem.urgent
      <3>1. CASE cur.kind = "EXIT"
        BY <1>5, <3>1, QuietUrgents DEF FinishExit
      <3>2. CASE cur.kind # "EXIT"
        BY <1>5, <3>2 DEF FinishExit, TypeOK, Book
      <3> QED BY <3>1, <3>2
    <2> QED BY <1>1, <2>1, <2>2, SalesDone DEF ExitDone, config
  <1>6. CASE LoseConnection
    <2>1. SideKind = "sell"
      BY <1>1, <1>6 DEF LoseConnection, SideKind, Control
    <2> QED BY <1>1, <1>6, <2>1, SalesDone DEF LoseConnection, config
  <1> QED BY <1>3, <1>4, <1>5, <1>6

LEMMA SalesCrash ==
  ASSUME TypeOK, TypeOK', Control, SalesHold, Crash
  PROVE  SalesHold'
  <1> USE DEF SalesHold
  <1>1. /\ pos' = pos /\ disk' = disk /\ mem' = EmptyBook /\ cur' = NoExit /\ pc' = "down"
        /\ faults' = faults /\ crashes' = crashes + 1
    BY DEF Crash, config
  <1>2. ~Executing' /\ ~InPhase0' /\ crashes' # 0
    BY <1>1 DEF Executing, InPhase0, TypeOK
  <1>3. /\ Definite' /\ Backed'
        /\ (Executing => cur.kind # "COVER") =>
              \A t \in Tickers : working'[t].cover = working[t].cover
    <2>1. CASE Executing
      <3>1. working' = LeaveAs(SideKind)
        BY <2>1 DEF Crash, Control
      <3> QED BY <1>1, <1>2, <2>1, <3>1, LeaveKeepsBacked
    <2>2. CASE ~Executing
      <3>1. working' = working
        BY <2>2 DEF Crash, Control
      <3> QED BY <1>1, <1>2, <2>2, <3>1, QuietKeepsBacked DEF broker
    <2> QED BY <2>1, <2>2
  <1>4. Untouched' /\ Phase0Exact'
    BY <1>2 DEF Untouched, Phase0Exact
  <1>5. Lone'
    BY <1>1, <1>2, <1>3 DEF Lone, OneSell, EmptyBook
  <1> QED BY <1>3, <1>4, <1>5

\* Orders at the broker lose shares of one kind.
LEMMA WorkingDrops ==
  ASSUME TypeOK, NEW t \in Tickers, NEW kind \in OrderKinds, NEW n \in Nat,
         n <= working[t][kind],
         working' = [working EXCEPT ![t][kind] = working[t][kind] - n]
  PROVE  /\ \A s \in Tickers : s # t => working'[s] = working[s]
         /\ ~Buys(kind) => /\ OpenSells(t)' = OpenSells(t) - n
                           /\ working'[t].cover = working[t].cover
                           /\ n <= OpenSells(t)
         /\ kind = "cover" => /\ OpenSells(t)' = OpenSells(t)
                              /\ working'[t].cover = working[t].cover - n
                              /\ n <= working[t].cover
         /\ kind = "buy" => /\ OpenSells(t)' = OpenSells(t)
                            /\ working'[t].cover = working[t].cover
                            /\ n <= working[t].buy
         /\ \A k \in OrderKinds : working[t][k] = 0 => working'[t][k] = 0
  <1>1. \A s \in Tickers : s # t => working'[s] = working[s]
    BY DEF TypeOK
  <1>2. \A k \in OrderKinds : working'[t][k] = IF k = kind THEN working[t][k] - n ELSE working[t][k]
    BY DEF TypeOK
  <1>3. /\ working[t].sell \in Nat /\ working[t].stray \in Nat /\ working[t].stop \in Nat
        /\ working[t].cover \in Nat /\ working[t].buy \in Nat
    BY WorkingType
  <1>4. /\ working'[t].sell  = IF "sell"  = kind THEN working[t].sell  - n ELSE working[t].sell
        /\ working'[t].stray = IF "stray" = kind THEN working[t].stray - n ELSE working[t].stray
        /\ working'[t].stop  = IF "stop"  = kind THEN working[t].stop  - n ELSE working[t].stop
        /\ working'[t].cover = IF "cover" = kind THEN working[t].cover - n ELSE working[t].cover
    BY <1>2
  <1>5. CASE kind = "sell"
    <2>1. n <= working[t].sell
      BY <1>5
    <2> QED BY <1>1, <1>2, <1>3, <1>4, <1>5, <2>1 DEF OpenSells, Buys
  <1>6. CASE kind = "stray"
    <2>1. n <= working[t].stray
      BY <1>6
    <2> QED BY <1>1, <1>2, <1>3, <1>4, <1>6, <2>1 DEF OpenSells, Buys
  <1>7. CASE kind = "stop"
    <2>1. n <= working[t].stop
      BY <1>7
    <2> QED BY <1>1, <1>2, <1>3, <1>4, <1>7, <2>1 DEF OpenSells, Buys
  <1>8. CASE kind = "cover"
    <2>1. n <= working[t].cover
      BY <1>8
    <2> QED BY <1>1, <1>2, <1>3, <1>4, <1>8, <2>1 DEF OpenSells, Buys
  <1>9. CASE kind = "buy"
    <2>1. n <= working[t].buy
      BY <1>9
    <2> QED BY <1>1, <1>2, <1>3, <1>4, <1>9, <2>1 DEF OpenSells, Buys
  <1> QED BY <1>5, <1>6, <1>7, <1>8, <1>9

LEMMA SalesFillWorking ==
  ASSUME TypeOK, TypeOK', Control, Control', SalesHold, EntriesLong,
         NEW t \in Tickers, NEW kind \in OrderKinds, FillWorking(t, kind)
  PROVE  SalesHold'
  <1> USE DEF SalesHold
  <1>1. PICK n \in Nat \ {0} :
          /\ n <= working[t][kind]
          /\ working' = [working EXCEPT ![t][kind] = @ - n]
          /\ Buys(kind) => pos' = [pos EXCEPT ![t] = @ + n]
          /\ ~Buys(kind) => pos' = [pos EXCEPT ![t] = @ - n]
    BY FillWorkingMoves
  <1>2. /\ \A s \in Tickers : s # t => working'[s] = working[s]
        /\ ~Buys(kind) => /\ OpenSells(t)' = OpenSells(t) - n
                          /\ working'[t].cover = working[t].cover
                          /\ n <= OpenSells(t)
        /\ kind = "cover" => /\ OpenSells(t)' = OpenSells(t)
                             /\ working'[t].cover = working[t].cover - n
                             /\ n <= working[t].cover
        /\ kind = "buy" => /\ OpenSells(t)' = OpenSells(t)
                           /\ working'[t].cover = working[t].cover
                           /\ n <= working[t].buy
        /\ \A k \in OrderKinds : working[t][k] = 0 => working'[t][k] = 0
    BY <1>1, WorkingDrops
  <1>3. /\ pc \in {"down", "waiting", "placing", "placed", "poll"} /\ pc' = pc /\ cur' = cur
        /\ order' = order /\ queue' = queue /\ mem' = mem /\ disk' = disk
        /\ cached' = cached /\ faults' = faults /\ crashes' = crashes
    BY DEF FillWorking, Listening, daemon, config
  <1>4. (Executing' <=> Executing) /\ InHand' = InHand /\ (InPhase0' <=> InPhase0)
    BY <1>3 DEF Executing, InHand, InPhase0
  <1>5. Definite'
    <2>1. \A s \in Tickers : working'[s]["stray"] = 0
      <3>1. \A s \in Tickers : working[s]["stray"] = 0
        BY DEF Definite
      <3> QED BY <1>2, <3>1
    <2> QED BY <1>3, <2>1 DEF Definite
  <1>6. /\ pos'[t] = IF Buys(kind) THEN pos[t] + n ELSE pos[t] - n
        /\ \A s \in Tickers : s # t => pos'[s] = pos[s]
    BY <1>1 DEF TypeOK
  <1>12. kind = "buy" => /\ pos[t] >= 0
                         /\ InPhase0 => \A u \in queue : u.ticker # t
    <2>1. kind = "buy" => working[t].buy > 0
      BY <1>1, <1>2, WorkingType
    <2> QED BY <2>1 DEF EntriesLong, Entering
  <1>7. ASSUME NEW s \in Tickers
        PROVE  /\ Reserved(s)' > 0 => Reserved(s)' <= pos'[s]
               /\ Covering(s)' > 0 => Covering(s)' <= - pos'[s]
    <2> DEFINE sold == IF Executing /\ cur.ticker = s /\ cur.kind # "COVER" THEN InHand ELSE 0
               bought == IF Executing /\ cur.ticker = s /\ cur.kind = "COVER" THEN InHand ELSE 0
    <2>1. /\ Reserved(s) = OpenSells(s) + sold /\ Covering(s) = working[s].cover + bought
          /\ Reserved(s)' = OpenSells(s)' + sold /\ Covering(s)' = working'[s].cover + bought
      BY <1>3, <1>4 DEF Reserved, Covering
    <2>2. sold \in Nat /\ bought \in Nat
      <3>1. Executing => InHand \in Nat
        BY HandReserves
      <3> QED BY <3>1
    <2> HIDE DEF sold, bought
    <2>3. /\ Reserved(s) > 0 => Reserved(s) <= pos[s]
          /\ Covering(s) > 0 => Covering(s) <= - pos[s]
      BY DEF Backed
    <2>4. OpenSells(s) \in Nat /\ working[s].cover \in Nat /\ pos[s] \in Int
      BY WorkingType
    <2>5. CASE s # t
      <3>1. OpenSells(s)' = OpenSells(s) /\ working'[s].cover = working[s].cover /\ pos'[s] = pos[s]
        BY <1>2, <1>6, <2>5 DEF OpenSells
      <3> QED BY <2>1, <2>3, <3>1
    <2>6. CASE s = t /\ ~Buys(kind)
      <3>1. /\ OpenSells(s)' = OpenSells(s) - n /\ working'[s].cover = working[s].cover
            /\ n <= OpenSells(s) /\ pos'[s] = pos[s] - n
        BY <1>2, <1>6, <2>6
      <3> QED BY <2>1, <2>2, <2>3, <2>4, <3>1
    <2>7. CASE s = t /\ kind = "cover"
      <3>1. /\ OpenSells(s)' = OpenSells(s) /\ working'[s].cover = working[s].cover - n
            /\ n <= working[s].cover /\ pos'[s] = pos[s] + n
        BY <1>2, <1>6, <2>7 DEF Buys
      <3> QED BY <2>1, <2>2, <2>3, <2>4, <3>1
    <2>8. CASE s = t /\ kind = "buy"
      <3>1. /\ OpenSells(s)' = OpenSells(s) /\ working'[s].cover = working[s].cover
            /\ pos[s] >= 0 /\ pos'[s] = pos[s] + n
        BY <1>2, <1>6, <1>12, <2>8 DEF Buys
      <3> QED BY <2>1, <2>2, <2>3, <2>4, <3>1
    <2> QED BY <2>5, <2>6, <2>7, <2>8 DEF Buys
  <1>8. Backed'
    BY <1>7 DEF Backed
  <1>9. Untouched'
    <2> SUFFICES ASSUME crashes = 0, pc \in {"down", "waiting"} PROVE FALSE
      BY <1>3 DEF Untouched
    <2>1. working[t][kind] = 0
      BY DEF Untouched
    <2> QED BY <1>1, <2>1
  <1>10. Lone'
    <2> SUFFICES ASSUME "crash" \in faults, "several" \notin faults
                 PROVE  \A s \in Tickers : pos'[s] >= 0 /\ working'[s].cover = 0
      BY <1>3, <1>4 DEF Lone
    <2>1. \A s \in Tickers : pos[s] >= 0 /\ working[s].cover = 0
      BY DEF Lone
    <2>2. kind # "cover"
      BY <1>1, <1>2, <2>1
    <2>3. OpenSells(t) <= pos[t]
      <3>1. OpenSells(t) <= Reserved(t)
        <4>1. ~Executing => Reserved(t) = OpenSells(t)
          BY IdleReserves
        <4>2. Executing => (Reserved(t) = OpenSells(t) \/ Reserved(t) = OpenSells(t) + InHand)
                           /\ InHand \in Nat
          BY HandReserves
        <4> QED BY <4>1, <4>2, WorkingType
      <3>2. Reserved(t) > 0 => Reserved(t) <= pos[t]
        BY DEF Backed
      <3>3. Reserved(t) \in Int
        <4>1. ~Executing => Reserved(t) = OpenSells(t)
          BY IdleReserves
        <4>2. Executing => (Reserved(t) = OpenSells(t) \/ Reserved(t) = OpenSells(t) + InHand)
                           /\ InHand \in Nat
          BY HandReserves
        <4> QED BY <4>1, <4>2, WorkingType
      <3> QED BY <2>1, <3>1, <3>2, <3>3, WorkingType
    <2> QED BY <1>2, <1>6, <2>1, <2>2, <2>3, WorkingType DEF Buys
  <1>11. Phase0Exact'
    <2> SUFFICES ASSUME InPhase0 PROVE Phase0Exact'
      BY <1>4 DEF Phase0Exact
    <2>1. cur # NoExit
      BY <1>3 DEF InPhase0, Control
    <2>2. \A u \in queue : u.ticker \in Tickers /\ u.ticker # t
      <3>1. ASSUME NEW u \in queue PROVE u.ticker # t
        <4>1. \A k \in OrderKinds : working[u.ticker][k] = 0
          BY <2>1 DEF Phase0Exact
        <4> QED BY <1>1, <4>1
      <3> QED BY <3>1 DEF Phase0Exact, UrgentRecord
    <2>3. \A u \in queue : pos'[u.ticker] = pos[u.ticker] /\ working'[u.ticker] = working[u.ticker]
      BY <1>2, <1>6, <2>2
    <2> QED BY <1>3, <2>3 DEF Phase0Exact, RightSide
  <1> QED BY <1>5, <1>8, <1>9, <1>10, <1>11

LEMMA SalesCancelWorking ==
  ASSUME TypeOK, TypeOK', Control, Control', SalesHold,
         NEW t \in Tickers, NEW kind \in OrderKinds, CancelWorking(t, kind)
  PROVE  SalesHold'
  <1> USE DEF SalesHold
  <1> DEFINE n == working[t][kind]
  <1>1. n \in Nat /\ n <= working[t][kind]
    BY DEF TypeOK
  <1>2. working' = [working EXCEPT ![t][kind] = working[t][kind] - n]
    <2>1. working[t][kind] - n = 0
      BY <1>1
    <2>2. working' = [working EXCEPT ![t][kind] = 0]
      BY DEF CancelWorking
    <2> HIDE DEF n
    <2> QED BY <2>1, <2>2
  <1> HIDE DEF n
  <1>3. /\ \A s \in Tickers : s # t => working'[s] = working[s]
        /\ ~Buys(kind) => /\ OpenSells(t)' = OpenSells(t) - n
                          /\ working'[t].cover = working[t].cover
                          /\ n <= OpenSells(t)
        /\ kind = "cover" => /\ OpenSells(t)' = OpenSells(t)
                             /\ working'[t].cover = working[t].cover - n
                             /\ n <= working[t].cover
        /\ kind = "buy" => /\ OpenSells(t)' = OpenSells(t)
                           /\ working'[t].cover = working[t].cover
                           /\ n <= working[t].buy
        /\ \A k \in OrderKinds : working[t][k] = 0 => working'[t][k] = 0
    BY <1>1, <1>2, WorkingDrops
  <1>4. /\ pc' = pc /\ cur' = cur /\ pos' = pos
        /\ order' = order /\ queue' = queue /\ mem' = mem /\ disk' = disk
        /\ cached' = cached /\ faults' = faults /\ crashes' = crashes
    BY DEF CancelWorking, daemon, config
  <1>5. (Executing' <=> Executing) /\ InHand' = InHand /\ (InPhase0' <=> InPhase0)
    BY <1>4 DEF Executing, InHand, InPhase0
  <1>6. \A s \in Tickers, k \in OrderKinds : working[s][k] = 0 => working'[s][k] = 0
    BY <1>3
  <1>7. Definite'
    <2>1. \A s \in Tickers : working'[s]["stray"] = 0
      <3>1. \A s \in Tickers : working[s]["stray"] = 0
        BY DEF Definite
      <3> QED BY <1>6, <3>1
    <2> QED BY <1>4, <2>1 DEF Definite
  <1>8. ASSUME NEW s \in Tickers
        PROVE  /\ Reserved(s)' > 0 => Reserved(s)' <= pos'[s]
               /\ Covering(s)' > 0 => Covering(s)' <= - pos'[s]
    <2> DEFINE sold == IF Executing /\ cur.ticker = s /\ cur.kind # "COVER" THEN InHand ELSE 0
               bought == IF Executing /\ cur.ticker = s /\ cur.kind = "COVER" THEN InHand ELSE 0
    <2>1. /\ Reserved(s) = OpenSells(s) + sold /\ Covering(s) = working[s].cover + bought
          /\ Reserved(s)' = OpenSells(s)' + sold /\ Covering(s)' = working'[s].cover + bought
      BY <1>4, <1>5 DEF Reserved, Covering
    <2>2. sold \in Nat /\ bought \in Nat
      <3>1. Executing => InHand \in Nat
        BY HandReserves
      <3> QED BY <3>1
    <2> HIDE DEF sold, bought
    <2>3. /\ Reserved(s) > 0 => Reserved(s) <= pos[s]
          /\ Covering(s) > 0 => Covering(s) <= - pos[s]
      BY DEF Backed
    <2>4. OpenSells(s) \in Nat /\ working[s].cover \in Nat /\ pos[s] \in Int
      BY WorkingType
    <2>5. /\ OpenSells(s)' \in Nat /\ OpenSells(s)' <= OpenSells(s)
          /\ working'[s].cover \in Nat /\ working'[s].cover <= working[s].cover
      <3>1. CASE s # t
        BY <1>3, <2>4, <3>1 DEF OpenSells
      <3>2. CASE s = t
        <4>1. Buys(kind) => kind = "cover" \/ kind = "buy"
          BY DEF Buys
        <4> QED BY <1>1, <1>3, <2>4, <3>2, <4>1
      <3> QED BY <3>1, <3>2
    <2> QED BY <1>4, <2>1, <2>2, <2>3, <2>4, <2>5
  <1>9. Backed'
    BY <1>8 DEF Backed
  <1>10. Untouched'
    BY <1>4, <1>6 DEF Untouched, OnePerTicker, RightSide
  <1>11. Lone'
    <2>1. \A s \in Tickers : working[s].cover = 0 => working'[s].cover = 0
      <3>1. \A s \in Tickers : working[s]["cover"] = 0 => working'[s]["cover"] = 0
        BY <1>6
      <3> QED BY <3>1
    <2> QED BY <1>4, <1>5, <2>1 DEF Lone
  <1>12. Phase0Exact'
    <2> SUFFICES ASSUME InPhase0 PROVE Phase0Exact'
      BY <1>5 DEF Phase0Exact
    <2>1. \A u \in queue : u.ticker \in Tickers
      BY DEF Phase0Exact, UrgentRecord
    <2> QED BY <1>4, <1>6, <2>1 DEF Phase0Exact, RightSide
  <1> QED BY <1>7, <1>9, <1>10, <1>11, <1>12

LEMMA SalesFillOrder ==
  ASSUME TypeOK, TypeOK', Control, Control', BrokerTells, SalesHold,
         FillOrder \/ CancelOrder \/ AcknowledgeOrder
  PROVE  SalesHold'
  <1> USE DEF SalesHold
  <1>1. /\ pc = "placed" /\ pc' = "placed" /\ cur' = cur /\ working' = working
        /\ queue' = queue /\ mem' = mem /\ disk' = disk
        /\ cached' = cached /\ faults' = faults /\ crashes' = crashes
    BY DEF FillOrder, CancelOrder, AcknowledgeOrder, broker, config
  <1>2. Executing /\ Executing' /\ InHand = order.left /\ InHand' = order'.left
        /\ (InPhase0' <=> InPhase0)
    BY <1>1 DEF Executing, InHand, InPhase0
  <1>3. cur.ticker \in Tickers /\ cur.shares \in Nat /\ order.left \in Nat
    BY <1>2 DEF TypeOK, Control, Exit, Order
  <1>4. Untouched'
    BY <1>1 DEF Untouched
  <1>5. CASE FillOrder
    <2>1. PICK n \in Nat \ {0} :
            /\ n <= order.left
            /\ order' = [st |-> IF n = order.left THEN "filled" ELSE "working",
                         left |-> order.left - n]
            /\ cur.kind = "COVER" => pos' = [pos EXCEPT ![cur.ticker] = @ + n]
            /\ cur.kind # "COVER" => pos' = [pos EXCEPT ![cur.ticker] = @ - n]
      BY <1>5, FillOrderMoves
    <2>2. order.left <= cur.shares
      <3>1. Live(order)
        BY <1>5 DEF FillOrder
      <3> QED BY <1>1, <1>3, <3>1 DEF Definite, Live
    <2>3. Definite'
      BY <1>1, <1>3, <2>1, <2>2 DEF Definite
    <2>4. \A s \in Tickers : s # cur.ticker => pos'[s] = pos[s]
      BY <2>1 DEF TypeOK
    <2>5. pos'[cur.ticker] = IF cur.kind = "COVER" THEN pos[cur.ticker] + n
                             ELSE pos[cur.ticker] - n
      BY <1>3, <2>1 DEF TypeOK
    <2>6. ASSUME NEW s \in Tickers
          PROVE  /\ Reserved(s)' > 0 => Reserved(s)' <= pos'[s]
                 /\ Covering(s)' > 0 => Covering(s)' <= - pos'[s]
      <3>1. /\ Reserved(s) > 0 => Reserved(s) <= pos[s]
            /\ Covering(s) > 0 => Covering(s) <= - pos[s]
        BY DEF Backed
      <3>2. OpenSells(s) \in Nat /\ working[s].cover \in Nat /\ pos[s] \in Int
            /\ OpenSells(s)' = OpenSells(s)
        BY <1>1, WorkingType DEF OpenSells
      <3>3. CASE s # cur.ticker
        <4>1. Reserved(s)' = Reserved(s) /\ Covering(s)' = Covering(s)
          BY <1>1, <1>2, <3>2, <3>3, HandReserves, HandReservesNext
        <4> QED BY <2>4, <3>1, <3>3, <4>1
      <3>4. CASE s = cur.ticker /\ cur.kind # "COVER"
        <4>1. Reserved(s) = OpenSells(s) + order.left /\ Covering(s) = working[s].cover
          BY <1>2, <3>4, HandReserves
        <4>2. Reserved(s)' = OpenSells(s) + (order.left - n) /\ Covering(s)' = working[s].cover
          BY <1>1, <1>2, <2>1, <3>2, <3>4, HandReservesNext
        <4>3. pos'[s] = pos[s] - n
          BY <2>5, <3>4
        <4> QED BY <1>3, <2>1, <3>1, <3>2, <4>1, <4>2, <4>3
      <3>5. CASE s = cur.ticker /\ cur.kind = "COVER"
        <4>1. Reserved(s) = OpenSells(s) /\ Covering(s) = working[s].cover + order.left
          BY <1>2, <3>5, HandReserves
        <4>2. Reserved(s)' = OpenSells(s) /\ Covering(s)' = working[s].cover + (order.left - n)
          BY <1>1, <1>2, <2>1, <3>2, <3>5, HandReservesNext
        <4>3. pos'[s] = pos[s] + n
          BY <2>5, <3>5
        <4> QED BY <1>3, <2>1, <3>1, <3>2, <4>1, <4>2, <4>3
      <3> QED BY <3>3, <3>4, <3>5
    <2>7. Backed'
      BY <2>6 DEF Backed
    <2>8. Lone'
      <3> SUFFICES ASSUME "crash" \in faults, "several" \notin faults
                   PROVE  \A s \in Tickers : pos'[s] >= 0
        BY <1>1, <1>2 DEF Lone
      <3>1. (\A s \in Tickers : pos[s] >= 0) /\ cur.kind # "COVER"
        BY <1>2 DEF Lone
      <3>2. pos[cur.ticker] >= n
        <4>1. Reserved(cur.ticker) = OpenSells(cur.ticker) + order.left
          BY <1>2, <1>3, <3>1, HandReserves
        <4>2. Reserved(cur.ticker) > 0 => Reserved(cur.ticker) <= pos[cur.ticker]
          BY <1>3 DEF Backed
        <4>3. OpenSells(cur.ticker) \in Nat /\ pos[cur.ticker] \in Int
          BY <1>3, WorkingType
        <4> QED BY <1>3, <2>1, <4>1, <4>2, <4>3
      <3>3. pos[cur.ticker] \in Int
        BY <1>3, WorkingType
      <3> QED BY <2>1, <2>4, <2>5, <3>1, <3>2, <3>3
    <2>9. Phase0Exact'
      <3> SUFFICES ASSUME InPhase0 PROVE Phase0Exact'
        BY <1>2 DEF Phase0Exact
      <3>1. cur # NoExit
        BY <1>2 DEF Control
      <3>2. \A u \in queue : u.ticker \in Tickers /\ u.ticker # cur.ticker
        BY <3>1 DEF Phase0Exact, UrgentRecord
      <3>3. \A u \in queue : pos'[u.ticker] = pos[u.ticker]
        BY <2>4, <3>2
      <3> QED BY <1>1, <3>3 DEF Phase0Exact, RightSide
    <2> QED BY <1>4, <2>3, <2>7, <2>8, <2>9
  <1>6. CASE CancelOrder \/ AcknowledgeOrder
    <2>1. pos' = pos /\ order'.left = order.left
      BY <1>6 DEF CancelOrder, AcknowledgeOrder, broker, TypeOK, Order
    <2>2. Definite'
      <3>1. CASE CancelOrder
        <4>1. "partial_cancel" \notin faults
          BY DEF BrokerTells
        <4>2. ~(order.left < cur.shares) /\ Live(order)
          BY <3>1, <4>1 DEF CancelOrder
        <4>3. order.left = cur.shares
          BY <1>1, <1>3, <4>2 DEF Definite, Live
        <4>4. order'.st = "cancelled"
          BY <3>1 DEF CancelOrder, TypeOK, Order
        <4> QED BY <1>1, <2>1, <4>3, <4>4 DEF Definite
      <3>2. CASE AcknowledgeOrder
        BY <1>1, <3>2 DEF AcknowledgeOrder, Definite
      <3> QED BY <1>6, <3>1, <3>2
    <2>3. Backed'
      BY <1>1, <1>2, <2>1 DEF Backed, Reserved, Covering, OpenSells
    <2>4. Lone' /\ Phase0Exact'
      BY <1>1, <1>2, <2>1 DEF Lone, Phase0Exact, RightSide
    <2> QED BY <1>4, <2>2, <2>3, <2>4
  <1> QED BY <1>5, <1>6

LEMMA SalesNext ==
  ASSUME TypeOK, TypeOK', Control, Control', CrashInv, SalesInv, EntriesInv, [Next]_vars
  PROVE  SalesInv'
  <1> SUFFICES ASSUME RepeatIsSafe', BrokerTells' PROVE SalesHold'
    BY DEF SalesInv
  <1>1. RepeatIsSafe /\ BrokerTells
    BY CaseWasSafe
  <1>2. SalesHold /\ EntriesLong
    BY <1>1 DEF SalesInv, EntriesInv
  <1>3. CASE DaemonStep
    <2>1. ASSUME NEW r \in queue \cap StopRecord, SignalExit(r) PROVE SalesHold'
      <3>1. PICK x \in Signals(r) : SkipExit(x) \/ BeginExit(x)
        BY <2>1 DEF SignalExit
      <3>2. pc = "exits"
        BY <2>1 DEF SignalExit
      <3> QED BY <1>1, <1>2, <3>1, <3>2, SignalsType, SalesQuiet, SalesBeginExit
    <2>2. ASSUME NEW t \in Tickers, ForceExit(t) PROVE SalesHold'
      <3> DEFINE x == [ticker |-> t, kind |-> "EXIT", shares |-> pos[t]]
      <3>1. pc = "exits" /\ pos[t] > 0 /\ (SkipExit(x) \/ BeginExit(x))
        BY <2>2 DEF ForceExit
      <3>2. x.ticker \in Tickers /\ x.kind \in {"EXIT", "REDUCE"} /\ x.shares \in Nat \ {0}
        BY <3>1 DEF TypeOK
      <3> HIDE DEF x
      <3> QED BY <1>1, <1>2, <3>1, <3>2, SalesQuiet, SalesBeginExit
    <2> QED BY <1>1, <1>2, <1>3, <2>1, <2>2, SalesQuiet, SalesBeginUrgent, SalesEntry,
            SalesOrder, SalesFinish DEF DaemonStep
  <1>4. CASE LoseConnection \/ Crash \/ Close
    BY <1>1, <1>2, <1>4, SalesFinish, SalesCrash, SalesQuiet
  <1>5. CASE BrokerStep
    BY <1>1, <1>2, <1>5, SalesFillOrder, SalesFillWorking, SalesCancelWorking DEF BrokerStep
  <1>6. CASE UNCHANGED vars
    <2>1. SalesHold' <=> SalesHold
      BY <1>6 DEF SalesHold, Definite, Backed, Reserved, Covering, OpenSells, InHand,
         Executing, Untouched, OnePerTicker, RightSide, Lone, OneSell, Phase0Exact,
         InPhase0, vars, broker, config, daemon
    <2> QED BY <1>2, <2>1
  <1> QED BY <1>3, <1>4, <1>5, <1>6 DEF Next

LEMMA EntriesInit == Init => EntriesInv
  <1> SUFFICES ASSUME Init PROVE EntriesLong
    BY DEF EntriesInv
  <1>1. PICK U \in SUBSET PlannedUrgents(pos) :
          \E E \in SUBSET Enterable(pos, U) : disk.urgent = U /\ disk.entries = E
    BY DEF Init
  <1>2. ASSUME NEW t \in Tickers, t \in disk.entries
        PROVE  pos[t] >= 0 /\ \A u \in disk.urgent : u.ticker # t
    BY <1>1, <1>2, TypeInit DEF Enterable, TypeOK
  <1>3. /\ mem.entries = {} /\ mem.urgent = {} /\ ~InPhase0
        /\ \A t \in Tickers : working[t].buy = 0
    BY DEF Init, EmptyBook, InPhase0, Executing
  <1> QED BY <1>2, <1>3 DEF EntriesLong, Entering

\* A name to be entered is not sold short, whatever is being sold of it.
LEMMA FillsKeepLong ==
  ASSUME TypeOK, TypeOK', Control, SalesHold, NEW t \in Tickers, pos[t] >= 0,
         FillOrder \/ \E s \in Tickers, kind \in OrderKinds : FillWorking(s, kind)
  PROVE  pos'[t] >= 0
  <1>1. /\ Reserved(t) > 0 => Reserved(t) <= pos[t]
        /\ Executing => InHand \in Nat
    BY HandReserves DEF SalesHold, Backed
  <1>2. OpenSells(t) \in Nat /\ pos[t] \in Int
    BY WorkingType
  <1>3. CASE FillOrder
    <2>1. PICK n \in Nat \ {0} :
            /\ n <= order.left
            /\ cur.kind = "COVER" => pos' = [pos EXCEPT ![cur.ticker] = @ + n]
            /\ cur.kind # "COVER" => pos' = [pos EXCEPT ![cur.ticker] = @ - n]
      BY <1>3, FillOrderMoves
    <2>2. Executing /\ InHand = order.left
      BY <1>3 DEF FillOrder, Executing, InHand
    <2>3. cur.ticker = t /\ cur.kind # "COVER" => Reserved(t) = OpenSells(t) + InHand
      BY <2>2, HandReserves
    <2> QED BY <1>1, <1>2, <2>1, <2>2, <2>3 DEF TypeOK
  <1>4. ASSUME NEW s \in Tickers, NEW kind \in OrderKinds, FillWorking(s, kind)
        PROVE  pos'[t] >= 0
    <2>1. PICK n \in Nat \ {0} :
            /\ n <= working[s][kind]
            /\ working' = [working EXCEPT ![s][kind] = @ - n]
            /\ Buys(kind) => pos' = [pos EXCEPT ![s] = @ + n]
            /\ ~Buys(kind) => pos' = [pos EXCEPT ![s] = @ - n]
      BY <1>4, FillWorkingMoves
    <2>2. ~Buys(kind) => n <= OpenSells(s)
      BY <2>1, WorkingDrops
    <2>3. OpenSells(t) <= Reserved(t) /\ Reserved(t) \in Int
      <3>1. ~Executing => Reserved(t) = OpenSells(t)
        BY IdleReserves
      <3>2. Executing => Reserved(t) = OpenSells(t) \/ Reserved(t) = OpenSells(t) + InHand
        BY HandReserves
      <3> QED BY <1>1, <1>2, <3>1, <3>2
    <2> QED BY <1>1, <1>2, <2>1, <2>2, <2>3 DEF TypeOK
  <1> QED BY <1>3, <1>4

LEMMA FillsLeaveFlat ==
  ASSUME TypeOK, TypeOK', Control, SalesHold, NEW t \in Tickers,
         pos[t] = 0, working[t].buy = 0,
         FillOrder \/ \E s \in Tickers, kind \in OrderKinds : FillWorking(s, kind)
  PROVE  pos'[t] = 0
  <1>1. /\ Reserved(t) > 0 => Reserved(t) <= pos[t]
        /\ Covering(t) > 0 => Covering(t) <= - pos[t]
        /\ Executing => InHand \in Nat
    BY HandReserves DEF SalesHold, Backed
  <1>2. OpenSells(t) \in Nat /\ working[t].cover \in Nat
    BY WorkingType
  <1>3. CASE FillOrder
    <2>1. PICK n \in Nat \ {0} :
            /\ n <= order.left
            /\ cur.kind = "COVER" => pos' = [pos EXCEPT ![cur.ticker] = @ + n]
            /\ cur.kind # "COVER" => pos' = [pos EXCEPT ![cur.ticker] = @ - n]
      BY <1>3, FillOrderMoves
    <2>2. Executing /\ InHand = order.left
      BY <1>3 DEF FillOrder, Executing, InHand
    <2>3. CASE cur.ticker = t
      <3>1. /\ cur.kind # "COVER" => Reserved(t) = OpenSells(t) + InHand
            /\ cur.kind = "COVER" => Covering(t) = working[t].cover + InHand
        BY <2>2, <2>3, HandReserves
      <3> QED BY <1>1, <1>2, <2>1, <2>2, <3>1
    <2>4. CASE cur.ticker # t
      BY <2>1, <2>4 DEF TypeOK
    <2> QED BY <2>3, <2>4
  <1>4. ASSUME NEW s \in Tickers, NEW kind \in OrderKinds, FillWorking(s, kind)
        PROVE  pos'[t] = 0
    <2>1. PICK n \in Nat \ {0} :
            /\ n <= working[s][kind]
            /\ working' = [working EXCEPT ![s][kind] = @ - n]
            /\ Buys(kind) => pos' = [pos EXCEPT ![s] = @ + n]
            /\ ~Buys(kind) => pos' = [pos EXCEPT ![s] = @ - n]
      BY <1>4, FillWorkingMoves
    <2>2. /\ ~Buys(kind) => n <= OpenSells(s)
          /\ kind = "cover" => n <= working[s].cover
          /\ kind = "buy" => n <= working[s].buy
      BY <2>1, WorkingDrops
    <2>3. CASE s = t
      <3>1. /\ OpenSells(t) <= Reserved(t) /\ Reserved(t) \in Int
            /\ working[t].cover <= Covering(t) /\ Covering(t) \in Int
        <4>1. ~Executing => Reserved(t) = OpenSells(t) /\ Covering(t) = working[t].cover
          BY IdleReserves
        <4>2. Executing => /\ Reserved(t) = OpenSells(t) \/ Reserved(t) = OpenSells(t) + InHand
                           /\ \/ Covering(t) = working[t].cover
                              \/ Covering(t) = working[t].cover + InHand
          BY HandReserves
        <4> QED BY <1>1, <1>2, <4>1, <4>2
      <3>2. ~Buys(kind) \/ kind = "cover" \/ kind = "buy"
        BY DEF Buys
      <3> QED BY <1>1, <1>2, <2>1, <2>2, <2>3, <3>1, <3>2
    <2>4. CASE s # t
      BY <2>1, <2>4 DEF TypeOK
    <2> QED BY <2>3, <2>4
  <1> QED BY <1>3, <1>4

\* No step but an entry adds one, or a buy.
BuysNoMore ==
  /\ disk'.entries \cup mem'.entries \subseteq disk.entries \cup mem.entries
  /\ \A t \in Tickers : working[t].buy = 0 => working'[t].buy = 0

\* The steps that read, drop or add no more than covers of shorts.
LEMMA EntriesStay ==
  ASSUME TypeOK, TypeOK', EntriesLong,
         \A t \in Tickers : Entering(t)' => Entering(t),
         \A t \in Tickers : pos[t] >= 0 => pos'[t] >= 0,
         \A u \in disk'.urgent \cup mem'.urgent :
           u \in disk.urgent \cup mem.urgent \/ pos[u.ticker] < 0,
         InPhase0' => \/ InPhase0 /\ queue' \subseteq queue
                      \/ queue' \subseteq mem'.urgent
  PROVE  EntriesLong'
  <1> SUFFICES ASSUME NEW t \in Tickers, Entering(t)'
               PROVE  /\ pos'[t] >= 0
                      /\ \A u \in disk'.urgent \cup mem'.urgent : u.ticker # t
                      /\ InPhase0' => \A u \in queue' : u.ticker # t
    BY DEF EntriesLong
  <1>1. /\ pos[t] >= 0
        /\ \A u \in disk.urgent \cup mem.urgent : u.ticker # t
        /\ InPhase0 => \A u \in queue : u.ticker # t
    BY DEF EntriesLong
  <1>2. pos[t] \in Int
    BY WorkingType
  <1>3. \A u \in disk'.urgent \cup mem'.urgent : u.ticker # t
    BY <1>1, <1>2
  <1> QED BY <1>1, <1>3

\* What each operation of the book does to its entries and urgent exits.
LEMMA BookShrinks ==
  ASSUME NEW b \in Book, NEW t
  PROVE  /\ \A r : AddStop(b, r).urgent = b.urgent /\ AddStop(b, r).entries = b.entries
         /\ RemoveStop(b, t).urgent = b.urgent /\ RemoveStop(b, t).entries = b.entries
         /\ \A S : /\ MergeExecuted(b, S).urgent \subseteq b.urgent
                  /\ MergeExecuted(b, S).entries \subseteq b.entries
         /\ \A kind : /\ MarkUrgentExecuted(b, t, kind).urgent \subseteq b.urgent
                     /\ MarkUrgentExecuted(b, t, kind).entries = b.entries
         /\ MarkEntryExecuted(b, t).urgent = b.urgent
         /\ MarkEntryExecuted(b, t).entries = b.entries \ {t}
  <1>1. \A r : AddStop(b, r).urgent = b.urgent /\ AddStop(b, r).entries = b.entries
    BY DEF AddStop, Book
  <1>2. RemoveStop(b, t).urgent = b.urgent /\ RemoveStop(b, t).entries = b.entries
    BY DEF RemoveStop, Book
  <1>3. \A S : /\ MergeExecuted(b, S).urgent \subseteq b.urgent
              /\ MergeExecuted(b, S).entries \subseteq b.entries
    BY DEF MergeExecuted, Book
  <1>4. \A kind : /\ MarkUrgentExecuted(b, t, kind).urgent \subseteq b.urgent
                 /\ MarkUrgentExecuted(b, t, kind).entries = b.entries
    <2>1. \A D, E : /\ [b EXCEPT !.urgent = @ \ D, !.executed = @ \cup E].urgent \subseteq b.urgent
                   /\ [b EXCEPT !.urgent = @ \ D, !.executed = @ \cup E].entries = b.entries
      BY DEF Book
    <2> QED BY <2>1 DEF MarkUrgentExecuted
  <1>5. /\ MarkEntryExecuted(b, t).urgent = b.urgent
        /\ MarkEntryExecuted(b, t).entries = b.entries \ {t}
    BY DEF MarkEntryExecuted, Book
  <1> QED BY <1>1, <1>2, <1>3, <1>4, <1>5

LEMMA UrgentShrinks ==
  ASSUME NEW b \in Book, NEW t, NEW kind
  PROVE  /\ MarkUrgentExecuted(b, t, kind).urgent \subseteq b.urgent
         /\ MarkUrgentExecuted(b, t, kind).entries = b.entries
  <1>1. \A D, E : /\ [b EXCEPT !.urgent = @ \ D, !.executed = @ \cup E].urgent \subseteq b.urgent
                 /\ [b EXCEPT !.urgent = @ \ D, !.executed = @ \cup E].entries = b.entries
    BY DEF Book
  <1> QED BY <1>1 DEF MarkUrgentExecuted

LEMMA BuysStay ==
  ASSUME TypeOK, Control, Executing, NEW kind \in {"sell", "stray", "cover"},
         working' = LeaveAs(kind)
  PROVE  \A t \in Tickers : working'[t].buy = working[t].buy
  <1>1. \A t \in Tickers : working'[t]["buy"] = working[t]["buy"] + 0
    BY LeaveAsAdds
  <1> QED BY <1>1, WorkingType

LEMMA EntriesQuiet ==
  ASSUME TypeOK, TypeOK', Control, EntriesLong,
         \/ Boot \/ OpenPhase0 \/ EndPhase0 \/ Tick \/ EndTick \/ Close
         \/ \E u \in queue \cap UrgentRecord : SkipUrgent(u) \/ BeginUrgent(u)
         \/ \E r \in queue \cap StopRecord : NoSignal(r)
         \/ \E x : (SkipExit(x) \/ BeginExit(x)) /\ pc = "exits"
  PROVE  EntriesLong' /\ pos' = pos /\ BuysNoMore
  <1>1. pos' = pos /\ working' = working
    BY DEF Boot, OpenPhase0, EndPhase0, Tick, EndTick, Close, SkipUrgent, BeginUrgent,
           NoSignal, SkipExit, BeginExit, broker
  <1>2. mem \in Book /\ disk \in Book
    BY DEF TypeOK
  <1>3. ASSUME disk'.entries \cup mem'.entries \subseteq disk.entries \cup mem.entries,
               \A u \in disk'.urgent \cup mem'.urgent :
                 u \in disk.urgent \cup mem.urgent \/ pos[u.ticker] < 0,
               InPhase0' => \/ InPhase0 /\ queue' \subseteq queue
                            \/ queue' \subseteq mem'.urgent
        PROVE  EntriesLong' /\ pos' = pos /\ BuysNoMore
    <2>1. \A t \in Tickers : Entering(t)' => Entering(t)
      BY <1>1, <1>3 DEF Entering
    <2> QED BY <1>1, <1>3, <2>1, EntriesStay DEF BuysNoMore
  <1>4. CASE Boot \/ EndPhase0 \/ EndTick \/ Close
    BY <1>2, <1>3, <1>4 DEF Boot, EndPhase0, EndTick, Close, InPhase0, Executing
  <1>5. CASE Tick
    <2>1. /\ mem' = MergeExecuted(disk, traded) /\ (disk' = mem' \/ disk' = disk)
          /\ ~InPhase0'
      BY <1>5 DEF Tick, InPhase0, Executing
    <2> QED BY <1>2, <1>3, <2>1, BookShrinks
  <1>6. CASE OpenPhase0
    <2>1. PICK place : mem' = EnqueueCovers(mem, place)
      BY <1>6 DEF OpenPhase0
    <2>2. /\ \A u \in mem'.urgent : u \in mem.urgent \/ pos[u.ticker] < 0
          /\ mem'.entries = mem.entries
      BY <1>2, <2>1 DEF EnqueueCovers, Short, AddUrgentExits, Book
    <2>3. queue' = mem'.urgent /\ (disk' = mem' \/ disk' = disk)
      BY <1>6 DEF OpenPhase0
    <2> QED BY <1>3, <2>2, <2>3
  <1>7. ASSUME NEW u \in queue \cap UrgentRecord, SkipUrgent(u)
        PROVE  EntriesLong' /\ pos' = pos /\ BuysNoMore
    <2>1. /\ mem' = MarkUrgentExecuted(mem, u.ticker, u.kind) /\ disk' = disk
          /\ queue' \subseteq queue /\ InPhase0
      BY <1>7 DEF SkipUrgent, InPhase0
    <2>2. /\ MarkUrgentExecuted(mem, u.ticker, u.kind).urgent \subseteq mem.urgent
          /\ MarkUrgentExecuted(mem, u.ticker, u.kind).entries = mem.entries
      BY <1>2, UrgentShrinks
    <2>3. mem'.urgent \subseteq mem.urgent /\ mem'.entries = mem.entries
      BY <2>1, <2>2
    <2> QED BY <1>3, <2>1, <2>3
  <1>8. ASSUME NEW u \in queue \cap UrgentRecord, BeginUrgent(u)
        PROVE  EntriesLong' /\ pos' = pos /\ BuysNoMore
    <2>1. mem' = mem /\ disk' = disk /\ queue' \subseteq queue /\ InPhase0
      BY <1>8 DEF BeginUrgent, InPhase0
    <2> QED BY <1>3, <2>1
  <1>9. ASSUME NEW r \in queue \cap StopRecord, NoSignal(r)
        PROVE  EntriesLong' /\ pos' = pos /\ BuysNoMore
    <2>1. mem' = mem /\ disk' = disk /\ ~InPhase0'
      BY <1>9 DEF NoSignal, InPhase0, Executing
    <2> QED BY <1>3, <2>1
  <1>10. ASSUME NEW x, SkipExit(x), pc = "exits"
        PROVE  EntriesLong' /\ pos' = pos /\ BuysNoMore
    <2>1. mem' = RemoveStop(mem, x.ticker) /\ disk' = mem' /\ ~InPhase0'
      BY <1>10 DEF SkipExit, InPhase0, Executing
    <2> QED BY <1>2, <1>3, <2>1, BookShrinks
  <1>11. ASSUME NEW x, BeginExit(x), pc = "exits"
        PROVE  EntriesLong' /\ pos' = pos /\ BuysNoMore
    <2>1. mem' = mem /\ disk' = disk
      BY <1>11 DEF BeginExit
    <2>2. ~cur'.urgent /\ pc' = "placing"
      BY <1>11 DEF BeginExit
    <2> QED BY <1>3, <2>1, <2>2 DEF InPhase0
  <1> QED BY <1>4, <1>5, <1>6, <1>7, <1>8, <1>9, <1>10, <1>11

LEMMA EntriesExecuting ==
  ASSUME TypeOK, TypeOK', Control, EntriesLong,
         \/ PlaceOrder \/ FailQualification \/ RetryOrder
         \/ FailExit \/ FinishUrgent \/ FinishExit \/ LoseConnection \/ Crash
  PROVE  EntriesLong' /\ pos' = pos /\ BuysNoMore
  <1>1. mem \in Book /\ disk \in Book
    BY DEF TypeOK
  <1>2. pos' = pos
    BY DEF PlaceOrder, FailQualification, RetryOrder, FailExit, FinishUrgent, FinishExit,
           LoseConnection, Crash, ExitDone, broker
  <1>3. \A t \in Tickers : working'[t].buy = working[t].buy
    <2>1. SideKind \in {"sell", "stray", "cover"} /\ GivenUp \in {"sell", "stray", "cover"}
      BY DEF SideKind, GivenUp
    <2>2. working' = working
          \/ (Executing /\ \E kind \in {"sell", "stray", "cover"} : working' = LeaveAs(kind))
      <3>1. CASE PlaceOrder \/ FailQualification
        BY <3>1 DEF PlaceOrder, FailQualification, broker
      <3>2. CASE RetryOrder
        BY <2>1, <3>2 DEF RetryOrder, Executing
      <3>3. CASE FailExit \/ FinishUrgent \/ FinishExit
        BY <2>1, <3>3 DEF FailExit, FinishUrgent, FinishExit, Accepted, ExitDone, Executing
      <3>4. CASE LoseConnection
        BY <3>4 DEF LoseConnection, Executing
      <3>5. CASE Crash
        BY <2>1, <3>5 DEF Crash, Control
      <3> QED BY <3>1, <3>2, <3>3, <3>4, <3>5
    <2> QED BY <2>2, BuysStay
  <1>4. /\ disk'.entries \cup mem'.entries \subseteq disk.entries \cup mem.entries
        /\ disk'.urgent \cup mem'.urgent \subseteq disk.urgent \cup mem.urgent
    <2>1. CASE PlaceOrder \/ FailQualification \/ RetryOrder \/ FailExit \/ LoseConnection
      BY <2>1 DEF PlaceOrder, FailQualification, RetryOrder, FailExit, LoseConnection
    <2>2. CASE Crash
      BY <2>2 DEF Crash, EmptyBook
    <2>3. CASE FinishUrgent
      <3> DEFINE b == MarkUrgentExecuted(mem, cur.ticker, cur.kind)
      <3>1. pc = "placed" /\ cur.ticker \in Tickers
        BY <2>3 DEF FinishUrgent, Accepted, TypeOK, Control, Executing, Exit
      <3>2. b \in Book /\ b.urgent \subseteq mem.urgent /\ b.entries = mem.entries
        BY <1>1, <3>1, BookOperationsType, BookShrinks
      <3>3. disk' = disk /\ (mem' = b \/ mem' = RemoveStop(b, cur.ticker))
        BY <2>3 DEF FinishUrgent
      <3> HIDE DEF b
      <3> QED BY <3>2, <3>3, BookShrinks
    <2>4. CASE FinishExit
      <3>1. disk' = mem'
        BY <2>4 DEF FinishExit
      <3>2. mem'.urgent = mem.urgent /\ mem'.entries = mem.entries
        <4>1. CASE cur.kind = "EXIT"
          BY <1>1, <2>4, <4>1, BookShrinks DEF FinishExit
        <4>2. CASE cur.kind # "EXIT"
          BY <1>1, <2>4, <4>2 DEF FinishExit, Book
        <4> QED BY <4>1, <4>2
      <3> QED BY <3>1, <3>2
    <2> QED BY <2>1, <2>2, <2>3, <2>4
  <1>5. InPhase0' => InPhase0 /\ queue' = queue
    <2>1. CASE PlaceOrder \/ FailQualification \/ RetryOrder
      BY <2>1 DEF PlaceOrder, FailQualification, RetryOrder, InPhase0, Executing
    <2>2. CASE FailExit \/ FinishUrgent \/ FinishExit
      BY <2>2 DEF FailExit, FinishUrgent, FinishExit, Accepted, ExitDone, InPhase0, Executing
    <2>3. CASE LoseConnection \/ Crash
      BY <2>3 DEF LoseConnection, Crash, InPhase0, Executing
    <2> QED BY <2>1, <2>2, <2>3
  <1>6. \A t \in Tickers : Entering(t)' => Entering(t)
    BY <1>3, <1>4 DEF Entering
  <1> QED BY <1>2, <1>3, <1>4, <1>5, <1>6, EntriesStay DEF BuysNoMore

LEMMA EntriesAccepted ==
  ASSUME TypeOK, TypeOK', EntriesLong, NEW t \in Tickers, EntryAccepted(t)
  PROVE  EntriesLong'
  <1>1. PICK n \in 0 .. Lot, stop \in {0, Lot} :
          /\ pos' = [pos EXCEPT ![t] = @ + n]
          /\ \A s \in Tickers : s # t => working'[s] = working[s]
          /\ mem' = AddStop(MarkEntryExecuted(mem, t),
                            [ticker |-> t, by |-> "daemon",
                             shares |-> IF n = 0 THEN Lot ELSE n, taken |-> FALSE])
    BY EntryOutcome
  <1>2. /\ disk' = mem' /\ t \in mem.entries /\ ~InPhase0'
    BY DEF EntryAccepted, InPhase0, Executing
  <1>3. mem'.urgent = mem.urgent /\ mem'.entries \subseteq mem.entries
    <2>1. mem \in Book /\ MarkEntryExecuted(mem, t) \in Book
      BY BookOperationsType DEF TypeOK
    <2> QED BY <1>1, <2>1, BookShrinks
  <1>4. \A s \in Tickers : s # t => working'[s] = working[s]
    BY <1>1
  <1>5. \A s \in Tickers : pos[s] >= 0 => pos'[s] >= 0
    BY <1>1, ConstantsAssumption DEF TypeOK
  <1>6. \A s \in Tickers : Entering(s)' => Entering(s)
    BY <1>2, <1>3, <1>4 DEF Entering
  <1> QED BY <1>2, <1>3, <1>5, <1>6, EntriesStay

LEMMA EntriesBroker ==
  ASSUME TypeOK, TypeOK', Control, SalesHold, EntriesLong, BrokerStep
  PROVE  EntriesLong' /\ BuysNoMore
  <1>1. disk' = disk /\ mem' = mem /\ queue' = queue /\ cur' = cur /\ pc' = pc
    BY DEF BrokerStep, FillOrder, CancelOrder, AcknowledgeOrder, FillWorking, CancelWorking,
           daemon
  <1>2. \A t \in Tickers : pos[t] >= 0 => pos'[t] >= 0
    <2>1. pos' = pos \/ FillOrder \/ \E t \in Tickers, kind \in OrderKinds : FillWorking(t, kind)
      BY DEF BrokerStep, CancelOrder, AcknowledgeOrder, CancelWorking, broker
    <2> QED BY <2>1, FillsKeepLong
  <1>3. \A t \in Tickers : working[t].buy = 0 => working'[t].buy = 0
    <2>1. CASE FillOrder \/ CancelOrder \/ AcknowledgeOrder
      BY <2>1 DEF FillOrder, CancelOrder, AcknowledgeOrder, broker
    <2>2. ASSUME NEW s \in Tickers, NEW kind \in OrderKinds,
                 FillWorking(s, kind) \/ CancelWorking(s, kind)
          PROVE  \A t \in Tickers : working[t].buy = 0 => working'[t].buy = 0
      <3>1. PICK n \in Nat : working' = [working EXCEPT ![s][kind] = working[s][kind] - n]
                            /\ n <= working[s][kind]
        <4>1. CASE FillWorking(s, kind)
          BY <4>1, FillWorkingMoves
        <4>2. CASE CancelWorking(s, kind)
          <5> DEFINE m == working[s][kind]
          <5>1. m \in Nat
            BY DEF TypeOK
          <5>2. working' = [working EXCEPT ![s][kind] = 0]
            BY <4>2 DEF CancelWorking
          <5>3. m - m = 0
            BY <5>1
          <5>4. working' = [working EXCEPT ![s][kind] = m - m]
            BY <5>2, <5>3
          <5>5. m <= working[s][kind]
            BY <5>1
          <5>6. WITNESS m \in Nat
          <5> QED BY <5>4, <5>5
        <4> QED BY <2>2, <4>1, <4>2
      <3>2. /\ \A t \in Tickers : t # s => working'[t] = working[t]
            /\ \A k \in OrderKinds : working[s][k] = 0 => working'[s][k] = 0
        BY <3>1, WorkingDrops
      <3>3. working[s]["buy"] = 0 => working'[s]["buy"] = 0
        BY <3>2
      <3> QED BY <3>2, <3>3
    <2> QED BY <2>1, <2>2 DEF BrokerStep
  <1>4. \A t \in Tickers : Entering(t)' => Entering(t)
    BY <1>1, <1>3, WorkingType, WorkingTypeNext DEF Entering
  <1>5. InPhase0' <=> InPhase0
    BY <1>1 DEF InPhase0, Executing
  <1> QED BY <1>1, <1>2, <1>3, <1>4, <1>5, EntriesStay DEF BuysNoMore

LEMMA EntriesNext ==
  ASSUME TypeOK, TypeOK', Control, SalesInv, EntriesInv, [Next]_vars
  PROVE  EntriesInv'
  <1> SUFFICES ASSUME RepeatIsSafe', BrokerTells' PROVE EntriesLong'
    BY DEF EntriesInv
  <1>1. SalesHold /\ EntriesLong
    BY CaseWasSafe DEF SalesInv, EntriesInv
  <1>2. CASE DaemonStep
    <2>1. ASSUME NEW r \in queue \cap StopRecord, SignalExit(r) PROVE EntriesLong'
      <3>1. pc = "exits" /\ \E x : SkipExit(x) \/ BeginExit(x)
        BY <2>1 DEF SignalExit
      <3> QED BY <1>1, <3>1, EntriesQuiet
    <2>2. ASSUME NEW t \in Tickers, ForceExit(t) PROVE EntriesLong'
      <3>1. pc = "exits" /\ \E x : SkipExit(x) \/ BeginExit(x)
        BY <2>2 DEF ForceExit
      <3> QED BY <1>1, <3>1, EntriesQuiet
    <2> QED BY <1>1, <1>2, <2>1, <2>2, EntriesQuiet, EntriesExecuting, EntriesAccepted
            DEF DaemonStep
  <1>3. CASE LoseConnection \/ Crash \/ Close
    BY <1>1, <1>3, EntriesExecuting, EntriesQuiet
  <1>4. CASE BrokerStep
    BY <1>1, <1>4, EntriesBroker
  <1>5. CASE UNCHANGED vars
    <2>1. EntriesLong' <=> EntriesLong
      BY <1>5 DEF EntriesLong, Entering, InPhase0, Executing, vars, broker, daemon
    <2> QED BY <1>1, <2>1
  <1> QED BY <1>2, <1>3, <1>4, <1>5 DEF Next

LEMMA SalesImplyNotOversold ==
  ASSUME TypeOK, Control, SalesInv
  PROVE  NeverOversold
  <1> SUFFICES ASSUME RepeatIsSafe, BrokerTells, NEW t \in Tickers, Selling(t) > 0
               PROVE  Selling(t) <= pos[t]
    BY DEF NeverOversold
  <1>1. Reserved(t) > 0 => Reserved(t) <= pos[t]
    BY DEF SalesInv, SalesHold, Backed
  <1>2. OpenSells(t) \in Nat /\ pos[t] \in Int
    BY WorkingType
  <1>3. CASE cur # NoExit /\ cur.ticker = t /\ cur.kind # "COVER" /\ Live(order)
    <2>1. pc = "placed" /\ Executing
      BY <1>3 DEF Control, Executing, NoOrder, Live
    <2>2. Reserved(t) = OpenSells(t) + order.left
      BY <1>3, <2>1, HandReserves DEF InHand
    <2>3. Selling(t) = OpenSells(t) + order.left
      BY <1>3 DEF Selling
    <2> QED BY <1>1, <2>2, <2>3
  <1>4. CASE ~(cur # NoExit /\ cur.ticker = t /\ cur.kind # "COVER" /\ Live(order))
    <2>1. Selling(t) = OpenSells(t)
      BY <1>2, <1>4 DEF Selling
    <2>2. Reserved(t) = OpenSells(t)
            \/ (Reserved(t) = OpenSells(t) + InHand /\ InHand \in Nat)
      BY IdleReserves, HandReserves
    <2> QED BY <1>1, <1>2, <2>1, <2>2
  <1> QED BY <1>3, <1>4

\* Every share being sold is a share held, for any number of names, crashes
\* and retries: the urgent exits that share one read of the positions, the
\* stop records, the forced exits and the broker's own stops cannot together
\* open a short.
THEOREM NoShortSale == Spec => []NeverOversold
  <1>1. Init => TypeOK /\ Control /\ CrashInv /\ SalesInv /\ EntriesInv
    BY TypeInit, SalesInit, EntriesInit
  <1>2. TypeOK /\ Control /\ CrashInv /\ SalesInv /\ EntriesInv /\ [Next]_vars
          => (TypeOK /\ Control /\ CrashInv /\ SalesInv /\ EntriesInv)'
    BY TypeNext, SalesNext, EntriesNext
  <1>3. TypeOK /\ Control /\ SalesInv => NeverOversold
    BY SalesImplyNotOversold
  <1> QED BY <1>1, <1>2, <1>3, PTL DEF Spec

-----------------------------------------------------------------------------
(* No kept share loses its watch.                                          *)

LEMMA WatchInit == Init => WatchInv
  <1> SUFFICES ASSUME Init, WatchCase PROVE Watching /\ EntryFresh
    BY DEF WatchInv
  <1>1. TypeOK
    BY TypeInit
  <1>2. /\ pc = "down" /\ ~Executing /\ ~InPhase0 /\ queue = {} /\ mem.urgent = {}
    BY DEF Init, Executing, InPhase0, EmptyBook
  <1>3. PICK U \in SUBSET PlannedUrgents(pos) :
          \E E \in SUBSET Enterable(pos, U) :
            disk = [urgent |-> U, stops |-> PlannedStops(pos, U), entries |-> E,
                    executed |-> {}]
    BY DEF Init
  <1>4. WatchKept(disk.stops)
    <2>1. ASSUME NEW r \in disk.stops PROVE r.shares >= Kept(r.ticker)
      <3>1. r.ticker \in Tickers /\ r.shares = pos[r.ticker]
        BY <1>3, <2>1 DEF PlannedStops
      <3>2. OpenSells(r.ticker) \in Nat /\ pos[r.ticker] \in Int
        BY <1>1, <3>1, WorkingType
      <3> QED BY <3>1, <3>2 DEF Kept
    <2> QED BY <2>1 DEF WatchKept
  <1>5. Unwatched(disk.urgent)
    BY <1>3 DEF Unwatched, Watches, PlannedStops
  <1>6. Watching
    BY <1>2, <1>4, <1>5 DEF Watching, WatchKept, Unwatched
  <1>7. EntryFresh
    <2>1. ASSUME NEW t \in disk.entries PROVE pos[t] = 0 /\ ~Watches(disk, t)
      <3>1. "topup" \notin faults
        BY DEF WatchCase, RecordTells
      <3>2. pos[t] = 0
        BY <1>3, <3>1 DEF Enterable
      <3>3. \A r \in disk.stops : pos[r.ticker] > 0
        BY <1>3 DEF PlannedStops
      <3> QED BY <3>2, <3>3 DEF Watches
    <2>2. mem.entries = {} /\ \A t \in Tickers : working[t].buy = 0
      BY DEF Init, EmptyBook
    <2> QED BY <2>1, <2>2 DEF EntryFresh
  <1> QED BY <1>6, <1>7

\* What is kept of a position grows only with an entry.
LEMMA KeptFallsBroker ==
  ASSUME TypeOK, TypeOK', Control, Control', SalesHold, SalesHold', WatchCase, EntryFresh, BrokerStep,
         NEW s \in Tickers
  PROVE  Kept(s)' <= Kept(s) \/ Kept(s)' <= 0
  <1> USE DEF SalesHold
  <1>1. OpenSells(s) \in Nat /\ OpenSells(s)' \in Nat /\ pos[s] \in Int /\ pos'[s] \in Int
        /\ working'[s].cover \in Nat
    BY WorkingType, WorkingTypeNext
  <1>2. CASE FillOrder
    <2>1. PICK n \in Nat \ {0} :
            /\ n <= order.left
            /\ order' = [st |-> IF n = order.left THEN "filled" ELSE "working",
                         left |-> order.left - n]
            /\ cur.kind = "COVER" => pos' = [pos EXCEPT ![cur.ticker] = @ + n]
            /\ cur.kind # "COVER" => pos' = [pos EXCEPT ![cur.ticker] = @ - n]
      BY <1>2, FillOrderMoves
    <2>2. OpenSells(s)' = OpenSells(s) /\ pc = "placed" /\ cur' = cur
      BY <1>2 DEF FillOrder, OpenSells
    <2>3. CASE cur.kind # "COVER"
      BY <1>1, <2>1, <2>2, <2>3 DEF Kept, TypeOK
    <2>4. CASE cur.kind = "COVER" /\ s = cur.ticker
      <3>1. Covering(s) = working[s].cover + order.left /\ working[s].cover \in Nat
            /\ order.left \in Nat
        <4>1. Executing /\ InHand = order.left
          BY <2>2 DEF Executing, InHand
        <4> QED BY <2>4, <4>1, HandReserves, WorkingType
      <3>2. order.left <= - pos[s]
        <4>1. Covering(s) > 0 => Covering(s) <= - pos[s]
          BY DEF Backed
        <4> QED BY <1>1, <2>1, <3>1, <4>1
      <3>3. pos'[s] = pos[s] + n
        BY <2>1, <2>4 DEF TypeOK
      <3> QED BY <1>1, <2>1, <3>1, <3>2, <3>3 DEF Kept
    <2>5. CASE s # cur.ticker
      <3>1. pos'[s] = pos[s]
        BY <2>1, <2>5 DEF TypeOK
      <3> QED BY <1>1, <2>2, <3>1 DEF Kept
    <2> QED BY <2>3, <2>4, <2>5
  <1>3. CASE CancelOrder \/ AcknowledgeOrder
    BY <1>1, <1>3 DEF CancelOrder, AcknowledgeOrder, broker, Kept, OpenSells
  <1>4. ASSUME NEW t \in Tickers, NEW kind \in OrderKinds, FillWorking(t, kind)
        PROVE  Kept(s)' <= Kept(s) \/ Kept(s)' <= 0
    <2>1. PICK n \in Nat \ {0} :
            /\ n <= working[t][kind]
            /\ working' = [working EXCEPT ![t][kind] = @ - n]
            /\ Buys(kind) => pos' = [pos EXCEPT ![t] = @ + n]
            /\ ~Buys(kind) => pos' = [pos EXCEPT ![t] = @ - n]
      BY <1>4, FillWorkingMoves
    <2>2. /\ s # t => working'[s] = working[s]
          /\ ~Buys(kind) => OpenSells(t)' = OpenSells(t) - n
          /\ kind = "buy" => n <= working[t].buy
          /\ kind = "cover" => OpenSells(t)' = OpenSells(t) /\ n <= working[t].cover
      BY <2>1, WorkingDrops
    <2>3. CASE s # t
      <3>1. pos'[s] = pos[s] /\ OpenSells(s)' = OpenSells(s)
        BY <2>1, <2>2, <2>3 DEF OpenSells, TypeOK
      <3> QED BY <1>1, <3>1 DEF Kept
    <2>4. CASE s = t /\ ~Buys(kind)
      <3>1. pos'[s] = pos[s] - n
        BY <2>1, <2>4 DEF TypeOK
      <3> QED BY <1>1, <2>2, <2>4, <3>1 DEF Kept
    <2>5. CASE s = t /\ kind = "cover"
      <3>1. pos'[s] = pos[s] + n
        BY <2>1, <2>5 DEF TypeOK, Buys
      <3>2. working[s].cover \in Nat /\ working[s].cover <= Covering(s) /\ Covering(s) \in Int
        BY IdleReserves, HandReserves, WorkingType
      <3>3. Covering(s) > 0 => Covering(s) <= - pos[s]
        BY DEF Backed
      <3>4. n <= working[s].cover
        BY <2>2, <2>5
      <3> QED BY <1>1, <3>1, <3>2, <3>3, <3>4 DEF Kept
    <2>6. CASE kind = "buy"
      <3>1. working[t].buy = 0
        BY DEF EntryFresh
      <3> QED BY <2>1, <2>2, <2>6, <3>1
    <2> QED BY <2>3, <2>4, <2>5, <2>6 DEF Buys
  <1>5. ASSUME NEW t \in Tickers, NEW kind \in OrderKinds, CancelWorking(t, kind)
        PROVE  Kept(s)' <= Kept(s) \/ Kept(s)' <= 0
    <2>1. FALSE \/ kind = "stray"
      BY <1>5 DEF CancelWorking, WatchCase, RecordTells
    <2>2. working[t]["stray"] > 0
      BY <1>5, <2>1 DEF CancelWorking
    <2>3. working[t]["stray"] = 0
      BY DEF Definite
    <2> QED BY <2>2, <2>3
  <1> QED BY <1>2, <1>3, <1>4, <1>5 DEF BrokerStep

LEMMA KeptType ==
  ASSUME TypeOK, TypeOK', NEW t \in Tickers
  PROVE  Kept(t) \in Int /\ Kept(t)' \in Int
  BY WorkingType, WorkingTypeNext DEF Kept

LEMMA WatchKeptStays ==
  ASSUME TypeOK, TypeOK', NEW R \in SUBSET StopRecord,
         \A t \in Tickers : Kept(t)' <= Kept(t) \/ Kept(t)' <= 0,
         \A r \in R : r.shares >= Kept(r.ticker)
  PROVE  \A r \in R : r.shares >= Kept(r.ticker)'
  <1> SUFFICES ASSUME NEW r \in R PROVE r.shares >= Kept(r.ticker)'
    OBVIOUS
  <1>1. r.ticker \in Tickers /\ r.shares \in Nat
    BY DEF StopRecord
  <1> QED BY <1>1, KeptType

\* What a step says of the watch: the invariant stays, and the name that loses
\* its last record has nothing kept.
Released == \A t \in Tickers : Watches(disk, t) /\ ~Watches(disk, t)' => Kept(t)' <= 0

NoNewWatch == \A t \in Tickers : Watches(disk, t)' => Watches(disk, t)

\* The steps that leave the broker, the disk's records and the exit in hand alone.
LEMMA WatchQuiet ==
  ASSUME TypeOK, TypeOK', Control, Control', Watching,
         \/ Boot \/ OpenPhase0 \/ EndPhase0 \/ Tick \/ EndTick \/ Close
         \/ \E u \in queue \cap UrgentRecord : SkipUrgent(u)
         \/ \E r \in queue \cap StopRecord : NoSignal(r)
  PROVE  Watching' /\ disk'.stops = disk.stops
  <1>1. pos' = pos /\ working' = working /\ ~Executing /\ ~Executing'
    BY DEF Boot, OpenPhase0, EndPhase0, Tick, EndTick, Close, SkipUrgent, NoSignal,
           Executing, broker
  <1>2. \A t : Kept(t)' = Kept(t)
    BY <1>1 DEF Kept, OpenSells
  <1>3. disk'.stops = disk.stops
    <2>1. CASE Tick
      BY <2>1 DEF Tick, MergeExecuted, TypeOK, Book
    <2>2. CASE OpenPhase0
      <3>1. PICK place : mem' = EnqueueCovers(mem, place)
        BY <2>2 DEF OpenPhase0
      <3>2. mem'.stops = mem.stops
        BY <3>1 DEF EnqueueCovers, AddUrgentExits, TypeOK, Book
      <3> QED BY <2>2, <3>2 DEF OpenPhase0, Watching
    <2>3. CASE ~Tick /\ ~OpenPhase0
      BY <2>3 DEF Boot, EndPhase0, EndTick, Close, SkipUrgent, NoSignal, Watching
    <2> QED BY <2>1, <2>2, <2>3
  <1>4. \A t : Watches(disk, t)' <=> Watches(disk, t)
    BY <1>3 DEF Watches
  <1>5. WatchKept(disk.stops)'
    BY <1>2, <1>3 DEF Watching, WatchKept
  <1>6. CASE Boot
    BY <1>1, <1>2, <1>4, <1>5, <1>6 DEF Boot, Watching, WatchKept, Unwatched, InPhase0
  <1>7. CASE OpenPhase0
    <2>0. PICK place : mem' = EnqueueCovers(mem, place)
      BY <1>7 DEF OpenPhase0
    <2>1. mem'.stops = mem.stops /\ queue' = mem'.urgent /\ (disk' = mem' \/ disk' = disk)
          /\ pc = "waiting" /\ pc' = "phase0"
      BY <1>7, <2>0 DEF OpenPhase0, EnqueueCovers, AddUrgentExits, TypeOK, Book
    <2>2. \A u \in mem'.urgent : u \in mem.urgent \/ u.kind = "COVER"
      BY <2>0 DEF EnqueueCovers, AddUrgentExits, TypeOK, Book
    <2>3. Unwatched(mem.urgent) /\ Unwatched(disk.urgent) /\ mem.stops = disk.stops
      BY <2>1 DEF Watching
    <2>4. Unwatched(mem.urgent)' /\ Unwatched(queue)' /\ Unwatched(disk.urgent)'
      BY <1>4, <2>1, <2>2, <2>3 DEF Unwatched
    <2> QED BY <1>1, <1>3, <1>5, <2>1, <2>3, <2>4 DEF Watching, InPhase0
  <1>8. CASE EndPhase0
    <2>1. queue' = {} /\ mem' = mem /\ (disk' = mem \/ disk' = disk) /\ ~InPhase0'
          /\ pc = "phase0"
      BY <1>1, <1>8 DEF EndPhase0, InPhase0
    <2>2. Unwatched(mem.urgent) /\ Unwatched(disk.urgent) /\ mem.stops = disk.stops
      BY <2>1 DEF Watching
    <2>3. Unwatched(mem.urgent)' /\ Unwatched(disk.urgent)'
      BY <1>4, <2>1, <2>2 DEF Unwatched
    <2> QED BY <1>1, <1>3, <1>5, <2>1, <2>2, <2>3 DEF Watching, WatchKept
  <1>9. CASE Tick
    <2>1. /\ mem'.stops = disk.stops /\ mem'.urgent \subseteq disk.urgent
          /\ queue' = disk.stops /\ (disk' = mem' \/ disk' = disk) /\ ~InPhase0'
      BY <1>1, <1>9 DEF Tick, MergeExecuted, TypeOK, Book, InPhase0
    <2>2. Unwatched(mem.urgent)' /\ Unwatched(disk.urgent)'
      BY <1>4, <2>1 DEF Watching, Unwatched
    <2>3. queue' \subseteq StopRecord /\ WatchKept(queue)'
      BY <1>3, <1>5, <2>1 DEF WatchKept, TypeOK, Book
    <2> QED BY <1>1, <1>3, <1>5, <2>1, <2>2, <2>3 DEF Watching
  <1>10. CASE EndTick \/ Close
    <2>1. /\ pc \in {"exits", "poll"} /\ queue' = queue /\ mem' = mem /\ disk' = disk
          /\ ~InPhase0 /\ ~InPhase0'
      BY <1>1, <1>10 DEF EndTick, Close, InPhase0
    <2> QED BY <1>1, <1>2, <1>4, <1>5, <2>1 DEF Watching, WatchKept, Unwatched
  <1>11. ASSUME NEW u \in queue \cap UrgentRecord, SkipUrgent(u) PROVE Watching'
    <2>1. /\ pc = "phase0" /\ pc' = "phase0" /\ queue' \subseteq queue /\ disk' = disk
          /\ mem' = MarkUrgentExecuted(mem, u.ticker, u.kind) /\ InPhase0 /\ InPhase0'
      BY <1>11 DEF SkipUrgent, InPhase0
    <2>2. mem'.urgent \subseteq mem.urgent /\ mem'.stops = mem.stops
      BY <2>1 DEF MarkUrgentExecuted, TypeOK, Book
    <2> QED BY <1>1, <1>4, <1>5, <2>1, <2>2 DEF Watching, Unwatched
  <1>12. ASSUME NEW r \in queue \cap StopRecord, NoSignal(r) PROVE Watching'
    <2>1. /\ pc = "exits" /\ pc' = "exits" /\ queue' \subseteq queue /\ disk' = disk /\ mem' = mem
          /\ ~InPhase0 /\ ~InPhase0'
      BY <1>1, <1>12 DEF NoSignal, InPhase0
    <2> QED BY <1>1, <1>2, <1>4, <1>5, <2>1 DEF Watching, WatchKept, Unwatched
  <1> QED BY <1>3, <1>6, <1>7, <1>8, <1>9, <1>10, <1>11, <1>12

LEMMA WatchSkip ==
  ASSUME TypeOK, TypeOK', BrokerTells, Watching, NEW x,
         x.ticker \in Tickers, x.shares \in Nat \ {0}, pc = "exits", SkipExit(x),
         queue' \subseteq queue
  PROVE  Watching' /\ Released /\ NoNewWatch
  <1>1. /\ pos' = pos /\ working' = working /\ ~Executing /\ ~Executing' /\ pc' = pc
        /\ ~InPhase0 /\ ~InPhase0' /\ mem' = RemoveStop(mem, x.ticker) /\ disk' = mem'
    BY DEF SkipExit, Executing, broker, InPhase0
  <1>2. \A t : Kept(t)' = Kept(t)
    BY <1>1 DEF Kept, OpenSells
  <1>3. mem.stops = disk.stops /\ mem'.urgent = mem.urgent
        /\ mem'.stops = {r \in mem.stops : r.ticker # x.ticker}
    BY <1>1 DEF Watching, RemoveStop, TypeOK, Book
  <1>4. \A t : Watches(disk, t)' => Watches(disk, t)
    BY <1>1, <1>3 DEF Watches
  <1>5. Watching'
    BY <1>1, <1>2, <1>3, <1>4 DEF Watching, WatchKept, Unwatched
  <1>6. Kept(x.ticker) <= 0
    <2> DEFINE n == ValidatedShares(pos[x.ticker], x.shares, OpenSells(x.ticker))
    <2>1. n = 0
      BY SeenSells DEF SkipExit
    <2>2. OpenSells(x.ticker) \in Nat /\ pos[x.ticker] \in Int
      BY WorkingType
    <2>3. n = 0 => x.shares = 0 \/ pos[x.ticker] - OpenSells(x.ticker) <= 0
      BY <2>2, Validated
    <2> HIDE DEF n
    <2> QED BY <2>1, <2>3 DEF Kept
  <1>7. \A t \in Tickers : t # x.ticker /\ Watches(disk, t) => Watches(disk, t)'
    BY <1>1, <1>3 DEF Watches
  <1> QED BY <1>2, <1>4, <1>5, <1>6, <1>7 DEF Released, NoNewWatch

LEMMA WatchBeginUrgent ==
  ASSUME TypeOK, TypeOK', Control, Control', Watching,
         NEW u \in queue \cap UrgentRecord, BeginUrgent(u)
  PROVE  Watching' /\ Released
  <1>1. /\ pos' = pos /\ working' = working /\ pc = "phase0" /\ pc' = "placing"
        /\ disk' = disk /\ mem' = mem /\ queue' \subseteq queue
        /\ cur'.urgent /\ cur'.kind = u.kind /\ cur'.ticker = u.ticker
    BY DEF BeginUrgent, broker
  <1>2. InPhase0 /\ InPhase0' /\ Executing'
    BY <1>1 DEF InPhase0, Executing
  <1>3. \A t : Kept(t)' = Kept(t) /\ (Watches(disk, t)' <=> Watches(disk, t))
    BY <1>1 DEF Kept, OpenSells, Watches
  <1>4. Unwatched(queue)' /\ (cur'.kind = "EXIT" => ~Watches(disk, cur.ticker)')
    BY <1>1, <1>2, <1>3 DEF Watching, Unwatched
  <1>5. Released
    BY <1>3 DEF Released
  <1> QED BY <1>1, <1>2, <1>3, <1>4, <1>5 DEF Watching, WatchKept, Unwatched

LEMMA WatchBeginExit ==
  ASSUME TypeOK, TypeOK', Control, Control', BrokerTells, Watching, NEW x,
         x.ticker \in Tickers, x.kind \in {"EXIT", "REDUCE"}, x.shares \in Nat \ {0},
         x.kind = "EXIT" => x.shares >= Kept(x.ticker),
         pc = "exits", BeginExit(x), queue' \subseteq queue
  PROVE  Watching' /\ Released
  <1>1. /\ pos' = pos /\ working' = working /\ pc' = "placing" /\ disk' = disk /\ mem' = mem
        /\ ~cur'.urgent /\ cur'.kind = x.kind /\ cur'.ticker = x.ticker
        /\ cur'.held = pos[x.ticker]
    BY DEF BeginExit, broker
  <1>2. ~InPhase0 /\ ~InPhase0' /\ Executing' /\ InHand' = cur'.shares
    BY <1>1 DEF InPhase0, Executing, InHand
  <1>3. \A t : Kept(t)' = Kept(t) /\ (Watches(disk, t)' <=> Watches(disk, t))
    BY <1>1 DEF Kept, OpenSells, Watches
  <1>4. OpenSells(x.ticker) \in Nat /\ pos[x.ticker] \in Int
    BY WorkingType
  <1>5. cur'.held >= Kept(x.ticker)
    BY <1>1, <1>4 DEF Kept
  <1>6. x.kind = "EXIT" => cur'.shares >= Kept(x.ticker)
    <2> DEFINE n == ValidatedShares(pos[x.ticker], x.shares, OpenSells(x.ticker))
    <2>1. cur'.shares = n /\ n > 0
      BY SeenSells DEF BeginExit
    <2>2. n \in Nat /\ (n > 0 => n = x.shares \/ n = pos[x.ticker] - OpenSells(x.ticker))
      BY <1>4, Validated
    <2> HIDE DEF n
    <2>3. Kept(x.ticker) \in Int
      BY <1>4 DEF Kept
    <2> QED BY <1>4, <2>1, <2>2, <2>3 DEF Kept
  <1>7. Released
    BY <1>3 DEF Released
  <1>8. /\ mem'.stops = disk'.stops /\ WatchKept(disk.stops)'
        /\ queue' \subseteq StopRecord /\ WatchKept(queue)'
        /\ Unwatched(disk.urgent)' /\ Unwatched(mem.urgent)'
    BY <1>1, <1>2, <1>3 DEF Watching, WatchKept, Unwatched
  <1>9. cur'.held >= Kept(cur.ticker)' /\ (cur'.kind = "EXIT" => InHand' >= Kept(cur.ticker)')
    BY <1>1, <1>2, <1>3, <1>5, <1>6 DEF Kept, OpenSells
  <1> QED BY <1>1, <1>2, <1>7, <1>8, <1>9 DEF Watching

LEMMA WatchEntry ==
  ASSUME TypeOK, TypeOK', WatchCase, Watching, EntriesLong, EntryFresh,
         NEW t \in Tickers, EntryAccepted(t)
  PROVE  Watching' /\ Released
  <1> DEFINE r == [ticker |-> t, by |-> "daemon", shares |-> Lot, taken |-> FALSE]
  <1>1. /\ pc = "exits" /\ pc' = pc /\ queue = {} /\ queue' = {} /\ disk' = mem'
        /\ t \in mem.entries /\ ~Executing /\ ~Executing' /\ ~InPhase0 /\ ~InPhase0'
    BY DEF EntryAccepted, Executing, InPhase0
  <1>2. /\ pos[t] = 0 /\ ~Watches(disk, t) /\ \A u \in mem.urgent : u.ticker # t
    BY <1>1 DEF EntryFresh, EntriesLong, Entering
  <1>5. Lot \in Nat \ {0}
    BY ConstantsAssumption
  <1>12. PICK stop \in {0, Lot} :
           /\ pos' = [pos EXCEPT ![t] = @ + Lot]
           /\ \A s \in Tickers : s # t => working'[s] = working[s]
           /\ mem' = AddStop(MarkEntryExecuted(mem, t), r)
    <2>1. "slow_entry" \notin faults
      BY DEF WatchCase, RecordTells
    <2>2. PICK n \in 0 .. Lot, stop \in {0, Lot} :
            /\ n = Lot
            /\ pos' = [pos EXCEPT ![t] = @ + n]
            /\ \A s \in Tickers : s # t => working'[s] = working[s]
            /\ mem' = AddStop(MarkEntryExecuted(mem, t),
                              [ticker |-> t, by |-> "daemon",
                               shares |-> IF n = 0 THEN Lot ELSE n, taken |-> FALSE])
      BY <2>1, EntryOutcome
    <2> QED BY <1>5, <2>2
  <1>3. mem'.urgent = mem.urgent /\ mem'.stops = mem.stops \cup {r}
    <2> HIDE DEF r
    <2> QED BY <1>12 DEF AddStop, MarkEntryExecuted, TypeOK, Book
  <1>4. mem.stops = disk.stops
    BY <1>1 DEF Watching
  <1>6. \A s \in Tickers : s # t => Kept(s)' = Kept(s)
    <2>1. \A s \in Tickers : s # t => pos'[s] = pos[s] /\ working'[s] = working[s]
      BY <1>12 DEF TypeOK
    <2> QED BY <2>1 DEF Kept, OpenSells
  <1>7. Kept(t)' <= Lot
    <2>1. pos'[t] = Lot
      BY <1>2, <1>5, <1>12 DEF TypeOK
    <2> QED BY <1>5, <2>1, WorkingTypeNext DEF Kept
  <1>8. WatchKept(disk.stops)'
    <2>1. ASSUME NEW q \in mem.stops PROVE q.shares >= Kept(q.ticker)'
      <3>1. q.ticker \in Tickers /\ q.ticker # t
        BY <1>2, <1>4 DEF Watches, TypeOK, Book, StopRecord
      <3>2. q.shares >= Kept(q.ticker)
        BY <1>4 DEF Watching, WatchKept
      <3> QED BY <1>6, <3>1, <3>2
    <2>2. r.ticker = t /\ r.shares = Lot
      OBVIOUS
    <2> HIDE DEF r
    <2>3. r.shares >= Kept(r.ticker)'
      BY <1>5, <1>7, <2>2 DEF Kept, OpenSells
    <2> QED BY <1>1, <1>3, <2>1, <2>3 DEF WatchKept
  <1>9. \A s \in Tickers : Watches(disk, s) => Watches(disk, s)'
    BY <1>1, <1>3, <1>4 DEF Watches
  <1>10. \A s : s # t => (Watches(disk, s)' <=> Watches(disk, s))
    <2>1. r.ticker = t
      OBVIOUS
    <2> HIDE DEF r
    <2> QED BY <1>1, <1>3, <1>4, <2>1 DEF Watches
  <1>11. Unwatched(mem.urgent)' /\ Unwatched(disk.urgent)'
    <2>1. \A u \in mem.urgent : u.ticker # t
      BY <1>2
    <2> QED BY <1>1, <1>3, <1>10, <2>1 DEF Watching, Unwatched
  <1> QED BY <1>1, <1>8, <1>9, <1>11 DEF Watching, WatchKept, Released

LEMMA WatchOrder ==
  ASSUME TypeOK, TypeOK', Control, Control', SalesHold, Watching,
         PlaceOrder \/ FailQualification \/ RetryOrder
  PROVE  Watching' /\ Released
  <1>1. /\ Executing /\ Executing' /\ cur' = cur /\ pos' = pos /\ mem' = mem /\ disk' = disk
        /\ queue' = queue /\ pc # "down" /\ pc' # "down" /\ pc # "phase0" /\ pc' # "phase0"
    BY DEF PlaceOrder, FailQualification, RetryOrder, Executing, broker
  <1>2. working' = working /\ InHand' = InHand
    <2>1. CASE PlaceOrder \/ FailQualification
      BY <2>1 DEF PlaceOrder, FailQualification, InHand, broker
    <2>2. CASE RetryOrder
      <3>1. pc = "placed" /\ Retryable /\ pc' = "placing" /\ working' = LeaveAs(GivenUp)
        BY <2>2 DEF RetryOrder
      <3>2. order.left = cur.shares /\ ~Live(order)
        BY <3>1, RetryableIsDead DEF SalesHold
      <3> QED BY <1>1, <3>1, <3>2 DEF InHand, LeaveAs
    <2> QED BY <2>1, <2>2
  <1>3. InPhase0' <=> InPhase0
    BY <1>1 DEF InPhase0
  <1>4. \A t : Kept(t)' = Kept(t) /\ (Watches(disk, t)' <=> Watches(disk, t))
    BY <1>1, <1>2 DEF Kept, OpenSells, Watches
  <1>5. Released
    BY <1>4 DEF Released
  <1>6. Kept(cur.ticker)' = Kept(cur.ticker) /\ (Watches(disk, cur.ticker)' <=> Watches(disk, cur.ticker))
    BY <1>1, <1>2 DEF Kept, OpenSells, Watches
  <1> QED BY <1>1, <1>2, <1>3, <1>4, <1>5, <1>6 DEF Watching, WatchKept, Unwatched

\* Leaving an order at the broker takes its shares from what is kept.
LEMMA LeaveTakesKept ==
  ASSUME TypeOK, TypeOK', Control, Executing,
         working' = LeaveAs(SideKind), pos' = pos
  PROVE  /\ \A t \in Tickers : Kept(t)' <= Kept(t)
         /\ cur.kind # "COVER" /\ Live(order) =>
              \A c \in Tickers : c = cur.ticker => Kept(c)' = Kept(c) - order.left
  <1>1. cur.ticker \in Tickers /\ order.left \in Nat
    BY DEF TypeOK, Control, Exit, Order
  <1>2. SideKind \in {"sell", "cover"} /\ (SideKind = "cover" <=> cur.kind = "COVER")
    BY DEF SideKind
  <1> DEFINE n == IF Live(order) THEN order.left ELSE 0
  <1>3. \A t \in Tickers, k \in OrderKinds :
          working'[t][k] = working[t][k] + (IF t = cur.ticker /\ k = SideKind THEN n ELSE 0)
    BY <1>1, <1>2, LeaveAsAdds
  <1>4. n \in Nat /\ (Live(order) => n = order.left)
    BY <1>1
  <1> HIDE DEF n
  <1>5. ASSUME NEW t \in Tickers
        PROVE  OpenSells(t)' = OpenSells(t) + (IF t = cur.ticker /\ cur.kind # "COVER" THEN n ELSE 0)
    <2>1. /\ working'[t]["stray"] = working[t]["stray"] + 0
          /\ working'[t]["stop"] = working[t]["stop"] + 0
          /\ working'[t]["sell"] = working[t]["sell"]
               + (IF t = cur.ticker /\ cur.kind # "COVER" THEN n ELSE 0)
      BY <1>2, <1>3
    <2> QED BY <1>4, <2>1, WorkingType DEF OpenSells
  <1>6. ASSUME NEW t \in Tickers
        PROVE  /\ Kept(t)' <= Kept(t)
               /\ t = cur.ticker /\ cur.kind # "COVER" => Kept(t)' = Kept(t) - n
    <2>1. OpenSells(t) \in Nat /\ OpenSells(t)' \in Nat /\ pos[t] \in Int /\ pos'[t] = pos[t]
      BY WorkingType, WorkingTypeNext
    <2>2. CASE t = cur.ticker /\ cur.kind # "COVER"
      <3>1. OpenSells(t)' = OpenSells(t) + n
        BY <1>5, <2>2
      <3> QED BY <1>4, <2>1, <3>1 DEF Kept
    <2>3. CASE ~(t = cur.ticker /\ cur.kind # "COVER")
      <3>1. OpenSells(t)' = OpenSells(t) + 0
        BY <1>5, <2>3
      <3> QED BY <2>1, <2>3, <3>1 DEF Kept
    <2> QED BY <2>2, <2>3
  <1> QED BY <1>4, <1>6

\* An exit ends: the records it drops are of a name with nothing kept, and
\* those it rewrites watch the position read before the order.
LEMMA WatchFinish ==
  ASSUME TypeOK, TypeOK', Control, Control', SalesHold, Watching,
         FailExit \/ FinishUrgent \/ FinishExit
  PROVE  Watching' /\ Released /\ NoNewWatch
  <1>1. pc = "placed" /\ Executing /\ InHand = order.left
    BY DEF FailExit, FinishUrgent, FinishExit, Accepted, Executing, InHand
  <1>2. cur.ticker \in Tickers /\ cur.kind \in ExitKinds /\ cur.held \in Int
        /\ order.left \in Nat /\ cur.shares \in Nat
    BY <1>1 DEF TypeOK, Control, Exit, Order
  <1>3. working' = LeaveAs(SideKind)
    <2>1. CASE FailExit
      <3>1. ~Live(order)
        BY <1>1, <2>1, RetryableIsDead DEF SalesHold, FailExit
      <3> QED BY <2>1, <3>1 DEF FailExit, ExitDone, LeaveAs
    <2>2. CASE FinishUrgent \/ FinishExit
      BY <2>2 DEF FinishUrgent, FinishExit, ExitDone
    <2> QED BY <2>1, <2>2
  <1>4. /\ pos' = pos /\ queue' = queue /\ ~Executing' /\ cur' = NoExit
        /\ pc' = IF cur.urgent THEN "phase0" ELSE "exits"
    BY DEF FailExit, FinishUrgent, FinishExit, ExitDone, Executing
  <1>5. InPhase0' <=> InPhase0
    BY <1>1, <1>4 DEF InPhase0, Executing
  <1>6. \A t \in Tickers : Kept(t)' <= Kept(t)
    BY <1>1, <1>3, <1>4, LeaveTakesKept
  <1>7. WatchKept(queue) /\ queue \subseteq StopRecord => WatchKept(queue)'
    <2> SUFFICES ASSUME WatchKept(queue), queue \subseteq StopRecord PROVE WatchKept(queue)'
      OBVIOUS
    <2>1. \A q \in queue : q.shares >= Kept(q.ticker)'
      BY <1>6, WatchKeptStays DEF WatchKept
    <2> QED BY <1>4, <2>1 DEF WatchKept
  <1>8. \A q \in disk.stops : q.shares >= Kept(q.ticker)'
    <2>1. disk.stops \subseteq StopRecord
      BY DEF TypeOK, Book
    <2> QED BY <1>6, <2>1, WatchKeptStays DEF Watching, WatchKept
  <1>9. mem.stops = disk.stops
    BY <1>1 DEF Watching
  <1>10. CASE FailExit
    <2>1. disk' = disk /\ mem' = mem
      BY <1>10 DEF FailExit
    <2>2. \A t : Watches(disk, t)' <=> Watches(disk, t)
      BY <2>1 DEF Watches
    <2> QED BY <1>1, <1>4, <1>5, <1>7, <1>8, <2>1, <2>2 DEF Watching, WatchKept, Unwatched, Released, NoNewWatch
  <1>11. CASE FinishUrgent
    <2>1. disk' = disk /\ mem'.urgent \subseteq mem.urgent
      <3>1. MarkUrgentExecuted(mem, cur.ticker, cur.kind).urgent \subseteq mem.urgent
        BY QuietUrgents
      <3>2. \A b : RemoveStop(b, cur.ticker).urgent = b.urgent
        BY QuietUrgents
      <3> QED BY <1>11, <3>1, <3>2 DEF FinishUrgent
    <2>2. mem'.stops = mem.stops
      <3> DEFINE b == MarkUrgentExecuted(mem, cur.ticker, cur.kind)
      <3>1. b.stops = mem.stops /\ b \in Book
        <4>1. b \in Book
          BY <1>2, BookOperationsType DEF TypeOK
        <4>2. b.stops = mem.stops
          <5>1. \A D, E : [mem EXCEPT !.urgent = @ \ D, !.executed = @ \cup E].stops = mem.stops
            BY DEF TypeOK, Book
          <5> QED BY <5>1 DEF MarkUrgentExecuted
        <4> HIDE DEF b
        <4> QED BY <4>1, <4>2
      <3>2. mem' = IF cur.kind = "EXIT" THEN RemoveStop(b, cur.ticker) ELSE b
        BY <1>11 DEF FinishUrgent
      <3> HIDE DEF b
      <3>3. CASE cur.kind = "EXIT"
        <4>1. ~Watches(disk, cur.ticker)
          BY <1>1, <1>11, <3>3 DEF Watching, FinishUrgent
        <4>2. mem'.stops = {q \in b.stops : q.ticker # cur.ticker}
          BY <3>1, <3>2, <3>3 DEF RemoveStop, Book
        <4> QED BY <1>9, <3>1, <4>1, <4>2 DEF Watches
      <3> QED BY <3>1, <3>2, <3>3
    <2>3. \A t : Watches(disk, t)' <=> Watches(disk, t)
      BY <2>1 DEF Watches
    <2> QED BY <1>1, <1>4, <1>5, <1>7, <1>8, <1>9, <2>1, <2>2, <2>3
            DEF Watching, WatchKept, Unwatched, Released, NoNewWatch
  <1>12. CASE FinishExit /\ cur.kind = "EXIT"
    <2>1. /\ ~cur.urgent /\ disk' = mem' /\ mem'.urgent = mem.urgent
          /\ mem'.stops = {q \in mem.stops : q.ticker # cur.ticker}
      BY <1>12 DEF FinishExit, RemoveStop, TypeOK, Book
    <2>2. \A t : Watches(disk, t)' => Watches(disk, t)
      BY <1>9, <2>1 DEF Watches
    <2>3. \A t : t # cur.ticker /\ Watches(disk, t) => Watches(disk, t)'
      BY <1>9, <2>1 DEF Watches
    <2>4. ASSUME NEW c \in Tickers, c = cur.ticker PROVE Kept(c)' <= 0
      <3>1. order.left >= Kept(c)
        BY <1>1, <1>12, <2>1, <2>4 DEF Watching
      <3>2. CASE Live(order)
        <4>1. Kept(c)' = Kept(c) - order.left
          BY <1>1, <1>3, <1>4, <1>12, <2>4, <3>2, LeaveTakesKept
        <4> QED BY <1>2, <3>1, <4>1, KeptType
      <3>3. CASE ~Live(order)
        <4>1. order.st # "cancelled"
          <5>1. Result \notin {"Rejected", "Timeout"}
            BY <1>12 DEF FinishExit, Accepted, Retryable
          <5>2. CASE order.st = "cancelled"
            <6>1. order.st # "filled"
              BY <5>2
            <6>2. Result = "Rejected"
              BY <5>2, <6>1 DEF Result, Live
            <6> QED BY <5>1, <6>2
          <5> QED BY <5>2
        <4>2. order.left = 0
          BY <1>1, <3>3, <4>1 DEF SalesHold, Definite, Live
        <4>3. Kept(c)' <= Kept(c)
          BY <1>6
        <4> QED BY <1>2, <3>1, <4>2, <4>3, KeptType
      <3> QED BY <3>2, <3>3
    <2>5. WatchKept(disk.stops)'
      BY <1>8, <1>9, <2>1 DEF WatchKept
    <2> QED BY <1>1, <1>4, <1>5, <1>7, <2>1, <2>2, <2>3, <2>4, <2>5
            DEF Watching, Unwatched, Released, NoNewWatch
  <1>13. CASE FinishExit /\ cur.kind # "EXIT"
    <2> DEFINE S == UpdateStopShares(mem.stops, cur.ticker, cur.held)
    <2> DEFINE T == MarkProfitTakeExecuted(S, cur.ticker)
    <2>1. ~cur.urgent /\ disk' = mem' /\ mem'.urgent = mem.urgent /\ mem'.stops = T
      BY <1>13 DEF FinishExit, TypeOK, Book
    <2>2. mem.stops \subseteq StopRecord
      BY DEF TypeOK, Book
    <2>3. ASSUME NEW c \in Tickers, c = cur.ticker PROVE cur.held >= Kept(c)'
      <3>1. cur.held >= Kept(c)
        BY <1>1, <2>1, <2>3 DEF Watching
      <3>2. Kept(c)' <= Kept(c)
        BY <1>6
      <3> QED BY <1>2, <3>1, <3>2, KeptType
    <2>4. \A q \in S : q.ticker \in Tickers /\ q.shares >= Kept(q.ticker)'
      <3>1. ASSUME NEW r \in mem.stops
            PROVE LET q == IF r.ticker = cur.ticker /\ IsFirst(r, mem.stops)
                           THEN [r EXCEPT !.shares = cur.held] ELSE r
                  IN  /\ q.ticker = r.ticker
                      /\ (q.shares = cur.held /\ r.ticker = cur.ticker) \/ q = r
        BY <2>2 DEF StopRecord
      <3>2. ASSUME NEW r \in mem.stops,
                   NEW q, q.ticker = r.ticker,
                   (q.shares = cur.held /\ r.ticker = cur.ticker) \/ q = r
            PROVE  q.ticker \in Tickers /\ q.shares >= Kept(q.ticker)'
        <4>1. r.ticker \in Tickers /\ r.shares >= Kept(r.ticker)'
          BY <1>8, <1>9, <2>2 DEF StopRecord
        <4>2. CASE q = r
          BY <4>1, <4>2
        <4>3. CASE q.shares = cur.held /\ r.ticker = cur.ticker
          <5>1. q.ticker = cur.ticker
            BY <3>2, <4>3
          <5> QED BY <1>2, <2>3, <4>3, <5>1
        <4> QED BY <3>2, <4>2, <4>3
      <3> QED BY <3>1, <3>2 DEF UpdateStopShares
    <2>5. \A q \in T : q.ticker \in Tickers /\ q.shares >= Kept(q.ticker)'
      <3>0. S \subseteq StopRecord
        <4>1. cur.held \in Nat \ {0}
          BY <1>1, <1>2, <2>1 DEF Control
        <4> QED BY <1>2, <2>2, <4>1 DEF UpdateStopShares, StopRecord
      <3>1. ASSUME NEW r \in S
            PROVE LET q == IF r.ticker = cur.ticker /\ IsFirst(r, S)
                           THEN [r EXCEPT !.taken = TRUE] ELSE r
                  IN  q.ticker = r.ticker /\ q.shares = r.shares
        <4> HIDE DEF S
        <4> QED BY <3>0 DEF StopRecord
      <3>2. ASSUME NEW r \in S, NEW q, q.ticker = r.ticker /\ q.shares = r.shares
            PROVE  q.ticker \in Tickers /\ q.shares >= Kept(q.ticker)'
        <4>1. r.ticker \in Tickers /\ r.shares >= Kept(r.ticker)'
          BY <2>4
        <4> HIDE DEF S
        <4> QED BY <3>2, <4>1
      <3> HIDE DEF S
      <3> QED BY <3>1, <3>2 DEF MarkProfitTakeExecuted
    <2>6. \A t : (\E q \in S : q.ticker = t) <=> Watches(mem, t)
      <3>1. ASSUME NEW r \in mem.stops
            PROVE (IF r.ticker = cur.ticker /\ IsFirst(r, mem.stops)
                   THEN [r EXCEPT !.shares = cur.held] ELSE r).ticker = r.ticker
        BY <2>2 DEF StopRecord
      <3> QED BY <3>1 DEF UpdateStopShares, Watches
    <2>7. \A t : (\E q \in T : q.ticker = t) <=> (\E q \in S : q.ticker = t)
      <3>0. S \subseteq StopRecord
        <4>1. cur.held \in Nat \ {0}
          BY <1>1, <1>2, <2>1 DEF Control
        <4> QED BY <1>2, <2>2, <4>1 DEF UpdateStopShares, StopRecord
      <3> HIDE DEF S
      <3>1. ASSUME NEW r \in S
            PROVE (IF r.ticker = cur.ticker /\ IsFirst(r, S)
                   THEN [r EXCEPT !.taken = TRUE] ELSE r).ticker = r.ticker
        BY <3>0 DEF StopRecord
      <3> QED BY <3>1 DEF MarkProfitTakeExecuted
    <2> HIDE DEF S, T
    <2>8. WatchKept(disk.stops)'
      BY <2>1, <2>5 DEF WatchKept
    <2>9. \A t : Watches(disk, t)' <=> Watches(disk, t)
      BY <1>9, <2>1, <2>6, <2>7 DEF Watches
    <2> QED BY <1>1, <1>4, <1>5, <1>7, <2>1, <2>8, <2>9 DEF Watching, Unwatched, Released, NoNewWatch
  <1> QED BY <1>10, <1>11, <1>12, <1>13

\* The connection drops, or the daemon dies: what it had sold stays sold.
LEMMA WatchDrop ==
  ASSUME TypeOK, TypeOK', Control, Control', SalesHold, Watching, LoseConnection \/ Crash
  PROVE  Watching' /\ Released
  <1>1. /\ pos' = pos /\ disk' = disk /\ queue' = {} /\ ~Executing' /\ ~InPhase0'
        /\ (mem' = mem /\ pc # "down") \/ (mem' = EmptyBook /\ pc' = "down")
    BY DEF LoseConnection, Crash, Executing, InPhase0
  <1>2. working' = working \/ (Executing /\ working' = LeaveAs(SideKind))
    <2>1. CASE LoseConnection
      <3>1. Executing /\ ~cur.urgent
        BY <2>1 DEF LoseConnection, Executing
      <3>2. cur.kind # "COVER"
        BY <3>1 DEF Control
      <3> QED BY <2>1, <3>1, <3>2 DEF LoseConnection, SideKind
    <2>2. CASE Crash
      BY <2>2 DEF Crash, Control
    <2> QED BY <2>1, <2>2
  <1>3. \A t \in Tickers : Kept(t)' <= Kept(t)
    <2>1. CASE working' = working
      <3>1. \A t \in Tickers : Kept(t)' = Kept(t)
        BY <1>1, <2>1 DEF Kept, OpenSells
      <3> QED BY <3>1, KeptType
    <2>2. CASE Executing /\ working' = LeaveAs(SideKind)
      BY <1>1, <2>2, LeaveTakesKept
    <2> QED BY <1>2, <2>1, <2>2
  <1>4. \A q \in disk.stops : q.shares >= Kept(q.ticker)'
    <2>1. disk.stops \subseteq StopRecord
      BY DEF TypeOK, Book
    <2> QED BY <1>3, <2>1, WatchKeptStays DEF Watching, WatchKept
  <1>5. \A t : Watches(disk, t)' <=> Watches(disk, t)
    BY <1>1 DEF Watches
  <1>6. Unwatched(disk.urgent)' /\ Unwatched(mem.urgent)'
    BY <1>1, <1>5 DEF Watching, Unwatched, EmptyBook
  <1>7. Released
    BY <1>5 DEF Released
  <1> QED BY <1>1, <1>4, <1>6, <1>7 DEF Watching, WatchKept

\* The broker only sells what was being sold.
LEMMA WatchBroker ==
  ASSUME TypeOK, TypeOK', Control, Control', SalesHold, SalesHold', WatchCase, Watching, EntryFresh,
         BrokerStep
  PROVE  Watching' /\ Released
  <1>1. disk' = disk /\ mem' = mem /\ queue' = queue /\ cur' = cur /\ pc' = pc
    BY DEF BrokerStep, FillOrder, CancelOrder, AcknowledgeOrder, FillWorking, CancelWorking,
           daemon
  <1>2. (Executing' <=> Executing) /\ (InPhase0' <=> InPhase0)
    BY <1>1 DEF Executing, InPhase0
  <1>3. \A t \in Tickers : Kept(t)' <= Kept(t) \/ Kept(t)' <= 0
    BY KeptFallsBroker
  <1>4. \A q \in disk.stops : q.shares >= Kept(q.ticker)'
    <2>1. disk.stops \subseteq StopRecord
      BY DEF TypeOK, Book
    <2> QED BY <1>3, <2>1, WatchKeptStays DEF Watching, WatchKept
  <1>5. ~InPhase0 => queue \subseteq StopRecord /\ \A q \in queue : q.shares >= Kept(q.ticker)'
    <2> SUFFICES ASSUME ~InPhase0
                 PROVE  queue \subseteq StopRecord /\ \A q \in queue : q.shares >= Kept(q.ticker)'
      OBVIOUS
    <2>1. queue \subseteq StopRecord /\ \A q \in queue : q.shares >= Kept(q.ticker)
      BY DEF Watching, WatchKept
    <2> QED BY <1>3, <2>1, WatchKeptStays
  <1>6. \A t : Watches(disk, t)' <=> Watches(disk, t)
    BY <1>1 DEF Watches
  <1>7. ASSUME NEW c \in Tickers, Executing, ~cur.urgent, c = cur.ticker
        PROVE  cur.held >= Kept(c)' /\ (cur.kind = "EXIT" => InHand' >= Kept(c)')
    <2>1. /\ cur.held \in Nat /\ order.left \in Nat /\ order'.left \in Nat
          /\ cur.shares \in Nat /\ cur.kind # "COVER"
      BY <1>7 DEF TypeOK, Control, Exit, Order
    <2>2. cur.held >= Kept(c) /\ (cur.kind = "EXIT" => InHand >= Kept(c))
      BY <1>7 DEF Watching
    <2>3. Kept(c) \in Int /\ Kept(c)' \in Int
      BY KeptType
    <2>4. cur.held >= Kept(c)'
      BY <1>3, <2>1, <2>2, <2>3
    <2>5. CASE FillOrder
      <3>1. PICK n \in Nat \ {0} :
              /\ n <= order.left
              /\ order' = [st |-> IF n = order.left THEN "filled" ELSE "working",
                           left |-> order.left - n]
              /\ cur.kind # "COVER" => pos' = [pos EXCEPT ![cur.ticker] = @ - n]
        BY <2>5, FillOrderMoves
      <3>2. pc = "placed" /\ working' = working
        BY <2>5 DEF FillOrder
      <3>3. InHand = order.left /\ InHand' = order.left - n
        BY <1>1, <3>1, <3>2 DEF InHand
      <3>4. Kept(c)' = Kept(c) - n
        <4>1. OpenSells(c)' = OpenSells(c) /\ OpenSells(c) \in Nat
          BY <3>2, WorkingType DEF OpenSells
        <4>2. pos'[c] = pos[c] - n /\ pos[c] \in Int
          BY <1>7, <2>1, <3>1 DEF TypeOK
        <4> QED BY <4>1, <4>2 DEF Kept
      <3> QED BY <2>1, <2>2, <2>3, <2>4, <3>3, <3>4
    <2>6. CASE ~FillOrder
      <3>1. order'.left = order.left
        BY <2>6 DEF BrokerStep, CancelOrder, AcknowledgeOrder, FillWorking, CancelWorking,
           daemon, TypeOK, Order
      <3>2. InHand' = InHand /\ InHand \in Nat
        BY <1>1, <2>1, <3>1 DEF InHand
      <3> QED BY <1>3, <2>2, <2>3, <2>4, <3>2
    <2> QED BY <2>5, <2>6
  <1>8. Executing /\ ~cur.urgent =>
          cur.held >= Kept(cur.ticker)' /\ (cur.kind = "EXIT" => InHand' >= Kept(cur.ticker)')
    <2> SUFFICES ASSUME Executing, ~cur.urgent
        PROVE cur.held >= Kept(cur.ticker)' /\ (cur.kind = "EXIT" => InHand' >= Kept(cur.ticker)')
      OBVIOUS
    <2>1. PICK c \in Tickers : c = cur.ticker
      BY DEF TypeOK, Control, Exit
    <2>2. Kept(cur.ticker)' = Kept(c)'
      BY <1>1, <2>1
    <2> QED BY <1>7, <2>1, <2>2
  <1>9. Released
    BY <1>6 DEF Released
  <1> QED BY <1>1, <1>2, <1>4, <1>5, <1>6, <1>8, <1>9 DEF Watching, WatchKept, Unwatched

\* An entry stays one of a name with no shares and no record: nothing is sold
\* or covered of it, and a record comes only with its fill.
LEMMA FreshNext ==
  ASSUME TypeOK, TypeOK', Control, Control', CrashInv, SalesInv, SalesInv', EntriesInv,
         WatchInv, WatchCase, WatchCase', [Next]_vars
  PROVE  EntryFresh'
  <1>1. SalesHold /\ EntriesLong /\ Watching /\ EntryFresh /\ BrokerTells
    BY DEF WatchCase, SalesInv, EntriesInv, WatchInv
  <1>2. ASSUME BuysNoMore, NoNewWatch,
               \A t \in Tickers : pos[t] = 0 => pos'[t] = 0
        PROVE  EntryFresh'
    BY <1>1, <1>2 DEF EntryFresh, BuysNoMore, NoNewWatch
  <1>3. ASSUME pos' = pos, BuysNoMore, NoNewWatch
        PROVE  EntryFresh'
    BY <1>2, <1>3
  <1>4. disk' = disk => NoNewWatch
    BY DEF NoNewWatch, Watches
  <1>5. CASE DaemonStep
    <2>1. ASSUME NEW r \in queue \cap StopRecord, SignalExit(r) PROVE EntryFresh'
      <3>1. PICK x \in Signals(r) : SkipExit(x) \/ BeginExit(x)
        BY <2>1 DEF SignalExit
      <3>2. pc = "exits" /\ queue' \subseteq queue
        BY <2>1 DEF SignalExit
      <3>3. pos' = pos /\ BuysNoMore
        BY <1>1, <3>1, <3>2, EntriesQuiet
      <3>4. CASE SkipExit(x)
        BY <1>1, <1>3, <3>1, <3>2, <3>3, <3>4, SignalsType, WatchSkip
      <3>5. CASE BeginExit(x)
        BY <1>3, <1>4, <3>3, <3>5 DEF BeginExit
      <3> QED BY <3>1, <3>4, <3>5
    <2>2. ASSUME NEW t \in Tickers, ForceExit(t) PROVE EntryFresh'
      <3> DEFINE x == [ticker |-> t, kind |-> "EXIT", shares |-> pos[t]]
      <3>1. /\ pc = "exits" /\ pos[t] > 0 /\ (SkipExit(x) \/ BeginExit(x))
            /\ queue' \subseteq queue
        BY <2>2 DEF ForceExit
      <3>2. x.ticker \in Tickers /\ x.shares \in Nat \ {0}
        BY <3>1 DEF TypeOK
      <3> HIDE DEF x
      <3>3. pos' = pos /\ BuysNoMore
        BY <1>1, <3>1, EntriesQuiet
      <3>4. CASE SkipExit(x)
        BY <1>1, <1>3, <3>1, <3>2, <3>3, <3>4, WatchSkip
      <3>5. CASE BeginExit(x)
        BY <1>3, <1>4, <3>3, <3>5 DEF BeginExit
      <3> QED BY <3>1, <3>4, <3>5
    <2>3. ASSUME \/ Boot \/ OpenPhase0 \/ EndPhase0 \/ Tick \/ EndTick
                 \/ \E u \in queue \cap UrgentRecord : SkipUrgent(u)
                 \/ \E r \in queue \cap StopRecord : NoSignal(r)
          PROVE  EntryFresh'
      <3>1. disk'.stops = disk.stops
        <4>1. TypeOK /\ TypeOK' /\ Control /\ Control' /\ Watching
          BY <1>1
        <4> QED BY <2>3, <4>1, WatchQuiet
      <3>2. NoNewWatch
        BY <3>1 DEF NoNewWatch, Watches
      <3>3. pos' = pos /\ BuysNoMore
        BY <1>1, <2>3, EntriesQuiet
      <3> QED BY <1>3, <3>2, <3>3
    <2>4. ASSUME NEW u \in queue \cap UrgentRecord, BeginUrgent(u) PROVE EntryFresh'
      <3>1. pos' = pos /\ BuysNoMore
        BY <1>1, <2>4, EntriesQuiet
      <3> QED BY <1>3, <1>4, <2>4, <3>1 DEF BeginUrgent
    <2>5. ASSUME PlaceOrder \/ FailQualification \/ RetryOrder PROVE EntryFresh'
      <3>1. pos' = pos /\ BuysNoMore
        BY <1>1, <2>5, EntriesExecuting
      <3> QED BY <1>3, <1>4, <2>5, <3>1 DEF PlaceOrder, FailQualification, RetryOrder
    <2>6. ASSUME FailExit \/ FinishUrgent \/ FinishExit PROVE EntryFresh'
      <3>1. pos' = pos /\ BuysNoMore
        BY <1>1, <2>6, EntriesExecuting
      <3>2. NoNewWatch
        BY <1>1, <2>6, WatchFinish
      <3> QED BY <1>3, <3>1, <3>2
    <2>7. ASSUME NEW t \in Tickers, EntryAccepted(t) PROVE EntryFresh'
      <3>1. "slow_entry" \notin faults
        BY DEF WatchCase, RecordTells
      <3>2. PICK n \in 0 .. Lot, stop \in {0, Lot} :
              /\ n = Lot
              /\ pos' = [pos EXCEPT ![t] = @ + n]
              /\ \A s \in Tickers : s # t => working'[s] = working[s]
              /\ working'[t].buy = working[t].buy + (Lot - n)
              /\ mem' = AddStop(MarkEntryExecuted(mem, t),
                                [ticker |-> t, by |-> "daemon",
                                 shares |-> IF n = 0 THEN Lot ELSE n, taken |-> FALSE])
        BY <2>7, <3>1, EntryOutcome
      <3> DEFINE r == [ticker |-> t, by |-> "daemon",
                       shares |-> IF n = 0 THEN Lot ELSE n, taken |-> FALSE]
      <3>8. r.ticker = t /\ mem' = AddStop(MarkEntryExecuted(mem, t), r)
        BY <3>2
      <3> HIDE DEF r
      <3>3. \A s \in Tickers : s # t => pos'[s] = pos[s]
        BY <3>2 DEF TypeOK
      <3>4. \A s \in Tickers : working'[s].buy = 0
        <4>1. Lot - Lot = 0
          BY ConstantsAssumption
        <4>2. \A s \in Tickers : working[s].buy = 0
          BY <1>1 DEF EntryFresh
        <4> QED BY <3>2, <4>1, <4>2
      <3>5. disk' = mem' /\ mem.stops = disk.stops
        BY <1>1, <2>7 DEF EntryAccepted, Watching
      <3>6. mem'.entries = mem.entries \ {t} /\ mem'.stops = mem.stops \cup {r}
        BY <3>8 DEF AddStop, MarkEntryExecuted, TypeOK, Book
      <3>7. ASSUME NEW s \in Tickers, s \in disk'.entries \cup mem'.entries
            PROVE  pos'[s] = 0 /\ ~Watches(disk, s)'
        <4>1. s # t /\ s \in mem.entries
          BY <3>5, <3>6, <3>7
        <4>2. pos[s] = 0 /\ ~Watches(disk, s)
          BY <1>1, <4>1 DEF EntryFresh
        <4> QED BY <3>3, <3>5, <3>6, <3>8, <4>1, <4>2 DEF Watches
      <3> QED BY <3>4, <3>7 DEF EntryFresh
    <2> QED BY <1>5, <2>1, <2>2, <2>3, <2>4, <2>5, <2>6, <2>7 DEF DaemonStep
  <1>6. CASE LoseConnection \/ Crash
    <2>1. pos' = pos /\ BuysNoMore
      BY <1>1, <1>6, EntriesExecuting
    <2> QED BY <1>3, <1>4, <1>6, <2>1 DEF LoseConnection, Crash
  <1>7. CASE Close
    <2>1. pos' = pos /\ BuysNoMore
      BY <1>1, <1>7, EntriesQuiet
    <2> QED BY <1>3, <1>4, <1>7, <2>1 DEF Close
  <1>8. CASE BrokerStep
    <2>1. BuysNoMore
      BY <1>1, <1>8, EntriesBroker
    <2>2. pos' = pos \/ FillOrder \/ \E t \in Tickers, kind \in OrderKinds : FillWorking(t, kind)
      BY <1>8 DEF BrokerStep, CancelOrder, AcknowledgeOrder, CancelWorking, broker
    <2>3. \A t \in Tickers : pos[t] = 0 => pos'[t] = 0
      BY <1>1, <2>2, FillsLeaveFlat DEF EntryFresh
    <2>4. disk' = disk
      BY <1>8 DEF BrokerStep, FillOrder, CancelOrder, AcknowledgeOrder, FillWorking,
         CancelWorking
    <2> QED BY <1>2, <1>4, <2>1, <2>3, <2>4
  <1>9. CASE UNCHANGED vars
    <2>1. EntryFresh' <=> EntryFresh
      BY <1>9 DEF EntryFresh, Watches, vars, broker, daemon
    <2> QED BY <1>1, <2>1
  <1> QED BY <1>5, <1>6, <1>7, <1>8, <1>9 DEF Next

LEMMA WatchNext ==
  ASSUME TypeOK, TypeOK', Control, Control', CrashInv, SalesInv, SalesInv', EntriesInv, WatchInv,
         WatchCase, [Next]_vars
  PROVE  Watching' /\ Released
  <1>1. SalesHold /\ EntriesLong /\ Watching /\ EntryFresh /\ BrokerTells
    BY DEF WatchCase, SalesInv, EntriesInv, WatchInv
  <1>2. CASE DaemonStep
    <2>1. ASSUME NEW r \in queue \cap StopRecord, SignalExit(r) PROVE Watching' /\ Released
      <3>1. PICK x \in Signals(r) : SkipExit(x) \/ BeginExit(x)
        BY <2>1 DEF SignalExit
      <3>2. pc = "exits" /\ queue' \subseteq queue
        BY <2>1 DEF SignalExit
      <3>3. r.shares >= Kept(r.ticker)
        BY <1>1, <3>2 DEF Watching, WatchKept, InPhase0, Executing
      <3>4. x.kind = "EXIT" => x.shares = r.shares /\ x.ticker = r.ticker
        BY <3>1 DEF Signals
      <3> QED BY <1>1, <3>1, <3>2, <3>3, <3>4, SignalsType, WatchSkip, WatchBeginExit
    <2>2. ASSUME NEW t \in Tickers, ForceExit(t) PROVE Watching' /\ Released
      <3> DEFINE x == [ticker |-> t, kind |-> "EXIT", shares |-> pos[t]]
      <3>1. /\ pc = "exits" /\ pos[t] > 0 /\ (SkipExit(x) \/ BeginExit(x))
            /\ queue' \subseteq queue
        BY <2>2 DEF ForceExit
      <3>2. /\ x.ticker \in Tickers /\ x.kind \in {"EXIT", "REDUCE"}
            /\ x.shares \in Nat \ {0}
        BY <3>1 DEF TypeOK
      <3>3. x.shares >= Kept(x.ticker)
        <4>1. OpenSells(t) \in Nat /\ pos[t] \in Int
          BY WorkingType
        <4> QED BY <4>1 DEF Kept
      <3> HIDE DEF x
      <3> QED BY <1>1, <3>1, <3>2, <3>3, WatchSkip, WatchBeginExit
    <2>3. ASSUME \/ Boot \/ OpenPhase0 \/ EndPhase0 \/ Tick \/ EndTick
                 \/ \E u \in queue \cap UrgentRecord : SkipUrgent(u)
                 \/ \E r \in queue \cap StopRecord : NoSignal(r)
          PROVE  Watching' /\ Released
      BY <1>1, <2>3, WatchQuiet DEF Released, Watches
    <2> QED BY <1>1, <1>2, <2>1, <2>2, <2>3, WatchBeginUrgent, WatchEntry, WatchOrder,
            WatchFinish DEF DaemonStep
  <1>3. CASE LoseConnection \/ Crash
    BY <1>1, <1>3, WatchDrop
  <1>4. CASE Close
    BY <1>1, <1>4, WatchQuiet DEF Released, Watches
  <1>5. CASE BrokerStep
    <2>1. SalesHold'
      <3>1. faults' = faults /\ crashes' = crashes
        BY <1>5 DEF BrokerStep, FillOrder, CancelOrder, AcknowledgeOrder, FillWorking,
           CancelWorking, config
      <3> QED BY <3>1 DEF SalesInv, WatchCase, RepeatIsSafe, BrokerTells
    <2> QED BY <1>1, <1>5, <2>1, WatchBroker
  <1>6. CASE UNCHANGED vars
    <2>1. Watching' <=> Watching
      BY <1>6 DEF Watching, WatchKept, Unwatched, Watches, Kept, OpenSells, InHand,
         Executing, InPhase0, vars, broker, config, daemon
    <2>2. \A t : Watches(disk, t)' <=> Watches(disk, t)
      BY <1>6 DEF Watches, vars
    <2> QED BY <1>1, <2>1, <2>2 DEF Released
  <1> QED BY <1>2, <1>3, <1>4, <1>5, <1>6 DEF Next

\* Whoever may be selling, the shares kept of a position that no record
\* watches any more are none: a stop record leaves the disk only when what is
\* left of the position is being sold.
THEOREM NoShareUnwatched == Spec => WatchEndsWithSale
  <1> DEFINE Inv == TypeOK /\ Control /\ CrashInv /\ SalesInv /\ EntriesInv /\ WatchInv
  <1>1. Init => Inv
    BY TypeInit, SalesInit, EntriesInit, WatchInit
  <1>2. Inv /\ [Next]_vars => Inv'
    <2> SUFFICES ASSUME Inv, [Next]_vars PROVE Inv'
      OBVIOUS
    <2>1. TypeOK' /\ Control' /\ CrashInv' /\ SalesInv' /\ EntriesInv'
      BY TypeNext, SalesNext, EntriesNext
    <2>2. WatchInv'
      <3> SUFFICES ASSUME WatchCase' PROVE Watching' /\ EntryFresh'
        BY DEF WatchInv
      <3>1. WatchCase
        <4>1. RepeatIsSafe' /\ BrokerTells'
          BY DEF WatchCase
        <4>2. /\ BrokerTells' => BrokerTells
              /\ RepeatIsSafe' => RepeatIsSafe
              /\ faults' = faults
          BY <2>1, CaseWasSafe
        <4>3. RecordTells
          BY <4>2 DEF WatchCase, RecordTells
        <4> QED BY <4>1, <4>2, <4>3 DEF WatchCase
      <3> QED BY <2>1, <3>1, WatchNext, FreshNext
    <2> QED BY <2>1, <2>2
  <1>3. Inv /\ Inv' /\ [Next]_vars =>
          [RepeatIsSafe /\ BrokerTells /\ RecordTells =>
             \A t \in Tickers :
               Watches(disk, t) /\ ~Watches(disk, t)' => pos'[t] <= Selling(t)']_vars
    <2> SUFFICES ASSUME Inv, Inv', [Next]_vars, WatchCase, NEW t \in Tickers,
                        Watches(disk, t), ~Watches(disk, t)'
                 PROVE  pos'[t] <= Selling(t)'
      BY DEF WatchCase
    <2>1. Kept(t)' <= 0
      BY WatchNext DEF Released
    <2>2. OpenSells(t)' \in Nat /\ pos'[t] \in Int
      BY WorkingTypeNext
    <2>3. order'.left \in Nat
      BY DEF TypeOK, Order
    <2>4. Selling(t)' = OpenSells(t)' \/ Selling(t)' = OpenSells(t)' + order'.left
      BY <2>2 DEF Selling
    <2> QED BY <2>1, <2>2, <2>3, <2>4 DEF Kept
  <1> QED BY <1>1, <1>2, <1>3, PTL DEF Spec, WatchEndsWithSale
=============================================================================
