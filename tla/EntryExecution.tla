--------------------------- MODULE EntryExecution ---------------------------
(***************************************************************************)
(* How the intraday daemon turns an approved entry of the order book into  *)
(* a BUY at the broker (executor/daemon.py), with the crashes, restarts,   *)
(* retries and planner re-runs that can come between any two of its steps. *)
(*                                                                         *)
(* Three stores survive a crash: the order book on disk, the trades        *)
(* database and the broker.  The daemon's copy of the book, its set of     *)
(* already traded tickers and the order it is working on do not.           *)
(*                                                                         *)
(* The entries are the planner's, one per ticker.  The re-solve of the     *)
(* portfolio during the session may add a record under another entry_id,   *)
(* also of a ticker that was traded; that record is in DaemonDay, and the  *)
(* properties here do not speak of it.                                     *)
(***************************************************************************)
EXTENDS OrderBook, Integers, Sequences

CONSTANTS
  HeldBefore,       \* tickers held at the broker before the session's entries
  Lot,              \* shares every entry asks for
  MaxOrderRetries,  \* MAX_ORDER_RETRIES
  Bracket,          \* entries go through place_bracket_with_stop
  Faults,           \* what may go wrong, a subset of AllFaults
  MaxCrashes,       \* bound on daemon crashes
  MaxReplans,       \* bound on planner re-runs during the session
  NoTicker          \* "no entry in hand"

(***************************************************************************)
(* silent         an order shows a status the placement code does not list *)
(* partial_cancel the broker cancels an order it filled in part            *)
(* unqualified    the contract cannot be qualified, so nothing is sent     *)
(* unreadable     reading positions or open orders raises                  *)
(* db             the trades database cannot be read at startup            *)
(* connlost       the connection drops during an entry                     *)
(* gate           the correctness gate may withhold new entries            *)
(***************************************************************************)
AllFaults == {"silent", "partial_cancel", "unqualified", "unreadable", "db",
              "connlost", "gate"}

ASSUME ConstantsAssumption ==
  /\ HeldBefore \subseteq Tickers
  /\ Lot \in Nat \ {0}
  /\ MaxOrderRetries \in Nat \ {0}
  /\ Bracket \in BOOLEAN
  /\ Faults \subseteq AllFaults
  /\ MaxCrashes \in Nat
  /\ MaxReplans \in Nat
  /\ NoTicker \notin Tickers

VARIABLES
  disk,       \* data/order_book.json
  tradesDb,   \* tickers with an ENTER row of this session in trades.db
  orders,     \* the BUYs sent to the broker for each ticker, in order
  protected,  \* tickers with a protective stop working at the broker
  mem,        \* the daemon's order_book
  traded,     \* the daemon's executed_tickers
  withheld,   \* the correctness gate's verdict for this process
  queue,      \* entries of this tick not looked at yet
  cur,        \* the entry being executed, or NoTicker
  attempt,    \* the attempts _place_order_with_retry has made for it
  pc,         \* where the daemon is
  planning,   \* a planner run is in progress,
  planned,    \* with this executed_today, as it loaded it
  crashes, replans

durable == <<disk, tradesDb, orders, protected>>
daemon  == <<mem, traded, withheld, queue, cur, attempt, pc>>
bounds  == <<planning, planned, crashes, replans>>
vars    == <<durable, daemon, bounds>>

PcValues == {"down", "boot", "poll", "entries", "wal", "placed",
             "rejected", "settle", "logged", "closed"}

LiveStates  == {"silent", "working", "cancelling"}
OrderStates == LiveStates \cup {"filled", "cancelled"}
Order == [st : OrderStates, filled : 0 .. Lot]

\* Every variable keeps its shape: the books stay books, an order never holds
\* more shares than it asked for, and an attempt count stays within
\* MAX_ORDER_RETRIES.
TypeOK ==
  /\ disk \in Book
  /\ tradesDb \subseteq Tickers
  /\ orders \in [Tickers -> Seq(Order)]
  /\ protected \subseteq Tickers
  /\ mem \in Book
  /\ traded \subseteq Tickers
  /\ withheld \in BOOLEAN
  /\ queue \subseteq Tickers
  /\ cur \in Tickers \cup {NoTicker}
  /\ attempt \in 0 .. MaxOrderRetries
  /\ pc \in PcValues
  /\ planning \in BOOLEAN
  /\ planned \subseteq Tickers
  /\ crashes \in 0 .. MaxCrashes
  /\ replans \in 0 .. MaxReplans

-----------------------------------------------------------------------------
(* What the broker answers.                                                *)

Live(o)    == o.st \in LiveStates
\* The order is, or may still become, a position.
Exposed(o) == Live(o) \/ o.filled > 0

\* get_open_buy_shares(t) > 0
WorkingBuy(t) == \E i \in DOMAIN orders[t] : Live(orders[t][i])

\* get_positions()[t] > 0
Held(t) ==
  t \in HeldBefore \/ \E i \in DOMAIN orders[t] : orders[t][i].filled > 0

ExposedTicker(t) == \E i \in DOMAIN orders[t] : Exposed(orders[t][i])

\* The status the placement functions report when they stop waiting for an
\* order.  A bracket placement does not know the working states and calls
\* an accepted but unfilled order "Timeout".
Result(o) ==
  CASE o.st = "filled"         -> "Filled"
    [] o.st = "cancelled"      -> "Rejected"
    [] Live(o) /\ o.filled > 0 -> "PartialFill"
    [] o.st = "working" /\ o.filled = 0 /\ ~Bracket -> "Working"
    [] OTHER                   -> "Timeout"

LastResult == Result(orders[cur][Len(orders[cur])])
Retryable(result) == result \in {"Rejected", "Timeout"}

-----------------------------------------------------------------------------
(* The planner wrote a book; the daemon has not started.                   *)

PlannedBook(entries, executed, held) ==
  [entry    |-> [t \in Tickers |-> IF t \in entries THEN "pending" ELSE "none"],
   stops    |-> held,
   executed |-> executed]

Init ==
  /\ \E S \in SUBSET Tickers : disk = PlannedBook(S, {}, HeldBefore)
  /\ tradesDb = {}
  /\ orders = [t \in Tickers |-> << >>]
  /\ protected = {}
  /\ mem = EmptyBook
  /\ traded = {}
  /\ withheld = FALSE
  /\ queue = {}
  /\ cur = NoTicker
  /\ attempt = 0
  /\ pc = "down"
  /\ planning = FALSE
  /\ planned = {}
  /\ crashes = 0
  /\ replans = 0

-----------------------------------------------------------------------------
(* Startup.                                                                *)

\* The gate is primed, OrderBook.load() returns a book worth trading, and the
\* gateway is connected.
Boot ==
  /\ pc = "down" /\ HasContent(disk)
  /\ mem' = disk
  /\ withheld' \in IF "gate" \in Faults THEN BOOLEAN ELSE {FALSE}
  /\ pc' = "boot"
  /\ UNCHANGED <<durable, traded, queue, cur, attempt, bounds>>

\* A reconciliation that looks at positions only, and one that leaves every
\* record in doubt.
ReconcilePositionsOnly(b, R) ==
  LET landed == {t \in R : Held(t)}
  IN  [b EXCEPT !.entry    = [t \in Tickers |-> IF t \in landed THEN "none"
                                                ELSE IF t \in R THEN "pending"
                                                ELSE b.entry[t]],
                !.executed = @ \cup landed]
ReconcileNothing(b, R) == b

\* _reconcile_executing_entries: R are the in-doubt entries whose open orders
\* could be read.
ReconcileBook(b, R) ==
  LET landed == {t \in R : Held(t) \/ WorkingBuy(t)}
  IN  [b EXCEPT !.entry    = [t \in Tickers |-> IF t \in landed THEN "none"
                                                ELSE IF t \in R THEN "pending"
                                                ELSE b.entry[t]],
                !.executed = @ \cup landed]

\* A restart that trusts the order book alone.
SeedFromBook(b, rows) == b.executed \cup ExecutingEntries(b)

\* The tickers a restarted daemon refuses to trade again.
SeedTraded(b, rows) == b.executed \cup ExecutingEntries(b) \cup rows

Reconcile ==
  /\ pc = "boot"
  /\ \E posRead, dbRead \in BOOLEAN, R \in SUBSET ExecutingEntries(mem) :
       /\ "unreadable" \notin Faults => posRead /\ R = ExecutingEntries(mem)
       /\ "db" \notin Faults => dbRead
       /\ ~posRead => R = {}
       /\ mem' = ReconcileBook(mem, R)
       /\ disk' = IF ExecutingEntries(mem) # {} /\ posRead THEN mem' ELSE disk
       /\ traded' = SeedTraded(mem', IF dbRead THEN tradesDb ELSE {})
  /\ pc' = "poll"
  /\ UNCHANGED <<tradesDb, orders, protected, withheld, queue, cur, attempt, bounds>>

-----------------------------------------------------------------------------
(* One poll tick: reload the book, drop what was traded already, look at   *)
(* the pending entries.  A trail update or an exit earlier in the tick     *)
(* saves the merged book.                                                  *)

Tick ==
  /\ pc = "poll"
  /\ mem' = MergeExecuted(disk, traded)
  /\ queue' = PendingEntries(mem')
  /\ \E saved \in BOOLEAN : disk' = IF saved THEN mem' ELSE disk
  /\ pc' = "entries"
  /\ UNCHANGED <<tradesDb, orders, protected, traded, withheld, cur, attempt, bounds>>

\* No trigger fires for t on this tick.
NoTrigger(t) ==
  /\ pc = "entries" /\ t \in queue
  /\ queue' = queue \ {t}
  /\ UNCHANGED <<durable, mem, traded, withheld, cur, attempt, pc, bounds>>

\* _execute_entry returns before placing anything: the gate withholds it, a
\* BUY is already working, or the open orders cannot be read.  The caller
\* records the ticker as traded all the same.
RefuseEntry(t) ==
  /\ pc = "entries" /\ t \in queue
  /\ withheld \/ WorkingBuy(t) \/ "unreadable" \in Faults
  /\ queue' = queue \ {t}
  /\ traded' = traded \cup {t}
  /\ UNCHANGED <<durable, mem, withheld, cur, attempt, pc, bounds>>

\* The intent is marked and never saved.
BeginUnsaved(t) ==
  /\ pc = "entries" /\ t \in queue
  /\ ~withheld /\ ~WorkingBuy(t)
  /\ mem' = MarkEntryExecuting(mem, t)
  /\ queue' = queue \ {t}
  /\ cur' = t
  /\ pc' = "wal"
  /\ UNCHANGED <<durable, traded, withheld, attempt, bounds>>

\* The guards pass; the intent is on disk before the order.
BeginEntry(t) ==
  /\ pc = "entries" /\ t \in queue
  /\ ~withheld /\ ~WorkingBuy(t)
  /\ mem' = MarkEntryExecuting(mem, t)
  /\ disk' = mem'
  /\ queue' = queue \ {t}
  /\ cur' = t
  /\ pc' = "wal"
  /\ UNCHANGED <<tradesDb, orders, protected, traded, withheld, attempt, bounds>>

EndTick ==
  /\ pc = "entries" /\ queue = {}
  /\ pc' = "poll"
  /\ UNCHANGED <<durable, mem, traded, withheld, queue, cur, attempt, bounds>>

-----------------------------------------------------------------------------
(* Placing the order, with retries.                                        *)

PlaceOrder ==
  /\ pc = "wal"
  /\ \E st \in {"working"} \cup (Faults \cap {"silent"}) :
       orders' = [orders EXCEPT ![cur] = Append(@, [st |-> st, filled |-> 0])]
  /\ attempt' = attempt + 1
  /\ pc' = "placed"
  /\ UNCHANGED <<disk, tradesDb, protected, mem, traded, withheld, queue, cur, bounds>>

\* qualifyContracts raises: "Rejected", and nothing was sent.
FailQualification ==
  /\ "unqualified" \in Faults
  /\ pc = "wal"
  /\ attempt' = attempt + 1
  /\ pc' = IF attempt' = MaxOrderRetries THEN "rejected" ELSE "wal"
  /\ UNCHANGED <<durable, mem, traded, withheld, queue, cur, bounds>>

\* A retry loop that runs once too often.
RetryOnceMore ==
  /\ pc = "placed"
  /\ Retryable(LastResult) /\ attempt <= MaxOrderRetries
  /\ pc' = "wal"
  /\ UNCHANGED <<durable, mem, traded, withheld, queue, cur, attempt, bounds>>

\* The next iteration of the retry loop cancels a timed-out order, as far as
\* it can (cancel_order finds live orders only), and places another.
RetryOrder ==
  /\ pc = "placed"
  /\ Retryable(LastResult) /\ attempt < MaxOrderRetries
  /\ orders' = IF LastResult = "Timeout"
               THEN [orders EXCEPT ![cur][Len(orders[cur])].st = "cancelling"]
               ELSE orders
  /\ pc' = "wal"
  /\ UNCHANGED <<disk, tradesDb, protected, mem, traded, withheld, queue, cur,
                 attempt, bounds>>

\* The entry leaves the daemon's hands; run_daemon marks the ticker traded.
EntryDone ==
  /\ traded' = traded \cup {cur}
  /\ cur' = NoTicker
  /\ attempt' = 0
  /\ pc' = "entries"
  /\ UNCHANGED <<tradesDb, orders, protected, withheld, queue, bounds>>

\* The last attempt was rejected: back to pending.
RejectedEntry ==
  /\ \/ pc = "rejected"
     \/ pc = "placed" /\ attempt = MaxOrderRetries /\ LastResult = "Rejected"
  /\ mem' = RevertEntryToPending(mem, cur)
  /\ disk' = mem'
  /\ EntryDone

\* The last attempt timed out: the entry stays in doubt, in executing.
TimeoutEntry ==
  /\ pc = "placed" /\ attempt = MaxOrderRetries
  /\ LastResult = "Timeout"
  /\ disk' = mem
  /\ UNCHANGED mem
  /\ EntryDone

\* The order filled, filled in part, or is working.  A bracket placement
\* adds its stop only to a filled order.
AcceptedEntry ==
  /\ pc = "placed"
  /\ ~Retryable(LastResult)
  /\ protected' = IF Bracket /\ LastResult = "Filled"
                  THEN protected \cup {cur} ELSE protected
  /\ pc' = "settle"
  /\ UNCHANGED <<disk, tradesDb, orders, mem, traded, withheld, queue, cur,
                 attempt, bounds>>

LogTrade ==
  /\ pc = "settle"
  /\ tradesDb' = tradesDb \cup {cur}
  /\ pc' = "logged"
  /\ UNCHANGED <<disk, orders, protected, mem, traded, withheld, queue, cur,
                 attempt, bounds>>

FinalizeEntry ==
  /\ pc = "logged"
  /\ mem' = AddStop(MarkEntryExecuted(mem, cur), cur)
  /\ disk' = mem'
  /\ EntryDone

\* ConnectionError out of _execute_entry, before or after the order went
\* out: the daemon reconnects and leaves the entry loop; the ticker is not
\* recorded as traded.
LoseConnection ==
  /\ "connlost" \in Faults
  /\ pc \in {"wal", "placed"}
  /\ cur' = NoTicker
  /\ attempt' = 0
  /\ queue' = {}
  /\ pc' = "poll"
  /\ UNCHANGED <<durable, mem, traded, withheld, bounds>>

-----------------------------------------------------------------------------
(* The environment of the entry path.                                      *)

Crash ==
  /\ pc \notin {"down", "closed"} /\ crashes < MaxCrashes
  /\ crashes' = crashes + 1
  /\ mem' = EmptyBook
  /\ traded' = {} /\ queue' = {}
  /\ withheld' = FALSE
  /\ cur' = NoTicker /\ attempt' = 0
  /\ pc' = "down"
  /\ UNCHANGED <<durable, planning, planned, replans>>

\* The market closes: the loop ends, or the wait for a book gives up.
Close ==
  /\ pc = "poll" \/ (pc = "down" /\ ~HasContent(disk))
  /\ pc' = "closed"
  /\ UNCHANGED <<durable, mem, traded, withheld, queue, cur, attempt, bounds>>

\* main.py loads the book early in its run and writes it at the end.
StartReplan ==
  /\ ~planning /\ replans < MaxReplans /\ pc # "closed"
  /\ planning' = TRUE
  /\ planned' = disk.executed
  /\ replans' = replans + 1
  /\ UNCHANGED <<durable, daemon, crashes>>

FinishReplan ==
  /\ planning
  /\ \E S \in SUBSET Tickers :
       disk' = PlannedBook(S, planned, {t \in Tickers : Held(t)})
  /\ planning' = FALSE
  /\ planned' = {}
  /\ UNCHANGED <<tradesDb, orders, protected, daemon, crashes, replans>>

\* The broker acknowledges, fills, and cancels.
SetOrder(t, i, st, filled) ==
  /\ orders' = [orders EXCEPT ![t][i] = [st |-> st, filled |-> filled]]
  /\ UNCHANGED <<disk, tradesDb, protected, daemon, bounds>>

Acknowledge(t, i) ==
  /\ orders[t][i].st = "silent"
  /\ SetOrder(t, i, "working", orders[t][i].filled)

Fill(t, i) ==
  /\ Live(orders[t][i])
  /\ \E q \in orders[t][i].filled + 1 .. Lot :
       SetOrder(t, i, IF q = Lot THEN "filled"
                      ELSE IF orders[t][i].st = "silent" THEN "working"
                      ELSE orders[t][i].st, q)

CancelAtBroker(t, i) ==
  /\ Live(orders[t][i])
  /\ orders[t][i].filled > 0 => "partial_cancel" \in Faults
  /\ SetOrder(t, i, "cancelled", orders[t][i].filled)

BrokerStep ==
  \E t \in Tickers : \E i \in DOMAIN orders[t] :
    Acknowledge(t, i) \/ Fill(t, i) \/ CancelAtBroker(t, i)

Planning == StartReplan \/ FinishReplan

DaemonStep ==
  \/ Boot \/ Reconcile \/ Tick \/ EndTick
  \/ \E t \in Tickers : NoTrigger(t) \/ RefuseEntry(t) \/ BeginEntry(t)
  \/ PlaceOrder \/ FailQualification \/ RetryOrder
  \/ RejectedEntry \/ TimeoutEntry
  \/ AcceptedEntry \/ LogTrade \/ FinalizeEntry

Next == DaemonStep \/ LoseConnection \/ Crash \/ Close \/ Planning \/ BrokerStep

Spec == Init /\ [][Next]_vars

(***************************************************************************)
(* The daemon is a running process that systemd restarts after a crash: it *)
(* keeps taking steps while the market is open.                            *)
(***************************************************************************)
FairSpec == Spec /\ WF_vars(DaemonStep)

-----------------------------------------------------------------------------
(* Properties.                                                             *)

\* Across crashes, restarts, rejections and lost connections, at most one
\* order per ticker is ever a position or may still become one: the entry is
\* never bought twice (the write-ahead record, config#2328).  A second record of
\* the re-solve is a second order by intent, and not in this module.
AtMostOneExposedOrder ==
  \A t \in Tickers : \A i, j \in DOMAIN orders[t] :
    Exposed(orders[t][i]) /\ Exposed(orders[t][j]) => i = j

\* Every order that is or may become a position is known to the durable
\* state: the trades database, executed_today, or an in-doubt record for
\* startup reconciliation to find.
EveryOrderAccounted ==
  \A t \in Tickers :
    ExposedTicker(t) =>
      t \in tradesDb \/ t \in disk.executed \/ disk.entry[t] = "executing"

\* An in-doubt record does not stay in doubt: the running daemon, or the
\* next one, settles it.
InDoubtResolves ==
  \A t \in Tickers : disk.entry[t] = "executing" ~> disk.entry[t] # "executing"

\* Whatever fails at the broker, in the planner or in the process, a planned
\* entry whose fill reached trades.db is never started again in the session.
LoggedFillNotRebought ==
  [][\A t \in Tickers : BeginEntry(t) => t \notin tradesDb]_vars

\* "Working: IB accepted the order and is holding it. Do NOT retry"
\* (_place_order_with_retry): no order goes out while an earlier one for the
\* same ticker is live.
NoRetryOfLiveOrder == [][PlaceOrder => ~WorkingBuy(cur)]_vars

-----------------------------------------------------------------------------
(* The promise of the entry path.                                          *)

ClaimOn(t) ==
  IF disk.entry[t] = "executing" THEN "claimed"
  ELSE IF t \in disk.executed THEN "done" ELSE "free"

\* The shares of the order that bought something.
Buys(t) == {i \in DOMAIN orders[t] : orders[t][i].filled > 0}
SharesOf(t) == IF Buys(t) = {} THEN 0 ELSE orders[t][CHOOSE i \in Buys(t) : TRUE].filled

Promise == INSTANCE EntryPromise
             WITH claim   <- [t \in Tickers |-> ClaimOn(t)],
                  working <- [t \in Tickers |-> WorkingBuy(t)],
                  bought  <- [t \in Tickers |-> SharesOf(t)]

\* With a broker that answers, through every crash and restart, the entry path
\* keeps its promise: claimed before sent, one order at a time, bought once,
\* and given back only when untouched.
KeepsPromise == Promise!Spec
=============================================================================
