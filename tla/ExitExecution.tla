---------------------------- MODULE ExitExecution ----------------------------
(***************************************************************************)
(* How the intraday daemon closes positions (executor/daemon.py): the      *)
(* urgent exits and covers of Phase 0, once per process at the open, and   *)
(* then on every tick the stop records, the drawdown overlay's forced      *)
(* exits, and the stop record each new entry adds.  Shorting is not        *)
(* allowed (allow_shorts = False), so every SELL is capped by what is held *)
(* and not already being sold.                                             *)
(*                                                                         *)
(* The daemon is one thread: it sees what the broker did only while it     *)
(* sleeps or waits for an order, so the broker moves in those states.      *)
(***************************************************************************)
EXTENDS ExitBook, FiniteSets

CONSTANTS
  Longs, Shorts,    \* the sizes a long, or a short, may have at planning
  Lot,              \* shares an entry of the session asks for
  MaxUrgents,       \* bound on the urgent exits of the book
  MaxOrderRetries,  \* MAX_ORDER_RETRIES
  FaultSets,        \* the sets of faults to consider, subsets of AllFaults
  MaxCrashes,       \* bound on daemon crashes
  MaxBlind,         \* bound on the shares in flight at a blind read
  NoExit            \* "no exit in hand"

(***************************************************************************)
(* silent         an order shows a status the placement code does not list *)
(* partial_cancel the broker cancels an order it filled in part            *)
(* unqualified    the contract cannot be qualified, so nothing is sent     *)
(* blind          reading the open orders raises, and counts as none       *)
(* connlost       the connection drops during an intraday exit             *)
(* dropped        the broker cancels an order it had accepted              *)
(* topup          not a fault: the optimizer's entries may add to a name   *)
(*                that is held, which gives it a second stop record        *)
(* slow_entry     not a fault: an entry may be accepted before it filled,  *)
(*                or when it filled in part                                *)
(* crash          the daemon may crash                                     *)
(* several        not a fault: a book that may see a crash may hold several *)
(*                urgent exits, or a short to cover                        *)
(***************************************************************************)
AllFaults == {"silent", "partial_cancel", "unqualified", "blind", "connlost",
              "dropped", "topup", "slow_entry", "crash", "several"}

ASSUME ConstantsAssumption ==
  /\ Longs \subseteq Nat /\ Shorts \subseteq Nat \ {0}
  /\ Lot \in Nat \ {0}
  /\ MaxUrgents \in Nat
  /\ MaxOrderRetries \in Nat \ {0}
  /\ FaultSets \subseteq SUBSET AllFaults
  /\ MaxCrashes \in Nat /\ MaxBlind \in Nat

VARIABLES
  pos,           \* the shares of each ticker at the broker, negative when short
  working,       \* the shares of each kind of order left working at the broker
  disk,          \* data/order_book.json
  useOptimizer,  \* the optimizer owns the book (configuration)
  faults,        \* what may go wrong in this behaviour
  mem,           \* the daemon's order_book
  traded,        \* the daemon's executed_tickers
  stopped,       \* _stopped_out_today, the names of the hard-risk exits
  cached,        \* _phase0_positions
  saveUrgent,    \* n_urgent > 0: the book had urgent exits at startup
  queue,         \* the urgent exits, or the stop records, not looked at yet
  cur,           \* the exit being executed, or NoExit
  order,         \* its last order: status and shares not filled
  attempt,       \* the attempts _place_order_with_retry has made for it
  pc,            \* where the daemon is
  crashes

broker == <<pos, working>>
config == <<useOptimizer, faults>>
daemon == <<mem, traded, stopped, cached, saveUrgent, queue, cur, order, attempt, pc>>
vars   == <<broker, disk, config, daemon, crashes>>

PcValues == {"down", "waiting", "phase0", "placing", "placed", "poll",
             "exits", "closed"}

(***************************************************************************)
(* sell   SELLs the broker accepted and the daemon left working            *)
(* stray  SELLs the daemon gave up on, which may still fill                *)
(* cover  BUYs of covers, left working                                     *)
(* buy    BUYs of entries, left working                                    *)
(* stop   protective SELL stops added to entries (bracket_orders)          *)
(***************************************************************************)
OrderKinds == {"sell", "stray", "cover", "buy", "stop"}

OrderStates == {"none", "silent", "working", "filled", "cancelled"}
Order   == [st : OrderStates, left : Nat]
NoOrder == [st |-> "none", left |-> 0]

Exit == [ticker : Tickers, kind : ExitKinds, shares : Nat \ {0}, held : Int,
         urgent : BOOLEAN]

ASSUME NoExitAssumption == NoExit \notin Exit

TypeOK ==
  /\ pos \in [Tickers -> Int]
  /\ working \in [Tickers -> [OrderKinds -> Nat]]
  /\ disk \in Book /\ mem \in Book
  /\ useOptimizer \in BOOLEAN
  /\ faults \in FaultSets
  /\ traded \subseteq Tickers /\ stopped \subseteq Tickers
  /\ cached \in [Tickers -> Int]
  /\ saveUrgent \in BOOLEAN
  /\ queue \subseteq UrgentRecord \cup StopRecord
  /\ cur \in Exit \cup {NoExit}
  /\ order \in Order
  /\ attempt \in 0 .. MaxOrderRetries
  /\ pc \in PcValues
  /\ crashes \in 0 .. MaxCrashes

-----------------------------------------------------------------------------
(* The broker's answers and the short-sell guard.                          *)

Live(o) == o.st \in {"silent", "working"}

\* get_open_sell_shares(t), between orders.
OpenSells(t) == working[t].sell + working[t].stray + working[t].stop

\* What the guard believes is already being sold.
PendingSells(t) ==
  {OpenSells(t)} \cup
  (IF "blind" \in faults /\ OpenSells(t) <= MaxBlind THEN {0} ELSE {})

Lesser(a, b) == IF a <= b THEN a ELSE b

\* Mutant of ValidatedShares: the open orders do not count.
ValidatedByHolding(held, shares, pending) ==
  IF held <= 0 THEN 0 ELSE Lesser(shares, held)

\* _validate_sell_shares: the shares to sell, or 0 to skip the sell.
ValidatedShares(held, shares, pending) ==
  IF held - pending <= 0 THEN 0 ELSE Lesser(shares, held - pending)

\* The status the placement function reports when it stops waiting.
Result ==
  CASE order.st = "filled"    -> "Filled"
    [] order.st = "cancelled" -> "Rejected"
    [] Live(order) /\ order.left < cur.shares -> "PartialFill"
    [] order.st = "working" /\ order.left = cur.shares -> "Working"
    [] OTHER -> "Timeout"
Retryable == Result \in {"Rejected", "Timeout"}

\* The order in hand stays at the broker, as one of the given kind.
LeaveAs(kind) ==
  IF Live(order) THEN [working EXCEPT ![cur.ticker][kind] = @ + order.left]
  ELSE working

SideKind == IF cur.kind = "COVER" THEN "cover" ELSE "sell"
GivenUp  == IF cur.kind = "COVER" THEN "cover" ELSE "stray"

-----------------------------------------------------------------------------
(* The planner wrote the book; the daemon has not started.                 *)

\* The urgent exit the planner may queue for a position, anywhere in its list.
PlannedUrgents(p) ==
  {u \in [ticker : Tickers, kind : ExitKinds,
          shares : UNION {1 .. n : n \in Longs \cup Shorts}, at : 1 .. MaxUrgents] :
     \/ u.kind = "EXIT"   /\ u.shares = p[u.ticker]
     \/ u.kind = "REDUCE" /\ u.shares < p[u.ticker]
     \/ u.kind = "COVER"  /\ u.shares = - p[u.ticker]}

\* _write_stops_and_finalize: a stop record for every long position without
\* an urgent exit.
PlannedStops(p, urgents) ==
  {[ticker |-> t, by |-> "planner", shares |-> p[t], taken |-> FALSE] :
     t \in {t \in Tickers : p[t] > 0 /\ ~\E u \in urgents : u.ticker = t}}

\* The names that may have an entry: those not held and, by the optimizer,
\* those held; never one on its way out, nor a short.
Enterable(p, urgents) ==
  {t \in Tickers :
     /\ ~\E u \in urgents : u.ticker = t
     /\ p[t] = 0 \/ (p[t] > 0 /\ useOptimizer /\ "topup" \in faults)}

Init ==
  /\ pos \in [Tickers -> Longs \cup {- n : n \in Shorts}]
  /\ useOptimizer \in BOOLEAN
  /\ faults \in FaultSets
  /\ \E U \in SUBSET PlannedUrgents(pos) :
       /\ \A u, v \in U : u.ticker = v.ticker => u = v
       /\ {u.at : u \in U} = 1 .. Cardinality(U)
       /\ \E E \in SUBSET Enterable(pos, U) :
            disk = [urgent |-> U, stops |-> PlannedStops(pos, U), entries |-> E,
                    executed |-> {}]
  /\ working = [t \in Tickers |-> [k \in OrderKinds |-> 0]]
  /\ "crash" \in faults /\ "several" \notin faults =>
       (\A u, v \in disk.urgent : u = v) /\ \A t \in Tickers : pos[t] >= 0
  /\ mem = EmptyBook
  /\ traded = {}
  /\ stopped = {}
  /\ cached = [t \in Tickers |-> 0]
  /\ saveUrgent = FALSE
  /\ queue = {}
  /\ cur = NoExit
  /\ order = NoOrder
  /\ attempt = 0
  /\ pc = "down"
  /\ crashes = 0

-----------------------------------------------------------------------------
(* Startup and Phase 0.                                                    *)

Boot ==
  /\ pc = "down"
  /\ mem' = disk
  /\ traded' = disk.executed
  /\ saveUrgent' = (disk.urgent # {})
  /\ pc' = "waiting"
  /\ UNCHANGED <<broker, disk, config, stopped, cached, queue, cur, order,
                 attempt, crashes>>

\* _enqueue_cover_for_unintended_shorts, over the positions just read: the
\* covers go to the end of the list, in the order of the positions.
Short == {t \in Tickers : pos[t] < 0}
Behind(b, place) ==
  /\ \A t \in Short : \A u \in b.urgent : u.at < place[t]
  /\ \A s, t \in Short : place[s] = place[t] => s = t
EnqueueCovers(b, place) ==
  AddUrgentExits(b, {[ticker |-> t, kind |-> "COVER", shares |-> - pos[t],
                      at |-> place[t]] : t \in Short})

\* The market opens: positions are read once for the whole of Phase 0.
OpenPhase0 ==
  /\ pc = "waiting"
  /\ cached' = pos
  /\ \E place \in [Short -> 1 .. MaxUrgents + Cardinality(Tickers)] :
       /\ Behind(mem, place)
       /\ mem' = EnqueueCovers(mem, place)
  /\ disk' = IF Short # {} THEN mem' ELSE disk
  /\ queue' = mem'.urgent
  /\ pc' = "phase0"
  /\ UNCHANGED <<broker, config, traded, stopped, saveUrgent, cur, order, attempt,
                 crashes>>

\* The urgent exits are taken in the order of their list.
NextUrgent(u) == u \in queue /\ \A v \in queue : u.at <= v.at

\* No capacity to sell: the urgent exit counts as executed.
SkipUrgent(u) ==
  /\ pc = "phase0" /\ NextUrgent(u)
  /\ u.kind # "COVER"
  /\ \E pending \in PendingSells(u.ticker) :
       ValidatedShares(cached[u.ticker], u.shares, pending) = 0
  /\ mem' = MarkUrgentExecuted(mem, u.ticker, u.kind)
  /\ queue' = queue \ {u}
  /\ UNCHANGED <<broker, disk, config, traded, stopped, cached, saveUrgent, cur,
                 order, attempt, pc, crashes>>

\* A cover is bought as recorded; a sell is validated against the cache.
BeginUrgent(u) ==
  /\ pc = "phase0" /\ NextUrgent(u)
  /\ \E pending \in PendingSells(u.ticker) :
       LET n == IF u.kind = "COVER" THEN u.shares
                ELSE ValidatedShares(cached[u.ticker], u.shares, pending)
       IN  /\ n > 0
           /\ cur' = [ticker |-> u.ticker, kind |-> u.kind, shares |-> n,
                      held |-> cached[u.ticker], urgent |-> TRUE]
  /\ queue' = queue \ {u}
  /\ pc' = "placing"
  /\ UNCHANGED <<broker, disk, config, mem, traded, stopped, cached, saveUrgent,
                 order, attempt, crashes>>

\* The book is saved once, and only if it had urgent exits at startup.
EndPhase0 ==
  /\ pc = "phase0" /\ queue = {}
  /\ disk' = IF saveUrgent THEN mem ELSE disk
  /\ pc' = "poll"
  /\ UNCHANGED <<broker, config, mem, traded, stopped, cached, saveUrgent, queue,
                 cur, order, attempt, crashes>>

-----------------------------------------------------------------------------
(* One poll tick: reload the book, then look at every stop record.  A      *)
(* trail update saves the merged book.                                     *)

Tick ==
  /\ pc = "poll"
  /\ mem' = MergeExecuted(disk, traded)
  /\ \E saved \in BOOLEAN :
       /\ saved => mem'.stops # {} /\ ~useOptimizer
       /\ disk' = IF saved THEN mem' ELSE disk
  /\ queue' = mem'.stops
  /\ pc' = "exits"
  /\ UNCHANGED <<broker, config, traded, stopped, cached, saveUrgent, cur, order,
                 attempt, crashes>>

\* The records are looked at in the order of the book.
NextRecord(r) == r \in queue /\ IsFirst(r, {q \in queue : q.ticker = r.ticker})

NoSignal(r) ==
  /\ pc = "exits" /\ NextRecord(r)
  /\ queue' = queue \ {r}
  /\ UNCHANGED <<broker, disk, config, mem, traded, stopped, cached, saveUrgent, cur,
                 order, attempt, pc, crashes>>

\* The exits a record may signal: a full exit (trailing stop, collapse or
\* catastrophic gap), or once per record half of it, which the optimizer
\* does not allow.
Signals(r) ==
  {[ticker |-> r.ticker, kind |-> "EXIT", shares |-> r.shares]} \cup
  (IF useOptimizer \/ r.taken THEN {}
   ELSE {[ticker |-> r.ticker, kind |-> "REDUCE",
          shares |-> IF r.shares < 2 THEN 1 ELSE r.shares \div 2]})

\* After _execute_exit, whatever came of it.  Under the optimizer every
\* intraday exit is a hard-risk one.
MarkExited(t) ==
  /\ traded' = traded \cup {t}
  /\ stopped' = IF useOptimizer THEN stopped \cup {t} ELSE stopped

\* _execute_exit with nothing to sell: the stop record goes.
SkipExit(x) ==
  /\ \E pending \in PendingSells(x.ticker) :
       ValidatedShares(pos[x.ticker], x.shares, pending) = 0
  /\ mem' = RemoveStop(mem, x.ticker)
  /\ disk' = mem'
  /\ MarkExited(x.ticker)
  /\ UNCHANGED <<broker, config, cached, saveUrgent, cur, order, attempt,
                 pc, crashes>>

BeginExit(x) ==
  /\ \E pending \in PendingSells(x.ticker) :
       LET n == ValidatedShares(pos[x.ticker], x.shares, pending)
       IN  /\ n > 0
           /\ cur' = [ticker |-> x.ticker, kind |-> x.kind, shares |-> n,
                      held |-> pos[x.ticker], urgent |-> FALSE]
  /\ pc' = "placing"
  /\ UNCHANGED <<broker, disk, config, mem, traded, stopped, cached, saveUrgent,
                 order, attempt, crashes>>

SignalExit(r) ==
  /\ pc = "exits" /\ NextRecord(r)
  /\ \E x \in Signals(r) : SkipExit(x) \/ BeginExit(x)
  /\ queue' = queue \ {r}

\* The drawdown overlay sells a whole position, once per process, when the
\* records are done.
ForceExit(t) ==
  /\ pc = "exits" /\ queue = {}
  /\ useOptimizer /\ pos[t] > 0 /\ t \notin stopped
  /\ LET x == [ticker |-> t, kind |-> "EXIT", shares |-> pos[t]]
     IN  SkipExit(x) \/ BeginExit(x)
  /\ UNCHANGED queue

\* An entry leaves these shares to be bought, and a stop for those.
EntryLeaves(t, open, stop) ==
  LET left == [working[t] EXCEPT !.buy = @ + open, !.stop = @ + stop]
  IN  [working EXCEPT ![t] = left]

\* An entry of the tick is accepted: filled, with a stop at the broker or
\* without, or, as a slow one, filled in part or working.  The stop record is for
\* the shares filled so far, or for all when there are none.  A name sold earlier
\* in the tick is still entered.  Entries that are refused, rejected or time out
\* are in EntryExecution, those of the re-solve in DaemonDay.
EntryAccepted(t) ==
  /\ pc = "exits" /\ queue = {}
  /\ t \in mem.entries
  /\ \E n \in IF "slow_entry" \in faults THEN 0 .. Lot ELSE {Lot},
        stop \in {0, Lot} :
       /\ stop > 0 => n = Lot
       /\ pos' = [pos EXCEPT ![t] = @ + n]
       /\ working' = EntryLeaves(t, Lot - n, stop)
       /\ mem' = AddStop(MarkEntryExecuted(mem, t),
                         [ticker |-> t, by |-> "daemon",
                          shares |-> IF n = 0 THEN Lot ELSE n, taken |-> FALSE])
  /\ disk' = mem'
  /\ traded' = traded \cup {t}
  /\ UNCHANGED <<config, stopped, cached, saveUrgent, queue, cur, order, attempt,
                 pc, crashes>>

EndTick ==
  /\ pc = "exits" /\ queue = {}
  /\ pc' = "poll"
  /\ UNCHANGED <<broker, disk, config, mem, traded, stopped, cached, saveUrgent, queue,
                 cur, order, attempt, crashes>>

-----------------------------------------------------------------------------
(* _place_order_with_retry, and what the two kinds of exit do with its     *)
(* answer.                                                                 *)

\* Mutant of PlaceOrder: the attempts are not counted.
PlaceUncounted ==
  /\ pc = "placing"
  /\ order' = [st |-> "working", left |-> cur.shares]
  /\ pc' = "placed"
  /\ UNCHANGED <<broker, disk, config, mem, traded, stopped, cached, saveUrgent, queue,
                 cur, attempt, crashes>>

PlaceOrder ==
  /\ pc = "placing"
  /\ \E st \in {"working"} \cup (faults \cap {"silent"}) :
       order' = [st |-> st, left |-> cur.shares]
  /\ attempt' = attempt + 1
  /\ pc' = "placed"
  /\ UNCHANGED <<broker, disk, config, mem, traded, stopped, cached, saveUrgent, queue,
                 cur, crashes>>

\* qualifyContracts raises: "Rejected", and nothing was sent.
FailQualification ==
  /\ "unqualified" \in faults
  /\ pc = "placing"
  /\ order' = [st |-> "cancelled", left |-> cur.shares]
  /\ attempt' = attempt + 1
  /\ pc' = "placed"
  /\ UNCHANGED <<broker, disk, config, mem, traded, stopped, cached, saveUrgent, queue,
                 cur, crashes>>

\* Mutant of RetryOrder: one attempt too many.
RetryOnceMore ==
  /\ pc = "placed"
  /\ Retryable /\ attempt <= MaxOrderRetries
  /\ working' = LeaveAs(GivenUp)
  /\ order' = NoOrder
  /\ pc' = "placing"
  /\ UNCHANGED <<pos, disk, config, mem, traded, stopped, cached, saveUrgent, queue,
                 cur, attempt, crashes>>

\* The next attempt asks for the same shares; a timed-out order is cancelled
\* as far as it can be.
RetryOrder ==
  /\ pc = "placed"
  /\ Retryable /\ attempt < MaxOrderRetries
  /\ working' = LeaveAs(GivenUp)
  /\ order' = NoOrder
  /\ pc' = "placing"
  /\ UNCHANGED <<pos, disk, config, mem, traded, stopped, cached, saveUrgent, queue,
                 cur, attempt, crashes>>

\* The exit leaves the daemon's hands.
ExitDone(kind) ==
  /\ working' = LeaveAs(kind)
  /\ cur' = NoExit
  /\ order' = NoOrder
  /\ attempt' = 0
  /\ pc' = IF cur.urgent THEN "phase0" ELSE "exits"
  /\ UNCHANGED <<pos, config, saveUrgent, queue, crashes>>

\* Mutant of FailExit: a failed exit drops the stop record.
FailForgetting ==
  /\ pc = "placed"
  /\ Retryable /\ attempt = MaxOrderRetries
  /\ IF cur.urgent THEN UNCHANGED <<traded, stopped>> ELSE MarkExited(cur.ticker)
  /\ mem' = RemoveStop(mem, cur.ticker)
  /\ disk' = mem'
  /\ UNCHANGED cached
  /\ ExitDone(GivenUp)

\* Rejected or timed out to the last attempt.  An urgent exit stays in the
\* book; an intraday one counts as traded and keeps its stop record.
FailExit ==
  /\ pc = "placed"
  /\ Retryable /\ attempt = MaxOrderRetries
  /\ IF cur.urgent THEN UNCHANGED <<traded, stopped>> ELSE MarkExited(cur.ticker)
  /\ UNCHANGED <<disk, mem, cached>>
  /\ ExitDone(GivenUp)

Accepted == pc = "placed" /\ ~Retryable

\* Filled, filled in part or working: an urgent exit leaves the book in
\* memory, and the cache of positions follows the order, not the fill.
FinishUrgent ==
  /\ Accepted /\ cur.urgent
  /\ LET b == MarkUrgentExecuted(mem, cur.ticker, cur.kind)
     IN  mem' = IF cur.kind = "EXIT" THEN RemoveStop(b, cur.ticker) ELSE b
  /\ cached' = [cached EXCEPT ![cur.ticker] =
                  IF cur.kind = "COVER" THEN 0 ELSE @ - cur.shares]
  /\ traded' = IF cur.kind = "COVER" THEN traded ELSE traded \cup {cur.ticker}
  /\ UNCHANGED <<disk, stopped>>
  /\ ExitDone(SideKind)

\* A full exit drops the stop records; a profit-take writes the position
\* read before the order into the record.
FinishExit ==
  /\ Accepted /\ ~cur.urgent
  /\ mem' = IF cur.kind = "EXIT" THEN RemoveStop(mem, cur.ticker)
            ELSE [mem EXCEPT !.stops =
                    MarkProfitTakeExecuted(
                      UpdateStopShares(@, cur.ticker, cur.held), cur.ticker)]
  /\ disk' = mem'
  /\ MarkExited(cur.ticker)
  /\ UNCHANGED cached
  /\ ExitDone(SideKind)

\* ConnectionError out of _execute_exit: the daemon reconnects and leaves the
\* loop over the records.
LoseConnection ==
  /\ "connlost" \in faults
  /\ pc \in {"placing", "placed"} /\ ~cur.urgent
  /\ working' = LeaveAs("sell")
  /\ cur' = NoExit /\ order' = NoOrder /\ attempt' = 0
  /\ queue' = {}
  /\ pc' = "poll"
  /\ UNCHANGED <<pos, disk, config, mem, traded, stopped, cached, saveUrgent, crashes>>

-----------------------------------------------------------------------------
(* The environment of the exit path.                                       *)

Crash ==
  /\ "crash" \in faults
  /\ pc \notin {"down", "closed"} /\ crashes < MaxCrashes
  /\ crashes' = crashes + 1
  /\ working' = IF cur = NoExit THEN working ELSE LeaveAs(SideKind)
  /\ mem' = EmptyBook
  /\ traded' = {} /\ stopped' = {} /\ queue' = {}
  /\ cached' = [t \in Tickers |-> 0]
  /\ saveUrgent' = FALSE
  /\ cur' = NoExit /\ order' = NoOrder /\ attempt' = 0
  /\ pc' = "down"
  /\ UNCHANGED <<pos, disk, config>>

\* The market closes.
Close ==
  /\ pc = "poll"
  /\ pc' = "closed"
  /\ UNCHANGED <<broker, disk, config, mem, traded, stopped, cached, saveUrgent, queue,
                 cur, order, attempt, crashes>>

\* The daemon waits and processes the broker's events, or is not running.
Listening == pc \in {"down", "waiting", "placing", "placed", "poll"}

Sign(isBuy) == IF isBuy THEN 1 ELSE -1

FillOrder ==
  /\ pc = "placed" /\ Live(order)
  /\ \E n \in 1 .. order.left :
       /\ order' = [st |-> IF n = order.left THEN "filled" ELSE "working",
                    left |-> order.left - n]
       /\ pos' = [pos EXCEPT ![cur.ticker] = @ + Sign(cur.kind = "COVER") * n]
  /\ UNCHANGED <<working, disk, config, mem, traded, stopped, cached, saveUrgent, queue,
                 cur, attempt, pc, crashes>>

CancelOrder ==
  /\ pc = "placed" /\ Live(order)
  /\ order.left < cur.shares => "partial_cancel" \in faults
  /\ order' = [order EXCEPT !.st = "cancelled"]
  /\ UNCHANGED <<broker, disk, config, mem, traded, stopped, cached, saveUrgent, queue,
                 cur, attempt, pc, crashes>>

AcknowledgeOrder ==
  /\ pc = "placed" /\ order.st = "silent"
  /\ order' = [order EXCEPT !.st = "working"]
  /\ UNCHANGED <<broker, disk, config, mem, traded, stopped, cached, saveUrgent, queue,
                 cur, attempt, pc, crashes>>

\* An order left working fills, in part or in full.
FillWorking(t, kind) ==
  /\ Listening
  /\ \E n \in 1 .. working[t][kind] :
       /\ working' = [working EXCEPT ![t][kind] = @ - n]
       /\ pos' = [pos EXCEPT ![t] = @ + Sign(kind \in {"cover", "buy"}) * n]
  /\ UNCHANGED <<disk, config, daemon, crashes>>

\* An order the daemon gave up on is cancelled; one it counts on, only by a
\* fault.  A protective stop works until the close.
CancelWorking(t, kind) ==
  /\ Listening
  /\ working[t][kind] > 0
  /\ kind = "stray" \/ (kind # "stop" /\ "dropped" \in faults)
  /\ working' = [working EXCEPT ![t][kind] = 0]
  /\ UNCHANGED <<pos, disk, config, daemon, crashes>>

BrokerStep ==
  \/ FillOrder \/ CancelOrder \/ AcknowledgeOrder
  \/ \E t \in Tickers, kind \in OrderKinds :
       FillWorking(t, kind) \/ CancelWorking(t, kind)

DaemonStep ==
  \/ Boot \/ OpenPhase0 \/ EndPhase0 \/ Tick \/ EndTick
  \/ \E u \in queue \cap UrgentRecord : SkipUrgent(u) \/ BeginUrgent(u)
  \/ \E r \in queue \cap StopRecord : NoSignal(r) \/ SignalExit(r)
  \/ \E t \in Tickers : ForceExit(t) \/ EntryAccepted(t)
  \/ PlaceOrder \/ FailQualification \/ RetryOrder
  \/ FailExit \/ FinishUrgent \/ FinishExit

Next == DaemonStep \/ LoseConnection \/ Crash \/ Close \/ BrokerStep

Spec == Init /\ [][Next]_vars

\* The daemon keeps running while the market is open, whatever the broker
\* answers.
FairSpec == Spec /\ WF_vars(DaemonStep)

-----------------------------------------------------------------------------
(* Properties.                                                             *)

\* The shares being sold, the order in hand included.
Selling(t) ==
  OpenSells(t) + (IF cur # NoExit /\ cur.ticker = t /\ cur.kind # "COVER" /\ Live(order)
                  THEN order.left ELSE 0)

\* A restart repeats the exits of Phase 0, which is safe for a single sell: two
\* exits wait for each other behind one read of the positions (NeverShort),
\* and a cover is not checked against them at all.
RepeatIsSafe == crashes = 0 \/ "several" \notin faults

\* An order's status tells what became of it, and the open orders can be read.
BrokerTells == faults \cap {"silent", "partial_cancel", "blind"} = {}

\* Every share being sold is a share held: whatever rejections, restarts,
\* broker stops, profit-takes and forced exits meet, their SELLs together
\* cannot open a short (the 2026-04-22 guard of _validate_sell_shares).
NeverOversold ==
  RepeatIsSafe /\ BrokerTells =>
    \A t \in Tickers : Selling(t) > 0 => Selling(t) <= pos[t]

\* What a stop record does not tell the daemon: that an order it counted on was
\* cancelled, that another record is for more of the same name, and that its own
\* entry went on to fill after it was written.
RecordTells == faults \cap {"dropped", "topup", "slow_entry"} = {}

\* A stop record leaves the book on disk only when every held share of its
\* ticker is being sold: a daemon whose records tell never stops watching a share
\* it keeps.  Of a slow entry it does: the record is for the shares filled by then
\* and is not raised, and an exit sized by it drops it while the rest is held.
WatchEndsWithSale ==
  [][RepeatIsSafe /\ BrokerTells /\ RecordTells =>
       \A t \in Tickers :
         Watches(disk, t) /\ ~Watches(disk, t)' => pos'[t] <= Selling(t)']_vars

\* Phase 0 ends, whatever the broker answers: the urgent exits do not keep
\* the daemon from its stop records.
Phase0Ends == pc = "phase0" ~> pc \in {"poll", "down"}

\* "allow_shorts=False is the configured invariant" (run_daemon, Phase 0): no
\* position is ever short.
NeverShort == \A t \in Tickers : pos[t] >= 0
=============================================================================
