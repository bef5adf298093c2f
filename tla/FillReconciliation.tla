------------------------- MODULE FillReconciliation -------------------------
(***************************************************************************)
(* How a trade row that was logged before its fill arrived is corrected    *)
(* from the broker's executions (executor/fill_reconciliation.py): by the  *)
(* daemon on every tick, by the snapshot capture after the close, and for  *)
(* earlier sessions by a sweep over the archived daemon logs.              *)
(*                                                                         *)
(* Every order here is for one name on one side, which is what the symbol  *)
(* and side filters of the code let through; an execution is of one share. *)
(* Order ids are counters of a client, so two sessions may use the same.   *)
(***************************************************************************)
EXTENDS Integers, FiniteSets, FiniteSetsExt

CONSTANTS
  LastDate,     \* the last session that trades; quiet ones follow it
  OrderIds,     \* the ids a session's orders may have
  Requested,    \* shares every order asks for
  SweepCap,     \* max_dates of a sweep
  MaxFailures,  \* bound on lost connections, killed jobs and failed uploads
  NoOrder       \* "no order in hand"

ASSUME ConstantsAssumption ==
  /\ LastDate \in Nat \ {0}
  /\ Requested \in Nat \ {0}
  /\ SweepCap \in Nat \ {0}
  /\ MaxFailures \in Nat
  /\ NoOrder \notin OrderIds

Dates == 1 .. LastDate + 1

VARIABLES
  date,        \* the current session
  phase,       \* trading, or the job that runs after the close
  executions,  \* the broker's record
  open,        \* orders of this session that may still execute
  waiting,     \* the order the daemon is waiting for, or NoOrder
  rows,        \* trades.db: one row per session and order
  connected,   \* the daemon has an IB session
  session,     \* the executions that session has seen
  log,         \* /var/log/daemon.log: the executions of every session in it
  archive,     \* the copies of that log in S3, one per session
  archived,    \* the sessions that have one
  marked,      \* the sessions with a sweep marker in S3
  queue,       \* sessions the running sweep has not reached
  swept,       \* how many it has swept
  failures

market == <<executions, open>>
daemon == <<waiting, connected, session, log>>
s3     == <<archive, archived, marked>>
sweep  == <<queue, swept>>
vars   == <<date, phase, market, rows, daemon, s3, sweep, failures>>

Phases == {"trading", "capture", "sweep", "eod", "night"}

Execution == [date : Dates, id : OrderIds, n : 1 .. Requested]

\* A row's status, and its filled_shares.
Statuses == {"none", "Working", "PartialFill", "Timeout", "Filled"}
Row      == [st : Statuses, filled : Nat]
NoRow    == [st |-> "none", filled |-> 0]

\* NON_TERMINAL_STATUSES; the daemon logs no row as "Timeout", other tools may.
NonTerminal == {"Working", "PartialFill", "Timeout"}

\* Every variable keeps its shape, and a sweep stays within its cap.
TypeOK ==
  /\ date \in Dates
  /\ phase \in Phases
  /\ executions \subseteq Execution
  /\ open \subseteq OrderIds
  /\ waiting \in OrderIds \cup {NoOrder}
  /\ rows \in [Dates -> [OrderIds -> Row]]
  /\ connected \in BOOLEAN
  /\ session \subseteq Execution
  /\ log \subseteq Execution
  /\ archive \in [Dates -> SUBSET Execution]
  /\ archived \subseteq Dates
  /\ marked \subseteq Dates
  /\ queue \subseteq Dates
  /\ swept \in 0 .. SweepCap
  /\ failures \in 0 .. MaxFailures

OfSession(E, d) == {e \in E : e.date = d}

\* The executions of the order itself.
Own(d, id) == {e \in executions : e.date = d /\ e.id = id}

Init ==
  /\ date = 1
  /\ phase = "trading"
  /\ executions = {}
  /\ open = {}
  /\ waiting = NoOrder
  /\ rows = [d \in Dates |-> [id \in OrderIds |-> NoRow]]
  /\ connected = FALSE
  /\ session = {}
  /\ log = {}
  /\ archive = [d \in Dates |-> {}]
  /\ archived = {}
  /\ marked = {}
  /\ queue = {}
  /\ swept = 0
  /\ failures = 0

-----------------------------------------------------------------------------
(* reconcile_unfilled_trades.                                              *)

\* unresolved_trades
OpenRows(R, d) == {id \in OrderIds : R[d][id].st \in NonTerminal}

\* The executions of a source that are looked up for a row: by order id.
Matching(E, id) == {e \in E : e.id = id}

\* Mutant of NewStatus: completeness judged by the row's shares column, which
\* for a partial fill is what had been filled.
StatusByShares(row, n) ==
  IF n >= (IF row.st = "PartialFill" THEN row.filled ELSE Requested)
  THEN "Filled" ELSE "PartialFill"

NewStatus(row, n) == IF n >= Requested THEN "Filled" ELSE "PartialFill"

\* The rows of session d, patched from the executions E of a source.
Reconciled(R, d, E) ==
  [R EXCEPT ![d] =
     [id \in OrderIds |->
        LET n == Cardinality(Matching(E, id))
        IN  IF id \in OpenRows(R, d) /\ n > 0
            THEN [st |-> NewStatus(R[d][id], n), filled |-> n]
            ELSE R[d][id]]]

\* The open rows no execution of E is found for.
Unresolved(R, d, E) == {id \in OpenRows(R, d) : Matching(E, id) = {}}

-----------------------------------------------------------------------------
(* The trading session.                                                    *)

Connect ==
  /\ phase = "trading" /\ ~connected
  /\ connected' = TRUE
  /\ session' = OfSession(executions, date)
  /\ log' = log \cup session'
  /\ UNCHANGED <<date, phase, market, rows, waiting, s3, sweep, failures>>

PlaceOrder(id) ==
  /\ phase = "trading" /\ connected /\ date <= LastDate
  /\ waiting = NoOrder
  /\ id \notin open /\ Own(date, id) = {} /\ rows[date][id] = NoRow
  /\ waiting' = id
  /\ open' = open \cup {id}
  /\ UNCHANGED <<date, phase, executions, rows, connected, session, log, s3, sweep,
                 failures>>

Execute(id) ==
  /\ phase = "trading" /\ id \in open
  /\ LET n == Cardinality(Own(date, id)) + 1
         e == [date |-> date, id |-> id, n |-> n]
     IN  /\ executions' = executions \cup {e}
         /\ open' = IF n = Requested THEN open \ {id} ELSE open
         /\ IF connected
            THEN session' = session \cup {e} /\ log' = log \cup {e}
            ELSE UNCHANGED <<session, log>>
  /\ UNCHANGED <<date, phase, rows, waiting, connected, s3, sweep, failures>>

\* The daemon stops waiting. It logs the row with the status of the moment (a
\* status "Filled" comes with every execution, and may come after them); for
\* an answer of "Timeout" or "Rejected" it logs none.
LogRow ==
  /\ waiting # NoOrder
  /\ LET n == Cardinality(Own(date, waiting))
         LogAs(st) == rows' = [rows EXCEPT ![date][waiting] = [st |-> st, filled |-> n]]
     IN  \/ n = Requested /\ LogAs("Filled")
         \/ LogAs(IF n \in 1 .. Requested - 1 THEN "PartialFill" ELSE "Working")
         \/ UNCHANGED rows
  /\ waiting' = NoOrder
  /\ UNCHANGED <<date, phase, market, connected, session, log, s3, sweep, failures>>

\* The daemon's tick: reconcile_from_ib over its own session.
Tick ==
  /\ phase = "trading" /\ connected /\ waiting = NoOrder
  /\ rows' = Reconciled(rows, date, session)
  /\ UNCHANGED <<date, phase, market, daemon, s3, sweep, failures>>

\* The connection is lost or the daemon dies; an order it was waiting for
\* gets no row.
Disconnect ==
  /\ connected /\ failures < MaxFailures
  /\ connected' = FALSE
  /\ session' = {}
  /\ waiting' = NoOrder
  /\ failures' = failures + 1
  /\ UNCHANGED <<date, phase, market, rows, log, s3, sweep>>

\* Day orders end with the session.
Close ==
  /\ phase = "trading" /\ waiting = NoOrder
  /\ phase' = "capture"
  /\ open' = {}
  /\ connected' = FALSE
  /\ session' = {}
  /\ UNCHANGED <<date, executions, rows, waiting, log, s3, sweep, failures>>

-----------------------------------------------------------------------------
(* After the close: the snapshot capture with its backstop, the sweep of   *)
(* earlier sessions, and the archive of the log.                           *)

StartSweep ==
  /\ phase' = "sweep"
  /\ queue' = {d \in Dates : d < date /\ OpenRows(rows', d) # {}}
  /\ swept' = 0

\* Mutants of Capture: no second source, and no filter on the log.
CaptureSessionOnly ==
  /\ phase = "capture"
  /\ \E seen \in {{}, OfSession(executions, date)} :
       rows' = Reconciled(rows, date, seen)
  /\ StartSweep
  /\ UNCHANGED <<date, market, daemon, s3, failures>>
CaptureWholeLog ==
  /\ phase = "capture"
  /\ rows' = Reconciled(rows, date, log)
  /\ StartSweep
  /\ UNCHANGED <<date, market, daemon, s3, failures>>

\* _reconcile_fills: the capture's own session holds the executions of its
\* client, usually none; the log is read when a row stays unresolved.
Capture ==
  /\ phase = "capture"
  /\ \E seen \in {{}, OfSession(executions, date)} :
       LET R == Reconciled(rows, date, seen)
       IN  rows' = IF Unresolved(rows, date, seen) # {}
                   THEN Reconciled(R, date, OfSession(log, date))
                   ELSE R
  /\ StartSweep
  /\ UNCHANGED <<date, market, daemon, s3, failures>>

\* It gives up on an error, and the sweep follows.
FailCapture ==
  /\ phase = "capture" /\ failures < MaxFailures
  /\ UNCHANGED rows
  /\ StartSweep
  /\ failures' = failures + 1
  /\ UNCHANGED <<date, market, daemon, s3>>

\* Mutant of PassOver: a session passed over counts against the cap.
PassOverCounted ==
  /\ phase = "sweep" /\ queue # {} /\ swept < SweepCap
  /\ LET d == Min(queue)
     IN  /\ d \in marked \/ d \notin archived
         /\ queue' = queue \ {d}
  /\ swept' = swept + 1
  /\ UNCHANGED <<date, phase, market, rows, daemon, s3, failures>>

\* The oldest session of the queue was swept before, or has no log.
PassOver ==
  /\ phase = "sweep" /\ queue # {} /\ swept < SweepCap
  /\ LET d == Min(queue)
     IN  /\ d \in marked \/ d \notin archived
         /\ queue' = queue \ {d}
  /\ UNCHANGED <<date, phase, market, rows, daemon, s3, swept, failures>>

\* Mutant of SweepSession: the cap is never looked at.
SweepUncapped ==
  /\ phase = "sweep" /\ queue # {}
  /\ LET d == Min(queue)
     IN  /\ d \notin marked /\ d \in archived
         /\ rows' = Reconciled(rows, d, archive[d])
         /\ queue' = queue \ {d}
         /\ \/ marked' = marked \cup {d} /\ UNCHANGED failures
            \/ failures < MaxFailures /\ failures' = failures + 1 /\ UNCHANGED marked
  /\ swept' = swept + 1
  /\ UNCHANGED <<date, phase, market, daemon, archive, archived>>

\* One session repaired from its archived log, which is marked as swept even
\* when rows stay open; the marker may fail to be written.
SweepSession ==
  /\ phase = "sweep" /\ queue # {} /\ swept < SweepCap
  /\ LET d == Min(queue)
     IN  /\ d \notin marked /\ d \in archived
         /\ rows' = Reconciled(rows, d, archive[d])
         /\ queue' = queue \ {d}
         /\ \/ marked' = marked \cup {d} /\ UNCHANGED failures
            \/ failures < MaxFailures /\ failures' = failures + 1 /\ UNCHANGED marked
  /\ swept' = swept + 1
  /\ UNCHANGED <<date, phase, market, daemon, archive, archived>>

EndSweep ==
  /\ phase = "sweep"
  /\ queue = {} \/ swept = SweepCap
  /\ phase' = "eod"
  /\ queue' = {}
  /\ UNCHANGED <<date, market, rows, daemon, s3, swept, failures>>

\* The capture job is killed before, or during, its reconciliation or sweep.
KillCapture ==
  /\ phase \in {"capture", "sweep"} /\ failures < MaxFailures
  /\ phase' = "eod"
  /\ queue' = {}
  /\ failures' = failures + 1
  /\ UNCHANGED <<date, market, rows, daemon, s3, swept>>

\* The end-of-day reconcile uploads the whole log under the session's key.
ArchiveLog ==
  /\ phase = "eod"
  /\ \/ /\ archive' = [archive EXCEPT ![date] = log]
        /\ archived' = archived \cup {date}
        /\ UNCHANGED failures
     \/ failures < MaxFailures /\ failures' = failures + 1 /\ UNCHANGED <<archive, archived>>
  /\ phase' = "night"
  /\ UNCHANGED <<date, market, rows, daemon, marked, sweep>>

\* The next session; the quiet ones after LastDate are one date.
NextSession ==
  /\ phase = "night"
  /\ date' = IF date <= LastDate THEN date + 1 ELSE date
  /\ phase' = "trading"
  /\ UNCHANGED <<market, rows, daemon, s3, sweep, failures>>

-----------------------------------------------------------------------------

Trading ==
  Connect \/ LogRow \/ Tick \/ Disconnect
  \/ \E id \in OrderIds : PlaceOrder(id) \/ Execute(id)

AfterClose ==
  Capture \/ PassOver \/ SweepSession \/ EndSweep \/ ArchiveLog \/ NextSession

Next == Trading \/ Close \/ AfterClose \/ FailCapture \/ KillCapture

Spec == Init /\ [][Next]_vars

(***************************************************************************)
(* Sessions come to an end and their jobs run: an order is not waited for  *)
(* for ever, the market closes, and the jobs of the close follow.          *)
(***************************************************************************)
FairSpec == Spec /\ WF_vars(LogRow) /\ WF_vars(Close) /\ WF_vars(AfterClose)

-----------------------------------------------------------------------------
(* Properties.                                                             *)

\* No pass of the session itself credits a row with executions that are not
\* its order's, whatever the log of the box holds from other sessions.
LiveRowsOwn ==
  \A id \in OrderIds : rows[date][id].filled <= Cardinality(Own(date, id))

\* A row leaves the reach of every later pass only when its order is
\* complete: no execution of an order comes after its row was closed.
FilledIsComplete ==
  \A id \in OrderIds :
    rows[date][id].st = "Filled" => Cardinality(Own(date, id)) = Requested

\* After the capture a row of the day holds all of its order's executions if
\* the daemon's log has them, however the daemon's own passes fell.
CaptureIsExact ==
  [][Capture =>
       \A id \in OrderIds :
         rows[date][id] # NoRow /\ Own(date, id) \subseteq log =>
           rows'[date][id].filled = Cardinality(Own(date, id))]_vars

\* The sweep reaches every session it could repair: the sessions it passes
\* over, or cannot resolve, do not use up its cap night after night.
SweepDrains ==
  \A d \in Dates :
    d \in archived /\ OpenRows(rows, d) # {} ~> d \in marked \/ OpenRows(rows, d) = {}

\* "IB order ids are per-client counters rather than globally unique, so an
\* execution from another day must not be able to resolve today's row"
\* (reconcile_from_daemon_log_file), for the rows of every session.
RowsOwn ==
  \A d \in Dates, id \in OrderIds : rows[d][id].filled <= Cardinality(Own(d, id))
=============================================================================
