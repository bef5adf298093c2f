----------------------------- MODULE EodLedger -----------------------------
(***************************************************************************)
(* The ledger of the sessions (executor/eod_reconcile.py): one row per     *)
(* session, struck after the close from the session's snapshot and the     *)
(* settled closes, and struck again by the audit of the next evenings      *)
(* (executor/reconcile_audit.py) when those closes are revised.  With it   *)
(* the tables every strike writes: dividend accruals (trade_logger.py), the*)
(* money ledger (money_ledger.py), the report and its mail, and the rows   *)
(* rebuilt for sessions nobody reconciled (auto_backfill_gap.py).          *)
(*                                                                         *)
(* A benchmark close is a version number: only whether it changed matters. *)
(* The NAV is struck on settled closes, so the position closes of a        *)
(* session are the NAV they give, in basis points; a vendor only moves it  *)
(* up, to a NAV it has not given before.  One name is held throughout and  *)
(* has one dividend; a session stands for its date.                        *)
(***************************************************************************)
EXTENDS Integers, FiniteSets, FiniteSetsExt

CONSTANTS
  LastDay,       \* the last session
  Window,        \* trailing_days of the audit, today's session included
  Fallback,      \* DIVIDEND_PAY_DATE_FALLBACK_DAYS, in sessions
  Moves,         \* by how much a revised close may move the NAV
  Tolerance,     \* TWR_CLOSURE_TOLERANCE_BPS, NAV_CHANGE_BASIS_TOLERANCE_BPS
  MaxCorrection, \* TWR_SELF_HEAL_MAX_CORRECTION_PCT
  MaxNav,        \* bound on a NAV
  MaxRevisions,  \* bound on revisions of a close
  MaxFailures,   \* bound on crashes, failed reads, breaches and skipped sessions
  Faults         \* what may go wrong in an instance

ASSUME LedgerAssumption ==
  /\ LastDay \in Nat \ {0}
  /\ Window \in Nat \ {0}
  /\ Fallback \in Nat
  /\ Moves \subseteq Nat \ {0}
  /\ Tolerance \in Nat /\ MaxCorrection \in Nat
  /\ MaxNav \in Nat \ {0}
  /\ MaxRevisions \in Nat
  /\ MaxFailures \in Nat
  /\ Faults \subseteq {"crash", "closes", "feed", "breach", "report", "gap", "retry"}

Days == 1 .. LastDay
None == 0          \* no session: before the first row, or "not settled"

VARIABLES
  day,       \* today's session
  phase,     \* where the evening's job is
  snap,      \* the snapshot of each session in S3
  traded,    \* the sessions with fills
  spy, pos,  \* ArcticDB: the benchmark close of a session, the NAV its closes give
  revisions,
  rows,      \* eod_pnl
  accruals,  \* dividend_accruals
  dividend,  \* the ex-date and the pay date of the dividend, None when unknown
  journal,   \* the money ledger
  reported,  \* the sessions with a report
  mails,     \* mails sent about each session
  unreported, \* sessions whose report could not be written
  queue,     \* sessions the audit has not reached
  corrected, \* sessions it has struck again
  missed,    \* sessions it could not check or strike
  unread,    \* sessions it passed for want of a close, on no record of the code
  applyFailed, \* sessions a re-strike of which raised, on any evening
  cur,       \* the strike in hand
  failures

inputs == <<spy, pos, revisions, dividend>>
ledger == <<rows, accruals, journal>>
mail   == <<reported, mails, unreported>>
audit  == <<queue, corrected, missed, unread, applyFailed>>
vars   == <<day, phase, snap, traded, inputs, ledger, mail, audit, cur, failures>>

Versions == 1 .. MaxRevisions + 1
Navs == 1 .. MaxNav

\* What a row was struck from: its NAV and benchmark close, the row before
\* it, that row's NAV, and the benchmark close of that date; the NAV its
\* daily return was taken over; the dividend booked and released by it.
Row ==
  [pos : Navs, spy : Versions, prior : Days \cup {None},
   base : Navs \cup {None}, over : Navs \cup {None},
   back : Versions \cup {None}, accrued : BOOLEAN, released : Nat]
NoRow == [pos |-> None]

Accrual == [on : Days, settled : Days \cup {None}]

\* A strike: of which session, for whom, at which step, with what in hand.
\* "restrike" and "backfill" are the audit's; "live" is the evening's own.
Strike ==
  [of : Days, mode : {"live", "restrike", "backfill"},
   step : {"accrue", "settle", "write", "journal", "heal", "report", "end"},
   accrued : BOOLEAN, released : Nat, breach : BOOLEAN, muted : BOOLEAN,
   before : Navs \cup {None}]
NoStrike == [of |-> None]

\* An entry that moves the books of a session from one NAV to another; the
\* broker's own NAV is None.
Entry == [of : Days, from : Navs \cup {None}, to : Navs]

Phases == {"session", "closed", "audit", "strike", "failed", "night"}

\* Every variable keeps its shape; the audit keeps to its window and never
\* has today's session in hand.
TypeOK ==
  /\ day \in Days
  /\ phase \in Phases
  /\ snap \in [Days -> {"none", "real", "rebuilt"}]
  /\ traded \subseteq Days
  /\ spy \in [Days -> Versions] /\ pos \in [Days -> Navs]
  /\ revisions \in 0 .. MaxRevisions
  /\ rows \in [Days -> Row \cup {NoRow}]
  /\ accruals \subseteq Accrual
  /\ dividend \in [ex : Days, pay : Days \cup {None}]
  /\ journal \subseteq Entry
  /\ reported \subseteq Days
  /\ mails \in [Days -> Nat]
  /\ unreported \subseteq Days
  /\ queue \subseteq Days \cap (day - Window + 1 .. day - 1)
  /\ corrected \subseteq Days
  /\ missed \subseteq Days /\ unread \subseteq Days /\ applyFailed \subseteq Days
  /\ cur \in Strike \cup {NoStrike}
  /\ failures \in 0 .. MaxFailures

Init ==
  /\ day = 1
  /\ phase = "session"
  /\ snap = [d \in Days |-> "none"]
  /\ traded = {}
  /\ spy = [d \in Days |-> 1] /\ pos = [d \in Days |-> 1]
  /\ revisions = 0
  /\ rows = [d \in Days |-> NoRow]
  /\ accruals = {}
  /\ dividend \in [ex : Days, pay : Days \cup {None}]
  /\ dividend.pay # None => dividend.ex < dividend.pay
  /\ journal = {}
  /\ reported = {}
  /\ mails = [d \in Days |-> 0]
  /\ unreported = {}
  /\ queue = {} /\ corrected = {} /\ missed = {} /\ unread = {} /\ applyFailed = {}
  /\ cur = NoStrike
  /\ failures = 0

-----------------------------------------------------------------------------
(* The rows.                                                               *)

HasRow(d) == rows[d] # NoRow

\* SELECT ... WHERE date < ? ORDER BY date DESC LIMIT 1
Prior(d) ==
  LET earlier == {e \in Days : e < d /\ HasRow(e)}
  IN  IF earlier = {} THEN None ELSE Max(earlier)

\* The NAV of the row before d, and the benchmark close of its date.
PriorNav(d) == IF Prior(d) = None THEN None ELSE rows[Prior(d)].pos
PriorSpy(d) == IF Prior(d) = None THEN None ELSE spy[Prior(d)]

\* Mutant of StaleLegs: the return is not compared, only the session's own close.
OwnLegs(d) ==
  (IF rows[d].spy # spy[d] THEN {"spy_close"} ELSE {})
  \cup (IF rows[d].pos # pos[d] THEN {"position_close"} ELSE {})

\* _detect_stale_legs
StaleLegs(d) ==
  (IF rows[d].spy # spy[d] THEN {"spy_close"} ELSE {})
  \cup (IF <<rows[d].prior, rows[d].back>> # <<Prior(d), PriorSpy(d)>> \/ rows[d].spy # spy[d]
        THEN {"spy_return"} ELSE {})
  \cup (IF rows[d].pos # pos[d] THEN {"position_close"} ELSE {})

\* With the leg audit_window adds: the row before this one was struck again.
Legs(d) ==
  StaleLegs(d) \cup (IF Prior(d) \in corrected THEN {"prior_corrected"} ELSE {})

\* The rows whose NAV change was taken over a NAV that is no longer there.
OffBase == {d \in Days : HasRow(d) /\ rows[d].base # PriorNav(d)}

-----------------------------------------------------------------------------
(* One session after another.                                              *)

\* The snapshot is captured, create-only, under the session's own date.
Capture ==
  /\ phase = "session"
  /\ snap' = [snap EXCEPT ![day] = "real"]
  /\ \E t \in {{}, {day}} : traded' = traded \cup t
  /\ phase' = "closed"
  /\ UNCHANGED <<day, inputs, ledger, mail, audit, cur, failures>>

\* Nobody captures or reconciles the session.
SkipSession ==
  /\ phase = "session" /\ "gap" \in Faults /\ failures < MaxFailures
  /\ \E t \in {{}, {day}} : traded' = traded \cup t
  /\ phase' = "night"
  /\ failures' = failures + 1
  /\ UNCHANGED <<day, snap, inputs, ledger, mail, audit, cur>>

\* A vendor replaces a close of an earlier session.
Revise ==
  /\ phase = "session" /\ revisions < MaxRevisions
  /\ \E d \in 1 .. day - 1 :
       \/ spy' = [spy EXCEPT ![d] = @ + 1] /\ UNCHANGED pos
       \/ /\ \E m \in Moves : pos[d] + m <= MaxNav /\ pos' = [pos EXCEPT ![d] = @ + m]
          /\ UNCHANGED spy
  /\ revisions' = revisions + 1
  /\ UNCHANGED <<day, phase, snap, traded, dividend, ledger, mail, audit, cur, failures>>

NextDay ==
  /\ phase = "night" /\ day < LastDay
  /\ day' = day + 1
  /\ phase' = "session"
  /\ UNCHANGED <<snap, traded, inputs, ledger, mail, audit, cur, failures>>

-----------------------------------------------------------------------------
(* The evening's job starts with the audit of the trailing window.         *)

\* Mutant of StartJob: one session more than the window.
StartJobWider ==
  /\ phase = "closed"
  /\ queue' = Days \cap (day - Window .. day - 1)
  /\ corrected' = {} /\ missed' = {} /\ unread' = {}
  /\ phase' = "audit"
  /\ UNCHANGED <<day, snap, traded, inputs, ledger, mail, applyFailed, cur, failures>>
StartJob ==
  /\ phase = "closed"
  /\ queue' = Days \cap (day - Window + 1 .. day - 1)
  /\ corrected' = {} /\ missed' = {} /\ unread' = {}
  /\ phase' = "audit"
  /\ UNCHANGED <<day, snap, traded, inputs, ledger, mail, applyFailed, cur, failures>>

NewStrike(d, mode) ==
  cur' = [of |-> d, mode |-> mode, step |-> "accrue", accrued |-> FALSE,
          released |-> 0, breach |-> FALSE,
          muted |-> mode # "live" \/ d \in reported,
          before |-> IF HasRow(d) THEN rows[d].pos ELSE None]

\* The oldest session of the queue, taken out of it.
Pop(d) == d = Min(queue) /\ queue' = queue \ {d}

AuditClean ==
  /\ phase = "audit" /\ queue # {}
  /\ \E d \in queue : Pop(d) /\ HasRow(d) /\ Legs(d) = {}
  /\ UNCHANGED <<day, phase, snap, traded, inputs, ledger, mail, corrected, missed,
                 unread, applyFailed, cur, failures>>

AuditRestrike ==
  /\ phase = "audit" /\ queue # {}
  /\ \E d \in queue : Pop(d) /\ HasRow(d) /\ Legs(d) # {} /\ NewStrike(d, "restrike")
  /\ phase' = "strike"
  /\ UNCHANGED <<day, snap, traded, inputs, ledger, mail, corrected, missed, unread,
                 applyFailed, failures>>

\* No settled close can be read, so the session is not checked this evening.
AuditUnsettled ==
  /\ phase = "audit" /\ queue # {} /\ "closes" \in Faults /\ failures < MaxFailures
  /\ \E d \in queue : Pop(d) /\ missed' = missed \cup {d}
  /\ failures' = failures + 1
  /\ UNCHANGED <<day, phase, snap, traded, inputs, ledger, mail, corrected, unread,
                 applyFailed, cur>>

\* The close of a held name, or the benchmark's of the row before, cannot be
\* read: that leg is left out, and a session with no other passes for clean.
AuditBlind ==
  /\ phase = "audit" /\ queue # {} /\ "closes" \in Faults /\ failures < MaxFailures
  /\ \E d \in queue :
       /\ Pop(d) /\ HasRow(d)
       /\ Legs(d) # {} /\ Legs(d) \subseteq {"spy_return", "position_close"}
       /\ unread' = unread \cup {d}
  /\ failures' = failures + 1
  /\ UNCHANGED <<day, phase, snap, traded, inputs, ledger, mail, corrected, missed,
                 applyFailed, cur>>

\* check_gate, and the snapshot that must not be overwritten.
CanRebuild(d) == d \notin traded /\ Prior(d) # None /\ snap[d] # "real"

\* attempt_auto_backfill: the book of the row before, at the session's closes.
AuditRebuild ==
  /\ phase = "audit" /\ queue # {}
  /\ \E d \in queue :
       /\ Pop(d) /\ ~HasRow(d) /\ CanRebuild(d)
       /\ snap' = [snap EXCEPT ![d] = "rebuilt"]
       /\ NewStrike(d, "backfill")
  /\ phase' = "strike"
  /\ UNCHANGED <<day, traded, inputs, ledger, mail, corrected, missed, unread,
                 applyFailed, failures>>

\* A gap that is accepted, or left to an operator.
AuditGap ==
  /\ phase = "audit" /\ queue # {}
  /\ \E d \in queue : Pop(d) /\ ~HasRow(d) /\ ~CanRebuild(d)
  /\ UNCHANGED <<day, phase, snap, traded, inputs, ledger, mail, corrected, missed,
                 unread, applyFailed, cur, failures>>

\* The evening's own strike follows, whatever the audit came to.
EndAudit ==
  /\ phase = "audit" /\ queue = {}
  /\ NewStrike(day, "live")
  /\ phase' = "strike"
  /\ UNCHANGED <<day, snap, traded, inputs, ledger, mail, audit, failures>>

-----------------------------------------------------------------------------
(* A strike (run), commit by commit.                                       *)

At(step) == phase = "strike" /\ cur.step = step

\* A run that ends by raising: the audit goes on to its next session, the
\* evening's own run fails.
Raise ==
  /\ phase' = IF cur.mode = "live" THEN "failed" ELSE "audit"
  /\ missed' = IF cur.mode = "live" THEN missed ELSE missed \cup {cur.of}
  /\ applyFailed' = IF cur.mode = "restrike" THEN applyFailed \cup {cur.of} ELSE applyFailed
  /\ cur' = NoStrike
  /\ UNCHANGED <<queue, corrected, unread>>

\* A held name has no close for the session: nothing has been written yet.
FailCloses ==
  /\ At("accrue") /\ "closes" \in Faults /\ failures < MaxFailures
  /\ Raise
  /\ failures' = failures + 1
  /\ UNCHANGED <<day, snap, traded, inputs, ledger, mail>>

\* fetch_ex_dividends: the events of (row before, session], or of the session.
ExInterval(d) ==
  dividend.ex \in (IF Prior(d) = None THEN d ELSE Prior(d) + 1) .. d

\* record_dividend_accrual, keyed by the name and the date of the strike.
Accrue ==
  /\ At("accrue")
  /\ \E accrued \in {ExInterval(cur.of)} \cup (IF "feed" \in Faults THEN {FALSE} ELSE {}) :
       /\ accruals' =
            IF accrued /\ \A a \in accruals : a.on # cur.of
            THEN accruals \cup {[on |-> cur.of, settled |-> None]} ELSE accruals
       /\ cur' = [cur EXCEPT !.step = "settle", !.accrued = accrued]
  /\ UNCHANGED <<day, phase, snap, traded, inputs, rows, journal, mail, audit, failures>>

\* Mutant of Due: an accrual is due again after it was settled.
DueAgain(d) ==
  {a \in accruals : (IF dividend.pay = None THEN a.on + Fallback ELSE dividend.pay) <= d}
\* The accruals to settle, by the pay date the feed gave, or by the fallback.
Due(d) ==
  {a \in accruals :
     /\ a.settled = None
     /\ (IF dividend.pay = None THEN a.on + Fallback ELSE dividend.pay) <= d}

\* settle_due_dividend_accruals, in a commit of its own.
Settle ==
  /\ At("settle")
  /\ LET due == Due(cur.of)
     IN  /\ accruals' = (accruals \ due) \cup {[a EXCEPT !.settled = cur.of] : a \in due}
         /\ cur' = [cur EXCEPT !.step = "write", !.released = Cardinality(due)]
  /\ UNCHANGED <<day, phase, snap, traded, inputs, rows, journal, mail, audit, failures>>

\* log_eod: the row is inserted, or replaced as a whole.
WriteRow ==
  /\ At("write")
  /\ rows' = [rows EXCEPT ![cur.of] =
                [pos |-> pos[cur.of], spy |-> spy[cur.of], prior |-> Prior(cur.of),
                 base |-> PriorNav(cur.of), over |-> PriorNav(cur.of),
                 back |-> PriorSpy(cur.of),
                 accrued |-> cur.accrued, released |-> cur.released]]
  /\ cur' = [cur EXCEPT !.step = "journal"]
  /\ UNCHANGED <<day, phase, snap, traded, inputs, accruals, journal, mail, audit, failures>>

\* An entry is its content: what is there already is not written again, and
\* a move from a NAV to itself is no entry.
Post(d, from, to) ==
  journal' = IF from = to THEN journal ELSE journal \cup {[of |-> d, from |-> from, to |-> to]}

\* _post_mark_to_settled_entry; a re-strike is journaled by the audit.
PostMark ==
  /\ At("journal")
  /\ IF cur.mode = "restrike" THEN UNCHANGED journal ELSE Post(cur.of, 0, pos[cur.of])
  /\ cur' = [cur EXCEPT !.step = "heal"]
  /\ UNCHANGED <<day, phase, snap, traded, inputs, rows, accruals, mail, audit, failures>>

\* The rows with a return, off its NAV by this much.
Chained == {d \in Days : HasRow(d) /\ Prior(d) # None}
OffBy(d) == rows[d].over - PriorNav(d)
Beyond(x, limit) == x > limit \/ -x > limit

\* The returns that are too far off to be a stale value.
Refused == {d \in Chained : Beyond(OffBy(d), Tolerance) /\ Beyond(OffBy(d), MaxCorrection)}

\* Mutant of Healed: nothing is restated.
HealedNothing == rows
\* plan_twr_self_heal: a return off the NAV before it is taken over that NAV,
\* unless it is refused.
Healed ==
  [d \in Days |->
     IF d \in Chained \ Refused /\ Beyond(OffBy(d), Tolerance)
     THEN [rows[d] EXCEPT !.over = PriorNav(d)] ELSE rows[d]]

\* verify_twr_closes: the returns chained against the NAVs, to first order.
NavDrift == MapThenSumSet(LAMBDA d : Healed[d].over - PriorNav(d), Chained)

\* verify_nav_change_basis_closes: against the NAV changes of the rows.
ChangeDrift == MapThenSumSet(LAMBDA d : Healed[d].over - rows[d].base, Chained)

\* The returns are restated, and the checks on the whole table follow; the
\* others may fire as well.
Heal ==
  /\ At("heal")
  /\ rows' = Healed
  /\ \E other \in BOOLEAN :
       /\ other => "breach" \in Faults /\ failures < MaxFailures
       /\ failures' = IF other THEN failures + 1 ELSE failures
       /\ cur' = [cur EXCEPT !.step = "report",
                   !.breach = \/ other \/ Refused # {}
                              \/ Beyond(NavDrift, Tolerance)
                              \/ Beyond(ChangeDrift, Tolerance)]
  /\ UNCHANGED <<day, phase, snap, traded, inputs, accruals, journal, mail, audit>>

\* Mutant of Report: the mail does not ask whether the session was reported.
ReportUnmuted ==
  /\ At("report")
  /\ reported' = reported \cup {cur.of}
  /\ mails' = IF cur.mode # "live" THEN mails ELSE [mails EXCEPT ![cur.of] = @ + 1]
  /\ cur' = [cur EXCEPT !.step = "end"]
  /\ UNCHANGED <<day, phase, snap, traded, inputs, ledger, audit, unreported, failures>>

\* The report, whose failure is logged; then the mail, unless a report of this
\* snapshot was there when the run began. Neither is sent by the audit.
Report ==
  /\ At("report")
  /\ \/ reported' = reported \cup {cur.of} /\ UNCHANGED <<unreported, failures>>
     \/ /\ "report" \in Faults /\ failures < MaxFailures
        /\ unreported' = unreported \cup {cur.of}
        /\ UNCHANGED reported
        /\ failures' = failures + 1
  /\ mails' = IF cur.muted THEN mails ELSE [mails EXCEPT ![cur.of] = @ + 1]
  /\ cur' = [cur EXCEPT !.step = "end"]
  /\ UNCHANGED <<day, phase, snap, traded, inputs, ledger, audit>>

\* The integrity gate: a breach raises when everything has been written.
Gate ==
  /\ At("end") /\ cur.breach
  /\ Raise
  /\ UNCHANGED <<day, snap, traded, inputs, ledger, mail, failures>>

EndLive ==
  /\ At("end") /\ ~cur.breach /\ cur.mode = "live"
  /\ phase' = "night"
  /\ cur' = NoStrike
  /\ UNCHANGED <<day, snap, traded, inputs, ledger, mail, audit, failures>>

EndRebuild ==
  /\ At("end") /\ ~cur.breach /\ cur.mode = "backfill"
  /\ phase' = "audit"
  /\ cur' = NoStrike
  /\ UNCHANGED <<day, snap, traded, inputs, ledger, mail, audit, failures>>

\* Mutants of EndRestrike: the cascade, or the entry, is forgotten.
EndUncascaded ==
  /\ At("end") /\ ~cur.breach /\ cur.mode = "restrike"
  /\ Post(cur.of, cur.before, rows[cur.of].pos)
  /\ phase' = "audit"
  /\ cur' = NoStrike
  /\ UNCHANGED <<day, snap, traded, inputs, rows, accruals, mail, audit, failures>>
EndUnposted ==
  /\ At("end") /\ ~cur.breach /\ cur.mode = "restrike"
  /\ corrected' = corrected \cup {cur.of}
  /\ phase' = "audit"
  /\ cur' = NoStrike
  /\ UNCHANGED <<day, snap, traded, inputs, ledger, mail, queue, missed, unread,
                 applyFailed, failures>>

\* _post_restrike_entry, from the row as it was to the row as it is.
EndRestrike ==
  /\ At("end") /\ ~cur.breach /\ cur.mode = "restrike"
  /\ Post(cur.of, cur.before, rows[cur.of].pos)
  /\ corrected' = corrected \cup {cur.of}
  /\ phase' = "audit"
  /\ cur' = NoStrike
  /\ UNCHANGED <<day, snap, traded, inputs, rows, accruals, mail, queue, missed, unread,
                 applyFailed, failures>>

\* The job is killed; what it has committed stays.
Crash ==
  /\ phase \in {"audit", "strike"} /\ "crash" \in Faults /\ failures < MaxFailures
  /\ phase' = "failed"
  /\ cur' = NoStrike /\ queue' = {}
  /\ failures' = failures + 1
  /\ UNCHANGED <<day, snap, traded, inputs, ledger, mail, corrected, missed, unread,
                 applyFailed>>

\* A failed step of the pipeline is run again the same evening, or it is not.
Rerun ==
  /\ phase = "failed"
  /\ \/ phase' = "closed" /\ "retry" \in Faults
     \/ phase' = "night"
  /\ UNCHANGED <<day, snap, traded, inputs, ledger, mail, audit, cur, failures>>

-----------------------------------------------------------------------------

Session == Capture \/ SkipSession \/ Revise \/ NextDay
Audit   == StartJob \/ AuditClean \/ AuditRestrike \/ AuditUnsettled
           \/ AuditBlind \/ AuditRebuild \/ AuditGap \/ EndAudit
Run     == FailCloses \/ Accrue \/ Settle \/ WriteRow \/ PostMark \/ Heal \/ Report
           \/ Gate \/ EndLive \/ EndRebuild \/ EndRestrike

Next == Session \/ Audit \/ Run \/ Crash \/ Rerun

Spec == Init /\ [][Next]_vars

-----------------------------------------------------------------------------
(* Properties.                                                             *)

Audited == phase = "audit" /\ queue = {}

\* When the audit of an evening ends, every row of its window is struck on the
\* closes that are settled now, its benchmark return on the row now before it,
\* except the sessions it reports as missed, and those it passed because a
\* close could not be read, of which it says nothing.
AuditConverges ==
  Audited =>
    \A d \in Days \cap (day - Window + 1 .. day - 1) :
      HasRow(d) /\ d \notin missed \cup unread =>
        /\ rows[d].pos = pos[d]
        /\ rows[d].spy = spy[d] /\ rows[d].back = PriorSpy(d)

\* As long as nothing failed from outside, a NAV change is left over a NAV that
\* was replaced only where the re-strike before it raised: the correction of one
\* session reaches the next (audit_window, the prior_corrected leg) or its
\* session is on the record as "apply_failed".  A re-strike that moves the NAV of
\* any session but the last by more than the tolerance raises, and its
\* correction goes no further.
CorrectionsCascade ==
  Audited /\ failures = 0 =>
    \A d \in OffBase : d < day => Prior(d) \in applyFailed

\* Once a strike is past its self-heal every return is taken over the NAV before
\* it, within the tolerance, or it is more than the largest correction off and
\* the strike will raise.
ReturnsOverPrior ==
  phase = "strike" /\ cur.step \in {"report", "end"} =>
    \A d \in Chained :
      \/ ~Beyond(OffBy(d), Tolerance)
      \/ Beyond(OffBy(d), MaxCorrection) /\ cur.breach

Moved(d) == MapThenSumSet(LAMBDA e : e.to - e.from, {e \in journal : e.of = d})

\* "a restated NAV with no journal entry is exactly the unrecorded correction
\* the ledger exists to prevent" (_post_restrike_entry): between jobs the
\* entries of a session lead from the broker's NAV to the NAV of its row.
RestatementJournaled(d) ==
  phase \in {"session", "night"} /\ HasRow(d) => Moved(d) = rows[d].pos

\* So they do as long as nothing failed from outside, but for a session whose
\* re-strike raised: its NAV was moved and no entry says so.
JournaledUnlessFailed ==
  failures = 0 => \A d \in Days \ applyFailed : RestatementJournaled(d)

\* No accrual is released into the rows of two sessions, however often a
\* session is struck: the rows never release more than was settled.
ReleasedOnce ==
  MapThenSumSet(LAMBDA d : rows[d].released, {d \in Days : HasRow(d)})
    <= Cardinality({a \in accruals : a.settled # None})

\* A session's mail goes out twice only if its report could not be written: a
\* run that is repeated for the same snapshot says nothing new.
MailedOnce == \A d \in Days \ unreported : mails[d] <= 1
=============================================================================
