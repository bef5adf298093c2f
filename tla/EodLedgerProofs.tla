--------------------------- MODULE EodLedgerProofs ---------------------------
(***************************************************************************)
(* Proofs of the safety of the ledger of sessions, for any number of       *)
(* sessions, any window, and any number of revisions and failures.         *)
(***************************************************************************)
EXTENDS EodLedger, Totals

-----------------------------------------------------------------------------
(* The invariants.                                                         *)

\* The sessions the audit of the evening looks at.
Trailing == Days \cap (day - Window + 1 .. day - 1)

Auditing == phase \in {"audit", "strike"}
Striking == phase = "strike"

\* The row of the strike in hand is not written yet.
Unwritten == cur.step \in {"accrue", "settle", "write"}

\* A strike is in hand exactly while one runs: the evening's own after the
\* audit, or one of the window, all of whose later sessions are still queued.
Control ==
  /\ Striking <=> cur # NoStrike
  /\ ~Auditing => queue = {}
  /\ Striking /\ cur.mode = "live" => cur.of = day /\ queue = {}
  /\ Striking /\ cur.mode # "live" =>
       cur.of \in Trailing /\ \A d \in Trailing : d \in queue <=> d > cur.of
  /\ Striking /\ (cur.mode = "restrike" \/ ~Unwritten) => HasRow(cur.of)
  /\ \A d \in Days : HasRow(d) => d <= day
  /\ \A d \in applyFailed : d < day
  /\ \A d \in Days : spy[d] <= revisions + 1

\* The sessions the audit has looked at are the oldest of its window.
OldestFirst ==
  phase = "audit" => \A d \in Trailing \ queue, q \in queue : d < q

\* The session is struck on what is settled now.
OnSettled(d) ==
  /\ rows[d].pos = pos[d]
  /\ rows[d].spy = spy[d] /\ rows[d].back = PriorSpy(d)

\* What the audit has looked at, and neither missed nor passed, is struck on what is
\* settled now; so is the strike in hand, once written.
CheckedAreSettled ==
  /\ Auditing => \A d \in Trailing \ (queue \cup missed \cup unread) :
       HasRow(d) /\ (Striking => d # cur.of) => OnSettled(d)
  /\ Striking /\ ~Unwritten => OnSettled(cur.of)

\* Without a failure every session before today's has a row, and today's once
\* its strike has written it: a run that failed after that may be repeated.
NoGap ==
  failures = 0 =>
    /\ \A d \in 1 .. day - 1 : HasRow(d)
    /\ phase \in {"night", "failed"} => HasRow(day)
    /\ phase = "session" => ~HasRow(day)
    /\ Striking => cur.mode # "backfill"

\* The session is off its base between the re-strike of the row before it and
\* its own, or, today's, until a repeated run strikes it again.
Awaited(d) ==
  \/ d \in queue /\ (Prior(d) \in corrected \/ (Striking /\ Prior(d) = cur.of))
  \/ Striking /\ d = cur.of /\ cur.mode = "restrike" /\ Unwritten
  \/ d = day /\ (Striking /\ cur.mode = "live" => Unwritten)

\* Without a failure, it is so for no other reason, but for a re-strike that
\* raised.
OffBaseAwaited ==
  failures = 0 =>
    \A d \in OffBase : Prior(d) \in applyFailed \/ (Auditing /\ Awaited(d))

\* A session that was mailed about has its report, unless the report could
\* not be written, and the run that mails began without one.
MailInv ==
  /\ \A d \in Days \ unreported : mails[d] <= 1 /\ (mails[d] > 0 => d \in reported)
  /\ Striking /\ cur.step # "end" /\ ~cur.muted => cur.of \notin reported

\* The NAV the entries of a session have come to: its row's, but for the
\* strike in hand, whose entry is yet to be posted.
Booked(d) ==
  IF Striking /\ d = cur.of
     /\ (cur.mode = "restrike" \/ cur.step \in {"accrue", "settle", "write", "journal"})
  THEN cur.before ELSE rows[d].pos

\* Today's row, once journaled, has the entry a live strike of it posts, so that
\* a repeated run finds it there.
Opening == [of |-> day, from |-> None, to |-> pos[day]]
OpeningPosted ==
  phase # "session" /\ Booked(day) # None => Opening \in journal /\ Booked(day) = pos[day]

\* Without a failure the entries of a session no re-strike of which raised come
\* to what is booked, and a close only moves to a later NAV, so that no entry is
\* posted a second time.
JournalInv ==
  failures = 0 =>
    /\ \A d \in Days : rows[d].pos <= pos[d]
    /\ \A d \in Days \ applyFailed : Moved(d) = Booked(d) /\ Booked(d) <= rows[d].pos
    /\ \A e \in journal : e.of \notin applyFailed => e.to <= Booked(e.of)
    /\ OpeningPosted

\* A row releases no more than was settled on its session.
SettledOn(d) == {a \in accruals : a.settled = d}
ReleasedInv ==
  /\ \A d \in Days : HasRow(d) => rows[d].released <= Cardinality(SettledOn(d))
  /\ Striking /\ cur.step = "write" => cur.released <= Cardinality(SettledOn(cur.of))

-----------------------------------------------------------------------------
(* The rows, and the row before a session.                                 *)

LEMMA DaysFinite == IsFiniteSet(Days) /\ Days \subseteq Nat \ {0}
  BY LedgerAssumption, FS_Interval DEF Days

\* A set of sessions has a latest one and an oldest one.
LEMMA Ends ==
  ASSUME NEW D \in SUBSET Days, D # {}
  PROVE  /\ Max(D) \in D /\ \A e \in D : e <= Max(D)
         /\ Min(D) \in D /\ \A e \in D : Min(D) <= e
  <1>1. D \in SUBSET Int
    BY DaysFinite
  <1>2. IsFiniteSet(D)
    BY DaysFinite, FS_Subset
  <1> QED BY <1>1, <1>2, GreatestIs, LeastIs

\* What holds of the latest row before a session, when there is one.
LEMMA PriorIs ==
  ASSUME NEW d \in Days
  PROVE  /\ Prior(d) \in Days \cup {None}
         /\ Prior(d) # None =>
              /\ Prior(d) < d /\ HasRow(Prior(d))
              /\ \A e \in Days : e < d /\ HasRow(e) => e <= Prior(d)
         /\ Prior(d) = None => \A e \in Days : e < d => ~HasRow(e)
  <1> DEFINE earlier == {e \in Days : e < d /\ HasRow(e)}
  <1>1. Prior(d) = IF earlier = {} THEN None ELSE Max(earlier)
    BY DEF Prior
  <1>2. CASE earlier = {}
    BY <1>1, <1>2, DaysFinite DEF None
  <1>3. CASE earlier # {}
    <2>1. Max(earlier) \in earlier /\ \A e \in earlier : e <= Max(earlier)
      <3>1. earlier \in SUBSET Days
        OBVIOUS
      <3> HIDE DEF earlier
      <3> QED BY <1>3, <3>1, Ends
    <2>2. 0 \notin earlier
      BY DaysFinite
    <2> QED BY <1>1, <1>3, <2>1, <2>2 DEF None
  <1> QED BY <1>2, <1>3

LEMMA RowFacts ==
  ASSUME TypeOK
  PROVE  /\ \A d \in Days : rows[d].pos \in Navs \cup {None}
         /\ \A d \in Days : HasRow(d) <=> rows[d].pos # None
         /\ \A d \in Days : HasRow(d) => rows[d] \in Row
         /\ \A v \in Navs : v \in Nat \ {0}
         /\ \A d \in Days : PriorNav(d) \in Navs \cup {None}
         /\ \A d \in Days : PriorSpy(d) \in Versions \cup {None}
  <1>1. \A v \in Navs : v \in Nat \ {0}
    BY LedgerAssumption DEF Navs
  <1>2. \A d \in Days : HasRow(d) => rows[d] \in Row
    BY DEF TypeOK, HasRow
  <1>3. ASSUME NEW d \in Days
        PROVE  rows[d].pos \in Navs \cup {None} /\ (HasRow(d) <=> rows[d].pos # None)
    <2>1. CASE HasRow(d)
      BY <1>1, <1>2, <2>1 DEF Row, None
    <2>2. CASE ~HasRow(d)
      BY <2>2 DEF HasRow, NoRow
    <2> QED BY <2>1, <2>2
  <1>4. ASSUME NEW d \in Days
        PROVE  PriorNav(d) \in Navs \cup {None} /\ PriorSpy(d) \in Versions \cup {None}
    BY <1>3, PriorIs DEF PriorNav, PriorSpy, TypeOK
  <1> QED BY <1>1, <1>2, <1>3, <1>4

LEMMA RowFactsNext ==
  ASSUME TypeOK'
  PROVE  /\ \A d \in Days : rows'[d].pos \in Navs \cup {None}
         /\ \A d \in Days : HasRow(d)' <=> rows'[d].pos # None
  <1>1. \A v \in Navs : v \in Nat \ {0}
    BY LedgerAssumption DEF Navs
  <1>2. ASSUME NEW d \in Days
        PROVE  rows'[d].pos \in Navs \cup {None} /\ (HasRow(d)' <=> rows'[d].pos # None)
    <2>0. rows'[d] \in Row \cup {NoRow}
      BY DEF TypeOK
    <2>1. CASE HasRow(d)'
      <3>1. rows'[d] \in Row
        BY <2>0, <2>1 DEF HasRow
      <3> QED BY <1>1, <2>1, <3>1 DEF Row, None
    <2>2. CASE ~HasRow(d)'
      BY <2>2 DEF HasRow, NoRow
    <2> QED BY <2>1, <2>2
  <1> QED BY <1>2

-----------------------------------------------------------------------------
(* Every variable keeps its shape.                                         *)

LEMMA TypeInit == Init => TypeOK /\ Control
  <1> SUFFICES ASSUME Init PROVE TypeOK /\ Control
    OBVIOUS
  <1>1. 1 \in Days /\ 1 \in Versions /\ 1 \in Navs /\ 0 \in 0 .. MaxRevisions /\ 0 \in 0 .. MaxFailures
    BY LedgerAssumption DEF Days, Versions, Navs
  <1>2. TypeOK
    BY <1>1 DEF Init, TypeOK, Phases
  <1>3. Control
    BY DEF Init, Control, HasRow, Auditing, Striking
  <1> QED BY <1>2, <1>3

\* A strike of a session starts.
LEMMA NewStrikeType ==
  ASSUME TypeOK, NEW d \in Days, NEW mode \in {"live", "restrike", "backfill"},
         NewStrike(d, mode)
  PROVE  /\ cur' \in Strike /\ cur' # NoStrike
         /\ cur'.of = d /\ cur'.mode = mode /\ cur'.step = "accrue" /\ ~cur'.breach
         /\ cur'.before = rows[d].pos
         /\ ~cur'.muted => mode = "live" /\ d \notin reported
  <1>1. cur' = [of |-> d, mode |-> mode, step |-> "accrue", accrued |-> FALSE,
                released |-> 0, breach |-> FALSE,
                muted |-> mode # "live" \/ d \in reported,
                before |-> IF HasRow(d) THEN rows[d].pos ELSE None]
    BY DEF NewStrike
  <1>2. (IF HasRow(d) THEN rows[d].pos ELSE None) \in Navs \cup {None}
    BY RowFacts
  <1>3. (IF HasRow(d) THEN rows[d].pos ELSE None) = rows[d].pos
    BY RowFacts
  <1>4. (mode # "live" \/ d \in reported) \in BOOLEAN
    OBVIOUS
  <1>5. cur' \in Strike
    BY <1>1, <1>2, <1>4 DEF Strike
  <1>6. d # None
    BY DaysFinite DEF None
  <1> QED BY <1>1, <1>3, <1>5, <1>6 DEF NoStrike

LEMMA TypeSession ==
  ASSUME TypeOK, Control, Session
  PROVE  TypeOK' /\ Control'
  <1>1. \A d \in Days : d \in Nat
    BY DaysFinite
  <1>2. UNCHANGED <<dividend, ledger, mail, audit, cur>>
    BY DEF Session, Capture, SkipSession, Revise, NextDay, inputs
  <1>3. /\ phase \in {"session", "night"} /\ phase' \in {"session", "closed", "night"}
        /\ queue = {} /\ cur = NoStrike
    BY DEF Session, Capture, SkipSession, Revise, NextDay, Control, Auditing, Striking
  <1>4. day' \in Days /\ day <= day'
    BY <1>1, LedgerAssumption DEF Session, Capture, SkipSession, Revise, NextDay, TypeOK, Days
  <1>5. failures' \in 0 .. MaxFailures /\ revisions' \in 0 .. MaxRevisions
    BY LedgerAssumption DEF Session, Capture, SkipSession, Revise, NextDay, TypeOK, inputs
  <1>6. snap' \in [Days -> {"none", "real", "rebuilt"}] /\ traded' \subseteq Days
    BY DEF Session, Capture, SkipSession, Revise, NextDay, TypeOK
  <1>7. spy' \in [Days -> Versions] /\ pos' \in [Days -> Navs]
    <2>1. CASE Revise
      <3>1. \A d \in Days : spy[d] + 1 \in Versions
        <4>1. revisions \in Nat /\ revisions + 1 <= MaxRevisions
          BY <2>1, LedgerAssumption DEF Revise, TypeOK
        <4>2. \A d \in Days : spy[d] \in Nat \ {0} /\ spy[d] <= revisions + 1
          BY LedgerAssumption DEF TypeOK, Control, Versions
        <4> QED BY <4>1, <4>2, LedgerAssumption DEF Versions
      <3>2. PICK d \in 1 .. day - 1 :
              \/ spy' = [spy EXCEPT ![d] = @ + 1] /\ UNCHANGED pos
              \/ /\ \E m \in Moves : pos[d] + m <= MaxNav /\ pos' = [pos EXCEPT ![d] = @ + m]
                 /\ UNCHANGED spy
        BY <2>1 DEF Revise
      <3>3. \A e \in Days, m \in Moves : pos[e] + m <= MaxNav => pos[e] + m \in Navs
        BY LedgerAssumption DEF TypeOK, Navs
      <3>4. CASE UNCHANGED pos
        BY <3>1, <3>2, <3>3, <3>4 DEF TypeOK
      <3>5. CASE UNCHANGED spy /\ \E m \in Moves : pos[d] + m <= MaxNav /\ pos' = [pos EXCEPT ![d] = @ + m]
        <4>1. PICK m \in Moves : pos[d] + m <= MaxNav /\ pos' = [pos EXCEPT ![d] = @ + m]
          BY <3>5
        <4>2. d \in Days
          BY <1>1, LedgerAssumption DEF TypeOK, Days
        <4>3. pos' = [pos EXCEPT ![d] = pos[d] + m] /\ pos[d] + m \in Navs
          BY <3>3, <4>1, <4>2
        <4> QED BY <3>5, <4>3 DEF TypeOK
      <3> QED BY <3>2, <3>4, <3>5
    <2>2. CASE ~Revise
      BY <2>2 DEF Session, Capture, SkipSession, NextDay, inputs, TypeOK
    <2> QED BY <2>1, <2>2
  <1>8. TypeOK'
    BY <1>2, <1>3, <1>4, <1>5, <1>6, <1>7
       DEF TypeOK, ledger, mail, audit, Phases
  <1>9. \A d \in Days : spy'[d] <= revisions' + 1
    <2>1. \A d \in Days : spy[d] \in Int
      BY LedgerAssumption DEF TypeOK, Versions
    <2>2. \A d \in Days : spy[d] <= revisions + 1
      BY DEF Control
    <2>3. revisions \in Int
      BY LedgerAssumption DEF TypeOK
    <2> QED BY <2>1, <2>2, <2>3
            DEF Session, Capture, SkipSession, Revise, NextDay, inputs, TypeOK
  <1>10. \A d \in Days : HasRow(d)' => d <= day'
    BY <1>1, <1>2, <1>4 DEF Control, HasRow, ledger, TypeOK
  <1>11. ~Auditing' /\ ~Striking' /\ cur' = NoStrike /\ queue' = {}
    BY <1>2, <1>3 DEF Auditing, Striking, audit
  <1>12. \A d \in applyFailed' : d < day'
    <2>1. applyFailed' = applyFailed /\ \A d \in applyFailed : d < day /\ d \in Days
      BY <1>2 DEF audit, Control, TypeOK
    <2> QED BY <1>1, <1>4, <2>1 DEF TypeOK
  <1>13. Control'
    BY <1>9, <1>10, <1>11, <1>12 DEF Control
  <1> QED BY <1>8, <1>13

\* The oldest session of the queue is taken out of it.
LEMMA Popped ==
  ASSUME TypeOK, NEW d \in queue, Pop(d)
  PROVE  /\ d \in Trailing /\ d \in Days /\ d < day
         /\ queue' \subseteq Days \cap (day - Window + 1 .. day - 1)
         /\ \A e \in queue : d <= e
         /\ \A e \in Days : e \in queue' <=> e \in queue /\ e # d
         /\ \A e \in queue' : d < e
  <1>1. queue \in SUBSET Days /\ queue # {}
    BY DEF TypeOK
  <1>2. \A e \in queue : d <= e
    BY <1>1, Ends DEF Pop
  <1>3. queue' = queue \ {d}
    BY DEF Pop
  <1>4. \A e \in queue : e \in Nat
    BY <1>1, DaysFinite
  <1>5. d \in Trailing /\ d \in Days /\ d \in day - Window + 1 .. day - 1
    BY DEF TypeOK, Trailing
  <1>6. day \in Int /\ Window \in Int
    BY LedgerAssumption, DaysFinite DEF TypeOK
  <1> QED BY <1>2, <1>3, <1>4, <1>5, <1>6 DEF TypeOK

LEMMA TypeAudit ==
  ASSUME TypeOK, Control, OldestFirst, Audit
  PROVE  TypeOK' /\ Control' /\ OldestFirst'
  <1>1. UNCHANGED <<day, traded, inputs, ledger, mail>>
    BY DEF Audit, StartJob, AuditClean, AuditRestrike, AuditUnsettled, AuditBlind, AuditRebuild,
           AuditGap, EndAudit
  <1>2. /\ phase \in {"closed", "audit"} /\ phase' \in {"audit", "strike"}
        /\ cur = NoStrike
    BY DEF Audit, StartJob, AuditClean, AuditRestrike, AuditUnsettled, AuditBlind, AuditRebuild,
           AuditGap, EndAudit, Control, Striking
  <1>3. /\ snap' \in [Days -> {"none", "real", "rebuilt"}]
        /\ failures' \in 0 .. MaxFailures
        /\ corrected' \subseteq Days /\ unread' \subseteq Days /\ applyFailed' = applyFailed
    BY LedgerAssumption
       DEF Audit, StartJob, AuditClean, AuditRestrike, AuditUnsettled, AuditBlind, AuditRebuild,
           AuditGap, EndAudit, TypeOK, audit
  <1>4. SUFFICES /\ queue' \subseteq Days \cap (day - Window + 1 .. day - 1)
                 /\ missed' \subseteq Days /\ cur' \in Strike \cup {NoStrike}
                 /\ Striking' <=> cur' # NoStrike
                 /\ Striking' /\ cur'.mode = "live" => cur'.of = day /\ queue' = {}
                 /\ Striking' /\ cur'.mode # "live" =>
                      cur'.of \in Trailing /\ \A d \in Trailing : d \in queue' <=> d > cur'.of
                 /\ Striking' => cur'.step = "accrue"
                 /\ Striking' /\ cur'.mode = "restrike" => HasRow(cur'.of)
                 /\ OldestFirst'
    <2>1. TypeOK'
      BY <1>1, <1>2, <1>3, <1>4 DEF TypeOK, inputs, ledger, mail, Phases
    <2>2. \A d : HasRow(d)' <=> HasRow(d)
      BY <1>1 DEF HasRow, ledger
    <2>3. HasRow(cur.of)' <=> HasRow(cur'.of)
      BY <1>1 DEF HasRow, ledger
    <2>4. Trailing' = Trailing
      BY <1>1 DEF Trailing
    <2>5. Auditing' /\ (Striking' => Unwritten')
      BY <1>2, <1>4 DEF Auditing, Unwritten
    <2>6. /\ \A d \in Days : HasRow(d)' => d <= day'
          /\ \A d \in Days : spy'[d] <= revisions' + 1
          /\ \A d \in applyFailed' : d < day'
      BY <1>1, <1>3, <2>2 DEF Control, inputs
    <2>7. Control'
      BY <1>1, <1>4, <2>3, <2>4, <2>5, <2>6 DEF Control
    <2> QED BY <1>4, <2>1, <2>7
  <1>5. Trailing' = Trailing
    BY <1>1 DEF Trailing
  <1>6. CASE StartJob
    <2>1. queue' = Trailing /\ missed' = {} /\ cur' = NoStrike /\ ~Striking'
      BY <1>2, <1>6 DEF StartJob, Trailing, Striking
    <2> QED BY <1>5, <2>1 DEF Trailing, OldestFirst
  <1>7. ASSUME NEW d \in queue, Pop(d), phase = "audit", ~Striking', cur' = cur,
               missed' \subseteq missed \cup {d}
        PROVE  /\ queue' \subseteq Days \cap (day - Window + 1 .. day - 1)
               /\ missed' \subseteq Days /\ cur' \in Strike \cup {NoStrike}
               /\ cur' = NoStrike
               /\ OldestFirst'
    <2>1. \A e \in Trailing \ queue' : e \in Trailing \ queue \/ e = d
      BY <1>7, Popped DEF Trailing
    <2>2. \A e \in Trailing \ queue, q \in queue : e < q
      BY <1>7 DEF OldestFirst
    <2>3. \A e \in Trailing \ queue' : \A q \in queue' : e < q
      BY <1>7, <2>1, <2>2, Popped
    <2>4. OldestFirst'
      BY <1>5, <2>3 DEF OldestFirst
    <2>5. d \in Days /\ queue' \subseteq Days \cap (day - Window + 1 .. day - 1)
      BY <1>7, Popped
    <2> QED BY <1>2, <1>7, <2>4, <2>5 DEF TypeOK
  <1>8. CASE AuditClean \/ AuditUnsettled \/ AuditBlind \/ AuditGap
    <2>1. PICK d \in queue : Pop(d) /\ missed' \subseteq missed \cup {d}
      BY <1>8 DEF AuditClean, AuditUnsettled, AuditBlind, AuditGap
    <2>2. phase = "audit" /\ ~Striking' /\ cur' = cur
      BY <1>8 DEF AuditClean, AuditUnsettled, AuditBlind, AuditGap, Striking
    <2> QED BY <1>7, <2>1, <2>2
  <1>9. ASSUME NEW d \in queue, Pop(d), phase = "audit", phase' = "strike",
               NEW mode \in {"restrike", "backfill"}, NewStrike(d, mode),
               mode = "restrike" => HasRow(d), missed' = missed
        PROVE  /\ queue' \subseteq Days \cap (day - Window + 1 .. day - 1)
               /\ missed' \subseteq Days /\ cur' \in Strike \cup {NoStrike}
               /\ Striking' /\ cur' # NoStrike
               /\ cur'.mode # "live"
               /\ cur'.of \in Trailing /\ \A e \in Trailing : e \in queue' <=> e > cur'.of
               /\ cur'.step = "accrue"
               /\ cur'.mode = "restrike" => HasRow(cur'.of)
               /\ OldestFirst'
    <2>1. d \in Days
      BY <1>9, Popped
    <2>2. /\ cur' \in Strike /\ cur' # NoStrike
          /\ cur'.of = d /\ cur'.mode = mode /\ cur'.step = "accrue"
      BY <1>9, <2>1, NewStrikeType
    <2>3. ASSUME NEW e \in Trailing PROVE e \in queue' <=> e > d
      <3>1. e \in Days /\ e \in Nat /\ d \in Nat
        BY <2>1, DaysFinite DEF Trailing
      <3>2. e \in queue' => e > d
        BY <1>9, <3>1, Popped
      <3>3. e \notin queue => e < d
        BY <1>9 DEF OldestFirst
      <3>4. e \in queue /\ e \notin queue' => e = d
        BY <1>9, <3>1, Popped
      <3> QED BY <3>1, <3>2, <3>3, <3>4
    <2>4. d \in Trailing /\ queue' \subseteq Days \cap (day - Window + 1 .. day - 1)
      BY <1>9, Popped
    <2> QED BY <1>9, <2>2, <2>3, <2>4 DEF TypeOK, Striking, OldestFirst
  <1>10. CASE AuditRestrike
    <2>1. PICK d \in queue : Pop(d) /\ HasRow(d) /\ NewStrike(d, "restrike")
      BY <1>10 DEF AuditRestrike
    <2>2. phase = "audit" /\ phase' = "strike" /\ missed' = missed
      BY <1>10 DEF AuditRestrike
    <2> QED BY <1>9, <2>1, <2>2
  <1>11. CASE AuditRebuild
    <2>1. PICK d \in queue : Pop(d) /\ NewStrike(d, "backfill")
      BY <1>11 DEF AuditRebuild
    <2>2. phase = "audit" /\ phase' = "strike" /\ missed' = missed
      BY <1>11 DEF AuditRebuild
    <2> QED BY <1>9, <2>1, <2>2
  <1>12. CASE EndAudit
    <2>1. queue' = {} /\ missed' = missed /\ phase' = "strike" /\ NewStrike(day, "live")
      BY <1>12 DEF EndAudit, audit
    <2>2. /\ cur' \in Strike /\ cur' # NoStrike
          /\ cur'.of = day /\ cur'.mode = "live" /\ cur'.step = "accrue"
      BY <2>1, NewStrikeType DEF TypeOK
    <2> QED BY <2>1, <2>2 DEF TypeOK, Striking, OldestFirst
  <1> QED BY <1>6, <1>8, <1>10, <1>11, <1>12 DEF Audit

\* The steps of a strike but the last one, each of which hands it on.
StrikeStep == Accrue \/ Settle \/ WriteRow \/ PostMark \/ Heal \/ Report

\* What a strike in hand is.
LEMMA InHand ==
  ASSUME TypeOK, Control, Striking
  PROVE  /\ cur \in Strike /\ cur # NoStrike /\ cur.of \in Days
         /\ cur.step \in {"accrue", "settle", "write", "journal", "heal", "report", "end"}
         /\ cur.mode \in {"live", "restrike", "backfill"}
         /\ cur.of <= day /\ cur.of \in Nat /\ day \in Nat
         /\ cur.mode # "live" => cur.of < day
  <1>1. cur \in Strike /\ cur # NoStrike
    BY DEF TypeOK, Control
  <1>2. cur.of \in Days /\ cur.mode \in {"live", "restrike", "backfill"}
    BY <1>1 DEF Strike
  <1>3. cur.mode # "live" => cur.of \in Days \cap (day - Window + 1 .. day - 1)
    BY DEF Control, Trailing
  <1>4. cur.mode = "live" => cur.of = day
    BY DEF Control
  <1>5. cur.of \in Nat /\ day \in Nat /\ Window \in Nat
    BY <1>2, DaysFinite, LedgerAssumption DEF TypeOK
  <1> QED BY <1>1, <1>2, <1>3, <1>4, <1>5 DEF Strike

LEMMA AccrualFinite == IsFiniteSet(Accrual)
  <1>1. IsFiniteSet(Days \cup {None})
    BY DaysFinite, FS_AddElement
  <1>2. IsFiniteSet(Days \X (Days \cup {None}))
    BY <1>1, DaysFinite, FS_Product
  <1> DEFINE f == [a \in Accrual |-> <<a.on, a.settled>>]
  <1>3. f \in Injection(Accrual, Days \X (Days \cup {None}))
    <2>1. f \in [Accrual -> Days \X (Days \cup {None})]
      BY DEF Accrual
    <2>2. \A a, b \in Accrual : f[a] = f[b] => a = b
      BY DEF Accrual
    <2> QED BY <2>1, <2>2 DEF Injection, IsInjective
  <1> QED BY <1>2, <1>3, FS_Injection

\* A step hands the strike on as it is, but for the step and what it found.
LEMMA HandOn ==
  ASSUME TypeOK, Control, StrikeStep
  PROVE  /\ Striking /\ Striking' /\ day' = day /\ queue' = queue
         /\ cur' \in Strike /\ cur'.of = cur.of /\ cur'.mode = cur.mode
         /\ cur'.before = cur.before /\ cur'.muted = cur.muted
         /\ cur'.step = CASE cur.step = "accrue"  -> "settle"
                          [] cur.step = "settle"  -> "write"
                          [] cur.step = "write"   -> "journal"
                          [] cur.step = "journal" -> "heal"
                          [] cur.step = "heal"    -> "report"
                          [] OTHER                -> "end"
         /\ cur.step # "end"
         /\ UNCHANGED <<snap, traded, inputs, queue, corrected, missed, unread, applyFailed>>
         /\ failures' \in 0 .. MaxFailures /\ failures' >= failures
  <1>1. Striking /\ Striking' /\ UNCHANGED <<day, snap, traded, inputs, queue, corrected, missed, unread, applyFailed>>
    BY DEF StrikeStep, Accrue, Settle, WriteRow, PostMark, Heal, Report, At, Striking, audit
  <1>2. cur \in Strike
    BY <1>1, InHand
  <1>3. failures' \in 0 .. MaxFailures /\ failures' >= failures
    <2>1. failures' = failures \/ (failures < MaxFailures /\ failures' = failures + 1)
      BY DEF StrikeStep, Accrue, Settle, WriteRow, PostMark, Heal, Report
    <2>2. failures \in 0 .. MaxFailures /\ MaxFailures \in Nat
      BY LedgerAssumption DEF TypeOK
    <2> QED BY <2>1, <2>2
  <1>4. CASE Accrue
    <2>1. PICK accrued : /\ accrued \in {ExInterval(cur.of)} \cup {FALSE}
                         /\ cur' = [cur EXCEPT !.step = "settle", !.accrued = accrued]
      BY <1>4 DEF Accrue
    <2>2. accrued \in BOOLEAN
      <3>1. ExInterval(cur.of) \in BOOLEAN
        <4>1. \A S : (dividend.ex \in S) \in BOOLEAN
          OBVIOUS
        <4> QED BY <4>1 DEF ExInterval
      <3> QED BY <2>1, <3>1
    <2>3. cur.step = "accrue"
      BY <1>4 DEF Accrue, At
    <2> QED BY <1>1, <1>2, <1>3, <2>1, <2>2, <2>3 DEF Strike
  <1>5. CASE Settle
    <2> DEFINE n == Cardinality(Due(cur.of))
    <2>1. n \in Nat
      <3>1. IsFiniteSet(Accrual)
        BY AccrualFinite
      <3>2. Due(cur.of) \in SUBSET Accrual
        BY DEF Due, TypeOK
      <3>3. IsFiniteSet(Due(cur.of))
        BY <3>1, <3>2, FS_Subset
      <3> QED BY <3>3, FS_CardinalityType
    <2>2. cur' = [cur EXCEPT !.step = "write", !.released = n]
      BY <1>5 DEF Settle
    <2>3. cur.step = "settle"
      BY <1>5 DEF Settle, At
    <2> HIDE DEF n
    <2> QED BY <1>1, <1>2, <1>3, <2>1, <2>2, <2>3 DEF Strike
  <1>6. CASE WriteRow
    BY <1>1, <1>2, <1>3, <1>6 DEF WriteRow, At, Strike
  <1>7. CASE PostMark
    BY <1>1, <1>2, <1>3, <1>7 DEF PostMark, At, Strike
  <1>8. CASE Heal
    <2>1. \E breach \in BOOLEAN : cur' = [cur EXCEPT !.step = "report", !.breach = breach]
      BY <1>8 DEF Heal
    <2>2. cur.step = "heal"
      BY <1>8 DEF Heal, At
    <2> QED BY <1>1, <1>2, <1>3, <2>1, <2>2 DEF Strike
  <1>9. CASE Report
    BY <1>1, <1>2, <1>3, <1>9 DEF Report, At, Strike
  <1> QED BY <1>4, <1>5, <1>6, <1>7, <1>8, <1>9 DEF StrikeStep

\* The row a strike writes.
Struck(d) ==
  [pos |-> pos[d], spy |-> spy[d], prior |-> Prior(d), base |-> PriorNav(d),
   over |-> PriorNav(d), back |-> PriorSpy(d),
   accrued |-> cur.accrued, released |-> cur.released]

LEMMA StruckType ==
  ASSUME TypeOK, Control, Striking
  PROVE  Struck(cur.of) \in Row
  <1>1. pos[cur.of] \in Navs /\ spy[cur.of] \in Versions
    BY InHand DEF TypeOK
  <1>2. Prior(cur.of) \in Days \cup {None}
    BY InHand, PriorIs
  <1>3. PriorNav(cur.of) \in Navs \cup {None} /\ PriorSpy(cur.of) \in Versions \cup {None}
    BY InHand, RowFacts
  <1>4. cur.accrued \in BOOLEAN /\ cur.released \in Nat
    BY InHand DEF Strike
  <1> QED BY <1>1, <1>2, <1>3, <1>4 DEF Struck, Row

\* The returns the self-heal restates.
Restated(d) == d \in Chained \ Refused /\ Beyond(OffBy(d), Tolerance)

\* It touches nothing else.
LEMMA HealedKeeps ==
  ASSUME TypeOK
  PROVE  /\ Healed \in [Days -> Row \cup {NoRow}]
         /\ \A d \in Days : HasRow(d) => Healed[d] \in Row
         /\ \A d \in Days : Restated(d) => HasRow(d) /\ Healed[d] = [rows[d] EXCEPT !.over = PriorNav(d)]
         /\ \A d \in Days : ~Restated(d) => Healed[d] = rows[d]
  <1>1. ASSUME NEW d \in Days, Restated(d)
        PROVE  /\ Healed[d] = [rows[d] EXCEPT !.over = PriorNav(d)]
               /\ HasRow(d) /\ Healed[d] \in Row
    <2>1. HasRow(d)
      BY <1>1 DEF Restated, Chained
    <2>2. rows[d] \in Row /\ PriorNav(d) \in Navs \cup {None}
      BY <2>1, RowFacts
    <2>3. Healed[d] = [rows[d] EXCEPT !.over = PriorNav(d)]
      BY <1>1 DEF Healed, Restated
    <2> QED BY <2>1, <2>2, <2>3 DEF Row
  <1>2. ASSUME NEW d \in Days, ~Restated(d) PROVE Healed[d] = rows[d]
    BY <1>2 DEF Healed, Restated
  <1>3. Healed = [d \in Days |-> Healed[d]]
    BY DEF Healed
  <1>4. \A d \in Days : rows[d] \in Row \cup {NoRow} /\ (HasRow(d) => rows[d] \in Row)
    BY RowFacts DEF TypeOK
  <1>5. \A d \in Days : Healed[d] \in Row \cup {NoRow}
    BY <1>1, <1>2, <1>4
  <1> QED BY <1>1, <1>2, <1>3, <1>4, <1>5

\* Nor does it look like another row in anything but its return.
LEMMA HealedSame ==
  ASSUME TypeOK, NEW d \in Days
  PROVE  /\ Healed[d].pos = rows[d].pos /\ Healed[d].prior = rows[d].prior
         /\ Healed[d].spy = rows[d].spy /\ Healed[d].back = rows[d].back
         /\ Healed[d].base = rows[d].base /\ Healed[d].released = rows[d].released
  <1>1. CASE Restated(d)
    <2>1. rows[d] \in Row /\ Healed[d] = [rows[d] EXCEPT !.over = PriorNav(d)]
      BY <1>1, HealedKeeps, RowFacts
    <2> QED BY <2>1 DEF Row
  <1>2. CASE ~Restated(d)
    BY <1>2, HealedKeeps
  <1> QED BY <1>1, <1>2

LEMMA TypeStrikeStep ==
  ASSUME TypeOK, Control, StrikeStep
  PROVE  TypeOK' /\ Control'
  <1>1. /\ Striking /\ Striking' /\ day' = day /\ queue' = queue
        /\ cur' \in Strike /\ cur'.of = cur.of /\ cur'.mode = cur.mode
        /\ UNCHANGED <<snap, traded, inputs, queue, corrected, missed, unread, applyFailed>>
        /\ failures' \in 0 .. MaxFailures /\ cur.of \in Days
    BY HandOn, InHand
  <1>2. rows' \in [Days -> Row \cup {NoRow}]
    <2>1. CASE WriteRow
      BY <1>1, <2>1, StruckType DEF WriteRow, Struck, TypeOK
    <2>2. CASE Heal
      BY <2>2, HealedKeeps DEF Heal
    <2>3. CASE ~WriteRow /\ ~Heal
      BY <2>3 DEF StrikeStep, Accrue, Settle, PostMark, Report, ledger, TypeOK
    <2> QED BY <2>1, <2>2, <2>3
  <1>3. accruals' \subseteq Accrual
    <2>1. CASE Accrue
      BY <1>1, <2>1, DaysFinite DEF Accrue, TypeOK, Accrual
    <2>2. CASE Settle
      <3>1. \A a \in Due(cur.of) : [a EXCEPT !.settled = cur.of] \in Accrual
        BY <1>1 DEF Due, TypeOK, Accrual
      <3> QED BY <2>2, <3>1 DEF Settle, TypeOK
    <2>3. CASE ~Accrue /\ ~Settle
      BY <2>3 DEF StrikeStep, WriteRow, PostMark, Heal, Report, ledger, TypeOK
    <2> QED BY <2>1, <2>2, <2>3
  <1>4. journal' \subseteq Entry
    <2>1. CASE PostMark
      <3>1. pos[cur.of] \in Navs /\ None \in Navs \cup {None}
        BY <1>1 DEF TypeOK
      <3>2. [of |-> cur.of, from |-> None, to |-> pos[cur.of]] \in Entry
        BY <1>1, <3>1 DEF Entry
      <3>3. [of |-> cur.of, from |-> 0, to |-> pos[cur.of]] \in Entry
        BY <3>2 DEF None
      <3> QED BY <2>1, <3>3 DEF PostMark, Post, TypeOK
    <2>2. CASE ~PostMark
      BY <2>2 DEF StrikeStep, Accrue, Settle, WriteRow, Heal, Report, ledger, TypeOK
    <2> QED BY <2>1, <2>2
  <1>5. reported' \subseteq Days /\ unreported' \subseteq Days /\ mails' \in [Days -> Nat]
    <2>1. CASE Report
      BY <1>1, <2>1 DEF Report, TypeOK
    <2>2. CASE ~Report
      BY <2>2 DEF StrikeStep, Accrue, Settle, WriteRow, PostMark, Heal, mail, TypeOK
    <2> QED BY <2>1, <2>2
  <1>6. phase' = phase
    BY <1>1 DEF Striking
  <1>7. TypeOK'
    BY <1>1, <1>2, <1>3, <1>4, <1>5, <1>6 DEF TypeOK, inputs
  <1>8. \A d \in Days : HasRow(d)' <=> HasRow(d) \/ (WriteRow /\ d = cur.of)
    <2>1. CASE WriteRow
      <3>1. Struck(cur.of).pos # None
        BY <1>1, RowFacts DEF Struck, TypeOK, None
      <3>2. rows' = [rows EXCEPT ![cur.of] = Struck(cur.of)]
        BY <2>1 DEF WriteRow, Struck
      <3>3. Struck(cur.of) # NoRow
        BY <3>1 DEF NoRow
      <3> QED BY <1>1, <2>1, <3>2, <3>3 DEF HasRow, TypeOK
    <2>2. CASE Heal
      <3>1. rows' = Healed /\ ~WriteRow
        BY <2>2 DEF Heal, WriteRow, At
      <3>2. \A d \in Days : Healed[d].pos = rows[d].pos
        BY HealedSame
      <3> QED BY <1>7, <3>1, <3>2, RowFacts, RowFactsNext
    <2>3. CASE ~WriteRow /\ ~Heal
      BY <2>3 DEF StrikeStep, Accrue, Settle, PostMark, Report, ledger, HasRow
    <2> QED BY <2>1, <2>2, <2>3
  <1>9. \A d \in Days : HasRow(d)' => d <= day'
    BY <1>1, <1>8, InHand DEF Control
  <1>10. (cur'.mode = "restrike" \/ ~Unwritten') => HasRow(cur.of)'
    <2>1. PICK d \in Days : d = cur.of
      BY <1>1
    <2>2. (cur.mode = "restrike" \/ ~Unwritten) => HasRow(d)
      BY <1>1, <2>1 DEF Control
    <2>3. Unwritten /\ ~Unwritten' => WriteRow
      <3>1. Unwritten /\ ~Unwritten' => cur.step = "write"
        BY HandOn DEF Unwritten
      <3>2. cur.step = "write" => WriteRow
        BY DEF StrikeStep, Accrue, Settle, PostMark, Heal, Report, At
      <3> QED BY <3>1, <3>2
    <2>4. (cur'.mode = "restrike" \/ ~Unwritten') => HasRow(d)'
      BY <1>1, <1>8, <2>1, <2>2, <2>3
    <2>5. HasRow(cur.of)' <=> HasRow(d)'
      BY <1>1, <2>1 DEF HasRow
    <2> QED BY <2>4, <2>5
  <1>11. /\ \A d \in Days : spy'[d] <= revisions' + 1
         /\ \A d \in applyFailed' : d < day'
    BY <1>1 DEF Control, inputs
  <1>12. Trailing' = Trailing /\ Auditing' /\ cur' # NoStrike
    <2>1. cur'.of # None
      BY <1>1, DaysFinite DEF None
    <2>2. cur' # NoStrike
      BY <2>1 DEF NoStrike
    <2>3. Trailing' = Trailing
      BY <1>1 DEF Trailing
    <2> QED BY <1>1, <2>2, <2>3 DEF Auditing, Striking
  <1> QED BY <1>1, <1>7, <1>9, <1>10, <1>11, <1>12 DEF Control

\* The steps that end a strike, or the evening's job.
Ending == FailCloses \/ Gate \/ EndLive \/ EndRebuild \/ EndRestrike
Stop   == Crash \/ Rerun

\* After a strike of the audit its other sessions are still to come.
LEMMA EndingIs ==
  ASSUME TypeOK, Control, Ending
  PROVE  /\ Striking /\ cur' = NoStrike /\ UNCHANGED <<day, snap, traded, inputs, queue, rows>>
         /\ phase' = IF cur.mode # "live" THEN "audit" ELSE IF EndLive THEN "night" ELSE "failed"
         /\ missed' \in {missed, missed \cup {cur.of}} /\ corrected' \in {corrected, corrected \cup {cur.of}}
         /\ failures' \in {failures, failures + 1} /\ failures' \in 0 .. MaxFailures
         /\ UNCHANGED <<accruals, mail>>
         /\ (~EndRestrike => UNCHANGED <<journal, corrected>>)
         /\ (FailCloses \/ Gate) /\ cur.mode # "live" => missed' = missed \cup {cur.of}
         /\ unread' = unread
         /\ applyFailed' = IF (FailCloses \/ Gate) /\ cur.mode = "restrike"
                           THEN applyFailed \cup {cur.of} ELSE applyFailed
  <1>1. Striking /\ cur' = NoStrike /\ UNCHANGED <<day, snap, traded, inputs, queue, rows, accruals, mail>>
    BY DEF Ending, FailCloses, Gate, EndLive, EndRebuild, EndRestrike, At, Striking, Raise,
           audit, ledger
  <1>2. cur.mode \in {"live", "restrike", "backfill"}
    BY <1>1, InHand
  <1>3. phase' = IF cur.mode # "live" THEN "audit" ELSE IF EndLive THEN "night" ELSE "failed"
    <2>1. CASE FailCloses \/ Gate
      BY <2>1 DEF FailCloses, Gate, Raise, EndLive
    <2>2. CASE EndLive
      BY <2>2 DEF EndLive
    <2>3. CASE EndRebuild \/ EndRestrike
      BY <2>3 DEF EndRebuild, EndRestrike
    <2> QED BY <2>1, <2>2, <2>3 DEF Ending
  <1>4. /\ missed' \in {missed, missed \cup {cur.of}}
        /\ corrected' \in {corrected, corrected \cup {cur.of}}
        /\ (~EndRestrike => UNCHANGED <<journal, corrected>>)
        /\ (FailCloses \/ Gate) /\ cur.mode # "live" => missed' = missed \cup {cur.of}
        /\ unread' = unread
    BY DEF Ending, FailCloses, Gate, EndLive, EndRebuild, EndRestrike, Raise, audit, ledger
  <1>5. failures' = failures \/ (failures < MaxFailures /\ failures' = failures + 1)
    BY DEF Ending, FailCloses, Gate, EndLive, EndRebuild, EndRestrike
  <1>6. failures \in 0 .. MaxFailures /\ MaxFailures \in Nat
    BY LedgerAssumption DEF TypeOK
  <1>7. applyFailed' = IF (FailCloses \/ Gate) /\ cur.mode = "restrike"
                       THEN applyFailed \cup {cur.of} ELSE applyFailed
    <2>1. CASE FailCloses \/ Gate
      BY <2>1 DEF FailCloses, Gate, Raise
    <2>2. CASE ~(FailCloses \/ Gate)
      BY <2>2 DEF Ending, EndLive, EndRebuild, EndRestrike, audit
    <2> QED BY <2>1, <2>2
  <1> QED BY <1>1, <1>3, <1>4, <1>5, <1>6, <1>7

LEMMA TypeEnding ==
  ASSUME TypeOK, Control, Ending
  PROVE  TypeOK' /\ Control' /\ OldestFirst'
  <1>1. /\ Striking /\ cur' = NoStrike /\ UNCHANGED <<day, snap, traded, inputs, queue, rows>>
        /\ phase' \in {"audit", "night", "failed"} /\ (phase' # "audit" => cur.mode = "live")
        /\ missed' \in {missed, missed \cup {cur.of}}
        /\ corrected' \in {corrected, corrected \cup {cur.of}}
        /\ failures' \in 0 .. MaxFailures /\ UNCHANGED <<accruals, mail, unread>>
        /\ applyFailed' = applyFailed \/ (cur.mode = "restrike" /\ applyFailed' = applyFailed \cup {cur.of})
    BY EndingIs
  <1>2. cur.of \in Days
    BY <1>1, InHand
  <1>3. journal' \subseteq Entry
    <2>1. CASE EndRestrike
      <3>1. cur.mode = "restrike"
        BY <2>1 DEF EndRestrike
      <3>2. PICK d \in Days : d = cur.of
        BY <1>2
      <3>3. HasRow(d)
        BY <1>1, <3>1, <3>2 DEF Control
      <3>4. rows[d].pos \in Navs
        BY <3>3, RowFacts
      <3>5. cur.before \in Navs \cup {None}
        BY <1>1, InHand DEF Strike
      <3>7. [of |-> d, from |-> cur.before, to |-> rows[d].pos] \in Entry
        BY <3>4, <3>5 DEF Entry
      <3> QED BY <2>1, <3>2, <3>7 DEF EndRestrike, Post, TypeOK
    <2>2. CASE ~EndRestrike
      BY <2>2, EndingIs DEF TypeOK
    <2> QED BY <2>1, <2>2
  <1>4. TypeOK'
    BY <1>1, <1>2, <1>3 DEF TypeOK, inputs, mail, Phases
  <1>5. \A d : HasRow(d)' <=> HasRow(d)
    BY <1>1 DEF HasRow
  <1>6. /\ \A d \in Days : HasRow(d)' => d <= day'
        /\ \A d \in Days : spy'[d] <= revisions' + 1
        /\ ~Auditing' => queue' = {}
        /\ ~Striking'
    BY <1>1, <1>5 DEF Control, inputs, Auditing, Striking
  <1>7. \A d \in applyFailed' : d < day'
    <2>1. cur.mode = "restrike" => cur.of < day
      BY <1>1, InHand
    <2>2. \A d \in applyFailed : d < day
      BY DEF Control
    <2> QED BY <1>1, <2>1, <2>2
  <1>8. Control'
    BY <1>1, <1>6, <1>7 DEF Control
  <1>9. OldestFirst'
    <2> SUFFICES ASSUME phase' = "audit" PROVE \A d \in Trailing \ queue, q \in queue : d < q
      BY <1>1 DEF OldestFirst, Trailing
    <2>1. ASSUME cur.mode # "live", NEW d \in Trailing \ queue, NEW q \in queue PROVE d < q
      <3>1. q \in Trailing
        BY DEF TypeOK, Trailing
      <3>2. q > cur.of /\ ~(d > cur.of)
        BY <1>1, <2>1, <3>1 DEF Control
      <3>3. q \in Nat /\ d \in Nat /\ cur.of \in Nat
        BY <1>2, <3>1, DaysFinite DEF Trailing
      <3> QED BY <3>2, <3>3
    <2>2. cur.mode = "live" => queue = {}
      BY <1>1 DEF Control
    <2> QED BY <2>1, <2>2
  <1> QED BY <1>4, <1>8, <1>9

LEMMA TypeStop ==
  ASSUME TypeOK, Control, Stop
  PROVE  TypeOK' /\ Control' /\ OldestFirst'
  <1>1. /\ UNCHANGED <<day, snap, traded, inputs, ledger, mail, corrected, missed, unread, applyFailed>>
        /\ phase' \in {"failed", "closed", "night"} /\ queue' = {} /\ cur' = NoStrike
    BY DEF Stop, Crash, Rerun, audit, Control, Auditing, Striking
  <1>2. failures' \in 0 .. MaxFailures
    BY LedgerAssumption DEF Stop, Crash, Rerun, TypeOK
  <1>3. TypeOK'
    BY <1>1, <1>2 DEF TypeOK, inputs, ledger, mail, Phases
  <1>4. \A d : HasRow(d)' <=> HasRow(d)
    BY <1>1 DEF HasRow, ledger
  <1>5. /\ \A d \in Days : HasRow(d)' => d <= day'
        /\ \A d \in Days : spy'[d] <= revisions' + 1
        /\ \A d \in applyFailed' : d < day'
        /\ ~Auditing' /\ ~Striking'
    BY <1>1, <1>4 DEF Control, inputs, Auditing, Striking
  <1>6. Control' /\ OldestFirst'
    BY <1>1, <1>5 DEF Control, OldestFirst
  <1> QED BY <1>3, <1>6

TypeInv == TypeOK /\ Control /\ OldestFirst

LEMMA TypeNext ==
  ASSUME TypeInv, [Next]_vars
  PROVE  TypeInv'
  <1> USE DEF TypeInv
  <1>1. CASE Session
    <2>1. phase' # "audit"
      BY <1>1 DEF Session, Capture, SkipSession, Revise, NextDay
    <2> QED BY <1>1, <2>1, TypeSession DEF OldestFirst
  <1>2. CASE Audit
    BY <1>2, TypeAudit
  <1>3. CASE Run
    <2>1. CASE StrikeStep
      <3>1. phase' = "strike"
        BY <2>1, HandOn DEF Striking
      <3> QED BY <2>1, <3>1, TypeStrikeStep DEF OldestFirst
    <2>2. CASE Ending
      BY <2>2, TypeEnding
    <2> QED BY <1>3, <2>1, <2>2 DEF Run, StrikeStep, Ending
  <1>4. CASE Crash \/ Rerun
    BY <1>4, TypeStop DEF Stop
  <1>5. CASE UNCHANGED vars
    <2>1. TypeOK' /\ Control' /\ OldestFirst'
      BY <1>5 DEF vars, TypeOK, Control, OldestFirst, inputs, ledger, mail, audit,
         Auditing, Striking, Trailing, Unwritten, HasRow
    <2> QED BY <2>1
  <1> QED BY <1>1, <1>2, <1>3, <1>4, <1>5 DEF Next

LEMMA TypeHolds == Spec => []TypeInv
  <1>1. Init => TypeInv
    BY TypeInit DEF TypeInv, OldestFirst, Init
  <1>2. TypeInv /\ [Next]_vars => TypeInv'
    BY TypeNext
  <1> QED BY <1>1, <1>2, PTL DEF Spec

\* Every table of the ledger keeps its shape, and the audit to its window.
THEOREM LedgerTypeCorrect == Spec => []TypeOK
  <1>1. TypeInv => TypeOK
    BY DEF TypeInv
  <1> QED BY <1>1, TypeHolds, PTL

-----------------------------------------------------------------------------
(* The returns.                                                            *)

\* The latest row before a session is found in the rows there are.
LEMMA PriorSame ==
  ASSUME NEW d \in Days, \A e \in Days : e < d => (HasRow(e)' <=> HasRow(e))
  PROVE  Prior(d)' = Prior(d)
  <1>1. {e \in Days : e < d /\ HasRow(e)'} = {e \in Days : e < d /\ HasRow(e)}
    OBVIOUS
  <1> QED BY <1>1 DEF Prior

\* And the NAV before a session changes only with the row that holds it.
LEMMA PriorNavSame ==
  ASSUME NEW d \in Days, \A e \in Days : e < d => (HasRow(e)' <=> HasRow(e)),
         \A e \in Days : e < d => rows'[e].pos = rows[e].pos
  PROVE  PriorNav(d)' = PriorNav(d)
  <1>1. Prior(d)' = Prior(d)
    BY PriorSame
  <1>2. Prior(d) # None => Prior(d) \in Days /\ Prior(d) < d
    BY PriorIs
  <1> DEFINE p == Prior(d)
  <1>3. PriorNav(d) = IF p = None THEN None ELSE rows[p].pos
    BY DEF PriorNav
  <1>4. PriorNav(d)' = IF p = None THEN None ELSE rows'[p].pos
    BY <1>1 DEF PriorNav
  <1> HIDE DEF p
  <1> QED BY <1>2, <1>3, <1>4 DEF p

\* What the self-heal leaves off its NAV it has refused.
LEMMA HealRestates ==
  ASSUME TypeOK, TypeOK', rows' = Healed
  PROVE  /\ \A d \in Days : rows'[d].pos = rows[d].pos
         /\ \A d \in Days : HasRow(d)' <=> HasRow(d)
         /\ \A d \in Days : d \in Chained' <=> d \in Chained
         /\ \A d \in Chained : ~Beyond(OffBy(d)', Tolerance) \/ (d \in Refused /\ OffBy(d)' = OffBy(d))
  <1>1. \A d \in Days : rows'[d].pos = rows[d].pos
    BY HealedSame
  <1>2. \A d \in Days : HasRow(d)' <=> HasRow(d)
    BY <1>1, RowFacts, RowFactsNext
  <1>3. \A d \in Days : PriorNav(d)' = PriorNav(d) /\ Prior(d)' = Prior(d)
    BY <1>1, <1>2, PriorNavSame, PriorSame
  <1>4. \A d \in Days : d \in Chained' <=> d \in Chained
    BY <1>2, <1>3 DEF Chained
  <1>5. ASSUME NEW d \in Chained
        PROVE  ~Beyond(OffBy(d)', Tolerance) \/ (d \in Refused /\ OffBy(d)' = OffBy(d))
    <2>1. d \in Days /\ HasRow(d)
      BY DEF Chained
    <2>2. PriorNav(d) \in Int /\ rows[d] \in Row
      BY <2>1, RowFacts DEF None
    <2>3. OffBy(d)' = rows'[d].over - PriorNav(d)
      BY <1>3, <2>1 DEF OffBy
    <2>4. CASE Restated(d)
      <3>1. rows'[d].over = PriorNav(d)
        BY <2>1, <2>2, <2>4, HealedKeeps DEF Row
      <3>2. OffBy(d)' = 0
        BY <2>2, <2>3, <3>1
      <3>3. ~Beyond(0, Tolerance)
        BY LedgerAssumption DEF Beyond
      <3> QED BY <3>2, <3>3
    <2>5. CASE ~Restated(d)
      <3>1. rows'[d] = rows[d]
        BY <2>1, <2>5, HealedKeeps
      <3>2. OffBy(d)' = OffBy(d)
        BY <2>3, <3>1 DEF OffBy
      <3>3. Beyond(OffBy(d), Tolerance) => d \in Refused
        BY <2>5 DEF Restated
      <3> QED BY <3>2, <3>3
    <2> QED BY <2>4, <2>5
  <1> QED BY <1>1, <1>2, <1>4, <1>5

\* The rows and the breach in hand unchanged, so are the returns.
LEMMA ReturnsSame ==
  ASSUME TypeOK, ReturnsOverPrior, phase = "strike", cur.step \in {"report", "end"},
         rows' = rows, cur'.breach = cur.breach
  PROVE  \A d \in Chained' :
           ~Beyond(OffBy(d)', Tolerance) \/ (Beyond(OffBy(d)', MaxCorrection) /\ cur'.breach)
  <1>1. \A d \in Days : /\ HasRow(d)' <=> HasRow(d)
                        /\ PriorNav(d)' = PriorNav(d) /\ Prior(d)' = Prior(d)
    BY PriorNavSame, PriorSame DEF HasRow
  <1>2. ASSUME NEW d \in Chained'
        PROVE  ~Beyond(OffBy(d)', Tolerance) \/ (Beyond(OffBy(d)', MaxCorrection) /\ cur'.breach)
    <2>1. d \in Chained
      BY <1>1 DEF Chained
    <2>2. d \in Days
      BY <2>1 DEF Chained
    <2>3. OffBy(d)' = OffBy(d)
      BY <1>1, <2>2 DEF OffBy
    <2>4. ~Beyond(OffBy(d), Tolerance) \/ (Beyond(OffBy(d), MaxCorrection) /\ cur.breach)
      BY <2>1 DEF ReturnsOverPrior
    <2> QED BY <2>3, <2>4
  <1> QED BY <1>2

LEMMA ReturnsNext ==
  ASSUME TypeInv, TypeInv', ReturnsOverPrior, [Next]_vars
  PROVE  ReturnsOverPrior'
  <1> USE DEF TypeInv
  <1> SUFFICES ASSUME phase' = "strike", cur'.step \in {"report", "end"}
               PROVE  \A d \in Chained' : \/ ~Beyond(OffBy(d)', Tolerance)
                                          \/ Beyond(OffBy(d)', MaxCorrection) /\ cur'.breach
    BY DEF ReturnsOverPrior
  <1>1. CASE Heal
    <2>1. rows' = Healed
      BY <1>1 DEF Heal
    <2>2. Refused # {} => cur'.breach
      <3>1. \E breach \in BOOLEAN : /\ Refused # {} => breach
                                    /\ cur' = [cur EXCEPT !.step = "report", !.breach = breach]
        BY <1>1 DEF Heal
      <3>2. cur \in Strike
        BY <1>1, HandOn, InHand DEF StrikeStep
      <3> QED BY <3>1, <3>2 DEF Strike
    <2>3. ASSUME NEW d \in Chained'
          PROVE  \/ ~Beyond(OffBy(d)', Tolerance)
                 \/ Beyond(OffBy(d)', MaxCorrection) /\ cur'.breach
      <3>1. d \in Chained
        <4>1. d \in Days
          BY DEF Chained
        <4> QED BY <2>1, <4>1, HealRestates
      <3>2. ~Beyond(OffBy(d)', Tolerance) \/ (d \in Refused /\ OffBy(d)' = OffBy(d))
        BY <2>1, <3>1, HealRestates
      <3>3. d \in Refused => Beyond(OffBy(d), MaxCorrection)
        BY DEF Refused
      <3> QED BY <2>2, <3>2, <3>3
    <2> QED BY <2>3
  <1>2. CASE StrikeStep /\ ~Heal
    <2>1. cur.step = "report"
      BY <1>2, HandOn DEF StrikeStep, Accrue, Settle, WriteRow, PostMark, Report, At
    <2>2. rows' = rows /\ phase = "strike"
      BY <1>2, <2>1, HandOn DEF StrikeStep, Accrue, Settle, WriteRow, PostMark, Report, At, ledger
    <2>3. cur'.breach = cur.breach
      <3>1. Report
        BY <1>2, <2>1 DEF StrikeStep, Accrue, Settle, WriteRow, PostMark, At
      <3>2. cur \in Strike
        BY <1>2, HandOn, InHand
      <3> QED BY <3>1, <3>2 DEF Report, Strike
    <2> QED BY <2>1, <2>2, <2>3, ReturnsSame
  <1>3. CASE Audit
    <2>1. cur'.step = "accrue"
      <3>1. phase' = "strike" => AuditRestrike \/ AuditRebuild \/ EndAudit
        BY <1>3 DEF Audit, StartJob, AuditClean, AuditUnsettled, AuditBlind, AuditGap
      <3> QED BY <3>1 DEF AuditRestrike, AuditRebuild, EndAudit, NewStrike
    <2> QED BY <2>1
  <1>4. CASE Session \/ Ending \/ Crash \/ Rerun
    <2>1. phase' # "strike"
      BY <1>4, EndingIs DEF Session, Capture, SkipSession, Revise, NextDay, Crash, Rerun
    <2> QED BY <2>1
  <1>5. CASE UNCHANGED vars
    <2>1. rows' = rows /\ cur' = cur /\ phase' = phase
      BY <1>5 DEF vars, ledger
    <2> QED BY <2>1, ReturnsSame
  <1> QED BY <1>1, <1>2, <1>3, <1>4, <1>5 DEF Next, Run, StrikeStep, Ending

\* Past its self-heal a strike leaves every return over the NAV before it,
\* within the tolerance, whatever was revised, rebuilt or struck again, or one
\* that is too far off to be healed, and then the strike raises.
THEOREM ReturnsRestated == Spec => []ReturnsOverPrior
  <1>1. Init => ReturnsOverPrior
    BY DEF Init, ReturnsOverPrior
  <1>2. TypeInv /\ TypeInv' /\ ReturnsOverPrior /\ [Next]_vars => ReturnsOverPrior'
    BY ReturnsNext
  <1> QED BY <1>1, <1>2, TypeHolds, PTL DEF Spec

-----------------------------------------------------------------------------
(* The mails.                                                              *)

LEMMA MailNext ==
  ASSUME TypeInv, TypeInv', MailInv, [Next]_vars
  PROVE  MailInv'
  <1> USE DEF TypeInv
  <1>1. CASE Report
    <2>1. /\ Striking /\ cur' = [cur EXCEPT !.step = "end"] /\ cur.of \in Days /\ cur \in Strike
          /\ cur.step = "report"
      BY <1>1, HandOn, InHand DEF Report, StrikeStep, At
    <2>2. cur'.step = "end"
      BY <2>1 DEF Strike
    <2>3. /\ mails' = IF cur.muted THEN mails ELSE [mails EXCEPT ![cur.of] = @ + 1]
          /\ reported' = reported \cup {cur.of} \/ reported' = reported
          /\ unreported' = unreported \cup {cur.of} \/ unreported' = unreported
          /\ cur.of \in reported' \/ cur.of \in unreported'
      BY <1>1 DEF Report
    <2>4. ASSUME NEW d \in Days \ unreported'
          PROVE  mails'[d] <= 1 /\ (mails'[d] > 0 => d \in reported')
      <3>1. d \notin unreported /\ mails[d] \in Nat
        BY <2>3, <2>4 DEF TypeOK
      <3>2. mails[d] <= 1 /\ (mails[d] > 0 => d \in reported)
        BY <3>1 DEF MailInv
      <3>3. CASE d = cur.of /\ ~cur.muted
        <4>1. d \notin reported
          BY <2>1, <3>3 DEF MailInv
        <4>2. mails'[d] = mails[d] + 1
          BY <2>3, <3>3 DEF TypeOK
        <4> QED BY <2>3, <2>4, <3>1, <3>2, <3>3, <4>1, <4>2
      <3>4. CASE ~(d = cur.of /\ ~cur.muted)
        <4>1. mails'[d] = mails[d]
          BY <2>3, <3>4 DEF TypeOK
        <4> QED BY <2>3, <3>2, <4>1
      <3> QED BY <3>3, <3>4
    <2> QED BY <2>2, <2>4 DEF MailInv
  <1>2. ASSUME UNCHANGED mail,
               Striking' /\ cur'.step # "end" /\ ~cur'.muted => cur'.of \notin reported
        PROVE  MailInv'
    <2>1. mails' = mails /\ reported' = reported /\ unreported' = unreported
      BY <1>2 DEF mail
    <2> QED BY <1>2, <2>1 DEF MailInv
  <1>3. CASE StrikeStep /\ ~Report
    <2>1. UNCHANGED mail
      BY <1>3 DEF StrikeStep, Accrue, Settle, WriteRow, PostMark, Heal
    <2>2. cur'.of = cur.of /\ cur'.muted = cur.muted /\ Striking /\ cur.step # "end"
      BY <1>3, HandOn
    <2> QED BY <1>2, <2>1, <2>2 DEF MailInv
  <1>4. CASE Audit
    <2>1. UNCHANGED mail
      BY <1>4 DEF Audit, StartJob, AuditClean, AuditRestrike, AuditUnsettled, AuditBlind, AuditRebuild,
         AuditGap, EndAudit
    <2>2. CASE Striking'
      <3>1. \E d \in Days, mode \in {"live", "restrike", "backfill"} : NewStrike(d, mode)
        BY <1>4, <2>2 DEF Audit, StartJob, AuditClean, AuditRestrike, AuditUnsettled,
           AuditBlind, AuditRebuild, AuditGap, EndAudit, Striking, TypeOK
      <3>2. PICK d \in Days, mode \in {"live", "restrike", "backfill"} : NewStrike(d, mode)
        BY <3>1
      <3>3. cur'.of = d /\ (~cur'.muted => d \notin reported)
        BY <3>2, NewStrikeType
      <3> QED BY <1>2, <2>1, <3>3
    <2> QED BY <1>2, <2>1, <2>2
  <1>5. CASE Session \/ Ending \/ Crash \/ Rerun
    <2>1. UNCHANGED mail
      BY <1>5, EndingIs DEF Session, Capture, SkipSession, Revise, NextDay, Crash, Rerun
    <2>2. ~Striking'
      BY <1>5, EndingIs DEF Session, Capture, SkipSession, Revise, NextDay, Crash, Rerun, Striking
    <2> QED BY <1>2, <2>1, <2>2
  <1>6. CASE UNCHANGED vars
    BY <1>6 DEF vars, mail, MailInv, Striking
  <1> QED BY <1>1, <1>3, <1>4, <1>5, <1>6 DEF Next, Run, StrikeStep, Ending

\* However often a session is struck, repeated or struck again, it is mailed
\* about once, unless its report could not be written.
THEOREM OneMail == Spec => []MailedOnce
  <1>1. Init => MailInv
    BY DEF Init, MailInv, Striking
  <1>2. TypeInv /\ TypeInv' /\ MailInv /\ [Next]_vars => MailInv'
    BY MailNext
  <1>3. MailInv => MailedOnce
    BY DEF MailInv, MailedOnce
  <1> QED BY <1>1, <1>2, <1>3, TypeHolds, PTL DEF Spec

-----------------------------------------------------------------------------
(* The audit leaves its window on the closes that are settled now.         *)

LEMMA PriorSpySame ==
  ASSUME NEW d \in Days, \A e \in Days : e < d => (HasRow(e)' <=> HasRow(e)), spy' = spy
  PROVE  PriorSpy(d)' = PriorSpy(d)
  BY PriorSame DEF PriorSpy

\* What a strike step does to a row other than the one it strikes.
LEMMA OtherRows ==
  ASSUME TypeInv, TypeInv', StrikeStep
  PROVE  /\ \A d \in Days : d # cur.of =>
              /\ HasRow(d)' <=> HasRow(d)
              /\ rows'[d].pos = rows[d].pos /\ rows'[d].prior = rows[d].prior
              /\ rows'[d].spy = rows[d].spy /\ rows'[d].back = rows[d].back
              /\ rows'[d].base = rows[d].base /\ rows'[d].released = rows[d].released
         /\ WriteRow => rows'[cur.of] = Struck(cur.of) /\ HasRow(cur.of)'
         /\ ~WriteRow =>
              /\ HasRow(cur.of)' <=> HasRow(cur.of)
              /\ rows'[cur.of].pos = rows[cur.of].pos
              /\ rows'[cur.of].spy = rows[cur.of].spy
              /\ rows'[cur.of].back = rows[cur.of].back
              /\ rows'[cur.of].base = rows[cur.of].base
              /\ rows'[cur.of].released = rows[cur.of].released
  <1> USE DEF TypeInv
  <1>1. cur.of \in Days /\ cur'.of = cur.of
    BY HandOn, InHand
  <1>2. CASE WriteRow
    <2>1. rows' = [rows EXCEPT ![cur.of] = Struck(cur.of)]
      BY <1>2 DEF WriteRow, Struck
    <2>2. rows'[cur.of] = Struck(cur.of) /\ \A d \in Days : d # cur.of => rows'[d] = rows[d]
      BY <1>1, <2>1 DEF TypeOK
    <2>3. rows'[cur.of].pos # None
      <3>1. pos[cur.of] # None
        BY <1>1, RowFacts DEF TypeOK, None
      <3> QED BY <2>2, <3>1 DEF Struck
    <2>4. HasRow(cur.of)'
      BY <1>1, <2>3 DEF HasRow, NoRow
    <2> QED BY <1>2, <2>2, <2>4 DEF HasRow
  <1>3. CASE ~WriteRow
    <2>1. ASSUME NEW d \in Days
          PROVE  /\ HasRow(d)' <=> HasRow(d)
                 /\ rows'[d].pos = rows[d].pos /\ rows'[d].prior = rows[d].prior
                 /\ rows'[d].spy = rows[d].spy /\ rows'[d].back = rows[d].back
                 /\ rows'[d].base = rows[d].base /\ rows'[d].released = rows[d].released
      <3>1. CASE Heal
        <4>1. rows' = Healed
          BY <3>1 DEF Heal
        <4> QED BY <4>1, HealRestates, HealedSame
      <3>2. CASE ~Heal
        <4>1. rows' = rows
          BY <1>3, <3>2 DEF StrikeStep, Accrue, Settle, PostMark, Report, ledger
        <4> QED BY <4>1 DEF HasRow
      <3> QED BY <3>1, <3>2
    <2>2. HasRow(cur.of)' <=> HasRow(cur.of)
      <3>1. PICK d \in Days : d = cur.of
        BY <1>1
      <3>2. HasRow(cur.of)' <=> HasRow(d)'
        BY <1>1, <3>1 DEF HasRow
      <3> QED BY <2>1, <3>1, <3>2
    <2> QED BY <1>1, <1>3, <2>1, <2>2
  <1> QED BY <1>2, <1>3

LEMMA SettledStrikeStep ==
  ASSUME TypeInv, TypeInv', CheckedAreSettled, StrikeStep
  PROVE  CheckedAreSettled'
  <1> USE DEF TypeInv
  <1>1. /\ Striking /\ Striking' /\ day' = day /\ queue' = queue /\ missed' = missed /\ unread' = unread
        /\ cur'.of = cur.of /\ pos' = pos /\ spy' = spy /\ cur.of \in Days
        /\ cur.of \in Nat /\ cur.mode \in {"live", "restrike", "backfill"}
    BY HandOn, InHand DEF inputs
  <1>2. Trailing' = Trailing /\ Auditing /\ Auditing'
    BY <1>1 DEF Trailing, Auditing, Striking
  <1>3. \A e \in Days : e # cur.of => (HasRow(e)' <=> HasRow(e))
    BY OtherRows
  <1>4. ASSUME NEW d \in Trailing \ (queue \cup missed \cup unread), HasRow(d)', d # cur.of
        PROVE  OnSettled(d)'
    <2>1. d \in Days /\ d \in Nat /\ d < day
      <3>1. d \in Days /\ d \in Nat
        BY DaysFinite DEF Trailing
      <3>2. day \in Int /\ Window \in Int
        BY LedgerAssumption, DaysFinite DEF TypeOK
      <3> QED BY <3>1, <3>2 DEF Trailing
    <2>2. HasRow(d) /\ OnSettled(d)
      BY <1>1, <1>2, <1>3, <1>4, <2>1 DEF CheckedAreSettled
    <2>3. d < cur.of
      <3>1. cur.mode # "live" => ~(d > cur.of)
        BY <1>1 DEF Control
      <3>2. cur.mode = "live" => cur.of = day
        BY <1>1 DEF Control
      <3> QED BY <1>1, <1>4, <2>1, <3>1, <3>2
    <2>4. \A e \in Days : e < d => (HasRow(e)' <=> HasRow(e))
      <3>1. \A e \in Days : e < d => e # cur.of
        BY <1>1, <2>1, <2>3, DaysFinite
      <3> QED BY <1>3, <3>1
    <2>5. PriorSpy(d)' = PriorSpy(d)
      BY <1>1, <2>1, <2>4, PriorSpySame
    <2>6. rows'[d].pos = rows[d].pos /\ rows'[d].spy = rows[d].spy /\ rows'[d].back = rows[d].back
      BY <1>4, <2>1, OtherRows
    <2> QED BY <1>1, <2>2, <2>5, <2>6 DEF OnSettled
  <1>5. ASSUME ~Unwritten', NEW d \in Days, d = cur.of PROVE OnSettled(d)'
    <2>1. \A e \in Days : e < d => (HasRow(e)' <=> HasRow(e))
      BY <1>3, <1>5, DaysFinite
    <2>2. PriorSpy(d)' = PriorSpy(d)
      BY <1>1, <2>1, PriorSpySame
    <2>3. CASE WriteRow
      <3>1. rows'[d] = Struck(d)
        BY <1>5, <2>3, OtherRows
      <3> QED BY <1>1, <2>2, <3>1 DEF Struck, OnSettled
    <2>4. CASE ~WriteRow
      <3>1. ~Unwritten
        <4>1. Unwritten /\ ~Unwritten' => cur.step = "write"
          BY HandOn DEF Unwritten
        <4>2. cur.step = "write" => WriteRow
          BY DEF StrikeStep, Accrue, Settle, PostMark, Heal, Report, At
        <4> QED BY <1>5, <2>4, <4>1, <4>2
      <3>2. OnSettled(d)
        BY <1>1, <1>5, <3>1 DEF CheckedAreSettled
      <3>3. rows'[d].pos = rows[d].pos /\ rows'[d].spy = rows[d].spy /\ rows'[d].back = rows[d].back
        BY <1>5, <2>4, OtherRows
      <3> QED BY <1>1, <2>2, <3>2, <3>3 DEF OnSettled
    <2> QED BY <2>3, <2>4
  <1>6. ~Unwritten' => OnSettled(cur.of)'
    <2>1. PICK d \in Days : d = cur.of
      BY <1>1
    <2>2. OnSettled(cur.of)' <=> OnSettled(d)'
      BY <1>1, <2>1 DEF OnSettled, PriorSpy, Prior
    <2> QED BY <1>5, <2>1, <2>2
  <1> QED BY <1>1, <1>2, <1>4, <1>6 DEF CheckedAreSettled

LEMMA SettledNext ==
  ASSUME TypeInv, TypeInv', CheckedAreSettled, [Next]_vars
  PROVE  CheckedAreSettled'
  <1> USE DEF TypeInv
  <1>1. ASSUME Auditing', ~Striking', UNCHANGED <<day, inputs, rows>>,
               NEW d \in Trailing \ (queue' \cup missed' \cup unread'), HasRow(d),
               OnSettled(d)
        PROVE  OnSettled(d)'
    BY <1>1 DEF OnSettled, PriorSpy, Prior, HasRow, inputs
  <1>2. CASE Audit
    <2>1. UNCHANGED <<day, inputs, rows>> /\ ~Striking /\ Trailing' = Trailing
      BY <1>2 DEF Audit, StartJob, AuditClean, AuditRestrike, AuditUnsettled, AuditBlind, AuditRebuild,
         AuditGap, EndAudit, Striking, ledger, Trailing
    <2>2. \A d : (OnSettled(d)' <=> OnSettled(d)) /\ (HasRow(d)' <=> HasRow(d))
      BY <2>1 DEF OnSettled, PriorSpy, Prior, HasRow, inputs
    <2>3. ASSUME NEW d \in Trailing \ (queue' \cup missed' \cup unread'), HasRow(d), Striking' => d # cur'.of
          PROVE  OnSettled(d)
      <3>1. CASE StartJob
        BY <3>1 DEF StartJob, Trailing
      <3>2. CASE ~StartJob /\ d \in queue
        <4>0. \/ AuditClean \/ AuditRestrike \/ AuditUnsettled
              \/ AuditBlind \/ AuditRebuild \/ AuditGap
          BY <1>2, <3>2 DEF Audit, EndAudit
        <4>1. PICK q \in queue : Pop(q)
          BY <4>0 DEF AuditClean, AuditRestrike, AuditUnsettled, AuditBlind, AuditRebuild, AuditGap
        <4>2. d = q
          BY <2>3, <3>2, <4>1, Popped DEF Trailing
        <4>3. d = Min(queue) /\ d \in Days
          BY <4>1, <4>2, Popped DEF Pop
        <4>4. CASE AuditClean
          <5>1. Legs(d) = {}
            BY <4>3, <4>4 DEF AuditClean, Pop
          <5>2. StaleLegs(d) = {}
            BY <5>1 DEF Legs
          <5>3. rows[d].spy = spy[d]
            <6>1. "spy_close" \notin StaleLegs(d)
              BY <5>2
            <6> QED BY <6>1 DEF StaleLegs
          <5>4. rows[d].pos = pos[d]
            <6>1. "position_close" \notin StaleLegs(d)
              BY <5>2
            <6> QED BY <6>1 DEF StaleLegs
          <5>5. <<rows[d].prior, rows[d].back>> = <<Prior(d), PriorSpy(d)>>
            <6>1. "spy_return" \notin StaleLegs(d)
              BY <5>2
            <6> QED BY <6>1 DEF StaleLegs
          <5> QED BY <5>3, <5>4, <5>5 DEF OnSettled
        <4>5. CASE AuditRestrike
          BY <2>3, <4>3, <4>5, NewStrikeType DEF AuditRestrike, Pop, Striking
        <4>6. CASE AuditUnsettled
          BY <2>3, <4>3, <4>6 DEF AuditUnsettled, Pop
        <4>7. CASE AuditBlind
          BY <2>3, <4>3, <4>7 DEF AuditBlind, Pop
        <4>8. CASE AuditRebuild
          BY <2>3, <4>3, <4>8, NewStrikeType DEF AuditRebuild, Pop, Striking
        <4>9. CASE AuditGap
          BY <2>3, <4>3, <4>9 DEF AuditGap, Pop
        <4> QED BY <4>0, <4>4, <4>5, <4>6, <4>7, <4>8, <4>9
      <3>3. CASE ~StartJob /\ d \notin queue
        <4>1. phase = "audit" /\ missed \subseteq missed' /\ unread \subseteq unread'
          BY <1>2, <3>3 DEF Audit, StartJob, AuditClean, AuditRestrike, AuditUnsettled,
             AuditBlind, AuditRebuild, AuditGap, EndAudit, audit
        <4> QED BY <2>1, <2>3, <3>3, <4>1 DEF CheckedAreSettled, Auditing
      <3> QED BY <3>1, <3>2, <3>3
    <2>4. Striking' => Unwritten'
      <3>1. Striking' => AuditRestrike \/ AuditRebuild \/ EndAudit
        BY <1>2 DEF Audit, StartJob, AuditClean, AuditUnsettled, AuditBlind, AuditGap, Striking
      <3> QED BY <3>1 DEF AuditRestrike, AuditRebuild, EndAudit, NewStrike, Unwritten
    <2> QED BY <2>1, <2>2, <2>3, <2>4 DEF CheckedAreSettled
  <1>3. CASE StrikeStep
    BY <1>3, SettledStrikeStep
  <1>4. CASE Ending
    <2>1. /\ Striking /\ UNCHANGED <<day, inputs, queue, rows>> /\ ~Striking'
          /\ Trailing' = Trailing /\ Auditing
          /\ Auditing' => cur.mode # "live"
          /\ missed' \in {missed, missed \cup {cur.of}} /\ unread' = unread
      BY <1>4, EndingIs DEF Striking, Trailing, Auditing
    <2>2. \A d : (OnSettled(d)' <=> OnSettled(d)) /\ (HasRow(d)' <=> HasRow(d))
      BY <2>1 DEF OnSettled, PriorSpy, Prior, HasRow, inputs
    <2>3. ASSUME NEW d \in Trailing \ (queue \cup missed' \cup unread), HasRow(d), Auditing'
          PROVE  OnSettled(d)
      <3>1. CASE d # cur.of
        BY <2>1, <2>3, <3>1 DEF CheckedAreSettled
      <3>2. CASE d = cur.of
        <4>1. ~Unwritten
          <5>1. ~FailCloses /\ ~Gate
            <6>1. cur.of \notin missed' /\ cur.mode # "live"
              BY <2>1, <2>3, <3>2
            <6>2. FailCloses \/ Gate => missed' = missed \cup {cur.of}
              BY <1>4, <6>1, EndingIs
            <6> QED BY <6>1, <6>2
          <5>2. cur.step = "end"
            BY <1>4, <5>1 DEF Ending, EndLive, EndRebuild, EndRestrike, At
          <5> QED BY <5>2 DEF Unwritten
        <4> QED BY <2>1, <3>2, <4>1 DEF CheckedAreSettled
      <3> QED BY <3>1, <3>2
    <2> QED BY <2>1, <2>2, <2>3 DEF CheckedAreSettled
  <1>5. CASE Session \/ Crash \/ Rerun
    <2>1. ~Auditing' /\ ~Striking'
      BY <1>5 DEF Session, Capture, SkipSession, Revise, NextDay, Crash, Rerun, Striking, Auditing
    <2> QED BY <2>1 DEF CheckedAreSettled
  <1>6. CASE UNCHANGED vars
    BY <1>6 DEF vars, inputs, ledger, audit, CheckedAreSettled, OnSettled, PriorSpy, Prior,
       HasRow, Auditing, Striking, Trailing, Unwritten
  <1> QED BY <1>2, <1>3, <1>4, <1>5, <1>6 DEF Next, Run, StrikeStep, Ending

LEMMA SettledHolds == Spec => []CheckedAreSettled
  <1>1. Init => CheckedAreSettled
    BY DEF Init, CheckedAreSettled, Auditing, Striking
  <1>2. TypeInv /\ TypeInv' /\ CheckedAreSettled /\ [Next]_vars => CheckedAreSettled'
    BY SettledNext
  <1> QED BY <1>1, <1>2, TypeHolds, PTL DEF Spec

\* What an evening's audit has looked at, and neither missed nor passed for want
\* of a close, is struck on what is settled that evening, for any window and any
\* order of revisions.
THEOREM AuditSettles == Spec => []AuditConverges
  <1>1. CheckedAreSettled => AuditConverges
    BY DEF CheckedAreSettled, AuditConverges, Audited, Auditing, Striking, Trailing, OnSettled
  <1> QED BY <1>1, SettledHolds, PTL

-----------------------------------------------------------------------------
(* A correction reaches the session after it.                              *)

\* Failures are only ever added to.
LEMMA FailuresGrow ==
  ASSUME TypeInv, TypeInv', [Next]_vars, failures' = 0
  PROVE  failures = 0
  <1>1. failures \in Nat
    BY LedgerAssumption DEF TypeInv, TypeOK
  <1>2. failures' = failures \/ failures' = failures + 1
    <2>1. CASE Run
      BY <2>1, EndingIs
         DEF TypeInv, Run, Ending, Accrue, Settle, WriteRow, PostMark, Heal, Report
    <2>2. CASE ~Run
      BY <2>2 DEF Next, Session, Audit, Capture, SkipSession, Revise, NextDay, StartJob,
         AuditClean, AuditRestrike, AuditUnsettled, AuditBlind, AuditRebuild, AuditGap, EndAudit,
         Crash, Rerun, vars
    <2> QED BY <2>1, <2>2
  <1> QED BY <1>1, <1>2

LEMMA NoGapNext ==
  ASSUME TypeInv, TypeInv', NoGap, [Next]_vars
  PROVE  NoGap'
  <1> USE DEF TypeInv
  <1> SUFFICES ASSUME failures' = 0
               PROVE  /\ \A d \in 1 .. day' - 1 : HasRow(d)'
                      /\ phase' \in {"night", "failed"} => HasRow(day)'
                      /\ phase' = "session" => ~HasRow(day)'
                      /\ Striking' => cur'.mode # "backfill"
    BY DEF NoGap
  <1>1. failures = 0 /\ failures' # failures + 1
    BY FailuresGrow
  <1>2. /\ \A d \in 1 .. day - 1 : HasRow(d)
        /\ phase \in {"night", "failed"} => HasRow(day)
        /\ phase = "session" => ~HasRow(day)
        /\ Striking => cur.mode # "backfill"
    BY <1>1 DEF NoGap
  <1>3. day \in Nat /\ day \in Days
    BY DaysFinite DEF TypeOK
  <1>4. CASE Session
    <2>1. ~SkipSession /\ ~Striking'
      BY <1>1, <1>4 DEF SkipSession, Session, Capture, Revise, NextDay, Striking
    <2>2. rows' = rows /\ \A d : HasRow(d)' <=> rows[d] # NoRow
      BY <1>4 DEF Session, Capture, SkipSession, Revise, NextDay, ledger, HasRow
    <2>3. CASE Capture \/ Revise
      <3>1. day' = day /\ phase = "session" /\ phase' \in {"session", "closed"}
        BY <2>3 DEF Capture, Revise
      <3> QED BY <1>2, <2>1, <2>2, <3>1 DEF HasRow
    <2>4. CASE NextDay
      <3>1. day' = day + 1 /\ phase = "night" /\ phase' = "session" /\ day' \in Days
        BY <2>4 DEF NextDay, TypeOK
      <3>2. \A d \in 1 .. day' - 1 : HasRow(d)
        BY <1>2, <1>3, <3>1
      <3>3. ~HasRow(day')
        BY <1>3, <3>1 DEF Control
      <3> QED BY <2>1, <2>2, <3>1, <3>2, <3>3 DEF HasRow
    <2> QED BY <1>4, <2>1, <2>3, <2>4 DEF Session
  <1>5. CASE Audit
    <2>1. day' = day /\ rows' = rows /\ phase' \in {"audit", "strike"}
      BY <1>5 DEF Audit, StartJob, AuditClean, AuditRestrike, AuditUnsettled, AuditBlind, AuditRebuild,
         AuditGap, EndAudit, ledger
    <2>2. \A d : HasRow(d)' <=> HasRow(d)
      BY <2>1 DEF HasRow
    <2>3. ~AuditRebuild
      <3>1. ASSUME NEW d \in queue, Pop(d) PROVE HasRow(d)
        <4>1. d \in Days /\ d < day
          BY <3>1, Popped
        <4>2. d \in 1 .. day - 1
          BY <1>3, <4>1, DaysFinite
        <4> QED BY <1>2, <4>2
      <3> QED BY <3>1 DEF AuditRebuild
    <2>4. Striking' => cur'.mode # "backfill"
      <3>1. Striking' => AuditRestrike \/ EndAudit
        BY <1>5, <2>3 DEF Audit, StartJob, AuditClean, AuditUnsettled, AuditBlind, AuditGap, Striking
      <3> QED BY <3>1 DEF AuditRestrike, EndAudit, NewStrike
    <2> QED BY <1>2, <2>1, <2>2, <2>4
  <1>6. CASE StrikeStep
    <2>1. Striking /\ Striking' /\ day' = day /\ phase' = "strike" /\ cur'.mode = cur.mode
      BY <1>6, HandOn DEF Striking
    <2>2. ASSUME NEW d \in Days, HasRow(d) PROVE HasRow(d)'
      <3>1. CASE d = cur.of
        <4>1. HasRow(cur.of)' <=> HasRow(d)'
          <5>1. cur'.of = cur.of
            BY <1>6, HandOn
          <5> QED BY <3>1, <5>1 DEF HasRow
        <4> QED BY <1>6, <2>2, <3>1, <4>1, OtherRows
      <3>2. CASE d # cur.of
        BY <1>6, <2>2, <3>2, OtherRows
      <3> QED BY <3>1, <3>2
    <2>3. \A d \in 1 .. day - 1 : d \in Days
      BY <1>3, LedgerAssumption DEF Days
    <2> QED BY <1>2, <2>1, <2>2, <2>3
  <1>7. CASE Ending
    <2>1. /\ Striking /\ ~Striking' /\ rows' = rows /\ day' = day
          /\ phase' = IF cur.mode # "live" THEN "audit" ELSE IF EndLive THEN "night" ELSE "failed"
      BY <1>7, EndingIs DEF Striking
    <2>2. ~FailCloses
      BY <1>1 DEF FailCloses
    <2>3. ~Unwritten
      BY <1>7, <2>2 DEF Ending, Gate, EndLive, EndRebuild, EndRestrike, At, Unwritten
    <2>4. \A d : HasRow(d)' <=> HasRow(d)
      BY <2>1 DEF HasRow
    <2>5. cur.mode = "live" => HasRow(day)
      BY <2>1, <2>3 DEF Control
    <2>6. HasRow(day)' <=> HasRow(day)
      BY <2>1 DEF HasRow
    <2> QED BY <1>2, <2>1, <2>4, <2>5, <2>6
  <1>8. CASE Crash \/ Rerun
    <2>1. Rerun
      BY <1>1, <1>8 DEF Crash
    <2>2. /\ phase = "failed" /\ phase' \in {"closed", "night"}
          /\ rows' = rows /\ day' = day
      BY <2>1 DEF Rerun, ledger
    <2>3. (HasRow(day)' <=> HasRow(day)) /\ \A d : HasRow(d)' <=> HasRow(d)
      BY <2>2 DEF HasRow
    <2> QED BY <1>2, <2>2, <2>3 DEF Striking
  <1>9. CASE UNCHANGED vars
    <2>1. day' = day /\ rows' = rows /\ phase' = phase /\ cur' = cur
      BY <1>9 DEF vars, ledger
    <2>2. (HasRow(day)' <=> HasRow(day)) /\ \A d : HasRow(d)' <=> HasRow(d)
      BY <2>1 DEF HasRow
    <2> QED BY <1>2, <2>1, <2>2 DEF Striking
  <1> QED BY <1>4, <1>5, <1>6, <1>7, <1>8, <1>9 DEF Next, Run, StrikeStep, Ending

\* The rows are off their base by what happened to the rows before them.
LEMMA OffBaseSame ==
  ASSUME rows' = rows
  PROVE  /\ \A d \in Days : d \in OffBase' <=> d \in OffBase
         /\ OffBase' \subseteq Days /\ OffBase \subseteq Days
         /\ \A d : Prior(d)' = Prior(d)
  <1>1. \A d : Prior(d)' = Prior(d) /\ (HasRow(d)' <=> HasRow(d))
    BY DEF Prior, HasRow
  <1>2. \A d : PriorNav(d)' = PriorNav(d)
    BY <1>1 DEF PriorNav
  <1> QED BY <1>1, <1>2 DEF OffBase

LEMMA AwaitedStrikeStep ==
  ASSUME TypeInv, TypeInv', NoGap, OffBaseAwaited, StrikeStep, failures = 0,
         NEW d \in OffBase'
  PROVE  Prior(d)' \in applyFailed' \/ Awaited(d)'
  <1> USE DEF TypeInv
  <1>1. /\ Striking /\ Striking' /\ day' = day /\ queue' = queue /\ corrected' = corrected
        /\ cur'.of = cur.of /\ cur'.mode = cur.mode /\ cur.of \in Days
        /\ cur.of \in Nat /\ day \in Nat /\ cur.of <= day
        /\ cur.mode \in {"live", "restrike", "backfill"} /\ applyFailed' = applyFailed
    BY HandOn, InHand
  <1>2. d \in Days /\ d \in Nat /\ HasRow(d)' /\ rows'[d].base # PriorNav(d)'
    BY DaysFinite DEF OffBase
  <1>3. d \in OffBase =>
          \/ Prior(d) \in applyFailed
          \/ d \in queue /\ (Prior(d) \in corrected \/ Prior(d) = cur.of)
          \/ d = cur.of /\ cur.mode = "restrike" /\ Unwritten
          \/ d = day /\ (cur.mode = "live" => Unwritten)
    BY <1>1 DEF OffBaseAwaited, Awaited
  <1>4. SUFFICES \/ Prior(d)' \in applyFailed
                 \/ d \in queue /\ (Prior(d)' \in corrected \/ Prior(d)' = cur.of)
                 \/ d = cur.of /\ cur.mode = "restrike" /\ Unwritten'
                 \/ d = day /\ (cur.mode = "live" => Unwritten')
    BY <1>1 DEF Awaited
  <1>5. CASE ~WriteRow
    <2>1. ASSUME NEW e \in Days
          PROVE  (HasRow(e)' <=> HasRow(e)) /\ rows'[e].pos = rows[e].pos
                 /\ rows'[e].base = rows[e].base
      <3>1. CASE e = cur.of
        <4>1. HasRow(cur.of)' <=> HasRow(e)'
          BY <1>1, <3>1 DEF HasRow
        <4> QED BY <1>5, <3>1, <4>1, OtherRows
      <3>2. CASE e # cur.of
        BY <3>2, OtherRows
      <3> QED BY <3>1, <3>2
    <2>2. PriorNav(d)' = PriorNav(d) /\ Prior(d)' = Prior(d)
      BY <1>2, <2>1, PriorNavSame, PriorSame
    <2>3. d \in OffBase
      BY <1>2, <2>1, <2>2 DEF OffBase
    <2>4. Unwritten => Unwritten'
      <3>1. cur.step = "write" => WriteRow
        BY DEF StrikeStep, Accrue, Settle, PostMark, Heal, Report, At
      <3> QED BY <1>5, <3>1, HandOn DEF Unwritten
    <2> QED BY <1>3, <2>2, <2>3, <2>4
  <1>6. CASE WriteRow
    <2>1. d # cur.of
      <3> SUFFICES ASSUME d = cur.of PROVE FALSE
        OBVIOUS
      <3>1. \A e \in Days : e < d => e # cur.of
        BY <1>2
      <3>2. PriorNav(d)' = PriorNav(d)
        BY <1>2, <3>1, OtherRows, PriorNavSame
      <3>3. rows'[d].base = PriorNav(d)
        BY <1>6, OtherRows DEF Struck
      <3> QED BY <1>2, <3>2, <3>3
    <2>2. HasRow(d) /\ rows'[d].base = rows[d].base
      BY <1>2, <2>1, OtherRows
    <2>3. d <= day
      BY <1>2, <2>2 DEF Control
    <2>4. CASE cur.mode = "live"
      <3>1. cur.of = day /\ queue = {}
        BY <1>1, <2>4 DEF Control
      <3>2. d < cur.of
        BY <1>1, <1>2, <2>1, <2>3, <3>1
      <3>3. \A e \in Days : e < d => e # cur.of
        BY <1>2, <3>2, DaysFinite
      <3>4. PriorNav(d)' = PriorNav(d) /\ Prior(d)' = Prior(d)
        BY <1>2, <3>3, OtherRows, PriorNavSame, PriorSame
      <3>5. d \in OffBase
        BY <1>2, <2>2, <3>4 DEF OffBase
      <3>6. Prior(d) \in applyFailed
        BY <1>3, <2>1, <2>4, <3>1, <3>5
      <3> QED BY <3>4, <3>6
    <2>5. CASE cur.mode = "restrike"
      <3>1. HasRow(cur.of)
        BY <1>1, <2>5 DEF Control
      <3>2. ASSUME NEW e \in Days PROVE HasRow(e)' <=> HasRow(e)
        <4>1. CASE e = cur.of
          <5>1. HasRow(cur.of)' <=> HasRow(e)'
            BY <1>1, <4>1 DEF HasRow
          <5> QED BY <1>6, <3>1, <4>1, <5>1, OtherRows
        <4>2. CASE e # cur.of
          BY <4>2, OtherRows
        <4> QED BY <4>1, <4>2
      <3>3. Prior(d)' = Prior(d)
        BY <1>2, <3>2, PriorSame
      <3>4. CASE d \in OffBase
        BY <1>3, <2>1, <2>5, <3>3, <3>4
      <3>5. CASE d \notin OffBase
        <4>1. PriorNav(d)' # PriorNav(d)
          BY <1>2, <2>2, <3>5 DEF OffBase
        <4>2. Prior(d) = cur.of
          <5> SUFFICES ASSUME Prior(d) # cur.of PROVE FALSE
            OBVIOUS
          <5>1. Prior(d) # None => Prior(d) \in Days
            BY <1>2, PriorIs
          <5>2. Prior(d) # None => rows'[Prior(d)].pos = rows[Prior(d)].pos
            BY <5>1, OtherRows
          <5>3. PriorNav(d)' = IF Prior(d) = None THEN None ELSE rows'[Prior(d)].pos
            BY <3>3 DEF PriorNav
          <5> QED BY <4>1, <5>2, <5>3 DEF PriorNav
        <4>3. cur.of < d
          <5>1. Prior(d) # None
            BY <1>1, <4>2, DaysFinite DEF None
          <5> QED BY <1>2, <4>2, <5>1, PriorIs
        <4>4. CASE d = day
          BY <2>5, <4>4
        <4>5. CASE d # day
          <5>1. cur.of \in Trailing /\ \A e \in Trailing : e \in queue <=> e > cur.of
            BY <1>1, <2>5 DEF Control
          <5>2. d \in Trailing
            <6>1. Window \in Nat
              BY LedgerAssumption
            <6> QED BY <1>1, <1>2, <2>3, <4>3, <4>5, <5>1, <6>1 DEF Trailing
          <5>3. d \in queue
            BY <4>3, <5>1, <5>2
          <5> QED BY <3>3, <4>2, <5>3
        <4> QED BY <4>4, <4>5
      <3> QED BY <3>4, <3>5
    <2>6. cur.mode # "backfill"
      BY <1>1 DEF NoGap
    <2> QED BY <1>1, <2>4, <2>5, <2>6
  <1> QED BY <1>5, <1>6

LEMMA AwaitedNext ==
  ASSUME TypeInv, TypeInv', NoGap, NoGap', OffBaseAwaited, [Next]_vars
  PROVE  OffBaseAwaited'
  <1> USE DEF TypeInv
  <1> SUFFICES ASSUME failures' = 0, NEW d \in OffBase'
               PROVE  Prior(d)' \in applyFailed' \/ (Auditing' /\ Awaited(d)')
    BY DEF OffBaseAwaited
  <1>1. failures = 0 /\ failures' # failures + 1
    BY FailuresGrow
  <1>2. d \in OffBase => Prior(d) \in applyFailed \/ (Auditing /\ Awaited(d))
    BY <1>1 DEF OffBaseAwaited
  <1>3. CASE StrikeStep
    <2>1. Striking' /\ Auditing'
      BY <1>3, HandOn DEF Auditing, Striking
    <2> QED BY <1>1, <1>3, <2>1, AwaitedStrikeStep
  <1>4. ASSUME rows' = rows PROVE d \in OffBase /\ Prior(d)' = Prior(d) /\ d \in Days
    BY <1>4, OffBaseSame
  <1>5. ASSUME rows' = rows, applyFailed \subseteq applyFailed',
               Prior(d) \in applyFailed \/ ~Auditing
        PROVE  Prior(d)' \in applyFailed'
    BY <1>2, <1>4, <1>5
  <1>6. CASE Session \/ Crash \/ Rerun
    <2>1. rows' = rows /\ ~Auditing /\ applyFailed' = applyFailed
      BY <1>1, <1>6 DEF Session, Capture, SkipSession, Revise, NextDay, Crash, Rerun, ledger,
         Auditing, audit
    <2> QED BY <1>5, <2>1
  <1>7. CASE Audit
    <2>1. rows' = rows /\ ~Striking /\ Auditing' /\ applyFailed' = applyFailed /\ day' = day
      BY <1>7 DEF Audit, StartJob, AuditClean, AuditRestrike, AuditUnsettled, AuditBlind, AuditRebuild,
         AuditGap, EndAudit, ledger, Striking, Auditing, audit
    <2>2. CASE Prior(d) \in applyFailed \/ ~Auditing
      BY <1>5, <2>1, <2>2
    <2>3. CASE d = day
      <3>1. Striking' => cur'.step = "accrue"
        <4>1. Striking' => AuditRestrike \/ AuditRebuild \/ EndAudit
          BY <1>7 DEF Audit, StartJob, AuditClean, AuditUnsettled, AuditBlind, AuditGap, Striking
        <4> QED BY <4>1 DEF AuditRestrike, AuditRebuild, EndAudit, NewStrike
      <3>2. Awaited(d)'
        BY <2>1, <2>3, <3>1 DEF Awaited, Unwritten
      <3> QED BY <2>1, <3>2
    <2>4. CASE Auditing /\ d \in queue /\ Prior(d) \in corrected
      <3>1. d \in OffBase /\ Prior(d)' = Prior(d) /\ d \in Days
        BY <1>4, <2>1
      <3>2. HasRow(d) /\ "prior_corrected" \in Legs(d)
        BY <2>4, <3>1 DEF OffBase, Legs
      <3>3. CASE AuditClean \/ AuditGap
        <4>1. PICK q \in queue : Pop(q) /\ (~HasRow(q) \/ Legs(q) = {})
          BY <3>3 DEF AuditClean, AuditGap
        <4>2. d # q /\ corrected' = corrected
          BY <3>2, <3>3, <4>1 DEF AuditClean, AuditGap
        <4>3. d \in queue'
          BY <2>4, <3>1, <4>1, <4>2, Popped
        <4>4. Awaited(d)'
          BY <2>4, <3>1, <4>2, <4>3 DEF Awaited
        <4> QED BY <2>1, <4>4
      <3>4. CASE AuditRestrike
        <4>1. PICK q \in queue : Pop(q) /\ NewStrike(q, "restrike")
          BY <3>4 DEF AuditRestrike
        <4>2. Striking' /\ corrected' = corrected
          BY <3>4 DEF AuditRestrike, Striking
        <4>3. cur'.of = q /\ cur'.mode = "restrike" /\ cur'.step = "accrue"
          BY <4>1 DEF NewStrike
        <4>4. d # q => d \in queue'
          BY <2>4, <3>1, <4>1, Popped
        <4>5. CASE d = q
          <5>1. Awaited(d)'
            BY <4>2, <4>3, <4>5 DEF Awaited, Unwritten
          <5> QED BY <2>1, <5>1
        <4>6. CASE d # q
          <5>1. Awaited(d)'
            BY <2>4, <3>1, <4>2, <4>4, <4>6 DEF Awaited
          <5> QED BY <2>1, <5>1
        <4> QED BY <4>5, <4>6
      <3>5. ~StartJob /\ ~EndAudit
        BY <2>4 DEF StartJob, EndAudit, Control, Auditing
      <3>6. ~AuditUnsettled /\ ~AuditBlind
        BY <1>1 DEF AuditUnsettled, AuditBlind
      <3>7. ~AuditRebuild
        <4>1. AuditRebuild => Striking' /\ cur'.mode = "backfill"
          BY DEF AuditRebuild, NewStrike, Striking
        <4> QED BY <1>1, <4>1 DEF NoGap
      <3> QED BY <1>7, <3>3, <3>4, <3>5, <3>6, <3>7 DEF Audit
    <2>5. d \in OffBase
      BY <1>4, <2>1
    <2> QED BY <1>2, <2>1, <2>2, <2>3, <2>4, <2>5 DEF Awaited
  <1>8. CASE Ending
    <2>1. /\ Striking /\ rows' = rows /\ queue' = queue /\ day' = day /\ cur.mode # "backfill"
          /\ applyFailed \subseteq applyFailed' /\ corrected \subseteq corrected'
          /\ phase' = IF cur.mode # "live" THEN "audit" ELSE IF EndLive THEN "night" ELSE "failed"
          /\ applyFailed' = IF (FailCloses \/ Gate) /\ cur.mode = "restrike"
                            THEN applyFailed \cup {cur.of} ELSE applyFailed
          /\ cur.mode \in {"live", "restrike", "backfill"}
      BY <1>1, <1>8, EndingIs, InHand DEF NoGap
    <2>2. ~FailCloses
      BY <1>1 DEF FailCloses
    <2>3. ~Unwritten
      BY <1>8, <2>2 DEF Ending, Gate, EndLive, EndRebuild, EndRestrike, At, Unwritten
    <2>4. d \in OffBase /\ Prior(d)' = Prior(d)
      BY <1>4, <2>1
    <2>5. CASE Prior(d) \in applyFailed
      BY <1>5, <2>1, <2>5
    <2>6. CASE Awaited(d)
      <3>1. \/ d \in queue /\ (Prior(d) \in corrected \/ Prior(d) = cur.of)
            \/ d = day /\ cur.mode # "live"
        BY <2>1, <2>3, <2>6 DEF Awaited
      <3>2. cur.mode = "restrike"
        BY <2>1, <3>1 DEF Control
      <3>3. phase' = "audit" /\ Auditing' /\ ~Striking'
        BY <2>1, <3>2 DEF Auditing, Striking
      <3>4. CASE d = day
        <4>1. Awaited(d)'
          BY <2>1, <3>3, <3>4 DEF Awaited
        <4> QED BY <3>3, <4>1
      <3>5. CASE d \in queue /\ Prior(d) \in corrected
        <4>1. Awaited(d)'
          BY <2>1, <2>4, <3>5 DEF Awaited
        <4> QED BY <3>3, <4>1
      <3>6. CASE d \in queue /\ Prior(d) = cur.of
        <4>1. CASE Gate
          BY <2>1, <2>4, <3>2, <3>6, <4>1
        <4>2. CASE EndRestrike
          <5>1. cur.of \in corrected'
            BY <4>2 DEF EndRestrike
          <5>2. Awaited(d)'
            BY <2>1, <2>4, <3>6, <5>1 DEF Awaited
          <5> QED BY <3>3, <5>2
        <4>3. ~EndLive /\ ~EndRebuild
          BY <3>2 DEF EndLive, EndRebuild
        <4> QED BY <1>8, <2>2, <4>1, <4>2, <4>3 DEF Ending
      <3> QED BY <3>1, <3>4, <3>5, <3>6
    <2> QED BY <1>2, <2>4, <2>5, <2>6
  <1>9. CASE UNCHANGED vars
    <2>1. /\ rows' = rows /\ queue' = queue /\ corrected' = corrected /\ cur' = cur
          /\ phase' = phase /\ day' = day /\ applyFailed' = applyFailed
      BY <1>9 DEF vars, ledger, audit
    <2>2. d \in OffBase /\ Prior(d)' = Prior(d)
      BY <1>4, <2>1
    <2>3. Awaited(d) => Awaited(d)'
      BY <2>1, <2>2 DEF Awaited, Striking, Unwritten
    <2> QED BY <1>2, <2>1, <2>2, <2>3 DEF Auditing
  <1> QED BY <1>3, <1>6, <1>7, <1>8, <1>9 DEF Next, Run, StrikeStep, Ending

LEMMA CascadeHolds == Spec => [](NoGap /\ OffBaseAwaited)
  <1>1. Init => NoGap /\ OffBaseAwaited
    <2> SUFFICES ASSUME Init PROVE NoGap /\ OffBaseAwaited
      OBVIOUS
    <2>1. \A d \in Days : ~HasRow(d)
      BY DEF Init, HasRow
    <2>2. day = 1 /\ phase = "session" /\ 1 \in Days
      BY LedgerAssumption DEF Init, Days
    <2> QED BY <2>1, <2>2 DEF NoGap, OffBaseAwaited, OffBase, Striking
  <1>2. TypeInv /\ TypeInv' /\ NoGap /\ OffBaseAwaited /\ [Next]_vars => (NoGap /\ OffBaseAwaited)'
    BY NoGapNext, AwaitedNext
  <1> QED BY <1>1, <1>2, TypeHolds, PTL DEF Spec

\* As long as nothing failed from outside, when the audit ends a NAV change is
\* left over a NAV that has been replaced only where the re-strike of the row
\* before it raised.
THEOREM CorrectionsReachNext == Spec => []CorrectionsCascade
  <1>1. TypeInv /\ OffBaseAwaited => CorrectionsCascade
    <2> SUFFICES ASSUME TypeInv, OffBaseAwaited, Audited, failures = 0, NEW d \in OffBase, d < day
                 PROVE  Prior(d) \in applyFailed
      BY DEF CorrectionsCascade
    <2>1. d # day
      <3>1. d \in Nat
        BY DaysFinite DEF OffBase
      <3> QED BY <3>1
    <2> QED BY <2>1 DEF OffBaseAwaited, Awaited, Audited, Striking
  <1> QED BY <1>1, TypeHolds, CascadeHolds, PTL

-----------------------------------------------------------------------------
(* The entries of a session lead to the NAV of its row.                    *)

\* What an entry moves.
Size == [e \in Entry |-> e.to - e.from]

LEMMA EntryFacts ==
  /\ IsFiniteSet(Entry) /\ Size \in [Entry -> Int]
  /\ \A e \in Entry : e.of \in Days /\ e.from \in Nat /\ e.to \in Nat \ {0}
  <1> DEFINE Froms == Navs \cup {None}
  <1>1. Froms \subseteq Nat /\ Navs \subseteq Nat \ {0} /\ IsFiniteSet(Froms) /\ IsFiniteSet(Navs)
    <2>1. Navs \subseteq Nat \ {0} /\ IsFiniteSet(Navs)
      BY LedgerAssumption, FS_Interval DEF Navs
    <2>2. IsFiniteSet(Navs \cup {None})
      BY <2>1, FS_AddElement
    <2> QED BY <2>1, <2>2 DEF None
  <1>2. \A e \in Entry : e.of \in Days /\ e.from \in Froms /\ e.to \in Navs
    BY DEF Entry
  <1> HIDE DEF Froms
  <1>3. \A e \in Entry : e.from \in Nat /\ e.to \in Nat \ {0}
    BY <1>1, <1>2
  <1>4. Size \in [Entry -> Int]
    BY <1>3 DEF Size
  <1>5. IsFiniteSet(Days \X (Froms \X Navs))
    BY <1>1, DaysFinite, FS_Product
  <1> DEFINE f == [e \in Entry |-> <<e.of, <<e.from, e.to>>>>]
  <1>6. f \in Injection(Entry, Days \X (Froms \X Navs))
    <2>1. f \in [Entry -> Days \X (Froms \X Navs)]
      BY <1>2
    <2>2. \A a, b \in Entry : f[a] = f[b] => a = b
      BY DEF Entry
    <2> QED BY <2>1, <2>2 DEF Injection, IsInjective
  <1>7. IsFiniteSet(Entry)
    BY <1>5, <1>6, FS_Injection
  <1> QED BY <1>2, <1>3, <1>4, <1>7

LEMMA MovedIs ==
  ASSUME NEW J \in SUBSET Entry
  PROVE  MapThenSumSet(LAMBDA e : e.to - e.from, J) = Total(Size, J)
  <1> DEFINE F == [e \in J |-> e.to - e.from]
  <1>1. MapThenSumSet(LAMBDA e : e.to - e.from, J) = Total(F, J)
    BY DEF Total, MapThenSumSet, MapThenFoldSet
  <1>2. F \in [J -> Int] /\ \A e \in J : F[e] = Size[e]
    BY EntryFacts DEF Size
  <1>3. IsFiniteSet(J) /\ J \in SUBSET (J \cap Entry)
    BY EntryFacts, FS_Subset
  <1> HIDE DEF F
  <1>4. Total(F, J) = Total(Size, J)
    BY <1>2, <1>3, EntryFacts, TotalAgree
  <1> QED BY <1>1, <1>4

\* The entries of a session.
Of(J, d) == {e \in J : e.of = d}

LEMMA MovedTotal ==
  /\ journal \subseteq Entry => \A d : Moved(d) = Total(Size, Of(journal, d)) /\ Moved(d) \in Int
  /\ journal' \subseteq Entry => \A d : Moved(d)' = Total(Size, Of(journal', d))
  <1>1. ASSUME NEW J \in SUBSET Entry, NEW d
        PROVE  /\ MapThenSumSet(LAMBDA e : e.to - e.from, {e \in J : e.of = d}) = Total(Size, Of(J, d))
               /\ Total(Size, Of(J, d)) \in Int
    <2> DEFINE U == {e \in J : e.of = d}
    <2>1. U \in SUBSET Entry /\ U = Of(J, d)
      BY DEF Of
    <2> HIDE DEF U
    <2>2. Total(Size, U) \in Int
      BY <2>1, EntryFacts, TotalFacts
    <2>3. MapThenSumSet(LAMBDA e : e.to - e.from, U) = Total(Size, U)
      BY <2>1, MovedIs
    <2>4. Total(Size, U) = Total(Size, Of(J, d))
      BY <2>1
    <2>5. MapThenSumSet(LAMBDA e : e.to - e.from, U) = Total(Size, Of(J, d))
      BY <2>3, <2>4
    <2>6. Total(Size, Of(J, d)) \in Int
      BY <2>2, <2>4
    <2> QED BY <2>5, <2>6 DEF U
  <1>2. ASSUME journal \subseteq Entry, NEW d
        PROVE  Moved(d) = Total(Size, Of(journal, d)) /\ Moved(d) \in Int
    <2>1. Moved(d) = Total(Size, Of(journal, d))
      BY <1>1, <1>2 DEF Moved
    <2> QED BY <1>1, <1>2, <2>1
  <1>3. ASSUME journal' \subseteq Entry, NEW d
        PROVE  Moved(d)' = Total(Size, Of(journal', d))
    <2>1. Moved(d)' = MapThenSumSet(LAMBDA e : e.to - e.from, {e \in journal' : e.of = d})
      BY DEF Moved, MapThenSumSet, MapThenFoldSet
    <2> QED BY <1>1, <1>3, <2>1
  <1> QED BY <1>2, <1>3

\* Posting moves the books of one session,
LEMMA PostedElse ==
  ASSUME journal \subseteq Entry, journal' \subseteq Entry, NEW d, NEW from, NEW to,
         Post(d, from, to)
  PROVE  /\ \A x : x # d => Moved(x)' = Moved(x)
         /\ \A e \in journal' : e \in journal \/ (e.of = d /\ e.to = to)
  <1> DEFINE new == [of |-> d, from |-> from, to |-> to]
  <1>1. journal' = journal \/ journal' = journal \cup {new}
    BY DEF Post
  <1>2. new.of = d /\ new.to = to
    OBVIOUS
  <1> HIDE DEF new
  <1>3. ASSUME NEW x, x # d PROVE Moved(x)' = Moved(x)
    <2>1. Of(journal', x) = Of(journal, x)
      BY <1>1, <1>2, <1>3 DEF Of
    <2>2. Total(Size, Of(journal', x)) = Total(Size, Of(journal, x))
      BY <2>1
    <2> QED BY <2>2, MovedTotal
  <1> QED BY <1>1, <1>2, <1>3

\* by what the entry says.
LEMMA Posted ==
  ASSUME journal \subseteq Entry, journal' \subseteq Entry, NEW d \in Days,
         NEW from \in Nat, NEW to \in Nat \ {0}, Post(d, from, to),
         from <= to, \A e \in journal : e.of = d => e.to <= from
  PROVE  Moved(d)' = Moved(d) + (to - from)
  <1> DEFINE new == [of |-> d, from |-> from, to |-> to]
  <1>1. CASE from = to
    <2>1. journal' = journal
      BY <1>1 DEF Post
    <2>2. \A x : Moved(x)' = Moved(x) /\ Moved(x) \in Int
      BY <2>1, MovedTotal
    <2> QED BY <1>1, <2>2
  <1>2. CASE from # to
    <2>1. journal' = journal \cup {new} /\ new \in Entry /\ new.of = d /\ new.to = to /\ new.from = from
      BY <1>2 DEF Post
    <2>2. new \notin journal
      BY <1>2, <2>1
    <2> HIDE DEF new
    <2>3. Of(journal', d) = Of(journal, d) \cup {new} /\ new \notin Of(journal, d)
      BY <2>1, <2>2 DEF Of
    <2>4. Of(journal, d) \in SUBSET Entry
      BY DEF Of
    <2>5. Total(Size, Of(journal, d) \cup {new}) = Size[new] + Total(Size, Of(journal, d))
      BY <2>1, <2>3, <2>4, EntryFacts, TotalAdd
    <2>6. Size[new] = to - from
      BY <2>1 DEF Size
    <2>7. Total(Size, Of(journal', d)) = (to - from) + Total(Size, Of(journal, d))
      BY <2>3, <2>5, <2>6
    <2>8. Moved(d)' = (to - from) + Moved(d) /\ Moved(d) \in Int
      BY <2>7, MovedTotal
    <2> QED BY <2>8
  <1> QED BY <1>1, <1>2

\* What a step has to leave of the books of the other sessions, and to make of
\* those of one.
LEMMA BooksMoved ==
  ASSUME TypeInv, TypeInv', JournalInv, failures = 0, NEW d \in Days,
         applyFailed \subseteq applyFailed', OpeningPosted',
         \A x \in Days : rows[x].pos <= rows'[x].pos /\ rows'[x].pos <= pos'[x],
         \A x \in Days \ applyFailed' : x # d => Moved(x)' = Moved(x) /\ Booked(x)' = Booked(x),
         \A e \in journal' : e \in journal \/ e.of = d,
         d \notin applyFailed' =>
           /\ Moved(d)' = Booked(d)' /\ Booked(d)' <= rows'[d].pos
           /\ \A e \in journal' : e.of = d => e.to <= Booked(d)'
  PROVE  JournalInv'
  <1>1. \A e \in journal' : e.of \in Days
    BY EntryFacts DEF TypeInv, TypeOK
  <1>2. ASSUME NEW x \in Days \ applyFailed'
        PROVE  Moved(x)' = Booked(x)' /\ Booked(x)' <= rows'[x].pos
    <2>1. CASE x = d
      BY <2>1
    <2>2. CASE x # d
      <3>1. x \notin applyFailed
        OBVIOUS
      <3>2. Moved(x) = Booked(x) /\ Booked(x) <= rows[x].pos
        BY <3>1 DEF JournalInv
      <3>3. Moved(x) \in Int
        BY MovedTotal DEF TypeInv, TypeOK
      <3>4. rows[x].pos \in Int /\ rows'[x].pos \in Int
        BY RowFacts, RowFactsNext DEF TypeInv, None
      <3>5. rows[x].pos <= rows'[x].pos
        OBVIOUS
      <3>6. Moved(x)' = Moved(x) /\ Booked(x)' = Booked(x)
        BY <2>2
      <3> QED BY <3>2, <3>3, <3>4, <3>5, <3>6
    <2> QED BY <2>1, <2>2
  <1>3. ASSUME NEW e \in journal', e.of \notin applyFailed' PROVE e.to <= Booked(e.of)'
    <2>1. PICK x \in Days : x = e.of
      BY <1>1, <1>3
    <2>2. Booked(e.of)' = Booked(x)'
      BY <2>1 DEF Booked
    <2>3. CASE x = d
      BY <1>3, <2>1, <2>2, <2>3
    <2>4. CASE x # d
      <3>1. e \in journal /\ e.of \notin applyFailed
        BY <1>3, <2>1, <2>4
      <3>2. e.to <= Booked(x)
        BY <2>1, <3>1 DEF JournalInv
      <3>3. Booked(x)' = Booked(x)
        BY <1>3, <2>1, <2>4
      <3> QED BY <2>2, <3>2, <3>3
    <2> QED BY <2>3, <2>4
  <1>4. \A x \in Days : rows'[x].pos <= pos'[x]
    OBVIOUS
  <1> QED BY <1>2, <1>3, <1>4 DEF JournalInv

\* While no entry is posted and what is booked stays, so do the books.
LEMMA BooksKept ==
  ASSUME TypeInv, TypeInv', JournalInv, failures = 0, journal' = journal,
         applyFailed \subseteq applyFailed', OpeningPosted',
         \A x \in Days : rows[x].pos <= rows'[x].pos /\ rows'[x].pos <= pos'[x],
         \A x \in Days \ applyFailed' : Booked(x)' = Booked(x)
  PROVE  JournalInv'
  <1>1. \A x : Moved(x)' = Moved(x) /\ Moved(x) \in Int
    <2>1. journal \subseteq Entry
      BY DEF TypeInv, TypeOK
    <2>2. \A x : Moved(x)' = Total(Size, Of(journal', x))
      BY <2>1, MovedTotal
    <2>3. \A x : Of(journal', x) = Of(journal, x)
      BY DEF Of
    <2>4. \A x : Total(Size, Of(journal', x)) = Total(Size, Of(journal, x))
      BY <2>3
    <2> QED BY <2>1, <2>2, <2>4, MovedTotal
  <1>2. PICK d \in Days : d = day
    BY DEF TypeInv, TypeOK
  <1>3. ASSUME d \notin applyFailed'
        PROVE  /\ Moved(d)' = Booked(d)' /\ Booked(d)' <= rows'[d].pos
               /\ \A e \in journal' : e.of = d => e.to <= Booked(d)'
    <2>1. d \notin applyFailed
      BY <1>3
    <2>2. /\ Moved(d) = Booked(d) /\ Booked(d) <= rows[d].pos
          /\ \A e \in journal : e.of = d => e.to <= Booked(d)
      BY <2>1 DEF JournalInv
    <2>3. rows[d].pos \in Int /\ rows'[d].pos \in Int /\ rows[d].pos <= rows'[d].pos
      BY RowFacts, RowFactsNext DEF TypeInv, None
    <2>4. Booked(d)' = Booked(d)
      BY <1>3
    <2> QED BY <1>1, <2>2, <2>3, <2>4
  <1> QED BY <1>1, <1>3, BooksMoved

\* What is booked outside a strike, and in one for the other sessions.
LEMMA BookedElse ==
  ASSUME NEW d
  PROVE  /\ ~Striking \/ d # cur.of => Booked(d) = rows[d].pos
         /\ ~Striking' \/ d # cur'.of => Booked(d)' = rows'[d].pos
  BY DEF Booked

\* Today's opening entry stays where it is.
LEMMA OpeningKept ==
  ASSUME TypeOK, OpeningPosted, day' = day, pos' = pos, journal \subseteq journal',
         phase # "session" \/ phase' = "session",
         \A d \in Days : d = day => Booked(d)' = Booked(d)
  PROVE  OpeningPosted'
  <1>1. PICK d \in Days : d = day
    BY DEF TypeOK
  <1>2. Booked(day)' = Booked(d)' /\ Booked(day) = Booked(d)
    BY <1>1 DEF Booked
  <1>3. Booked(d)' = Booked(d)
    BY <1>1
  <1>4. Opening' = Opening
    BY DEF Opening
  <1>5. phase' = "session" => OpeningPosted'
    BY DEF OpeningPosted
  <1>6. CASE phase # "session"
    <2>1. Booked(d) # None => Opening \in journal /\ Booked(d) = pos[d]
      BY <1>1, <1>2, <1>6 DEF OpeningPosted
    <2>2. Booked(day)' # None => Opening' \in journal' /\ Booked(day)' = pos'[day']
      BY <1>1, <1>2, <1>3, <1>4, <2>1
    <2> QED BY <2>2 DEF OpeningPosted
  <1> QED BY <1>5, <1>6

LEMMA JournalAudit ==
  ASSUME TypeInv, TypeInv', NoGap, NoGap', JournalInv, Audit, failures = 0, failures' = 0
  PROVE  JournalInv'
  <1> USE DEF TypeInv
  <1>1. /\ rows' = rows /\ journal' = journal /\ pos' = pos /\ ~Striking /\ day' = day
        /\ applyFailed' = applyFailed /\ phase # "session"
    BY DEF Audit, StartJob, AuditClean, AuditRestrike, AuditUnsettled, AuditBlind, AuditRebuild,
       AuditGap, EndAudit, ledger, inputs, audit, Striking
  <1>2. \A d \in Days : rows[d].pos \in Int /\ rows[d].pos <= pos[d]
    BY RowFacts DEF JournalInv, None
  <1>3. \A d \in Days : Booked(d) = rows[d].pos
    BY <1>1, BookedElse
  <1>4. SUFFICES \A d \in Days : Booked(d)' = rows[d].pos
    <2>1. \A d \in Days : Booked(d)' = Booked(d)
      BY <1>3, <1>4
    <2>2. OpeningPosted'
      BY <1>1, <2>1, OpeningKept DEF JournalInv
    <2> QED BY <1>1, <1>2, <2>1, <2>2, BooksKept
  <1>5. CASE ~Striking'
    BY <1>1, <1>5, BookedElse
  <1>6. CASE AuditRestrike
    <2>1. PICK q \in queue : NewStrike(q, "restrike")
      BY <1>6 DEF AuditRestrike
    <2>2. q \in Days
      BY DEF TypeOK
    <2>3. cur'.of = q /\ cur'.mode = "restrike" /\ cur'.before = rows[q].pos
      BY <2>1, <2>2, NewStrikeType
    <2> QED BY <1>1, <2>3 DEF Booked
  <1>7. CASE EndAudit
    <2>1. day \in Days /\ NewStrike(day, "live")
      BY <1>7 DEF EndAudit, TypeOK
    <2>2. cur'.of = day /\ cur'.mode = "live" /\ cur'.step = "accrue" /\ cur'.before = rows[day].pos
      BY <2>1, NewStrikeType
    <2> QED BY <1>1, <2>2 DEF Booked
  <1>8. ~AuditRebuild
    <2>1. AuditRebuild => Striking' /\ cur'.mode = "backfill"
      BY DEF AuditRebuild, NewStrike, Striking
    <2> QED BY <2>1 DEF NoGap
  <1>9. AuditRestrike \/ EndAudit \/ AuditRebuild \/ ~Striking'
    BY DEF Audit, StartJob, AuditClean, AuditUnsettled, AuditBlind, AuditGap, Striking
  <1> QED BY <1>5, <1>6, <1>7, <1>8, <1>9

\* The live strike of today's session opens its books, or finds them open.
LEMMA JournalOpens ==
  ASSUME TypeInv, TypeInv', CheckedAreSettled, JournalInv, PostMark, cur.mode = "live",
         failures = 0, failures' = 0
  PROVE  JournalInv'
  <1> USE DEF TypeInv
  <1>1. StrikeStep
    BY DEF StrikeStep
  <1>2. /\ Striking /\ Striking' /\ cur.of \in Days /\ cur'.of = cur.of /\ cur'.mode = "live"
        /\ pos' = pos /\ day' = day /\ applyFailed' = applyFailed /\ rows' = rows
        /\ cur.step = "journal" /\ cur'.step = "heal"
    BY <1>1, HandOn, InHand DEF inputs, PostMark, At
  <1>3. PICK d \in Days : d = day
    BY DEF TypeOK
  <1>4. cur.of = d
    BY <1>2, <1>3 DEF Control
  <1>5. d \notin applyFailed
    <2>1. d \in Nat
      BY DaysFinite
    <2> QED BY <1>3, <2>1 DEF Control
  <1>6. Booked(d) = cur.before /\ Booked(d)' = rows[d].pos /\ rows[d].pos = pos[d]
    <2>1. OnSettled(cur.of)
      BY <1>2 DEF CheckedAreSettled, Unwritten
    <2> QED BY <1>2, <1>4, <2>1 DEF Booked, OnSettled
  <1>7. \A x \in Days : x # d => Booked(x)' = Booked(x)
    BY <1>2, <1>4, BookedElse
  <1>8. \A x \in Days : /\ rows[x].pos \in Int /\ rows[x].pos <= pos[x]
                        /\ rows[x].pos <= rows'[x].pos /\ rows'[x].pos <= pos'[x]
    BY <1>2, RowFacts DEF JournalInv, None
  <1>9. journal \subseteq Entry /\ journal' \subseteq Entry /\ pos[d] \in Nat \ {0}
    BY RowFacts DEF TypeOK
  <1>10. Post(d, 0, pos[d])
    BY <1>2, <1>4 DEF PostMark
  <1>11. Opening = [of |-> d, from |-> 0, to |-> pos[d]]
    BY <1>3 DEF Opening, None
  <1>12. journal' = journal \cup {Opening}
    BY <1>9, <1>10, <1>11 DEF Post
  <1>13. CASE cur.before = None
    <2>1. \A e \in journal : e.of = d => e.to <= 0
      BY <1>5, <1>6, <1>13 DEF JournalInv, None
    <2>2. Moved(d) = 0
      BY <1>5, <1>6, <1>13 DEF JournalInv, None
    <2> DEFINE v == pos[d]
    <2>3. v \in Nat \ {0} /\ 0 \in Nat /\ 0 <= v /\ Post(d, 0, v)
      BY <1>9, <1>10
    <2>4. Moved(d)' = Moved(d) + (v - 0)
      <3> HIDE DEF v
      <3> QED BY <1>9, <2>1, <2>3, Posted
    <2>5. /\ \A x : x # d => Moved(x)' = Moved(x)
          /\ \A e \in journal' : e \in journal \/ (e.of = d /\ e.to = v)
      <3> HIDE DEF v
      <3> QED BY <1>9, <2>3, PostedElse
    <2>6. Moved(d)' = Booked(d)' /\ Booked(d)' <= rows'[d].pos
      <3>1. Moved(d)' = v
        BY <2>2, <2>3, <2>4
      <3> QED BY <1>2, <1>6, <1>8, <3>1
    <2>7. ASSUME NEW e \in journal', e.of = d PROVE e.to <= Booked(d)'
      <3>1. e.to \in Int /\ (e.to <= 0 \/ e.to = v)
        BY <1>9, <2>1, <2>5, <2>7, EntryFacts
      <3> QED BY <1>6, <2>3, <3>1
    <2>8. OpeningPosted'
      <3>1. Opening' \in journal'
        BY <1>2, <1>12 DEF Opening
      <3>2. Booked(day)' = Booked(d)'
        BY <1>2, <1>3 DEF Booked
      <3> QED BY <1>2, <1>3, <1>6, <3>1, <3>2 DEF OpeningPosted
    <2>9. \A x \in Days \ applyFailed' : x # d => Moved(x)' = Moved(x) /\ Booked(x)' = Booked(x)
      BY <1>7, <2>5
    <2> QED BY <1>2, <1>8, <2>5, <2>6, <2>7, <2>8, <2>9, BooksMoved
  <1>14. CASE cur.before # None
    <2>1. Opening \in journal /\ Booked(d) = pos[d]
      <3>1. Booked(day) = Booked(d)
        BY <1>3
      <3>2. phase # "session"
        BY <1>2 DEF Striking
      <3> QED BY <1>3, <1>6, <1>14, <3>1, <3>2 DEF JournalInv, OpeningPosted
    <2>2. journal' = journal
      BY <1>12, <2>1
    <2>3. \A x \in Days : Booked(x)' = Booked(x)
      BY <1>6, <1>7, <2>1
    <2>4. OpeningPosted'
      BY <1>2, <2>2, <2>3, OpeningKept DEF JournalInv, Striking
    <2> QED BY <1>2, <1>8, <2>2, <2>3, <2>4, BooksKept
  <1> QED BY <1>13, <1>14

LEMMA JournalStrikeStep ==
  ASSUME TypeInv, TypeInv', CheckedAreSettled, NoGap, JournalInv, StrikeStep,
         failures = 0, failures' = 0
  PROVE  JournalInv'
  <1> USE DEF TypeInv
  <1>1. /\ Striking /\ Striking' /\ cur.of \in Days /\ cur'.of = cur.of /\ cur'.mode = cur.mode
        /\ cur'.before = cur.before /\ pos' = pos /\ day' = day /\ applyFailed' = applyFailed
        /\ cur.mode \in {"live", "restrike"} /\ phase # "session"
    BY HandOn, InHand DEF inputs, NoGap, Striking
  <1>2. CASE PostMark /\ cur.mode = "live"
    BY <1>2, JournalOpens
  <1>3. CASE ~(PostMark /\ cur.mode = "live")
    <2>1. \A d \in Days : rows[d].pos \in Int /\ rows[d].pos <= pos[d]
      BY RowFacts DEF JournalInv, None
    <2>2. \A d \in Days : d # cur.of \/ ~WriteRow => rows'[d].pos = rows[d].pos
      BY OtherRows
    <2>3. \A d \in Days : rows[d].pos <= rows'[d].pos /\ rows'[d].pos <= pos'[d]
      <3>1. WriteRow => rows'[cur.of].pos = pos[cur.of]
        BY OtherRows DEF Struck
      <3>2. \A d \in Days : pos[d] \in Int
        BY RowFacts DEF TypeOK
      <3> QED BY <1>1, <2>1, <2>2, <3>1, <3>2
    <2>4. journal' = journal
      BY <1>1, <1>3 DEF StrikeStep, Accrue, Settle, WriteRow, PostMark, Heal, Report, ledger
    <2>5. PICK d \in Days : d = cur.of
      BY <1>1
    <2>6. Booked(d)' = Booked(d)
      <3>1. CASE cur.mode = "restrike"
        BY <1>1, <2>5, <3>1 DEF Booked
      <3>2. CASE Accrue \/ Settle \/ WriteRow
        <4>1. cur.step \in {"accrue", "settle", "write"}
          BY <3>2 DEF Accrue, Settle, WriteRow, At
        <4>2. cur'.step \in {"settle", "write", "journal"}
          BY <4>1, HandOn
        <4> QED BY <1>1, <2>5, <4>1, <4>2 DEF Booked
      <3>3. CASE Heal \/ Report
        <4>1. /\ cur.step \in {"heal", "report"}
              /\ cur'.step \in {"report", "end"}
          BY <3>3, HandOn DEF Heal, Report, At
        <4>2. rows'[d].pos = rows[d].pos
          <5>1. ~WriteRow
            BY <4>1 DEF WriteRow, At
          <5> QED BY <2>2, <5>1
        <4> QED BY <1>1, <2>5, <4>1, <4>2 DEF Booked
      <3> QED BY <1>1, <1>3, <3>1, <3>2, <3>3 DEF StrikeStep
    <2>7. \A x \in Days : Booked(x)' = Booked(x)
      <3>1. \A x \in Days : x # cur.of => Booked(x)' = Booked(x)
        BY <1>1, <2>2, BookedElse
      <3> QED BY <2>5, <2>6, <3>1
    <2>8. OpeningPosted'
      BY <1>1, <2>4, <2>7, OpeningKept DEF JournalInv
    <2> QED BY <1>1, <2>3, <2>4, <2>7, <2>8, BooksKept
  <1> QED BY <1>2, <1>3

LEMMA JournalEnding ==
  ASSUME TypeInv, TypeInv', NoGap, JournalInv, Ending, failures = 0, failures' = 0
  PROVE  JournalInv'
  <1> USE DEF TypeInv
  <1>1. /\ Striking /\ ~Striking' /\ rows' = rows /\ pos' = pos /\ cur.of \in Days /\ day' = day
        /\ cur \in Strike /\ phase # "session" /\ cur.mode \in {"live", "restrike"}
        /\ (~EndRestrike => journal' = journal)
        /\ applyFailed' = IF (FailCloses \/ Gate) /\ cur.mode = "restrike"
                          THEN applyFailed \cup {cur.of} ELSE applyFailed
        /\ cur.mode = "restrike" => cur.of # day
    BY EndingIs, InHand DEF inputs, Striking, NoGap
  <1>2. \A d \in Days : /\ rows[d].pos \in Int /\ rows[d].pos <= pos[d]
                        /\ rows[d].pos <= rows'[d].pos /\ rows'[d].pos <= pos'[d]
    BY <1>1, RowFacts DEF JournalInv, None
  <1>3. \A d \in Days : Booked(d)' = rows[d].pos /\ (d # cur.of => Booked(d) = rows[d].pos)
    BY <1>1, BookedElse
  <1>4. PICK d \in Days : d = cur.of
    BY <1>1
  <1>5. cur.step = "end"
    <2>1. ~FailCloses
      BY DEF FailCloses
    <2> QED BY <2>1 DEF Ending, Gate, EndLive, EndRebuild, EndRestrike, At
  <1>6. cur.mode = "live" => Booked(d) = rows[d].pos
    BY <1>1, <1>4, <1>5 DEF Booked
  <1>7. journal \subseteq journal'
    BY <1>1 DEF EndRestrike, Post
  <1>8. OpeningPosted'
    <2>1. \A x \in Days : x = day => Booked(x)' = Booked(x)
      BY <1>1, <1>3, <1>4, <1>6
    <2> QED BY <1>1, <1>7, <2>1, OpeningKept DEF JournalInv
  <1>9. CASE ~EndRestrike
    <2>1. applyFailed \subseteq applyFailed' /\ (cur.mode = "restrike" => cur.of \in applyFailed')
      <3>1. cur.mode = "restrike" => Gate \/ FailCloses
        BY <1>9 DEF Ending, EndLive, EndRebuild
      <3> QED BY <1>1, <3>1
    <2>2. \A x \in Days \ applyFailed' : Booked(x)' = Booked(x)
      BY <1>1, <1>3, <1>4, <1>6, <2>1
    <2> QED BY <1>1, <1>2, <1>8, <1>9, <2>1, <2>2, BooksKept
  <1>10. CASE EndRestrike
    <2> DEFINE from == cur.before
               to   == rows[d].pos
    <2>1. cur.mode = "restrike" /\ Post(d, from, to) /\ applyFailed' = applyFailed
      BY <1>4, <1>10 DEF EndRestrike
    <2>2. HasRow(d)
      <3>1. HasRow(cur.of)
        BY <1>1, <2>1 DEF Control
      <3> QED BY <1>4, <3>1
    <2>3. from \in Nat /\ to \in Nat \ {0}
      <3>1. from \in Navs \cup {None}
        BY <1>1 DEF Strike
      <3>2. to \in Navs
        BY <2>2, RowFacts
      <3> QED BY <3>1, <3>2, RowFacts DEF None
    <2>4. journal \subseteq Entry /\ journal' \subseteq Entry
      BY DEF TypeOK
    <2>5. Booked(d) = from /\ Booked(d)' = to
      BY <1>1, <1>3, <1>4, <2>1 DEF Booked
    <2> HIDE DEF from, to
    <2>6. /\ \A x : x # d => Moved(x)' = Moved(x)
          /\ \A e \in journal' : e \in journal \/ (e.of = d /\ e.to = to)
      BY <2>1, <2>4, PostedElse
    <2>7. ASSUME d \notin applyFailed'
          PROVE  /\ Moved(d)' = Booked(d)' /\ Booked(d)' <= rows'[d].pos
                 /\ \A e \in journal' : e.of = d => e.to <= Booked(d)'
      <3>1. d \notin applyFailed
        BY <2>1, <2>7
      <3>2. Moved(d) = Booked(d) /\ Booked(d) <= rows[d].pos
        BY <3>1 DEF JournalInv
      <3>3. \A e \in journal : e.of = d => e.to <= from
        BY <2>5, <3>1 DEF JournalInv
      <3>4. from <= to /\ to <= rows'[d].pos
        <4>1. to = rows[d].pos
          BY DEF to
        <4> QED BY <1>2, <2>5, <3>2, <4>1
      <3>5. Moved(d)' = Moved(d) + (to - from)
        BY <2>1, <2>3, <2>4, <3>3, <3>4, Posted
      <3>6. Moved(d)' = to
        BY <2>3, <2>5, <3>2, <3>5
      <3>7. ASSUME NEW e \in journal', e.of = d PROVE e.to <= to
        <4>1. e.to \in Int /\ (e.to <= from \/ e.to = to)
          BY <2>4, <2>6, <3>3, <3>7, EntryFacts
        <4> QED BY <2>3, <3>4, <4>1
      <3> QED BY <2>5, <3>4, <3>6, <3>7
    <2>8. \A x \in Days \ applyFailed' : x # d => Moved(x)' = Moved(x) /\ Booked(x)' = Booked(x)
      BY <1>3, <1>4, <2>6
    <2>9. \A e \in journal' : e \in journal \/ e.of = d
      BY <2>6
    <2> QED BY <1>2, <1>8, <2>1, <2>7, <2>8, <2>9, BooksMoved
  <1> QED BY <1>9, <1>10

LEMMA JournalNext ==
  ASSUME TypeInv, TypeInv', CheckedAreSettled, NoGap, NoGap', JournalInv, [Next]_vars
  PROVE  JournalInv'
  <1> SUFFICES ASSUME failures' = 0 PROVE JournalInv'
    BY DEF JournalInv
  <1>1. failures = 0 /\ failures' # failures + 1
    BY FailuresGrow
  <1>2. \A d \in Days : rows[d].pos \in Int /\ rows[d].pos <= pos[d] /\ pos[d] \in Nat
    BY <1>1, RowFacts DEF JournalInv, TypeInv, TypeOK, None
  <1>3. CASE Session
    <2>1. /\ rows' = rows /\ journal' = journal /\ ~Striking /\ ~Striking'
          /\ applyFailed' = applyFailed
      BY <1>3 DEF Session, Capture, SkipSession, Revise, NextDay, ledger, audit, Striking
    <2>2. \A d \in Days : pos[d] <= pos'[d]
      <3>1. CASE Revise
        <4>1. CASE pos' = pos
          BY <1>2, <4>1
        <4>2. CASE \E d \in 1 .. day - 1, m \in Moves : pos' = [pos EXCEPT ![d] = @ + m]
          <5>1. PICK d \in 1 .. day - 1, m \in Moves : pos' = [pos EXCEPT ![d] = @ + m]
            BY <4>2
          <5>2. pos \in [Days -> Navs] /\ m \in Nat
            BY LedgerAssumption DEF TypeInv, TypeOK
          <5>3. \A e \in Days : pos'[e] = pos[e] \/ pos'[e] = pos[e] + m
            BY <5>1, <5>2
          <5> QED BY <1>2, <5>2, <5>3
        <4> QED BY <3>1, <4>1, <4>2 DEF Revise
      <3>2. CASE ~Revise
        BY <1>2, <1>3, <3>2 DEF Session, Capture, SkipSession, NextDay, inputs
      <3> QED BY <3>1, <3>2
    <2>3. \A d \in Days : rows'[d].pos <= pos'[d]
      <3>1. \A d \in Days : pos'[d] \in Int
        <4>1. pos' \in [Days -> Navs]
          BY DEF TypeInv, TypeOK
        <4> QED BY <4>1, RowFacts DEF TypeInv
      <3> QED BY <1>2, <2>1, <2>2, <3>1
    <2>4. OpeningPosted'
      <3>1. CASE phase' = "session"
        BY <3>1 DEF OpeningPosted
      <3>2. CASE phase' # "session"
        <4>1. Capture
          BY <1>1, <1>3, <3>2 DEF Session, SkipSession, Revise, NextDay
        <4>2. ~HasRow(day) /\ day' = day
          BY <1>1, <4>1 DEF Capture, NoGap
        <4>3. PICK d \in Days : d = day
          BY DEF TypeInv, TypeOK
        <4>4. rows[d].pos = None
          BY <4>2, <4>3, RowFacts DEF TypeInv
        <4>5. Booked(day)' = None
          BY <2>1, <4>2, <4>3, <4>4 DEF Booked
        <4> QED BY <4>5 DEF OpeningPosted
      <3> QED BY <3>1, <3>2
    <2> QED BY <1>1, <1>2, <2>1, <2>3, <2>4, BooksKept, BookedElse
  <1>4. CASE Audit
    BY <1>1, <1>4, JournalAudit
  <1>5. CASE StrikeStep
    BY <1>1, <1>5, JournalStrikeStep
  <1>6. CASE Ending
    BY <1>1, <1>6, JournalEnding
  <1>7. CASE Crash \/ Rerun \/ UNCHANGED vars
    <2>1. /\ rows' = rows /\ journal' = journal /\ pos' = pos /\ day' = day
          /\ applyFailed' = applyFailed /\ (phase # "session" \/ phase' = "session")
      BY <1>1, <1>7 DEF Crash, Rerun, vars, ledger, inputs, audit
    <2>2. \A d : Booked(d)' = Booked(d)
      <3>1. CASE Rerun
        <4>1. ~Striking /\ ~Striking'
          BY <3>1 DEF Rerun, Striking
        <4> QED BY <2>1, <4>1 DEF Booked
      <3>2. CASE UNCHANGED vars
        BY <2>1, <3>2 DEF vars, Booked, Striking
      <3> QED BY <1>1, <1>7, <3>1, <3>2 DEF Crash
    <2>3. OpeningPosted'
      BY <1>1, <2>1, <2>2, OpeningKept DEF JournalInv, TypeInv
    <2> QED BY <1>1, <1>2, <2>1, <2>2, <2>3, BooksKept
  <1> QED BY <1>3, <1>4, <1>5, <1>6, <1>7 DEF Next, Run, StrikeStep, Ending

LEMMA JournalInit == Init => JournalInv
  <1> SUFFICES ASSUME Init PROVE JournalInv
    OBVIOUS
  <1>1. /\ journal = {} /\ journal \subseteq Entry /\ ~Striking /\ phase = "session"
        /\ \A d \in Days : rows[d].pos = 0 /\ pos[d] = 1
    BY DEF Init, Striking, NoRow, None
  <1>2. ASSUME NEW d \in Days PROVE Moved(d) = 0
    <2>1. Of(journal, d) = {}
      BY <1>1 DEF Of
    <2>2. Total(Size, {}) = 0
      BY EntryFacts, TotalFacts
    <2> QED BY <1>1, <2>1, <2>2, MovedTotal
  <1> QED BY <1>1, <1>2, BookedElse DEF JournalInv, OpeningPosted

\* As long as nothing failed from outside, between jobs the entries of every
\* session no re-strike of which raised lead from the broker's NAV to the NAV of
\* its row: no NAV is restated without its entry (_post_restrike_entry).
THEOREM RestatedWithEntry == Spec => []JournaledUnlessFailed
  <1>1. TypeInv /\ TypeInv' /\ CheckedAreSettled /\ NoGap /\ NoGap' /\ JournalInv /\ [Next]_vars
          => JournalInv'
    BY JournalNext
  <1>2. JournalInv => JournaledUnlessFailed
    <2> SUFFICES ASSUME JournalInv, failures = 0, phase \in {"session", "night"},
                        NEW d \in Days \ applyFailed
                 PROVE  Moved(d) = rows[d].pos
      BY DEF JournaledUnlessFailed, RestatementJournaled
    <2> QED BY BookedElse DEF JournalInv, Striking
  <1> QED BY <1>1, <1>2, JournalInit, TypeHolds, SettledHolds, CascadeHolds, PTL DEF Spec

-----------------------------------------------------------------------------
(* What is released was settled.                                           *)

LEMMA SettledFinite ==
  ASSUME TypeOK
  PROVE  IsFiniteSet(accruals) /\ \A d : IsFiniteSet(SettledOn(d)) /\ Cardinality(SettledOn(d)) \in Nat
  <1>1. IsFiniteSet(accruals)
    BY AccrualFinite, FS_Subset DEF TypeOK
  <1>2. \A d : SettledOn(d) \in SUBSET accruals
    BY DEF SettledOn
  <1>3. \A d : IsFiniteSet(SettledOn(d))
    BY <1>1, <1>2, FS_Subset
  <1> QED BY <1>1, <1>3, FS_CardinalityType

\* What was settled on a session stays so.
LEMMA SettledGrows ==
  ASSUME TypeInv, TypeInv', [Next]_vars, NEW d \in Days
  PROVE  /\ SettledOn(d) \subseteq SettledOn(d)'
         /\ IsFiniteSet(SettledOn(d)')
         /\ Cardinality(SettledOn(d)) \in Nat /\ Cardinality(SettledOn(d))' \in Nat
         /\ Cardinality(SettledOn(d)) <= Cardinality(SettledOn(d))'
  <1>1. IsFiniteSet(SettledOn(d)')
    <2>1. accruals' \in SUBSET Accrual
      BY DEF TypeInv, TypeOK
    <2>2. SettledOn(d)' \in SUBSET Accrual
      BY <2>1 DEF SettledOn
    <2> QED BY <2>2, AccrualFinite, FS_Subset
  <1>2. SettledOn(d) \subseteq SettledOn(d)'
    <2>1. CASE Accrue
      <3>1. accruals \subseteq accruals'
        BY <2>1 DEF Accrue
      <3> QED BY <3>1 DEF SettledOn
    <2>2. CASE Settle
      <3>1. ASSUME NEW a \in accruals, a.settled = d PROVE a \in accruals'
        <4>1. a \notin Due(cur.of)
          BY <3>1, DaysFinite DEF Due, None
        <4> QED BY <2>2, <4>1 DEF Settle
      <3> QED BY <3>1 DEF SettledOn
    <2>3. CASE ~Accrue /\ ~Settle
      <3>1. accruals' = accruals
        <4>1. CASE Ending
          BY <4>1, EndingIs DEF TypeInv
        <4>2. CASE ~Ending
          BY <2>3, <4>2 DEF Next, Session, Audit, Run, Ending, Capture, SkipSession, Revise, NextDay,
             StartJob, AuditClean, AuditRestrike, AuditUnsettled, AuditBlind, AuditRebuild, AuditGap,
             EndAudit, WriteRow, PostMark, Heal, Report, Crash, Rerun, ledger, vars
        <4> QED BY <4>1, <4>2
      <3> QED BY <3>1 DEF SettledOn
    <2> QED BY <2>1, <2>2, <2>3
  <1>3. Cardinality(SettledOn(d)) <= Cardinality(SettledOn(d)')
    BY <1>1, <1>2, FS_Subset
  <1> QED BY <1>1, <1>2, <1>3, SettledFinite, FS_CardinalityType DEF TypeInv

\* A settlement releases as many accruals as it settles on its session.
LEMMA ReleasedBySettle ==
  ASSUME TypeInv, TypeInv', Settle
  PROVE  cur'.released <= Cardinality(SettledOn(cur.of))'
  <1> USE DEF TypeInv
  <1> DEFINE due == Due(cur.of)
             f == [a \in due |-> [a EXCEPT !.settled = cur.of]]
  <1>1. cur \in Strike /\ cur.of \in Days
    <2>1. Striking
      BY DEF Settle, At, Striking
    <2> QED BY <2>1, InHand
  <1>2. cur'.released = Cardinality(due)
    BY <1>1 DEF Settle, Strike
  <1>3. due \subseteq Accrual /\ \A a \in due : a.settled = None
    BY DEF Due, TypeOK
  <1>4. \A a \in due : f[a] \in SettledOn(cur.of)'
    <2>1. \A a \in due : [a EXCEPT !.settled = cur.of] \in accruals'
      BY DEF Settle
    <2>2. \A a \in due : [a EXCEPT !.settled = cur.of].settled = cur.of
      BY <1>3 DEF Accrual
    <2>3. cur'.of = cur.of
      BY <1>1 DEF Settle, Strike
    <2> QED BY <2>1, <2>2, <2>3 DEF SettledOn
  <1>5. \A a, b \in due : f[a] = f[b] => a = b
    <2>1. \A a \in due : f[a].on = a.on /\ a = [on |-> a.on, settled |-> None]
      BY <1>3 DEF Accrual
    <2> QED BY <2>1
  <1>6. f \in Injection(due, SettledOn(cur.of)')
    BY <1>4, <1>5 DEF Injection, IsInjective
  <1>7. IsFiniteSet(SettledOn(cur.of)')
    <2>1. accruals' \in SUBSET Accrual
      BY DEF TypeOK
    <2>2. SettledOn(cur.of)' \in SUBSET Accrual
      BY <2>1 DEF SettledOn
    <2> QED BY <2>2, AccrualFinite, FS_Subset
  <1> HIDE DEF due, f
  <1>8. Cardinality(due) <= Cardinality(SettledOn(cur.of)')
    BY <1>6, <1>7, FS_Injection
  <1> QED BY <1>2, <1>8

LEMMA ReleasedNext ==
  ASSUME TypeInv, TypeInv', ReleasedInv, [Next]_vars
  PROVE  ReleasedInv'
  <1> USE DEF TypeInv
  <1>1. \A d \in Days : /\ Cardinality(SettledOn(d)) \in Nat /\ Cardinality(SettledOn(d))' \in Nat
                        /\ Cardinality(SettledOn(d)) <= Cardinality(SettledOn(d))'
    BY SettledGrows
  <1>2. \A d \in Days : HasRow(d) =>
          rows[d].released \in Nat /\ rows[d].released <= Cardinality(SettledOn(d))
    BY RowFacts DEF ReleasedInv, Row
  <1>3. CASE StrikeStep
    <2>1. /\ Striking /\ cur \in Strike /\ cur.of \in Days /\ cur'.of = cur.of
      BY <1>3, HandOn, InHand
    <2>2. PICK o \in Days : o = cur.of
      BY <2>1
    <2>3. Cardinality(SettledOn(cur.of)) = Cardinality(SettledOn(o))
      BY <2>2
    <2>4. ASSUME NEW d \in Days, HasRow(d)'
          PROVE  rows'[d].released <= Cardinality(SettledOn(d))'
      <3>1. CASE d # cur.of
        <4>1. rows'[d].released = rows[d].released /\ HasRow(d)
          BY <1>3, <2>4, <3>1, OtherRows
        <4> QED BY <1>1, <1>2, <4>1
      <3>2. CASE d = cur.of /\ WriteRow
        <4>1. rows'[d].released = cur.released
          BY <1>3, <3>2, OtherRows DEF Struck
        <4>2. cur.released \in Nat /\ cur.released <= Cardinality(SettledOn(d))
          <5>1. cur.step = "write"
            BY <3>2 DEF WriteRow, At
          <5> QED BY <2>1, <2>2, <2>3, <3>2, <5>1 DEF ReleasedInv, Strike
        <4> QED BY <1>1, <4>1, <4>2
      <3>3. CASE d = cur.of /\ ~WriteRow
        <4>1. rows'[d].released = rows[d].released
          BY <1>3, <3>3, OtherRows
        <4>2. HasRow(d)
          <5>1. HasRow(cur.of)' <=> HasRow(d)'
            BY <2>1, <3>3 DEF HasRow
          <5> QED BY <1>3, <2>4, <3>3, <5>1, OtherRows
        <4> QED BY <1>1, <1>2, <4>1, <4>2
      <3> QED BY <3>1, <3>2, <3>3
    <2>5. ASSUME cur'.step = "write" PROVE cur'.released <= Cardinality(SettledOn(cur.of))'
      <3>1. Settle
        <4>1. cur.step = "settle"
          BY <1>3, <2>5, HandOn
        <4> QED BY <1>3, <4>1 DEF StrikeStep, Accrue, WriteRow, PostMark, Heal, Report, At
      <3> QED BY <3>1, ReleasedBySettle
    <2> QED BY <2>4, <2>5 DEF ReleasedInv
  <1>4. CASE ~StrikeStep
    <2>1. rows' = rows
      <3>1. CASE Ending
        BY <3>1, EndingIs
      <3>2. CASE ~Ending
        BY <1>4, <3>2 DEF Next, Session, Audit, Run, Ending, StrikeStep, Capture, SkipSession,
           Revise, NextDay, StartJob, AuditClean, AuditRestrike, AuditUnsettled, AuditBlind, AuditRebuild,
           AuditGap, EndAudit, Crash, Rerun, ledger, vars
      <3> QED BY <3>1, <3>2
    <2>2. \A d \in Days : HasRow(d)' => rows'[d].released <= Cardinality(SettledOn(d))'
      BY <1>1, <1>2, <2>1 DEF HasRow
    <2>3. ASSUME Striking', cur'.step = "write" PROVE cur' = cur /\ Striking
      <3>1. CASE Audit
        <4>1. AuditRestrike \/ AuditRebuild \/ EndAudit
          BY <2>3, <3>1 DEF Audit, StartJob, AuditClean, AuditUnsettled, AuditBlind, AuditGap, Striking
        <4>2. cur'.step = "accrue"
          BY <4>1 DEF AuditRestrike, AuditRebuild, EndAudit, NewStrike
        <4> QED BY <2>3, <4>2
      <3>2. CASE Ending
        BY <2>3, <3>2, EndingIs DEF Striking
      <3>3. CASE UNCHANGED vars
        BY <2>3, <3>3 DEF vars, Striking
      <3>4. ~Session /\ ~Crash /\ ~Rerun
        BY <2>3 DEF Session, Capture, SkipSession, Revise, NextDay, Crash, Rerun, Striking
      <3> QED BY <1>4, <3>1, <3>2, <3>3, <3>4 DEF Next, Run, StrikeStep, Ending
    <2>4. ASSUME Striking', cur'.step = "write"
          PROVE  cur'.released <= Cardinality(SettledOn(cur.of))'
      <3>1. cur' = cur /\ Striking
        BY <2>3, <2>4
      <3>2. PICK o \in Days : o = cur.of
        BY <3>1, InHand
      <3>3. cur.released \in Nat /\ cur.released <= Cardinality(SettledOn(o))
        BY <2>4, <3>1, <3>2, InHand DEF ReleasedInv, Strike
      <3>4. Cardinality(SettledOn(cur.of))' = Cardinality(SettledOn(o))'
        BY <3>1, <3>2
      <3> QED BY <1>1, <3>1, <3>3, <3>4
    <2> QED BY <2>2, <2>4 DEF ReleasedInv
  <1> QED BY <1>3, <1>4

\* What the rows of some sessions release was settled on those sessions.
LEMMA ReleasedBound ==
  ASSUME TypeOK, ReleasedInv
  PROVE  ReleasedOnce
  <1> DEFINE R == {d \in Days : HasRow(d)}
             F == [d \in R |-> rows[d].released]
             Settled(D) == {a \in accruals : a.settled \in D}
             Bad == {D \in SUBSET R : ~(Total(F, D) <= Cardinality(Settled(D)))}
  <1>1. /\ \A d \in R : d \in Days /\ HasRow(d)
        /\ R \in SUBSET Days
    OBVIOUS
  <1>2. \A d \in R : F[d] = rows[d].released
    OBVIOUS
  <1>3. \A D : Settled(D) \in SUBSET accruals
    OBVIOUS
  <1>4. MapThenSumSet(LAMBDA d : rows[d].released, R) = Total(F, R)
    <2> HIDE DEF R
    <2> QED BY DEF Total, MapThenSumSet, MapThenFoldSet
  <1>5. IsFiniteSet(R)
    <2> HIDE DEF R
    <2> QED BY <1>1, DaysFinite, FS_Subset
  <1>6. F \in [R -> Int]
    <2>1. \A d \in R : rows[d].released \in Int
      BY RowFacts DEF Row
    <2> HIDE DEF R
    <2> QED BY <2>1
  <1>7. \A D : IsFiniteSet(Settled(D)) /\ Cardinality(Settled(D)) \in Nat
    <2> HIDE DEF Settled
    <2> QED BY <1>3, SettledFinite, FS_Subset, FS_CardinalityType
  <1>8. \A d \in R : F[d] \in Nat /\ F[d] <= Cardinality(Settled({d}))
    <2> SUFFICES ASSUME NEW d \in R PROVE F[d] \in Nat /\ F[d] <= Cardinality(Settled({d}))
      OBVIOUS
    <2>1. rows[d].released \in Nat
      BY RowFacts DEF Row
    <2>2. Settled({d}) = SettledOn(d)
      BY DEF SettledOn
    <2>3. rows[d].released <= Cardinality(SettledOn(d))
      BY DEF ReleasedInv
    <2>4. Cardinality(Settled({d})) = Cardinality(SettledOn(d))
      BY <2>2
    <2> HIDE DEF F, Settled, R
    <2> QED BY <1>2, <2>1, <2>3, <2>4
  <1>9. \A D, y : y \in D => /\ Settled(D) = Settled(D \ {y}) \cup Settled({y})
                             /\ Settled(D \ {y}) \cap Settled({y}) = {}
    OBVIOUS
  <1>10. Bad = {}
    <2> SUFFICES ASSUME Bad # {} PROVE FALSE
      OBVIOUS
    <2>1. PICK D \in Bad : \A x \in D : D \ {x} \notin Bad
      <3>1. Bad \in SUBSET SUBSET R
        OBVIOUS
      <3> HIDE DEF Bad, R
      <3> QED BY <1>5, <3>1, LeastCounterexample
    <2>2. D \in SUBSET R /\ ~(Total(F, D) <= Cardinality(Settled(D)))
      OBVIOUS
    <2>3. \A x \in D : Total(F, D \ {x}) <= Cardinality(Settled(D \ {x}))
      BY <2>1, <2>2
    <2> HIDE DEF Bad, R, F, Settled
    <2>5. D # {}
      <3>1. Total(F, {}) = 0
        BY <1>5, <1>6, TotalFacts
      <3>2. Cardinality(Settled(D)) \in Nat
        BY <1>7
      <3> QED BY <2>2, <3>1, <3>2
    <2>6. PICK y \in D : TRUE
      BY <2>5
    <2>7. y \in R /\ Total(F, D) = F[y] + Total(F, D \ {y}) /\ Total(F, D \ {y}) \in Int
      BY <1>5, <1>6, <2>2, <2>6, TotalFacts
    <2>8. Cardinality(Settled(D)) = Cardinality(Settled(D \ {y})) + Cardinality(Settled({y}))
      <3> DEFINE A == Settled(D \ {y})
                 B == Settled({y})
      <3>1. Settled(D) = A \cup B /\ A \cap B = {}
        BY <1>9, <2>6
      <3>2. IsFiniteSet(A) /\ IsFiniteSet(B) /\ Cardinality(A) \in Nat /\ Cardinality(B) \in Nat
        BY <1>7
      <3>3. Cardinality(Settled(D)) = Cardinality(A \cup B) /\ Cardinality(A \cap B) = 0
        BY <3>1, FS_EmptySet
      <3> HIDE DEF A, B
      <3>4. Cardinality(A \cup B) = Cardinality(A) + Cardinality(B) - Cardinality(A \cap B)
        BY <3>2, FS_Union
      <3>5. Cardinality(Settled(D)) = Cardinality(A) + Cardinality(B)
        BY <3>2, <3>3, <3>4
      <3> QED BY <3>5 DEF A, B
    <2>9. Total(F, D \ {y}) <= Cardinality(Settled(D \ {y})) /\ F[y] <= Cardinality(Settled({y}))
      BY <1>8, <2>3, <2>6, <2>7
    <2>10. F[y] \in Nat /\ Cardinality(Settled({y})) \in Nat /\ Cardinality(Settled(D \ {y})) \in Nat
      BY <1>7, <1>8, <2>7
    <2> QED BY <2>2, <2>7, <2>8, <2>9, <2>10
  <1>11. Total(F, R) <= Cardinality(Settled(R))
    BY <1>10
  <1>12. Cardinality(Settled(R)) <= Cardinality({a \in accruals : a.settled # None})
    <2>1. Settled(R) \in SUBSET {a \in accruals : a.settled # None}
      BY <1>1, DaysFinite DEF None
    <2>2. IsFiniteSet({a \in accruals : a.settled # None})
      BY SettledFinite, FS_Subset
    <2> HIDE DEF Settled, R
    <2> QED BY <2>1, <2>2, FS_Subset
  <1>13. Total(F, R) \in Int /\ Cardinality({a \in accruals : a.settled # None}) \in Nat
    <2>2. IsFiniteSet({a \in accruals : a.settled # None})
      BY SettledFinite, FS_Subset
    <2> HIDE DEF F, R
    <2> QED BY <1>5, <1>6, <2>2, TotalFacts, FS_CardinalityType
  <1>14. Total(F, R) <= Cardinality({a \in accruals : a.settled # None})
    <2> HIDE DEF F, R, Settled
    <2> QED BY <1>7, <1>11, <1>12, <1>13
  <1>15. MapThenSumSet(LAMBDA d : rows[d].released, R)
           <= Cardinality({a \in accruals : a.settled # None})
    <2> HIDE DEF F, R
    <2> QED BY <1>4, <1>14
  <1> QED BY <1>15 DEF ReleasedOnce

\* However often a session is struck, settled or crashed between commits, the
\* rows never release more than was settled: no accrual is counted into two.
THEOREM NothingReleasedTwice == Spec => []ReleasedOnce
  <1>1. Init => ReleasedInv
    BY DEF Init, ReleasedInv, HasRow, Striking
  <1>2. TypeInv /\ TypeInv' /\ ReleasedInv /\ [Next]_vars => ReleasedInv'
    BY ReleasedNext
  <1>3. TypeInv /\ ReleasedInv => ReleasedOnce
    BY ReleasedBound DEF TypeInv
  <1> QED BY <1>1, <1>2, <1>3, TypeHolds, PTL DEF Spec
=============================================================================
