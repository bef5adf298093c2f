---------------------------- MODULE SignalIntake ----------------------------
(***************************************************************************)
(* What the planner reads before it decides (executor/main.py,             *)
(* signal_reader.py, champion.py, derisk_gate.py, alpha_contract.py): the  *)
(* signals of research, the pointer that names the champion arm, the feed  *)
(* of that arm, the filters, the predictions, and the gates the optimizer  *)
(* stands behind.  Every document has a producer of its own, and one may   *)
(* be replaced between two reads.                                          *)
(*                                                                         *)
(* A document is [ok |-> FALSE] when it cannot be read or parsed; ages are *)
(* in days before the run, negative when the document is dated after it.   *)
(***************************************************************************)
EXTENDS Integers, FiniteSets, FiniteSetsExt

CONSTANTS
  Names,
  Mornings,      \* what the stores may hold when the run starts
  Changes,       \* [store -> store]: what a producer may do to them
  TopDefault,    \* champion_top_n_default
  MaxChanges     \* bound on the changes during a run

VARIABLES
  store,         \* the bucket, the price library and the configuration
  at,            \* how far the run has come
  signals,       \* signals_raw
  arm,           \* the champion of the pointer it read
  injected,      \* the prediction rows of the arm
  actionable,    \* get_actionable_signals
  predictions,   \* predictions_by_ticker
  outcome,       \* what the gates said: see Outcome
  changes

vars == <<store, at, signals, arm, injected, actionable, predictions, outcome, changes>>

-----------------------------------------------------------------------------
(* Data.                                                                   *)

NoopArms == {"agentic"}
ShadowServed ==
  {"no_agent_quant", "single_agent_quant", "attractiveness_20", "attractiveness_60",
   "predictor_from_60", "tech_score_20", "thinktank_20"}
DedicatedArms == {"scanner_predictor_direct", "scanner_top20_predictor", "thinktank_coverage"}
ValidChampions == NoopArms \cup DedicatedArms \cup ShadowServed
EmptyByContract == {"signals_envelope"}

Lookback == 14             \* read_signals_with_fallback, max_lookback
CohortMaxAge == 8          \* champion_freshness_max_days
SelectionMaxAge == 3       \* THINKTANK_COVERAGE_FRESHNESS_MAX_DAYS
MembershipMaxAge == 10     \* _MEMBERSHIP_MAX_AGE_DAYS
ShadowLookback == 30       \* SHADOW_LOOKBACK_DIAGNOSTIC_DAYS
UniverseMaxAge == 10       \* UNIVERSE_MAX_AGE_DAYS
ScoreFloor == 60           \* champion_score_floor
ScoreCeiling == 95         \* champion_score_ceiling
MinCoverage == 30          \* min_coverage_for_admission, percent

MarketAnchor == "market_relative_21d_log"
RawAnchor == "raw_21d_log"
NoAnchor == "undeclared"

NoRows == [t \in {} |-> 0]
NoSignals == [ok |-> TRUE, producer |-> "", candidates |-> NoRows, universe |-> NoRows]

\* One entry of the signals; sector: whether it carries one.
Entries(S) ==
  [S -> [signal : {"ENTER", "HOLD", "EXIT", "REDUCE"}, score : Nat, sector : BOOLEAN]]

\* One prediction; an alpha is a set of at most one number, which is empty for
\* None; of: the arm whose fields the row carries.
Opinion(alpha, anchor, of) == [alpha |-> alpha, anchor |-> anchor, of |-> of]

\* derated, floored: the planner sizes, the optimizer solves under the de-risk
\* stance; solvable: the optimizer accepted the batch; deep: the names whose
\* daily volume it knows; judged: the predictor's own verdict on a batch, as
\* the run read it.
Outcome == [derated : BOOLEAN, floored : BOOLEAN, solvable : BOOLEAN, deep : SUBSET Names,
            judged : {"unread", "none", "clean", "flagged"}]

\* The document of the latest day up to so many days back, if there is one.
Newest(docs, days) ==
  LET seen == DOMAIN docs \cap 0 .. days IN IF seen = {} THEN {} ELSE {docs[Min(seen)]}

-----------------------------------------------------------------------------
(* The champion arms (champion.py).  An arm is refused, which ends the run, *)
(* or serves entries and prediction rows of its own.                       *)

Refused == [refused |-> TRUE, picks |-> NoRows, rows |-> NoRows]
Serving(picks, rows) == [refused |-> FALSE, picks |-> picks, rows |-> rows]

\* Mutant of Fresh: a document dated after the run is fresh.
FreshAhead(age, days) == age <= days

\* _check_freshness: a document dated after the run is refused as well.
Fresh(age, days) == 0 <= age /\ age <= days

\* How many a name leaves behind it; what the feeds measure has no ties here.
Rank(value, t) == Cardinality({u \in DOMAIN value : value[u] > value[t]})

\* _rank_to_score: the best of the cohort at the ceiling, the worst at the
\* floor, and no two alike: in units of one over the steps between them.
RankToScore(rank, size) ==
  LET steps == Max({size - 1, 1})
  IN  ScoreCeiling * steps - rank * (ScoreCeiling - ScoreFloor)

\* As many as the producer proposed, or the default if it proposed none.
Budget == IF DOMAIN signals.candidates = {} THEN TopDefault
          ELSE Cardinality(DOMAIN signals.candidates)

\* The entries synthesized from a ranked feed.
Picks(value) ==
  [t \in {u \in DOMAIN value : Rank(value, u) < Budget} |->
     [signal |-> "ENTER", sector |-> t \in store.sectors,
      score |-> RankToScore(Rank(value, t), Cardinality(DOMAIN value))]]

\* center_to_market_relative, in units of one over the size of the cohort.
Centered(value, t) ==
  Cardinality(DOMAIN value) * value[t] - MapThenSumSet(LAMBDA u : value[u], DOMAIN value)

\* The rows of an arm that has no alpha to offer.
Unscored(picks) == [t \in DOMAIN picks |-> Opinion({}, NoAnchor, arm)]

\* _load_research_free_cohort: the rows of the latest day of the parquet,
\* whatever day that is; a day that is served in part is the latest all the same.
Cohort ==
  LET feed == store.cohorts
  IN  IF ~feed.ok THEN {}
      ELSE IF DOMAIN feed.days = {} THEN {}
      ELSE {[age |-> Min(DOMAIN feed.days), alpha |-> feed.days[Min(DOMAIN feed.days)]]}

\* What the arm says of its picks: the alpha, on the market's anchor.
DirectRows(alpha) ==
  [t \in DOMAIN Picks(alpha) |-> Opinion({Centered(alpha, t)}, MarketAnchor, arm)]

\* _apply_scanner_predictor_direct; a cohort of one has no level to be measured
\* against.
PredictorDirect ==
  LET usable == {q \in Cohort : Fresh(q.age, CohortMaxAge) /\ Cardinality(DOMAIN q.alpha) > 1}
  IN  IF usable = {} THEN Refused
      ELSE LET alpha == (CHOOSE q \in usable : TRUE).alpha
           IN  Serving(Picks(alpha), DirectRows(alpha))

\* _resolve_predictor_cut_pool: latest.json and the first dated key that is
\* there; the newer of the two, if it is not too old.  (A key that is there and
\* malformed ends the run: not told apart from an absent cut.)
CutPool ==
  LET docs == store.memberships
      readable == [a \in {b \in DOMAIN docs : docs[b].ok} |-> docs[a]]
      found == {doc \in store.membership \cup Newest(readable, MembershipMaxAge) :
                  doc.ok /\ doc.age <= MembershipMaxAge}
  IN  IF found = {} THEN {}
      ELSE (CHOOSE doc \in found : \A other \in found : doc.age <= other.age).cut

\* _read_signals hands the arm no predictions: its own are not read yet.
Given == NoRows

\* _apply_scanner_top20_predictor: the members of the cut the predictor scored,
\* by its alpha; nothing is injected.
TopTwenty(given) ==
  LET scored == {t \in CutPool \cap DOMAIN given : given[t].alpha # {}}
      alpha == [t \in scored |-> CHOOSE v \in given[t].alpha : TRUE]
  IN  IF scored = {} \/ \E t \in scored : given[t].anchor = RawAnchor THEN Refused
      ELSE Serving(Picks(alpha), given)

\* _load_challenger_selection: the one document the think tank overwrites.
Selected == IF store.selection.ok THEN {store.selection} ELSE {}

\* _apply_thinktank_coverage: a complete selection of the last days, by rating.
ThinktankCoverage ==
  LET usable == {doc \in Selected :
                   doc.complete /\ Fresh(doc.age, SelectionMaxAge) /\ DOMAIN doc.rating # {}}
  IN  IF usable = {} THEN Refused
      ELSE LET rating == (CHOOSE doc \in usable : TRUE).rating
           IN  Serving(Picks(rating), Unscored(Picks(rating)))

\* _resolve_arm_shadow: the newest artifact under the arm's name; when that one
\* cannot be read no older one stands in for it.
ArmShadow ==
  LET days == DOMAIN store.shadows \cap 0 .. ShadowLookback
  IN  IF days = {} THEN {}
      ELSE {[age |-> Min(days), doc |-> store.shadows[Min(days)]]}

\* _shadow_enter_picks: a pick without a number refuses the artifact.
EnterPicks(doc) == IF doc.odd THEN NoRows ELSE doc.score

\* _apply_shadow_signals_arm; own, dated: the artifact declares no other
\* producer and no other day.
ShadowArm ==
  LET usable == {q \in ArmShadow : q.doc.ok}
      valid == {q \in usable : /\ q.doc.own /\ q.doc.dated
                               /\ Fresh(q.age, CohortMaxAge)
                               /\ DOMAIN EnterPicks(q.doc) # {}}
  IN  IF valid = {} THEN Refused
      ELSE LET score == EnterPicks((CHOOSE q \in valid : TRUE).doc)
           IN  Serving(Picks(score), Unscored(Picks(score)))

\* apply_champion_selection.
Champion ==
  CASE arm \in NoopArms -> Serving(signals.candidates, Given)
    [] arm = "scanner_predictor_direct" -> PredictorDirect
    [] arm = "scanner_top20_predictor"  -> TopTwenty(Given)
    [] arm = "thinktank_coverage"       -> ThinktankCoverage
    [] arm \in ShadowServed             -> ShadowArm

-----------------------------------------------------------------------------
(* Predictions and gates.                                                  *)

\* _stamp_alpha_anchor: the anchor a batch declares for all its rows.
Stamped(b) == IF b.neutral THEN MarketAnchor ELSE RawAnchor

\* read_predictions: no batch, or one that cannot be read, is no rows.
Batch ==
  LET doc == store.batch
  IN  IF doc = {} \/ \E b \in doc : ~b.ok THEN NoRows
      ELSE LET b == CHOOSE d \in doc : TRUE
           IN  [t \in DOMAIN b.alpha |-> Opinion(b.alpha[t], Stamped(b), "predictor")]

\* Mutant of Merged: the row of the arm always replaces.
MergedOver(real, rows) ==
  [t \in DOMAIN real \cup DOMAIN rows |-> IF t \in DOMAIN rows THEN rows[t] ELSE real[t]]

\* merge_champion_predictions: a row without an alpha fills a gap and adds its
\* fields to a row that has one; a row with an alpha replaces.
Merged(real, rows) ==
  [t \in DOMAIN real \cup DOMAIN rows |->
     IF t \notin DOMAIN rows THEN real[t]
     ELSE IF t \in DOMAIN real /\ rows[t].alpha = {} /\ real[t].alpha # {}
          THEN [real[t] EXCEPT !.of = rows[t].of]
          ELSE rows[t]]

\* _load_carryover_ledger and _extract_stance_metrics.
StanceMetrics == IF store.derisk.ledger.ok THEN {store.derisk.ledger.metric} ELSE {}

\* evaluate_derisk_gate: off by default; once on, anything missing refuses, and
\* one metric below its red line is enough.
Derisk ==
  LET d == store.derisk
  IN  IF ~d.on THEN "off"
      ELSE IF ~d.configured \/ StanceMetrics = {} THEN "refused"
      ELSE IF \E metric \in StanceMetrics : \E k \in DOMAIN d.line : metric[k] < d.line[k]
           THEN "active" ELSE "clear"

\* assert_optimizer_anchor: every alpha the solve would read is declared on the
\* market's anchor.
OneAnchor ==
  \A t \in DOMAIN predictions :
    predictions[t].alpha # {} => predictions[t].anchor = MarketAnchor

\* read_universe_tradeability and extract_adv_usd: the newest universe of the
\* scanner; without one, or with one that cannot be read, no name has a depth.
TradingDepth ==
  UNION {IF doc.ok THEN {t \in DOMAIN doc.adv : doc.adv[t] > 0} ELSE {} :
           doc \in Newest(store.scans, UniverseMaxAge)}

-----------------------------------------------------------------------------
(* The run, one read after another.                                        *)

Init ==
  /\ store \in Mornings
  /\ at = "start"
  /\ signals = NoSignals /\ arm = "agentic"
  /\ injected = NoRows /\ actionable = NoRows /\ predictions = NoRows
  /\ outcome = [derated |-> FALSE, floored |-> FALSE, solvable |-> FALSE, deep |-> {},
                judged |-> "unread"]
  /\ changes = 0

Abort ==
  /\ at' = "aborted"
  /\ UNCHANGED <<store, signals, arm, injected, actionable, predictions, outcome, changes>>

\* check_upstream_deliverables: what must be there is there, and of today.
OnTime == store.late = {}

\* The first gate, with the SPY row of the last closed day.
CheckUpstream ==
  /\ at = "start"
  /\ \/ ~OnTime /\ Abort
     \/ /\ OnTime
        /\ at' = "checked"
        /\ UNCHANGED <<store, signals, arm, injected, actionable, predictions, outcome, changes>>

\* read_signals_with_fallback: latest.json, and only when there is none the
\* days before; anything but a missing key ends the run.
ReadSignals ==
  /\ at = "checked"
  /\ LET found == IF store.latest # {} THEN store.latest ELSE Newest(store.dated, Lookback)
     IN  \/ (found = {} \/ \E doc \in found : ~doc.ok) /\ Abort
         \/ \E doc \in found :
              /\ doc.ok
              /\ signals' = doc
              /\ at' = "signals"
              /\ UNCHANGED <<store, arm, injected, actionable, predictions, outcome, changes>>

\* assert_producer_champion_coherence: no arm may leave an empty hand empty.
Coherent(champion) == signals.producer \in EmptyByContract => champion \notin NoopArms

\* load_champion_pointer_versioned: only a missing pointer has a default.
ReadPointer ==
  /\ at = "signals"
  /\ LET champion == IF store.pointer = {} THEN "agentic"
                     ELSE (CHOOSE p \in store.pointer : TRUE).champion
         served == champion \in ValidChampions /\ Coherent(champion)
     IN  \/ ~served /\ Abort
         \/ /\ served
            /\ arm' = champion
            /\ at' = "pointer"
            /\ UNCHANGED <<store, signals, injected, actionable, predictions, outcome, changes>>

\* apply_champion_selection: the candidates are the arm's, the universe stays.
SelectChampion ==
  /\ at = "pointer"
  /\ \/ Champion.refused /\ Abort
     \/ /\ ~Champion.refused
        /\ signals' = [signals EXCEPT !.candidates = Champion.picks]
        /\ injected' = Champion.rows
        /\ at' = "armed"
        /\ UNCHANGED <<store, arm, actionable, predictions, outcome, changes>>

Only(entries, S) == [t \in DOMAIN entries \cap S |-> entries[t]]

\* filter_buy_candidates_to_universe: skipped when the library is out of reach.
FilterToUniverse ==
  /\ at = "armed"
  /\ signals' = IF store.library.reachable
                THEN [signals EXCEPT !.candidates = Only(@, store.library.listed)] ELSE signals
  /\ at' = "listed"
  /\ UNCHANGED <<store, arm, injected, actionable, predictions, outcome, changes>>

\* load_feature_coverage: the names whose row of the feature library can be read.
Measured ==
  IF store.library.reachable THEN store.library.listed \ store.library.broken ELSE {}

\* filter_buy_candidates_by_coverage: one name that cannot be read ends the run.
FilterByCoverage ==
  /\ at = "listed"
  /\ LET asked == DOMAIN signals.candidates
     IN  \/ ~asked \subseteq Measured /\ Abort
         \/ /\ asked \subseteq Measured
            /\ signals' = [signals EXCEPT !.candidates =
                             Only(@, {t \in asked : store.library.coverage[t] >= MinCoverage})]
            /\ at' = "admitted"
            /\ UNCHANGED <<store, arm, injected, actionable, predictions, outcome, changes>>

Patched(entries) ==
  [t \in DOMAIN entries |-> [entries[t] EXCEPT !.sector = @ \/ t \in store.sectors]]
Enters(entries) == {t \in DOMAIN entries : entries[t].signal = "ENTER"}

\* patch_unknown_sectors_with_constituents, when an ENTER lacks its sector, and
\* get_actionable_signals: of two entries of a name the candidate comes first.
Actionable ==
  /\ at = "admitted"
  /\ LET needed == (\E t \in Enters(signals.candidates) : ~signals.candidates[t].sector)
                    \/ \E t \in Enters(signals.universe) : ~signals.universe[t].sector
         patched == IF ~needed THEN signals
                    ELSE [signals EXCEPT !.candidates = Patched(@), !.universe = Patched(@)]
         chosen == patched.candidates
     IN  /\ signals' = patched
         /\ actionable' = [t \in DOMAIN chosen \cup DOMAIN patched.universe |->
                             IF t \in DOMAIN chosen THEN chosen[t] ELSE patched.universe[t]]
  /\ at' = "actionable"
  /\ UNCHANGED <<store, arm, injected, predictions, outcome, changes>>

\* assert_predictions_cover_buy_candidates.
CoversCandidates(rows) == DOMAIN signals.candidates \subseteq DOMAIN rows

\* _read_signals, the predictions; a candidate without a row ends the run.
ReadPredictions ==
  /\ at = "actionable"
  /\ LET rows == Merged(Batch, injected)
     IN  \/ ~CoversCandidates(rows) /\ Abort
         \/ /\ CoversCandidates(rows)
            /\ predictions' = rows
            /\ at' = "read"
            /\ UNCHANGED <<store, signals, arm, injected, actionable, outcome, changes>>

\* run, the de-risk gate: a refusal ends the run.
ReadDerisk ==
  /\ at = "read"
  /\ \/ Derisk = "refused" /\ Abort
     \/ /\ Derisk # "refused"
        /\ outcome' = [outcome EXCEPT !.derated = Derisk = "active"]
        /\ at' = "sized"
        /\ UNCHANGED <<store, signals, arm, injected, actionable, predictions, changes>>

\* The optimizer reads the ledger once more and checks the anchors; whatever it
\* refuses leaves it without a log, and the run goes on.
Solve ==
  /\ at = "sized"
  /\ outcome' = [outcome EXCEPT !.floored = Derisk = "active",
                                !.solvable = Derisk # "refused" /\ OneAnchor,
                                !.deep = TradingDepth]
  /\ at' = "solved"
  /\ UNCHANGED <<store, signals, arm, injected, actionable, predictions, changes>>

\* read_distribution_gate: the verdict of the batch that is there by now.
Verdict == IF store.batch = {} THEN "none" ELSE (CHOOSE b \in store.batch : TRUE).judged

\* A batch that is there and cannot be read ends the run.
ReadGate ==
  /\ at = "solved"
  /\ \/ (\E b \in store.batch : ~b.ok) /\ Abort
     \/ /\ \A b \in store.batch : b.ok
        /\ outcome' = [outcome EXCEPT !.judged = Verdict]
        /\ at' = "judged"
        /\ UNCHANGED <<store, signals, arm, injected, actionable, predictions, changes>>

\* A producer replaces a document: the predictor its batch, a promotion the
\* pointer, the director the ledger.
Produce ==
  /\ changes < MaxChanges /\ at \notin {"aborted", "judged"}
  /\ \E change \in Changes : store' = [store EXCEPT ![change.of] = change.to]
  /\ changes' = changes + 1
  /\ UNCHANGED <<at, signals, arm, injected, actionable, predictions, outcome>>

Next ==
  \/ CheckUpstream \/ ReadSignals \/ ReadPointer \/ SelectChampion \/ FilterToUniverse
  \/ FilterByCoverage \/ Actionable \/ ReadPredictions \/ ReadDerisk \/ Solve \/ ReadGate
  \/ Produce

Spec == Init /\ [][Next]_vars

-----------------------------------------------------------------------------
(* Properties.                                                             *)

TypeOK ==
  /\ at \in {"start", "checked", "signals", "pointer", "armed", "listed", "admitted",
             "actionable", "read", "sized", "solved", "judged", "aborted"}
  /\ arm \in ValidChampions
  /\ \E S \in SUBSET Names : signals.candidates \in Entries(S)
  /\ \E S \in SUBSET Names : signals.universe \in Entries(S)
  /\ DOMAIN predictions \subseteq Names /\ DOMAIN injected \subseteq Names
  /\ DOMAIN actionable = {} \/ DOMAIN signals.candidates \subseteq DOMAIN actionable
  /\ outcome \in Outcome
  /\ changes \in 0 .. MaxChanges

\* What an arm ranks its names by, and the days its document is old.
Feed ==
  LET cohort == Min(DOMAIN store.cohorts.days)
      shadow == Min(DOMAIN store.shadows \cap Nat)
  IN  CASE arm = "scanner_predictor_direct" ->
             [age |-> cohort, bound |-> 8, value |-> store.cohorts.days[cohort]]
        [] arm = "thinktank_coverage" ->
             [age |-> store.selection.age, bound |-> 3, value |-> store.selection.rating]
        [] arm \in ShadowServed ->
             [age |-> shadow, bound |-> 8, value |-> store.shadows[shadow].score]

\* A champion's candidates are never none, are the best of its latest document
\* in its own order, and that document is of the last days of its producer's
\* cadence: no older one stands in for one that is late, broken or another's.
PicksOfTheArm ==
  [][/\ at = "pointer" /\ at' = "armed"
     /\ arm \notin NoopArms \cup {"scanner_top20_predictor"}
     => LET picked == DOMAIN signals'.candidates
        IN  /\ picked # {} /\ picked \subseteq DOMAIN Feed.value
            /\ Feed.age \in 0 .. Feed.bound
            /\ \A t \in picked, u \in DOMAIN Feed.value :
                 Feed.value[u] > Feed.value[t] =>
                   u \in picked /\ signals'.candidates[u].score > signals'.candidates[t].score]_vars

\* "when the predictor already scored that ticker, its real row is kept": no
\* arm, whatever it injects, leaves a name the predictor has an alpha for
\* without one.
RealAlphaKept ==
  [][at = "actionable" /\ at' = "read" =>
       \A t \in DOMAIN Batch : Batch[t].alpha # {} => predictions'[t].alpha # {}]_vars

\* "this arm's picks ARE that output": the arm of the predictor's cut is served
\* when the predictor has scored the cut.
TopTwentyServed ==
  [][at = "pointer" /\ arm = "scanner_top20_predictor" /\ ~TopTwenty(Batch).refused
       => at' # "aborted"]_vars
=============================================================================
