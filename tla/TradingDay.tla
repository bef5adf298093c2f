----------------------------- MODULE TradingDay -----------------------------
(***************************************************************************)
(* The models of the trading day's decisions, side by side: a behaviour is *)
(* one of the planner's reading (SignalIntake), of its run (MorningPlan),  *)
(* of the optimizer it calls (TargetWeights) or of the daemon's day        *)
(* (DaemonDay), and the rest stands still.                                 *)
(***************************************************************************)
EXTENDS MorningPlan

CONSTANTS
  Fund, Cash,                    \* SPY and the cash row, of the optimizer and the daemon
  Assets, Asks, Grid,            \* the optimizer's
  DayNames, Scores, Mornings, Ranged, Tiers, Targets, MaxResolves, MaxStarts,  \* the daemon's
  ReadNames, Stores, Changes, TopDefault, MaxChanges                          \* the reading's

VARIABLES
  part, ask, phase, budget, target, trades,
  held, file, replans, clock, at, memory, boots, pipelines,
  store, reading, raw, arm, injected, actionable, predictions, outcome, changes

weights == <<ask, phase, budget, target, trades>>
session == <<held, file, replans, clock, at, memory, boots, pipelines>>
intake  == <<store, reading, raw, arm, injected, actionable, predictions, outcome, changes>>

Weights == INSTANCE TargetWeights

Daemon == INSTANCE DaemonDay WITH Names <- DayNames, phase <- at

Intake == INSTANCE SignalIntake
            WITH Names <- ReadNames, Mornings <- Stores, at <- reading, signals <- raw

\* The names are finitely many, the fund is none of them, a stop is for a name
\* of the day, no weight is above the whole, and the planner left a book.
ASSUME DaemonAssumption ==
  /\ IsFiniteSet(DayNames) /\ Fund \notin DayNames /\ Ranged \subseteq Daemon!All
  /\ MaxResolves \in Nat /\ MaxStarts \in Nat /\ Targets \subseteq 0 .. Daemon!Whole
  /\ \A m \in Mornings : m.book \in Daemon!Book /\ \A t \in Daemon!All : m.held[t] \in Nat

\* The fund and the cash row are not among the finitely many names of the
\* universe, and the question is one the planner can put.
ASSUME WeightsAssumption ==
  /\ IsFiniteSet(Assets) /\ Fund \notin Assets /\ Cash \notin Assets /\ Fund # Cash
  /\ Asks \subseteq Weights!Ask

\* What each document of the stores is, when it can be read.
IsFeed(value) == DOMAIN value \subseteq ReadNames /\ \A t \in DOMAIN value : value[t] \in Int
IsSignals(doc) ==
  doc.ok => /\ DOMAIN Intake!NoSignals \subseteq DOMAIN doc
            /\ \E S \in SUBSET ReadNames : doc.candidates \in Intake!Entries(S)
            /\ \E S \in SUBSET ReadNames : doc.universe \in Intake!Entries(S)
Dated(docs) == DOMAIN docs \subseteq Int /\ IsFiniteSet(DOMAIN docs)

IsDocument(of, doc) ==
  /\ of = "latest" => \A d \in doc : IsSignals(d)
  /\ of = "dated" => Dated(doc) /\ \A day \in DOMAIN doc : IsSignals(doc[day])
  /\ of = "cohorts" /\ doc.ok => Dated(doc.days) /\ \A day \in DOMAIN doc.days : IsFeed(doc.days[day])
  /\ of = "selection" /\ doc.ok => doc.age \in Int /\ IsFeed(doc.rating)
  /\ of = "shadows" => Dated(doc) /\ \A day \in DOMAIN doc : doc[day].ok => IsFeed(doc[day].score)
  /\ of = "batch" => \A b \in doc : b.ok =>
                      DOMAIN b.alpha \subseteq ReadNames /\ b.judged \in {"clean", "flagged"}
  /\ of = "scans" => Dated(doc) /\ \A day \in DOMAIN doc : doc[day].ok => DOMAIN doc[day].adv \subseteq ReadNames

Documents == {"latest", "dated", "cohorts", "selection", "shadows", "batch", "scans"}
IsStore(s) == Documents \subseteq DOMAIN s /\ \A of \in Documents : IsDocument(of, s[of])

\* Whatever the stores hold, and whatever a producer puts there, is a document
\* of its kind, or one that cannot be read; by default some are taken.
ASSUME IntakeAssumption ==
  /\ IsFiniteSet(ReadNames) /\ TopDefault \in Nat \ {0} /\ MaxChanges \in Nat
  /\ \A s \in Stores : IsStore(s)
  /\ \A change \in Changes : IsDocument(change.of, change.to)

\* What a part that stands still shows: one of its initial states.
PlanAtRest ==
  /\ facts = [t \in Names |-> CHOOSE f \in Stories[t] : TRUE]
  /\ disk = EmptyBook /\ setting = (CHOOSE s \in Settings : TRUE)
  /\ Init
WeightsAtRest == ask = (CHOOSE q \in Asks : TRUE) /\ Weights!Init
DaemonAtRest ==
  /\ Daemon!Init
  /\ (CHOOSE m \in Mornings : TRUE) = [held |-> held, book |-> file]
IntakeAtRest == store = (CHOOSE s \in Stores : TRUE) /\ Intake!Init

DayInit ==
  \/ part = "intake" /\ PlanAtRest /\ WeightsAtRest /\ DaemonAtRest /\ Intake!Init
  \/ part = "plan" /\ WeightsAtRest /\ DaemonAtRest /\ IntakeAtRest /\ Init
  \/ part = "weights" /\ PlanAtRest /\ DaemonAtRest /\ IntakeAtRest /\ Weights!Init
  \/ part = "session" /\ PlanAtRest /\ WeightsAtRest /\ IntakeAtRest /\ Daemon!Init

DayNext ==
  /\ UNCHANGED part
  /\ \/ part = "intake" /\ Intake!Next /\ UNCHANGED <<vars, weights, session>>
     \/ part = "plan" /\ Next /\ UNCHANGED <<weights, session, intake>>
     \/ part = "weights" /\ Weights!Next /\ UNCHANGED <<vars, session, intake>>
     \/ part = "session" /\ Daemon!Next /\ UNCHANGED <<vars, weights, intake>>

DaySpec == DayInit /\ [][DayNext]_<<vars, weights, session, intake, part>>

-----------------------------------------------------------------------------
(* The properties of the parts, each stated there.                          *)

\* The types of the intake, the planner and the daemon.
DayTypeOK == TypeOK /\ Daemon!TypeOK /\ Intake!TypeOK
\* A champion's candidates are the best of its latest document, in its order.
PicksOfTheArm == Intake!PicksOfTheArm
\* No arm takes away an alpha the predictor has.
RealAlphaKept == Intake!RealAlphaKept
\* The arm of the predictor's cut is served when the cut is scored.
TopTwentyServed == Intake!TopTwentyServed
\* A name held when the book is saved has a stop of all its shares, or is exited;
\* what a REDUCE leaves has neither.
PositionsWatched == [][PositionsWatchedStep]_vars
\* A name below the loss floor is sold whole, unless research says EXIT of it
\* with the optimizer on.
HardRiskSold == [][HardRiskSoldStep]_vars
\* The same without its exception: the loss floor survives the optimizer.
HardRiskSurvives == [][HardRiskSurvivesStep]_vars
\* No book sells a name whole and buys it, the benchmark fund apart.
NotSoldAndBought == [][NotSoldAndBoughtStep]_vars
\* The entries of a plan stay together within the caps.
BatchWithinCaps == [][BatchWithinCapsStep]_vars
\* A name that may hold no weight is sold whole, or left when it is within the band.
IneligibleSoldWhole == Weights!IneligibleSoldWhole
\* The turnover budget leaves an answer where only the box forces turnover.
BudgetNeverStarves == Weights!BudgetNeverStarves
\* A name sold for hard risk in an earlier tick is not bought again.
StoppedStaysOut == Daemon!StoppedStaysOut
\* Nor is one sold in this very tick.
NoSameDayRebuy == Daemon!NoSameDayRebuy
\* The evening's pipeline is started once, after the close.
PipelineOnce == Daemon!PipelineOnce
=============================================================================
