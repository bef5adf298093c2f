---------------------------- MODULE MCTradingDay ----------------------------
(* Values for TLC: what the morning, the optimizer, the daemon and the stores *)
(* of TradingDay may show.                                                  *)
EXTENDS TradingDay, TLC

-----------------------------------------------------------------------------
(* What may be true of a morning.                                            *)

CONSTANTS h, c, rival, spy

Holding ==
  [shares |-> 2, price |-> 100, paid |-> 100, priced |-> TRUE, dated |-> TRUE, bars |-> 30,
   history |-> 60, high |-> 104, atr |-> 4, lead |-> 0, age |-> 3, event |-> 0,
   falling |-> FALSE, research |-> "HOLD", score |-> 75, alpha |-> 1, sector |-> "tech",
   listed |-> TRUE, catalyst |-> "none", momentumVeto |-> "no", slid |-> FALSE,
   confirmed |-> "yes", weight |-> 8, atrWeight |-> 8, atrKnown |-> TRUE, adv |-> 9,
   gbmVeto |-> FALSE, underweight |-> FALSE, like |-> {}, locked |-> FALSE]

Candidate ==
  [Holding EXCEPT !.shares = 0, !.price = 10, !.paid = 10, !.high = 10, !.atr = 1,
                  !.research = "ENTER", !.score = 80]

MCStories ==
  (h :> {Holding,
         [Holding EXCEPT !.price = 85],
         [Holding EXCEPT !.price = 85, !.priced = FALSE, !.listed = FALSE],
         [Holding EXCEPT !.price = 80, !.research = "EXIT"],
         [Holding EXCEPT !.price = 80, !.research = "REDUCE"],
         [Holding EXCEPT !.price = 91, !.gbmVeto = TRUE],
         [Holding EXCEPT !.price = 88, !.lead = 9],
         [Holding EXCEPT !.price = 126, !.history = 0, !.bars = 0],
         [Holding EXCEPT !.age = 6, !.locked = TRUE],
         [Holding EXCEPT !.shares = 1, !.age = 10],
         [Holding EXCEPT !.shares = -1, !.score = 40]}) @@
  (c :> {Candidate,
         [Candidate EXCEPT !.catalyst = "undated"],
         [Candidate EXCEPT !.momentumVeto = "unknown", !.weight = 3, !.adv = 2],
         [Candidate EXCEPT !.gbmVeto = TRUE, !.score = 60]}) @@
  (rival :> {[Candidate EXCEPT !.score = 72, !.alpha = 2],
         [Candidate EXCEPT !.score = 90, !.sector = "energy", !.like = {h, c}],
         [Candidate EXCEPT !.research = "HOLD", !.locked = TRUE]}) @@
  (spy :> {[Holding EXCEPT !.shares = 1, !.atrKnown = FALSE, !.score = NoScore, !.listed = FALSE],
           [Holding EXCEPT !.shares = 1, !.atrKnown = FALSE, !.score = NoScore, !.listed = FALSE,
                           !.price = 84]})

Passed == [flagged |-> FALSE, failed |-> "shape", relative |-> "yes", batch |-> "healthy"]
Rules ==
  [optimizer |-> FALSE, served |-> FALSE, macro |-> "bull", forcedBear |-> FALSE,
   severity |-> 0, drawdown |-> 0, gate |-> Passed]
Optimizer == [Rules EXCEPT !.optimizer = TRUE, !.served = TRUE]

MCSettings ==
  {Rules, [Rules EXCEPT !.severity = 2, !.drawdown = 4], [Rules EXCEPT !.drawdown = 6],
   Optimizer, [Optimizer EXCEPT !.drawdown = 9],
   [Optimizer EXCEPT !.served = FALSE],
   [Optimizer EXCEPT !.gate = [Passed EXCEPT !.flagged = TRUE, !.failed = "tradable"]]}
-----------------------------------------------------------------------------
(* What may be asked of the optimizer: a book of two names and the fund;    *)
(* short, none, a little, some or too much of the one, with cash to spare   *)
(* or on margin.                                                            *)

CONSTANTS x, y, fund

Buy(t, size) == [ticker |-> t, size |-> size, source |-> "plan"]

MCAsks ==
  {[prev |-> (x :> p) @@ (y :> 400) @@ (fund :> f), known |-> k, eligible |-> e, cap |-> 800,
    depth |-> n, sector |-> s, conviction |-> q] :
     p \in {-200, 0, 40, 400, 1200}, f \in {7000, 9600}, k \in {{x, y}, {y}},
     e \in {{x, y}, {y}, {}}, n \in {400, 10000}, s \in {800, 10000}, q \in {5, 100}}

-----------------------------------------------------------------------------
(* What the daemon may find: a name held and topped up, and the fund to be   *)
(* bought; a name to be sold first; or nothing yet.                          *)

MCScores == (x :> 70) @@ (fund :> 50)

MCMornings ==
  {[held |-> (x :> 40) @@ (fund :> 20),
    book |-> [entries |-> {Buy(x, 10), Buy(fund, 20)}, urgent |-> {}, stops |-> {x}, done |-> {}]],
   [held |-> (x :> 40) @@ (fund :> 20),
    book |-> [entries |-> {Buy(fund, 37)}, urgent |-> {x}, stops |-> {}, done |-> {}]],
   [held |-> (x :> 40) @@ (fund :> 57),
    book |-> [entries |-> {}, urgent |-> {}, stops |-> {}, done |-> {}]]}

-----------------------------------------------------------------------------
(* What the planner may find in its stores: every way a document can be, for *)
(* each arm, and for what every arm shares.                                  *)

Unread == [ok |-> FALSE]
On(age, doc) == age :> doc
Told(signal) == [signal |-> signal, score |-> 70, sector |-> signal = "HOLD"]

Research ==
  [ok |-> TRUE, producer |-> "research", candidates |-> c :> Told("ENTER"),
   universe |-> (h :> Told("HOLD")) @@ (rival :> Told("ENTER"))]
Envelope == [Research EXCEPT !.producer = "signals_envelope", !.candidates = NoOne]

Scored == (h :> {1}) @@ (c :> {2}) @@ (rival :> {-1})
Today == [ok |-> TRUE, alpha |-> Scored, neutral |-> TRUE, judged |-> "clean"]
Picked == (c :> 3) @@ (rival :> 1)
Selection == [ok |-> TRUE, complete |-> TRUE, age |-> 1, rating |-> Picked]
Shadow == [ok |-> TRUE, own |-> TRUE, dated |-> TRUE, odd |-> FALSE, score |-> Picked]
Cut == [ok |-> TRUE, age |-> 2, cut |-> {c, rival}]
Stance == [on |-> TRUE, configured |-> TRUE, line |-> "sharpe_ratio" :> 0,
           ledger |-> [ok |-> TRUE, metric |-> "sharpe_ratio" :> 1]]

Bucket ==
  [late |-> {}, latest |-> {Research}, dated |-> NoOne, pointer |-> {},
   cohorts |-> [ok |-> FALSE], selection |-> Unread, shadows |-> NoOne,
   membership |-> {}, memberships |-> NoOne, batch |-> {Today}, sectors |-> {c},
   scans |-> On(4, [ok |-> TRUE, adv |-> (c :> 0) @@ (rival :> 7)]),
   library |-> [reachable |-> TRUE, listed |-> {h, c, rival}, broken |-> {},
                coverage |-> (h :> 80) @@ (c :> 60) @@ (rival :> 20)],
   derisk |-> [Stance EXCEPT !.on = FALSE]]

Promoted(champion) == [Bucket EXCEPT !.pointer = {[champion |-> champion]}]
Direct == Promoted("scanner_predictor_direct")
TopTwentyArm == Promoted("scanner_top20_predictor")
Thinktank == Promoted("thinktank_coverage")
ShadowQuant == Promoted("attractiveness_20")

ArmStories ==
  {Bucket, Promoted("agentic"), Promoted("garbled"), Direct, TopTwentyArm, Thinktank, ShadowQuant}
  \cup {[Direct EXCEPT !.cohorts = [ok |-> TRUE, days |-> days]] :
          days \in {On(2, Picked), On(5, Picked) @@ On(9, rival :> 1), On(9, Picked), On(-1, Picked),
                   On(1, c :> 3), NoOne}}
  \cup {[TopTwentyArm EXCEPT !.membership = latest, !.memberships = dated] :
          latest \in {{}, {Cut}, {Unread}, {[Cut EXCEPT !.age = 11]}},
          dated \in {NoOne, On(1, Unread) @@ On(3, [Cut EXCEPT !.age = 3, !.cut = {rival}])}}
  \cup {[Thinktank EXCEPT !.selection = doc] :
          doc \in {Selection, [Selection EXCEPT !.age = 4], [Selection EXCEPT !.age = -1],
                  [Selection EXCEPT !.complete = FALSE], [Selection EXCEPT !.rating = NoOne]}}
  \cup {[ShadowQuant EXCEPT !.shadows = docs] :
          docs \in {On(0, Shadow), On(8, Shadow), On(9, Shadow), On(31, Shadow),
                   On(2, Unread) @@ On(3, Shadow),
                   On(1, [Shadow EXCEPT !.own = FALSE]), On(1, [Shadow EXCEPT !.dated = FALSE]),
                   On(1, [Shadow EXCEPT !.odd = TRUE]), On(1, [Shadow EXCEPT !.score = NoOne]),
                   On(1, [Shadow EXCEPT !.score = @ @@ (h :> 2)]) @@ On(4, Shadow)}}

SignalStories(s) ==
  {s, [s EXCEPT !.latest = {Envelope}], [s EXCEPT !.latest = {Unread}], [s EXCEPT !.latest = {}],
   [s EXCEPT !.latest = {}, !.dated = On(3, Research) @@ On(5, Envelope)],
   [s EXCEPT !.latest = {}, !.dated = On(15, Research)],
   [s EXCEPT !.latest = {[Research EXCEPT !.candidates = (c :> Told("ENTER")) @@ (rival :> Told("ENTER"))]}]}

OtherStories(s) ==
  {[s EXCEPT !.late = {"predictions"}],
   [s EXCEPT !.batch = {}], [s EXCEPT !.batch = {Unread}],
   [s EXCEPT !.batch = {[Today EXCEPT !.neutral = FALSE]}],
   [s EXCEPT !.batch = {[Today EXCEPT !.alpha = (h :> {1}) @@ (rival :> {})]}],
   [s EXCEPT !.library.reachable = FALSE], [s EXCEPT !.library.listed = {h, rival}],
   [s EXCEPT !.library.broken = {c}], [s EXCEPT !.sectors = {}],
   [s EXCEPT !.scans = NoOne], [s EXCEPT !.scans = On(0, Unread)],
   [s EXCEPT !.derisk = Stance], [s EXCEPT !.derisk = [Stance EXCEPT !.configured = FALSE]],
   [s EXCEPT !.derisk = [Stance EXCEPT !.ledger = Unread]]}

MCStores == UNION {SignalStories(s) \cup OtherStories(s) : s \in ArmStories}

MCChanges ==
  {[of |-> "batch", to |-> {[Today EXCEPT !.judged = "flagged", !.alpha = c :> {4}]}],
   [of |-> "pointer", to |-> {[champion |-> "thinktank_coverage"]}],
   [of |-> "derisk", to |-> [Stance EXCEPT !.ledger.metric = "sharpe_ratio" :> -1]]}
=============================================================================
