-------------------------- MODULE TradingDayProofs --------------------------
(***************************************************************************)
(* The promises of the trading day's parts, for any names, stores, books,  *)
(* weights and mornings that their assumptions allow: the daemon's         *)
(* session, the optimizer's trades, the champion's picks, and, of          *)
(* MorningPlanProofs, the planner's books.                                 *)
(***************************************************************************)
EXTENDS TradingDay, MorningPlanProofs

-----------------------------------------------------------------------------
(* A behaviour of the day is one of each part.                             *)

LEMMA DayStarts == DayInit => Init /\ Weights!Init /\ Daemon!Init /\ Intake!Init
  BY DEF DayInit, PlanAtRest, WeightsAtRest, DaemonAtRest, IntakeAtRest

LEMMA DaySteps ==
  [DayNext]_<<vars, weights, session, intake, part>> =>
    /\ [Next]_vars /\ [Weights!Next]_weights /\ [Daemon!Next]_session /\ [Intake!Next]_intake
  BY DEF DayNext

-----------------------------------------------------------------------------
(* The daemon's types.                                                     *)

DayEntries == [ticker : Daemon!All, size : 1 .. Daemon!Whole, source : {"plan", "redeploy"}]

LEMMA FiniteParts == IsFiniteSet(1 .. Daemon!Whole) /\ IsFiniteSet({"plan", "redeploy"})
  <1>1. IsFiniteSet(1 .. Daemon!Whole)
    <2>1. Daemon!Whole \in Int
      BY DEF Daemon!Whole
    <2> QED BY <2>1, FS_Interval
  <1>2. IsFiniteSet({"plan"})
    BY FS_Singleton
  <1>3. IsFiniteSet({"plan"} \cup {"redeploy"})
    BY <1>2, FS_AddElement
  <1>4. {"plan"} \cup {"redeploy"} = {"plan", "redeploy"}
    OBVIOUS
  <1> QED BY <1>1, <1>3, <1>4

\* Finitely many entries can be told apart.
LEMMA FiniteEntries == IsFiniteSet(DayEntries) /\ IsFiniteSet(Daemon!All)
  <1>1. IsFiniteSet(Daemon!All)
    BY DaemonAssumption, FS_AddElement DEF Daemon!All
  <1> DEFINE Sources == {"plan", "redeploy"}
             Triples == (Daemon!All \X (1 .. Daemon!Whole)) \X Sources
             f == [q \in Triples |-> [ticker |-> q[1][1], size |-> q[1][2], source |-> q[2]]]
  <1>2. IsFiniteSet(Triples)
    <2>1. IsFiniteSet(1 .. Daemon!Whole) /\ IsFiniteSet(Sources)
      BY FiniteParts
    <2>3. IsFiniteSet(Daemon!All \X (1 .. Daemon!Whole))
      BY <1>1, <2>1, FS_Product
    <2> HIDE DEF Sources
    <2> QED BY <2>1, <2>3, FS_Product
  <1>3. f \in Surjection(Triples, DayEntries)
    <2>1. f \in [Triples -> DayEntries]
      BY DEF DayEntries
    <2>2. ASSUME NEW e \in DayEntries PROVE \E q \in Triples : f[q] = e
      <3> DEFINE q == <<<<e.ticker, e.size>>, e.source>>
      <3>1. q \in Triples
        BY DEF DayEntries
      <3>2. f[q] = [ticker |-> e.ticker, size |-> e.size, source |-> e.source]
        BY <3>1
      <3>3. e = [ticker |-> e.ticker, size |-> e.size, source |-> e.source]
        BY DEF DayEntries
      <3> HIDE DEF q, f, Triples
      <3> QED BY <3>1, <3>2, <3>3
    <2> HIDE DEF f, Triples
    <2> QED BY <2>1, <2>2 DEF Surjection
  <1> HIDE DEF f, Triples
  <1> QED BY <1>1, <1>2, <1>3, FS_Surjection

\* What is committed is the total of the sizes.
LEMMA CommittedTotal ==
  ASSUME NEW b
  PROVE  Daemon!Committed(b) = Total([e \in b.entries |-> e.size], b.entries)
  BY DEF Daemon!Committed, Total, MapThenSumSet, MapThenFoldSet,
         Daemon!MapThenSumSet, Daemon!MapThenFoldSet

LEMMA CommittedIs ==
  ASSUME NEW E \in SUBSET DayEntries
  PROVE  /\ Daemon!Committed([entries |-> E]) \in Nat
         /\ E = {} => Daemon!Committed([entries |-> E]) = 0
  <1> DEFINE b == [entries |-> E]
             F == [e \in E |-> e.size]
  <1>1. Daemon!Committed(b) = Total([e \in b.entries |-> e.size], b.entries)
    BY CommittedTotal
  <1>2. b.entries = E
    OBVIOUS
  <1> HIDE DEF b
  <1>3. Daemon!Committed(b) = Total(F, E)
    BY <1>1, <1>2
  <1>4. F \in [E -> Nat] /\ F \in [E -> Int]
    BY DEF DayEntries, Daemon!Whole
  <1>5. IsFiniteSet(E)
    BY FiniteEntries, FS_Subset
  <1> HIDE DEF F
  <1>6. Total(F, E) \in Nat /\ Total(F, {}) = 0
    BY <1>4, <1>5, TotalNat, TotalFacts
  <1> QED BY <1>3, <1>6 DEF b

LEMMA NothingCommitted == Daemon!Committed([entries |-> {}]) = 0
  BY CommittedIs

LEMMA InvestedIs ==
  ASSUME \A t \in Daemon!All : held[t] \in Nat
  PROVE  Daemon!Invested \in Nat
  <1>1. Daemon!Invested = Total([t \in Daemon!All |-> held[t]], Daemon!All)
    BY DEF Daemon!Invested, Total, MapThenSumSet, MapThenFoldSet, Daemon!MapThenSumSet, Daemon!MapThenFoldSet
  <1>2. [t \in Daemon!All |-> held[t]] \in [Daemon!All -> Nat]
    OBVIOUS
  <1> QED BY <1>1, <1>2, FiniteEntries, TotalNat

DayPhases == {"down", "waiting", "urgent", "asleep", "stops", "overlay", "entries"}

\* The parts of the daemon's type invariant that the sales and the purchases
\* can disturb.
Kept == /\ \A t \in Daemon!All : held[t] \in Nat
        /\ file \in Daemon!Book /\ memory \in Daemon!Memory

LEMMA MemoryIs ==
  ASSUME NEW m, m \in Daemon!Memory
  PROVE  /\ m.book \in Daemon!Book /\ m.executed \subseteq Daemon!All
         /\ m.stopped \subseteq Daemon!All /\ m.forced \subseteq Daemon!All
         /\ m.settled \subseteq Daemon!All
         /\ m.freed \in BOOLEAN /\ m.opened \in BOOLEAN /\ m.resolves \in 0 .. MaxResolves
         /\ m.book.entries \subseteq DayEntries /\ m.book.urgent \subseteq Daemon!All
         /\ m.book.stops \subseteq Daemon!All /\ m.book.done \subseteq Daemon!All
  <1>1. m.book \in Daemon!Book
    BY DEF Daemon!Memory
  <1>2. /\ m.book.entries \subseteq DayEntries /\ m.book.urgent \subseteq Daemon!All
        /\ m.book.stops \subseteq Daemon!All /\ m.book.done \subseteq Daemon!All
    BY <1>1 DEF Daemon!Book, DayEntries
  <1> QED BY <1>1, <1>2 DEF Daemon!Memory

\* A memory with another book.
LEMMA MemoryWith ==
  ASSUME NEW m \in Daemon!Memory, NEW b \in Daemon!Book, NEW e \in SUBSET Daemon!All,
         NEW s \in SUBSET Daemon!All, NEW d \in SUBSET Daemon!All, NEW f \in BOOLEAN
  PROVE  [m EXCEPT !.book = b, !.executed = e, !.stopped = s, !.forced = d, !.freed = f]
           \in Daemon!Memory
  BY DEF Daemon!Memory

LEMMA FreshIs == ASSUME NEW b \in Daemon!Book PROVE Daemon!Fresh(b) \in Daemon!Memory
  BY DaemonAssumption DEF Daemon!Fresh, Daemon!Memory

LEMMA NothingIs == Daemon!Nothing \in Daemon!Memory
  <1>1. [entries |-> {}, urgent |-> {}, stops |-> {}, done |-> {}] \in Daemon!Book
    BY DEF Daemon!Book
  <1> QED BY <1>1, FreshIs DEF Daemon!Nothing

\* Sales leave no position below zero, and note only names.
LEMMA SalesType ==
  ASSUME Kept, NEW T \in SUBSET Daemon!All, NEW a \in Daemon!Attempts(T)
  PROVE  /\ a.tried \subseteq T /\ a.lost \subseteq T /\ a.filled \subseteq a.tried
         /\ Daemon!Closed(a) \subseteq T
         /\ \A t \in Daemon!All : Daemon!AfterSales(a)[t] \in Nat
         /\ Daemon!HardRisk(a) \in Daemon!Memory
  <1>1. a.tried \subseteq T /\ a.lost \subseteq T /\ a.filled \subseteq a.tried
    BY DEF Daemon!Attempts
  <1>2. Daemon!Closed(a) \subseteq T
    BY <1>1 DEF Daemon!Closed
  <1>3. \A t \in Daemon!All : Daemon!AfterSales(a)[t] \in Nat
    BY DEF Daemon!AfterSales, Kept
  <1>4. Daemon!HardRisk(a) \in Daemon!Memory
    <2> DEFINE noted == a.tried \ a.lost
               b == Daemon!WithoutStops(memory.book, Daemon!Closed(a))
               e == memory.executed \cup noted
               s == memory.stopped \cup noted
               f == memory.freed \/ noted # {}
    <2>1. Daemon!HardRisk(a) = [memory EXCEPT !.book = b, !.executed = e, !.stopped = s, !.freed = f]
      BY Zenon DEF Daemon!HardRisk
    <2>2. memory \in Daemon!Memory
      BY DEF Kept
    <2>3. b \in Daemon!Book
      BY <2>2, MemoryIs DEF Daemon!WithoutStops, Daemon!Book
    <2>4. e \in SUBSET Daemon!All /\ s \in SUBSET Daemon!All
      BY <1>1, <2>2, MemoryIs
    <2>5. f \in BOOLEAN
      OBVIOUS
    <2> HIDE DEF b, e, s, f
    <2> QED BY <2>1, <2>2, <2>3, <2>4, <2>5 DEF Daemon!Memory
  <1> QED BY <1>1, <1>2, <1>3, <1>4

LEMMA UrgentKept ==
  ASSUME Kept, Daemon!UrgentExits
  PROVE  Kept'
  <1>0. memory \in Daemon!Memory /\ file \in Daemon!Book
    BY DEF Kept
  <1>1. PICK a \in Daemon!Attempts(memory.book.urgent) :
          /\ held' = Daemon!AfterSales(a)
          /\ LET gone == Daemon!Closed(a)
                 b == [memory.book EXCEPT !.urgent = @ \ gone, !.done = @ \cup gone,
                                          !.stops = @ \ a.filled]
             IN  /\ memory' = [memory EXCEPT !.book = b, !.executed = @ \cup a.filled]
                 /\ Daemon!Save(memory.book.urgent # {}, b)
    BY Zenon DEF Daemon!UrgentExits
  <1> DEFINE gone == Daemon!Closed(a)
             b == [memory.book EXCEPT !.urgent = @ \ gone, !.done = @ \cup gone,
                                      !.stops = @ \ a.filled]
  <1>2. memory.book.urgent \in SUBSET Daemon!All
    BY <1>0, MemoryIs
  <1>3. gone \subseteq Daemon!All /\ a.filled \subseteq Daemon!All
        /\ \A t \in Daemon!All : Daemon!AfterSales(a)[t] \in Nat
    BY <1>2, SalesType
  <1>4. memory' = [memory EXCEPT !.book = b, !.executed = @ \cup a.filled]
        /\ Daemon!Save(memory.book.urgent # {}, b)
    BY <1>1
  <1> HIDE DEF gone
  <1>5. b \in Daemon!Book
    BY <1>0, <1>3, MemoryIs DEF Daemon!Book
  <1> HIDE DEF b
  <1>6. memory.executed \cup a.filled \in SUBSET Daemon!All
    BY <1>0, <1>3, MemoryIs
  <1>7. memory' \in Daemon!Memory
    BY <1>0, <1>4, <1>5, <1>6 DEF Daemon!Memory
  <1>8. file' \in Daemon!Book
    BY <1>0, <1>4, <1>5 DEF Daemon!Save
  <1> QED BY <1>1, <1>3, <1>7, <1>8 DEF Kept

LEMMA PollKept ==
  ASSUME Kept, Daemon!Poll
  PROVE  Kept'
  <1>0. memory \in Daemon!Memory /\ file \in Daemon!Book
    BY DEF Kept
  <1>1. Daemon!Merged(file, memory.executed) \in Daemon!Book
    BY <1>0 DEF Daemon!Merged, Daemon!Book
  <1>2. memory' = [memory EXCEPT !.book = Daemon!Merged(file, memory.executed),
                                 !.settled = memory.stopped]
        /\ held' = held /\ file' = file
    BY DEF Daemon!Poll
  <1>3. memory' \in Daemon!Memory
    BY <1>0, <1>1, <1>2, MemoryIs DEF Daemon!Memory
  <1> QED BY <1>2, <1>3 DEF Kept

LEMMA GapKept ==
  ASSUME Kept, Daemon!GapStops
  PROVE  Kept'
  <1>0. memory \in Daemon!Memory /\ file \in Daemon!Book
    BY DEF Kept
  <1>1. PICK a \in Daemon!Attempts(memory.book.stops) :
          /\ held' = Daemon!AfterSales(a)
          /\ memory' = Daemon!HardRisk(a)
          /\ Daemon!Save(Daemon!Closed(a) # {}, memory'.book)
    BY DEF Daemon!GapStops
  <1>2. memory.book.stops \in SUBSET Daemon!All
    BY <1>0, MemoryIs
  <1>3. memory' \in Daemon!Memory /\ \A t \in Daemon!All : held'[t] \in Nat
    BY <1>1, <1>2, SalesType
  <1>4. file' \in Daemon!Book
    BY <1>0, <1>1, <1>3, MemoryIs DEF Daemon!Save
  <1> QED BY <1>3, <1>4 DEF Kept

LEMMA ForceKept ==
  ASSUME Kept, NEW q, Daemon!ForceExits(q)
  PROVE  Kept'
  <1>0. memory \in Daemon!Memory /\ file \in Daemon!Book
    BY DEF Kept
  <1>1. PICK a \in Daemon!Attempts(Daemon!Lowest(Daemon!Headroom(Daemon!ForcedCount(q)))) :
          /\ held' = Daemon!AfterSales(a)
          /\ memory' = [Daemon!HardRisk(a) EXCEPT !.forced = @ \cup (a.tried \ a.lost)]
          /\ Daemon!Save(Daemon!Closed(a) # {}, memory'.book)
    BY DEF Daemon!ForceExits
  <1>2. Daemon!Lowest(Daemon!Headroom(Daemon!ForcedCount(q))) \in SUBSET Daemon!All
    BY DEF Daemon!Lowest
  <1>3. /\ Daemon!HardRisk(a) \in Daemon!Memory /\ \A t \in Daemon!All : held'[t] \in Nat
        /\ a.tried \subseteq Daemon!All
    BY <1>1, <1>2, SalesType
  <1>4. memory' \in Daemon!Memory
    <2>1. Daemon!HardRisk(a).forced \cup (a.tried \ a.lost) \in SUBSET Daemon!All
      BY <1>3, MemoryIs
    <2> QED BY <1>1, <1>3, <2>1 DEF Daemon!Memory
  <1>5. file' \in Daemon!Book
    BY <1>0, <1>1, <1>4, MemoryIs DEF Daemon!Save
  <1> QED BY <1>3, <1>4, <1>5 DEF Kept

\* What the re-solve gives a name is a weight.
LEMMA ResolvedIs ==
  ASSUME NEW w \in Daemon!Resolved, NEW t \in Daemon!All
  PROVE  w[t] \in 0 .. Daemon!Whole
  <1>1. PICK v \in [DayNames -> Targets] :
          w = [u \in Daemon!All |->
                 IF u = Fund
                 THEN Daemon!Whole - Daemon!Sleeve - Daemon!MapThenSumSet(LAMBDA x : v[x], DayNames)
                 ELSE v[u]]
    BY DEF Daemon!Resolved
  <1>2. w[Fund] >= 0
    BY DEF Daemon!Resolved
  <1>3. Daemon!MapThenSumSet(LAMBDA x : v[x], DayNames) = Total(v, DayNames)
    BY DEF Total, MapThenSumSet, MapThenFoldSet, Daemon!MapThenSumSet, Daemon!MapThenFoldSet
  <1>4. v \in [DayNames -> Nat]
    <2>1. 0 .. Daemon!Whole \subseteq Nat
      BY DEF Daemon!Whole
    <2>2. Targets \subseteq Nat
      BY <2>1, DaemonAssumption
    <2> QED BY <2>2
  <1>5. Total(v, DayNames) \in Nat
    BY <1>4, DaemonAssumption, TotalNat
  <1>6. CASE t = Fund
    <2>1. w[t] = Daemon!Whole - Daemon!Sleeve - Total(v, DayNames)
      BY <1>1, <1>3, <1>6
    <2> QED BY <1>2, <1>5, <1>6, <2>1 DEF Daemon!Whole, Daemon!Sleeve
  <1>7. CASE t # Fund
    <2>1. w[t] = v[t] /\ t \in DayNames
      BY <1>1, <1>7 DEF Daemon!All
    <2> QED BY <2>1, DaemonAssumption
  <1> QED BY <1>6, <1>7

LEMMA RedeployedIs ==
  ASSUME Kept, NEW w \in Daemon!Resolved
  PROVE  Daemon!Redeployed(w) \subseteq DayEntries
  <1>1. ASSUME NEW t \in Daemon!All, w[t] > held[t]
        PROVE  Daemon!Entry(t, w[t] - held[t], "redeploy") \in DayEntries
    <2>1. w[t] \in 0 .. Daemon!Whole /\ held[t] \in Nat
      BY ResolvedIs DEF Kept
    <2>2. w[t] - held[t] \in 1 .. Daemon!Whole
      BY <1>1, <2>1 DEF Daemon!Whole
    <2> QED BY <2>2 DEF Daemon!Entry, DayEntries
  <1> QED BY <1>1 DEF Daemon!Redeployed

LEMMA RedeployKept ==
  ASSUME Kept, Daemon!Redeploy
  PROVE  Kept'
  <1>0. memory \in Daemon!Memory /\ file \in Daemon!Book
    BY DEF Kept
  <1>1. PICK E \in {{}} \cup {Daemon!Redeployed(w) : w \in Daemon!Resolved} :
          /\ memory' = [memory EXCEPT !.book.entries = @ \cup E, !.freed = FALSE,
                                      !.resolves = @ + 1]
          /\ Daemon!Save(E # {}, memory'.book)
    BY DEF Daemon!Redeploy
  <1>2. E \subseteq DayEntries
    BY RedeployedIs
  <1> DEFINE b == [memory.book EXCEPT !.entries = @ \cup E]
  <1>3. b \in Daemon!Book
    BY <1>0, <1>2, MemoryIs DEF Daemon!Book, DayEntries
  <1>4. memory.resolves + 1 \in 0 .. MaxResolves
    <2>1. memory.resolves \in 0 .. MaxResolves /\ memory.resolves < MaxResolves
      BY <1>0, MemoryIs DEF Daemon!Redeploy
    <2> QED BY <2>1, DaemonAssumption
  <1>5. memory' = [memory EXCEPT !.book = b, !.freed = FALSE, !.resolves = memory.resolves + 1]
    BY <1>0, <1>1 DEF Daemon!Memory, Daemon!Book
  <1> HIDE DEF b
  <1>6. memory' \in Daemon!Memory
    BY <1>0, <1>3, <1>4, <1>5 DEF Daemon!Memory
  <1>7. file' \in Daemon!Book
    BY <1>0, <1>1, <1>6, MemoryIs DEF Daemon!Save
  <1>8. held' = held
    BY DEF Daemon!Redeploy
  <1> QED BY <1>6, <1>7, <1>8 DEF Kept

LEMMA EntriesKept ==
  ASSUME Kept, Daemon!Entries
  PROVE  Kept'
  <1>0. memory \in Daemon!Memory /\ file \in Daemon!Book
    BY DEF Kept
  <1>1. PICK fired \in SUBSET memory.book.entries : \E bought \in SUBSET fired :
          LET names(E) == {e.ticker : e \in E}
              b == [memory.book EXCEPT !.entries = @ \ bought, !.done = @ \cup names(bought)]
          IN  /\ held' = [t \in Daemon!All |->
                            held[t] + Daemon!Committed([entries |-> {e \in bought : e.ticker = t}])]
              /\ memory' = [memory EXCEPT !.book = b, !.executed = @ \cup names(fired)]
              /\ Daemon!Save(bought # {}, b)
    BY Zenon DEF Daemon!Entries
  <1>9. PICK bought \in SUBSET fired :
          LET names(E) == {e.ticker : e \in E}
              b == [memory.book EXCEPT !.entries = @ \ bought, !.done = @ \cup names(bought)]
          IN  /\ held' = [t \in Daemon!All |->
                            held[t] + Daemon!Committed([entries |-> {e \in bought : e.ticker = t}])]
              /\ memory' = [memory EXCEPT !.book = b, !.executed = @ \cup names(fired)]
              /\ Daemon!Save(bought # {}, b)
    BY Zenon, <1>1
  <1> DEFINE b == [memory.book EXCEPT !.entries = @ \ bought,
                                      !.done = @ \cup {e.ticker : e \in bought}]
             x == memory.executed \cup {e.ticker : e \in fired}
  <1>2. fired \subseteq DayEntries /\ bought \subseteq DayEntries
    BY <1>0, MemoryIs
  <1>3. {e.ticker : e \in bought} \subseteq Daemon!All /\ {e.ticker : e \in fired} \subseteq Daemon!All
    BY <1>2 DEF DayEntries
  <1>4. b \in Daemon!Book /\ x \in SUBSET Daemon!All
    BY <1>0, <1>3, MemoryIs DEF Daemon!Book
  <1>5. memory' = [memory EXCEPT !.book = b, !.executed = x] /\ Daemon!Save(bought # {}, b)
    BY <1>9
  <1> HIDE DEF b, x
  <1>6. memory' \in Daemon!Memory
    BY <1>0, <1>4, <1>5 DEF Daemon!Memory
  <1>7. file' \in Daemon!Book
    BY <1>0, <1>4, <1>5 DEF Daemon!Save
  <1>8. ASSUME NEW t \in Daemon!All PROVE held'[t] \in Nat
    <2> DEFINE B == {e \in bought : e.ticker = t}
    <2>1. B \in SUBSET DayEntries
      BY <1>2
    <2>2. held'[t] = held[t] + Daemon!Committed([entries |-> B])
      BY <1>9
    <2> HIDE DEF B
    <2>3. Daemon!Committed([entries |-> B]) \in Nat /\ held[t] \in Nat
      BY <2>1, CommittedIs DEF Kept
    <2> QED BY <2>2, <2>3
  <1> QED BY <1>6, <1>7, <1>8 DEF Kept

\* The starts and ends of the process and of the plan.
LEMMA LifecycleKept ==
  ASSUME Kept, Daemon!Boot \/ Daemon!AwaitBook \/ Daemon!Open \/ Daemon!Leave \/ Daemon!Die
               \/ Daemon!TimePasses
  PROVE  Kept'
  <1>0. memory \in Daemon!Memory /\ file \in Daemon!Book
    BY DEF Kept
  <1>1. held' = held /\ file' = file
    BY DEF Daemon!Boot, Daemon!AwaitBook, Daemon!Open, Daemon!Leave, Daemon!Die, Daemon!TimePasses
  <1>2. \/ memory' = Daemon!Fresh(file) \/ memory' = Daemon!Nothing
        \/ memory' = [memory EXCEPT !.book = file]
        \/ memory' = [memory EXCEPT !.opened = TRUE, !.executed = memory.book.done]
        \/ memory' = memory
    BY DEF Daemon!Boot, Daemon!AwaitBook, Daemon!Open, Daemon!Leave, Daemon!Die, Daemon!TimePasses
  <1>3. [memory EXCEPT !.book = file] \in Daemon!Memory
    BY <1>0 DEF Daemon!Memory
  <1>4. [memory EXCEPT !.opened = TRUE, !.executed = memory.book.done] \in Daemon!Memory
    BY <1>0, MemoryIs DEF Daemon!Memory
  <1>5. memory' \in Daemon!Memory
    BY <1>0, <1>2, <1>3, <1>4, FreshIs, NothingIs
  <1> QED BY <1>0, <1>1, <1>5 DEF Kept

LEMMA ReplanKept ==
  ASSUME Kept, Daemon!Replan
  PROVE  Kept'
  <1> DEFINE room == Daemon!Whole - Daemon!Sleeve - Daemon!Invested
  <1>0. memory \in Daemon!Memory /\ file \in Daemon!Book
    BY DEF Kept
  <1>1. PICK E \in {{}} \cup {{Daemon!Entry(t, room, "plan")} : t \in Daemon!All} :
          /\ E # {} => room > 0
          /\ file' = [file EXCEPT !.entries = E, !.urgent = {},
                                  !.stops = {t \in Ranged : held[t] > 0}]
    BY Zenon DEF Daemon!Replan
  <1>2. Daemon!Invested \in Nat
    BY InvestedIs DEF Kept
  <1>3. room > 0 => room \in 1 .. Daemon!Whole
    BY <1>2 DEF Daemon!Whole, Daemon!Sleeve
  <1> HIDE DEF room
  <1>4. E \subseteq DayEntries
    BY <1>1, <1>3 DEF Daemon!Entry, DayEntries
  <1>5. {t \in Ranged : held[t] > 0} \subseteq Daemon!All
    BY DaemonAssumption
  <1>6. file' \in Daemon!Book
    BY <1>0, <1>1, <1>4, <1>5 DEF Daemon!Book, DayEntries
  <1>7. held' = held /\ memory' = memory
    BY DEF Daemon!Replan
  <1> QED BY <1>0, <1>6, <1>7 DEF Kept

\* The counters and the phases.
Counted ==
  /\ clock \in {Daemon!Clocks[i] : i \in DOMAIN Daemon!Clocks} /\ at \in DayPhases
  /\ replans \in 0 .. MaxStarts /\ boots \in 0 .. MaxStarts /\ pipelines \in Nat

LEMMA CountedNext ==
  ASSUME Counted, [Daemon!Next]_session
  PROVE  Counted'
  <1> USE DEF Counted, DayPhases
  <1>1. CASE UNCHANGED session
    BY <1>1 DEF session
  <1>2. CASE Daemon!Boot
    BY <1>2, DaemonAssumption DEF Daemon!Boot
  <1>3. CASE Daemon!Replan
    BY <1>3, DaemonAssumption DEF Daemon!Replan
  <1>4. CASE Daemon!TimePasses
    <2>1. clock' \in {Daemon!Clocks[i] : i \in DOMAIN Daemon!Clocks}
      <3> DEFINE i == CHOOSE i \in DOMAIN Daemon!Clocks : Daemon!Clocks[i] = clock
      <3>1. i \in DOMAIN Daemon!Clocks /\ Daemon!Clocks[i] = clock
        OBVIOUS
      <3>2. clock # "closed" /\ clock' = Daemon!Clocks[1 + i]
        BY <1>4 DEF Daemon!TimePasses
      <3> HIDE DEF i
      <3>3. DOMAIN Daemon!Clocks = 1 .. 4 /\ Daemon!Clocks[4] = "closed"
        BY DEF Daemon!Clocks
      <3>4. 1 + i \in DOMAIN Daemon!Clocks
        BY <3>1, <3>2, <3>3
      <3> QED BY <3>2, <3>4
    <2> QED BY <1>4, <2>1 DEF Daemon!TimePasses
  <1>5. CASE Daemon!AwaitBook \/ Daemon!Open \/ Daemon!Leave \/ Daemon!Die
    BY <1>5 DEF Daemon!AwaitBook, Daemon!Open, Daemon!Leave, Daemon!Die
  <1>6. CASE Daemon!UrgentExits \/ Daemon!Poll \/ Daemon!GapStops \/ Daemon!Reconcile \/ Daemon!Entries
    BY <1>6 DEF Daemon!UrgentExits, Daemon!Poll, Daemon!GapStops, Daemon!Reconcile, Daemon!Entries
  <1> QED BY <1>1, <1>2, <1>3, <1>4, <1>5, <1>6 DEF Daemon!Next

LEMMA KeptNext ==
  ASSUME Kept, [Daemon!Next]_session
  PROVE  Kept'
  <1>1. CASE UNCHANGED session
    BY <1>1 DEF session, Kept
  <1>2. CASE Daemon!Reconcile
    <2>1. CASE \E q \in Tiers : Daemon!ForceExits(q)
      BY <2>1, ForceKept
    <2>2. CASE UNCHANGED <<held, file, memory>>
      BY <2>2 DEF Kept
    <2> QED BY <1>2, <2>1, <2>2, RedeployKept DEF Daemon!Reconcile
  <1> QED BY <1>1, <1>2, UrgentKept, PollKept, GapKept, EntriesKept, LifecycleKept, ReplanKept
          DEF Daemon!Next

LEMMA DaemonInit == Daemon!Init => Kept /\ Counted
  <1> SUFFICES ASSUME Daemon!Init PROVE Kept /\ Counted
    OBVIOUS
  <1>1. Kept
    BY DaemonAssumption, NothingIs DEF Daemon!Init, Kept
  <1>2. Counted
    <2>1. 1 \in DOMAIN Daemon!Clocks /\ Daemon!Clocks[1] = "early"
      BY DEF Daemon!Clocks
    <2> QED BY <2>1, DaemonAssumption DEF Daemon!Init, Counted, DayPhases
  <1> QED BY <1>1, <1>2

LEMMA DaemonTypes == DaySpec => [](Kept /\ Counted)
  <1>1. DayInit => Kept /\ Counted
    BY DayStarts, DaemonInit
  <1>2. (Kept /\ Counted) /\ [DayNext]_<<vars, weights, session, intake, part>> => (Kept /\ Counted)'
    BY DaySteps, KeptNext, CountedNext
  <1> QED BY <1>1, <1>2, PTL DEF DaySpec

-----------------------------------------------------------------------------
(* No same-day rebuy.                                                      *)

\* What the process put out for hard risk it also counts as executed; before a
\* session there is nothing of either, and within a tick no entry is left of a
\* name that was out when the tick began.
Out ==
  /\ at \in {"down", "waiting"} => memory.stopped = {} /\ memory.settled = {}
  /\ memory.stopped \subseteq memory.executed
  /\ memory.settled \subseteq memory.stopped
  /\ at \in {"stops", "overlay", "entries"} =>
       \A e \in memory.book.entries : e.ticker \notin memory.settled

\* A sale for hard risk leaves the entries of the book alone.
LEMMA HardRiskOut ==
  ASSUME Kept, Out, NEW T \in SUBSET Daemon!All, NEW a \in Daemon!Attempts(T)
  PROVE  LET m == Daemon!HardRisk(a)
         IN  /\ m.stopped \subseteq m.executed /\ memory.stopped \subseteq m.stopped
             /\ m.settled = memory.settled
             /\ m.book.entries = memory.book.entries
  <1> DEFINE noted == a.tried \ a.lost
             b == Daemon!WithoutStops(memory.book, Daemon!Closed(a))
             e == memory.executed \cup noted
             s == memory.stopped \cup noted
             f == memory.freed \/ noted # {}
             g == Daemon!Closed(a)
  <1>1. Daemon!HardRisk(a) = [memory EXCEPT !.book = b, !.executed = e, !.stopped = s, !.freed = f]
    BY Zenon DEF Daemon!HardRisk
  <1>2. memory \in Daemon!Memory
    BY DEF Kept
  <1>3. b.entries = memory.book.entries
    <2>1. b = [memory.book EXCEPT !.stops = @ \ g]
      BY DEF Daemon!WithoutStops
    <2> HIDE DEF g, b
    <2> QED BY <1>2, <2>1, MemoryIs DEF Daemon!Book
  <1>4. s \subseteq e /\ memory.stopped \subseteq s
    BY DEF Out
  <1> HIDE DEF b, e, s, f
  <1> QED BY <1>1, <1>2, <1>3, <1>4 DEF Daemon!Memory

LEMMA OutInit == Daemon!Init => Out
  BY DEF Daemon!Init, Out, Daemon!Nothing, Daemon!Fresh

LEMMA OutNext ==
  ASSUME Kept, Counted, Out, [Daemon!Next]_session
  PROVE  Out'
  <1>0. memory \in Daemon!Memory /\ file \in Daemon!Book
    BY DEF Kept
  <1>1. CASE UNCHANGED session
    BY <1>1 DEF session, Out
  <1>2. CASE Daemon!Boot
    BY <1>2 DEF Daemon!Boot, Out, Daemon!Fresh
  <1>3. CASE Daemon!AwaitBook
    <2>1. CASE at' = "down" /\ memory' = Daemon!Nothing
      BY <2>1 DEF Out, Daemon!Nothing, Daemon!Fresh
    <2>2. CASE at' = at /\ memory' = [memory EXCEPT !.book = file]
      <3>1. at' = "waiting" /\ at = "waiting"
        BY <1>3, <2>2 DEF Daemon!AwaitBook
      <3> QED BY <1>0, <2>2, <3>1 DEF Out, Daemon!Memory
    <2> QED BY <1>3, <2>1, <2>2 DEF Daemon!AwaitBook
  <1>4. CASE Daemon!Open
    <2>1. at = "waiting" /\ at' = "urgent"
          /\ memory' = [memory EXCEPT !.opened = TRUE, !.executed = memory.book.done]
      BY <1>4 DEF Daemon!Open
    <2> QED BY <1>0, <2>1 DEF Out, Daemon!Memory
  <1>5. CASE Daemon!Leave \/ Daemon!Die
    <2>1. at' = "down" /\ memory' = Daemon!Nothing
      BY <1>5 DEF Daemon!Leave, Daemon!Die
    <2> QED BY <2>1 DEF Out, Daemon!Nothing, Daemon!Fresh
  <1>6. CASE Daemon!TimePasses \/ Daemon!Replan
    BY <1>6 DEF Daemon!TimePasses, Daemon!Replan, Out
  <1>7. CASE Daemon!UrgentExits
    <2>1. \E b, x : memory' = [memory EXCEPT !.book = b, !.executed = @ \cup x]
      BY <1>7 DEF Daemon!UrgentExits
    <2>2. at' = "asleep"
      BY <1>7 DEF Daemon!UrgentExits
    <2> QED BY <1>0, <2>1, <2>2 DEF Out, Daemon!Memory
  <1>8. CASE Daemon!Poll
    <2> DEFINE b == Daemon!Merged(file, memory.executed)
    <2>1. memory' = [memory EXCEPT !.book = b, !.settled = memory.stopped]
      BY <1>8 DEF Daemon!Poll
    <2>2. \A e \in b.entries : e.ticker \notin memory.executed
      BY <1>0 DEF Daemon!Merged, Daemon!Book
    <2>3. at' = "stops"
      BY <1>8 DEF Daemon!Poll
    <2> HIDE DEF b
    <2> QED BY <1>0, <2>1, <2>2, <2>3 DEF Out, Daemon!Memory
  <1>9. CASE Daemon!GapStops
    <2>1. PICK a \in Daemon!Attempts(memory.book.stops) : memory' = Daemon!HardRisk(a)
      BY <1>9 DEF Daemon!GapStops
    <2>2. memory.book.stops \in SUBSET Daemon!All
      BY <1>0, MemoryIs
    <2>3. at = "stops" /\ at' = "overlay"
      BY <1>9 DEF Daemon!GapStops
    <2> QED BY <2>1, <2>2, <2>3, HardRiskOut DEF Out
  <1>10. CASE Daemon!Reconcile
    <2>0. at = "overlay" /\ at' = "entries"
      BY <1>10 DEF Daemon!Reconcile
    <2>1. CASE \E q \in Tiers : Daemon!ForceExits(q)
      <3>1. PICK q \in Tiers : Daemon!ForceExits(q)
        BY <2>1
      <3>2. PICK a \in Daemon!Attempts(Daemon!Lowest(Daemon!Headroom(Daemon!ForcedCount(q)))) :
              memory' = [Daemon!HardRisk(a) EXCEPT !.forced = @ \cup (a.tried \ a.lost)]
        BY <3>1 DEF Daemon!ForceExits
      <3>3. Daemon!Lowest(Daemon!Headroom(Daemon!ForcedCount(q))) \in SUBSET Daemon!All
        BY DEF Daemon!Lowest
      <3>4. Daemon!HardRisk(a) \in Daemon!Memory
        BY <3>2, <3>3, SalesType
      <3> DEFINE m == Daemon!HardRisk(a)
      <3>5. /\ m.stopped \subseteq m.executed /\ memory.stopped \subseteq m.stopped
            /\ m.settled = memory.settled
            /\ m.book.entries = memory.book.entries
        BY <3>2, <3>3, HardRiskOut
      <3>6. /\ memory'.stopped = m.stopped /\ memory'.executed = m.executed
            /\ memory'.settled = m.settled /\ memory'.book = m.book
        BY <3>2, <3>4 DEF Daemon!Memory
      <3> HIDE DEF m
      <3> QED BY <2>0, <3>5, <3>6 DEF Out
    <2>2. CASE Daemon!Redeploy
      <3>1. PICK E \in {{}} \cup {Daemon!Redeployed(w) : w \in Daemon!Resolved} :
              memory' = [memory EXCEPT !.book.entries = @ \cup E, !.freed = FALSE,
                                       !.resolves = @ + 1]
        BY <2>2 DEF Daemon!Redeploy
      <3>2. \A e \in E : e.ticker \notin memory.stopped
        BY DEF Daemon!Redeployed, Daemon!Entry
      <3>3. /\ memory'.stopped = memory.stopped /\ memory'.executed = memory.executed
            /\ memory'.settled = memory.settled
            /\ memory'.book.entries = memory.book.entries \cup E
        BY <1>0, <3>1 DEF Daemon!Memory, Daemon!Book
      <3> QED BY <2>0, <3>2, <3>3 DEF Out
    <2>3. CASE UNCHANGED <<held, file, memory>>
      BY <2>0, <2>3 DEF Out
    <2> QED BY <1>10, <2>1, <2>2, <2>3 DEF Daemon!Reconcile
  <1>11. CASE Daemon!Entries
    <2>1. \E b, x : memory' = [memory EXCEPT !.book = b, !.executed = @ \cup x]
      BY <1>11 DEF Daemon!Entries
    <2>2. at' = "asleep"
      BY <1>11 DEF Daemon!Entries
    <2> QED BY <1>0, <2>1, <2>2 DEF Out, Daemon!Memory
  <1> QED BY <1>1, <1>2, <1>3, <1>4, <1>5, <1>6, <1>7, <1>8, <1>9, <1>10, <1>11 DEF Daemon!Next

\* Only the entries of a tick buy, and what they buy is in the book of the tick.
LEMMA BoughtFromBook ==
  ASSUME Kept, [Daemon!Next]_session, NEW t \in Daemon!Bought
  PROVE  at = "entries" /\ \E e \in memory.book.entries : e.ticker = t
  <1>0. memory \in Daemon!Memory
    BY DEF Kept
  <1>1. t \in Daemon!All /\ held'[t] > held[t] /\ held[t] \in Nat
    BY DEF Daemon!Bought, Kept
  <1>2. held' # held
    BY <1>1
  <1>3. ASSUME NEW T \in SUBSET Daemon!All, NEW a \in Daemon!Attempts(T),
               held' = Daemon!AfterSales(a)
        PROVE  FALSE
    BY <1>1, <1>3 DEF Daemon!AfterSales
  <1>4. ~Daemon!UrgentExits
    BY <1>0, <1>3, MemoryIs DEF Daemon!UrgentExits
  <1>5. ~Daemon!GapStops
    BY <1>0, <1>3, MemoryIs DEF Daemon!GapStops
  <1>6. ~Daemon!Reconcile
    <2>1. \A q : ~Daemon!ForceExits(q)
      <3>1. \A n : Daemon!Lowest(n) \in SUBSET Daemon!All
        BY DEF Daemon!Lowest
      <3> QED BY <1>3, <3>1 DEF Daemon!ForceExits
    <2> QED BY <1>2, <2>1 DEF Daemon!Reconcile, Daemon!Redeploy
  <1>7. Daemon!Entries
    BY <1>2, <1>4, <1>5, <1>6 DEF Daemon!Next, session, Daemon!Boot, Daemon!AwaitBook, Daemon!Open,
       Daemon!Leave, Daemon!Die, Daemon!TimePasses, Daemon!Replan, Daemon!Poll
  <1>8. PICK fired \in SUBSET memory.book.entries : \E bought \in SUBSET fired :
          held' = [u \in Daemon!All |->
                     held[u] + Daemon!Committed([entries |-> {e \in bought : e.ticker = u}])]
    BY <1>7 DEF Daemon!Entries
  <1>9. PICK bought \in SUBSET fired :
          held' = [u \in Daemon!All |->
                     held[u] + Daemon!Committed([entries |-> {e \in bought : e.ticker = u}])]
    BY <1>8
  <1>10. ASSUME ~\E e \in memory.book.entries : e.ticker = t PROVE FALSE
    <2>1. {e \in bought : e.ticker = t} = {}
      BY <1>10
    <2>2. held'[t] = held[t] + Daemon!Committed([entries |-> {}])
      BY <1>1, <1>9, <2>1
    <2>3. Daemon!Committed([entries |-> {}]) = 0
      BY NothingCommitted
    <2> QED BY <1>1, <2>2, <2>3
  <1> QED BY <1>7, <1>10 DEF Daemon!Entries

\* A name the process put out for hard risk in an earlier tick is not bought
\* again in its session, whoever asks for it: a morning entry, an entry of a
\* later plan or the redeployment.
THEOREM StoppedStays == DaySpec => StoppedStaysOut
  <1>1. DayInit => Out
    BY DayStarts, OutInit
  <1>2. Kept /\ Counted /\ Out /\ [DayNext]_<<vars, weights, session, intake, part>> => Out'
    BY DaySteps, OutNext
  <1>3. Kept /\ Out /\ [DayNext]_<<vars, weights, session, intake, part>> =>
          [Daemon!Bought \cap memory.settled = {}]_session
    <2> SUFFICES ASSUME Kept, Out, [Daemon!Next]_session,
                        NEW t \in Daemon!Bought, t \in memory.settled
                 PROVE  FALSE
      BY DaySteps
    <2> QED BY BoughtFromBook DEF Out
  <1> QED BY <1>1, <1>2, <1>3, DaemonTypes, PTL
          DEF DaySpec, StoppedStaysOut, Daemon!StoppedStaysOut, Daemon!vars, session

-----------------------------------------------------------------------------
(* The evening's pipeline.                                                 *)

\* What the process knows has a place for the opening.
Known == "opened" \in DOMAIN memory

Ticking == clock \in {"early", "open", "late", "closed"}

\* A process that was open knows it; one that is gone has forgotten it.  A
\* pipeline was started only after the close, by the last process there is.
Ended ==
  /\ at = "down" => memory.opened = FALSE
  /\ memory.opened = TRUE => clock # "early"
  /\ memory.opened \in BOOLEAN
  /\ pipelines \in {0, 1}
  /\ pipelines = 1 => clock = "closed" /\ at = "down"

IInv == Known /\ Ticking /\ Ended

\* A day passes by its clock.
LEMMA ClockPasses ==
  ASSUME Ticking, Daemon!TimePasses
  PROVE  Ticking' /\ clock' # "early"
  <1>1. DOMAIN Daemon!Clocks = 1 .. 4 /\ Daemon!Clocks[1] = "early" /\ Daemon!Clocks[2] = "open"
        /\ Daemon!Clocks[3] = "late" /\ Daemon!Clocks[4] = "closed"
    BY DEF Daemon!Clocks
  <1> DEFINE Place == CHOOSE i \in DOMAIN Daemon!Clocks : Daemon!Clocks[i] = clock
  <1>2. Place \in 1 .. 4 /\ Daemon!Clocks[Place] = clock
    <2>1. \E i \in DOMAIN Daemon!Clocks : Daemon!Clocks[i] = clock
      BY <1>1 DEF Ticking
    <2> QED BY <2>1, <1>1
  <1>3. Place # 4
    BY <1>1, <1>2 DEF Daemon!TimePasses
  <1>4. clock' = Daemon!Clocks[1 + Place]
    BY DEF Daemon!TimePasses
  <1> HIDE DEF Place
  <1>5. Place \in {1, 2, 3}
    BY <1>2, <1>3
  <1> QED BY <1>1, <1>4, <1>5 DEF Ticking

LEMMA Starts == Daemon!Init => IInv
  BY DEF Daemon!Init, IInv, Known, Ticking, Ended, Daemon!Nothing, Daemon!Fresh

\* A start and an end of the process.
LEMMA Lifecycle ==
  ASSUME IInv, Daemon!Boot \/ Daemon!AwaitBook \/ Daemon!Open \/ Daemon!Leave \/ Daemon!Die
  PROVE  IInv'
  <1> USE DEF IInv, Known, Ticking, Ended
  <1>1. CASE Daemon!Boot
    BY <1>1 DEF Daemon!Boot, Daemon!Fresh
  <1>2. CASE Daemon!AwaitBook
    <2>1. at = "waiting" /\ UNCHANGED <<clock, pipelines>>
      BY <1>2 DEF Daemon!AwaitBook
    <2>2. CASE at' = "down" /\ memory' = Daemon!Nothing
      BY <2>1, <2>2 DEF Daemon!Nothing, Daemon!Fresh
    <2>3. CASE at' = at /\ memory' = [memory EXCEPT !.book = file]
      BY <2>1, <2>3
    <2> QED BY <1>2, <2>2, <2>3 DEF Daemon!AwaitBook
  <1>3. CASE Daemon!Open
    BY <1>3 DEF Daemon!Open, Daemon!InHours
  <1>4. CASE Daemon!Leave
    <2>1. clock' = clock /\ at' = "down" /\ memory' = Daemon!Nothing
      BY <1>4 DEF Daemon!Leave
    <2>2. pipelines = 0
      BY <1>4 DEF Daemon!Leave
    <2>3. pipelines' = 0 \/ (pipelines' = 1 /\ clock = "closed")
      BY <1>4, <2>2 DEF Daemon!Leave, Daemon!PipelineDue, Daemon!InHours
    <2> QED BY <2>1, <2>3 DEF Daemon!Nothing, Daemon!Fresh
  <1>5. CASE Daemon!Die
    BY <1>5 DEF Daemon!Die, Daemon!Nothing, Daemon!Fresh
  <1> QED BY <1>1, <1>2, <1>3, <1>4, <1>5

\* What a step of the session changes of the process's memory is never whether
\* the market had opened.
LEMMA SessionStep ==
  ASSUME Ended, Ticking, at # "down", at' # "down",
         memory'.opened = memory.opened, UNCHANGED <<clock, pipelines>>
  PROVE  Ended' /\ Ticking'
  BY DEF Ended, Ticking

\* A tick, sales and purchases included.
LEMMA Tick ==
  ASSUME IInv, Daemon!UrgentExits \/ Daemon!Poll \/ Daemon!GapStops \/ Daemon!Reconcile \/ Daemon!Entries
  PROVE  IInv'
  <1>1. UNCHANGED <<clock, pipelines>> /\ at # "down" /\ at' # "down"
    BY DEF Daemon!UrgentExits, Daemon!Poll, Daemon!GapStops, Daemon!Reconcile, Daemon!Entries
  <1>2. Known' /\ memory'.opened = memory.opened
    <2> USE DEF IInv, Known
    <2>1. ASSUME NEW a PROVE "opened" \in DOMAIN Daemon!HardRisk(a) /\ Daemon!HardRisk(a).opened = memory.opened
      <3> DEFINE noted == a.tried \ a.lost
      <3> DEFINE b == Daemon!WithoutStops(memory.book, Daemon!Closed(a))
      <3> DEFINE e == memory.executed \cup noted
      <3> DEFINE s == memory.stopped \cup noted
      <3> DEFINE f == memory.freed \/ noted # {}
      <3>1. Daemon!HardRisk(a) = [memory EXCEPT !.book = b, !.executed = e, !.stopped = s, !.freed = f]
        BY Zenon DEF Daemon!HardRisk
      <3> HIDE DEF b, e, s, f
      <3> QED BY <3>1
    <2>2. CASE Daemon!UrgentExits
      BY <2>2 DEF Daemon!UrgentExits
    <2>3. CASE Daemon!Poll
      BY <2>3 DEF Daemon!Poll
    <2>4. CASE Daemon!GapStops
      <3>1. PICK a : memory' = Daemon!HardRisk(a)
        BY <2>4 DEF Daemon!GapStops
      <3> QED BY <3>1, <2>1
    <2>5. CASE Daemon!Reconcile
      <3>1. ASSUME NEW q \in Tiers, Daemon!ForceExits(q)
            PROVE  Known' /\ memory'.opened = memory.opened
        <4>1. PICK a : memory' = [Daemon!HardRisk(a) EXCEPT !.forced = @ \cup (a.tried \ a.lost)]
          BY <3>1 DEF Daemon!ForceExits
        <4> QED BY <4>1, <2>1
      <3>2. ASSUME Daemon!Redeploy
            PROVE  Known' /\ memory'.opened = memory.opened
        BY <3>2 DEF Daemon!Redeploy
      <3> QED BY <2>5, <3>1, <3>2 DEF Daemon!Reconcile
    <2>6. CASE Daemon!Entries
      BY <2>6 DEF Daemon!Entries
    <2> QED BY <2>2, <2>3, <2>4, <2>5, <2>6
  <1> QED BY <1>1, <1>2, SessionStep DEF IInv

LEMMA Preserved == IInv /\ [Daemon!Next]_Daemon!vars => IInv'
  <1> SUFFICES ASSUME IInv, [Daemon!Next]_Daemon!vars PROVE IInv'
    OBVIOUS
  <1>1. CASE Daemon!TimePasses
    <2>1. Ticking' /\ clock' # "early"
      BY <1>1, ClockPasses DEF IInv
    <2>2. UNCHANGED <<at, memory, pipelines>> /\ clock # "closed"
      BY <1>1 DEF Daemon!TimePasses
    <2> QED BY <2>1, <2>2 DEF IInv, Known, Ended
  <1>2. CASE Daemon!Replan
    BY <1>2 DEF Daemon!Replan, IInv, Known, Ticking, Ended
  <1>3. CASE UNCHANGED Daemon!vars
    BY <1>3 DEF Daemon!vars, IInv, Known, Ticking, Ended
  <1> QED BY <1>1, <1>2, <1>3, Lifecycle, Tick DEF Daemon!Next

\* The evening's pipeline starts at most once, and only after the close, whatever
\* stops and starts the daemon.
THEOREM PipelineStartsOnce == DaySpec => []PipelineOnce
  <1>1. DayInit => IInv
    BY DayStarts, Starts
  <1>2. IInv /\ [DayNext]_<<vars, weights, session, intake, part>> => IInv'
    BY DaySteps, Preserved DEF Daemon!vars, session
  <1>3. IInv => PipelineOnce
    BY DEF IInv, Ended, PipelineOnce, Daemon!PipelineOnce
  <1> QED BY <1>1, <1>2, <1>3, PTL DEF DaySpec

-----------------------------------------------------------------------------
(* The optimizer: a name that may hold no weight.                          *)

\* What the solver is asked to choose from are whole numbers.
LEMMA AskIs ==
  ASSUME ask \in Asks
  PROVE  /\ ask.known \subseteq Assets /\ ask.cap \in Nat
         /\ \A t \in Weights!Universe : Weights!Cap(t) \in Nat
         /\ \A t \in Weights!Universe \ {Cash} : Weights!Previous[t] = ask.prev[t] /\ ask.prev[t] \in Int
         /\ IsFiniteSet(Weights!Universe)
         /\ Fund \notin ask.known /\ Cash \notin ask.known /\ Fund # Cash
  <1>1. /\ ask.known \subseteq Assets /\ ask.cap \in Nat
        /\ ask.prev \in [Assets \cup {Fund} -> Int]
    BY WeightsAssumption DEF Weights!Ask
  <1>2. \A t \in Weights!Universe : Weights!Cap(t) \in Nat
    BY <1>1 DEF Weights!Cap, Weights!Whole
  <1>3. ASSUME NEW t \in Weights!Universe, t # Cash
        PROVE  Weights!Previous[t] = ask.prev[t] /\ ask.prev[t] \in Int
    BY <1>1, <1>3 DEF Weights!Previous, Weights!Universe
  <1>4. IsFiniteSet(Weights!Universe)
    <2>1. IsFiniteSet(ask.known)
      BY <1>1, WeightsAssumption, FS_Subset
    <2>2. IsFiniteSet(ask.known \cup {Fund})
      BY <2>1, FS_AddElement
    <2>3. IsFiniteSet((ask.known \cup {Fund}) \cup {Cash})
      BY <2>2, FS_AddElement
    <2>4. Weights!Universe = (ask.known \cup {Fund}) \cup {Cash}
      BY DEF Weights!Universe
    <2> QED BY <2>3, <2>4
  <1> QED BY <1>1, <1>2, <1>3, <1>4, WeightsAssumption

LEMMA FeasibleIs ==
  ASSUME ask \in Asks, NEW w \in Weights!Feasible, NEW t \in Weights!Universe
  PROVE  w[t] \in Int
  <1>1. PICK v \in [ask.known -> UNION {Weights!Levels(u) : u \in ask.known}] :
          w = [u \in Weights!Universe |->
                 IF u = Cash THEN Weights!Sleeve
                 ELSE IF u = Fund
                      THEN Weights!Whole - Weights!Sleeve
                           - Weights!Total(ask.known, LAMBDA x : v[x])
                 ELSE v[u]]
    BY Zenon DEF Weights!Feasible
  <1>2. \A u \in ask.known : Weights!Levels(u) \subseteq Int
    BY DEF Weights!Levels
  <1>3. v \in [ask.known -> Int]
    BY <1>2
  <1>4. Weights!Total(ask.known, LAMBDA x : v[x]) = Total(v, ask.known)
    BY DEF Total, MapThenSumSet, MapThenFoldSet,
           Weights!Total, Weights!MapThenSumSet, Weights!MapThenFoldSet
  <1>5. Total(v, ask.known) \in Int
    <2>1. IsFiniteSet(ask.known)
      BY AskIs, WeightsAssumption, FS_Subset
    <2> QED BY <1>3, <2>1, TotalFacts
  <1>6. CASE t = Cash
    BY <1>1, <1>6 DEF Weights!Sleeve
  <1>7. CASE t = Fund /\ t # Cash
    <2>1. w[t] = Weights!Whole - Weights!Sleeve - Total(v, ask.known)
      BY <1>1, <1>4, <1>7
    <2> QED BY <1>5, <2>1 DEF Weights!Sleeve, Weights!Whole
  <1>8. CASE t # Fund /\ t # Cash
    BY <1>1, <1>3, <1>8 DEF Weights!Universe
  <1> QED BY <1>6, <1>7, <1>8

\* The clip leaves no weight below zero, and none at all where none may be.
LEMMA ClippedIs ==
  ASSUME ask \in Asks, NEW w \in [Weights!Universe -> Int]
  PROVE  /\ Weights!Clipped(w) \in [Weights!Universe -> Nat]
         /\ \A t \in ask.known \ ask.eligible : Weights!Clipped(w)[t] = 0
  <1>1. ASSUME NEW t \in Weights!Universe
        PROVE  /\ Weights!Clipped(w)[t] \in Nat
               /\ Weights!Cap(t) = 0 => Weights!Clipped(w)[t] = 0
    <2> DEFINE boxed == Weights!Larger(0, Weights!Smaller(w[t], Weights!Cap(t)))
    <2>1. Weights!Cap(t) \in Nat /\ w[t] \in Int
      BY AskIs
    <2>2. boxed \in Nat /\ (Weights!Cap(t) = 0 => boxed = 0)
      BY <2>1 DEF Weights!Larger, Weights!Smaller
    <2>3. Weights!Clipped(w)[t] = IF boxed < Weights!Dust /\ t # Cash THEN 0 ELSE boxed
      BY DEF Weights!Clipped
    <2> QED BY <2>2, <2>3
  <1>2. Weights!Clipped(w) = [t \in Weights!Universe |-> Weights!Clipped(w)[t]]
    BY DEF Weights!Clipped
  <1>3. \A t \in ask.known \ ask.eligible : t \in Weights!Universe /\ Weights!Cap(t) = 0
    BY AskIs DEF Weights!Universe, Weights!Cap
  <1> QED BY <1>1, <1>2, <1>3

\* An answer that is accepted is clipped, and the trades are those of the
\* accepted answer.
Accepted ==
  /\ ask \in Asks
  /\ phase \in {"solved", "done"} /\ Weights!Usable =>
       /\ target.weight \in [Weights!Universe -> Nat] /\ target.total \in Nat \ {0}
       /\ \A t \in ask.known \ ask.eligible : target.weight[t] = 0
  /\ phase = "done" /\ Weights!Usable =>
       trades = {Weights!Trade(t) : t \in {u \in Weights!Universe : Weights!Traded(u)}}

LEMMA AcceptedInit == Weights!Init => Accepted
  BY DEF Weights!Init, Accepted

\* What a point may be off by is a whole number, and no more than 50bp.
LEMMA NearIs ==
  ASSUME NEW v \in Weights!Verdicts, NEW off \in Weights!Near(v), NEW t \in Weights!Universe
  PROVE  off[t] \in Int /\ -50 <= off[t]
  <1> DEFINE n == Weights!Tolerance[v]
             A == {[u \in Weights!Universe |-> IF u \in S THEN s * n ELSE 0] :
                     S \in SUBSET Weights!Universe, s \in {1, -1}}
             B == {[x \in Weights!Universe |-> IF x = u THEN n ELSE IF x = w THEN -n ELSE 0] :
                     u, w \in Weights!Universe}
  <1>1. n \in {0, 10, 20, 50}
    BY DEF Weights!Tolerance
  <1>2. Weights!Near(v) = A \cup B
    BY DEF Weights!Near
  <1> HIDE DEF n
  <1>3. CASE off \in A
    BY <1>1, <1>3
  <1>4. CASE off \in B
    BY <1>1, <1>4
  <1> HIDE DEF A, B
  <1> QED BY <1>2, <1>3, <1>4

LEMMA SolveAccepted ==
  ASSUME Accepted, Weights!Solve
  PROVE  Accepted'
  <1>0. ask \in Asks /\ ask' = ask /\ phase' = "solved"
    BY DEF Accepted, Weights!Solve
  <1>1. PICK v \in Weights!Verdicts, w \in Weights!Feasible :
          \E off \in Weights!Near(v) :
            LET answer == Weights!Plus(w, off)
                kept == Weights!Clipped(answer)
            IN  target' = IF Weights!Governed(answer, v)
                          THEN [status |-> v[2], weight |-> kept,
                                total |-> Weights!Total(Weights!Universe, LAMBDA t : kept[t])]
                          ELSE [status |-> "raised"]
    BY Zenon DEF Weights!Solve
  <1>2. PICK off \in Weights!Near(v) :
          LET answer == Weights!Plus(w, off)
              kept == Weights!Clipped(answer)
          IN  target' = IF Weights!Governed(answer, v)
                        THEN [status |-> v[2], weight |-> kept,
                              total |-> Weights!Total(Weights!Universe, LAMBDA t : kept[t])]
                        ELSE [status |-> "raised"]
    BY Zenon, <1>1
  <1> DEFINE answer == Weights!Plus(w, off)
             kept == Weights!Clipped(answer)
             total == Weights!Total(Weights!Universe, LAMBDA t : kept[t])
  <1>3. \A t \in Weights!Universe : off[t] \in Int /\ -50 <= off[t]
    BY NearIs
  <1>4. /\ answer \in [Weights!Universe -> Int]
        /\ Cash \in Weights!Universe /\ answer[Cash] >= 250
    <2>1. answer \in [Weights!Universe -> Int]
      BY <1>0, <1>3, FeasibleIs DEF Weights!Plus
    <2>2. Cash \in Weights!Universe
      BY DEF Weights!Universe
    <2>3. w[Cash] = Weights!Sleeve
      BY Zenon, <2>2 DEF Weights!Feasible
    <2>4. answer[Cash] = w[Cash] + off[Cash]
      BY <2>2 DEF Weights!Plus
    <2> QED BY <1>3, <2>1, <2>2, <2>3, <2>4 DEF Weights!Sleeve
  <1>5. \/ target' = [status |-> v[2], weight |-> kept, total |-> total]
        \/ target' = [status |-> "raised"]
    BY <1>2
  <1> HIDE DEF answer
  <1>6. /\ kept \in [Weights!Universe -> Nat] /\ kept[Cash] # 0
        /\ \A t \in ask.known \ ask.eligible : kept[t] = 0
    <2>1. kept[Cash] = Weights!Larger(0, Weights!Smaller(answer[Cash], Weights!Cap(Cash)))
      BY <1>4 DEF Weights!Clipped
    <2>2. Weights!Cap(Cash) = Weights!Whole
      BY DEF Weights!Cap
    <2>3. kept[Cash] # 0
      BY <1>4, <2>1, <2>2 DEF Weights!Larger, Weights!Smaller, Weights!Whole
    <2> QED BY <1>0, <1>4, <2>3, ClippedIs
  <1>7. total \in Nat \ {0}
    <2> HIDE DEF kept
    <2>1. total = Total(kept, Weights!Universe)
      BY DEF Total, MapThenSumSet, MapThenFoldSet,
             Weights!Total, Weights!MapThenSumSet, Weights!MapThenFoldSet
    <2>2. IsFiniteSet(Weights!Universe) /\ IsFiniteSet(Weights!Universe \ {Cash})
      BY <1>0, AskIs, FS_RemoveElement
    <2>3. Total(kept, Weights!Universe) = kept[Cash] + Total(kept, Weights!Universe \ {Cash})
      <3>1. Weights!Universe \in SUBSET Weights!Universe /\ kept \in [Weights!Universe -> Int]
        BY <1>6
      <3> QED BY <1>4, <2>2, <3>1, TotalFacts
    <2>4. Total(kept, Weights!Universe \ {Cash}) \in Nat
      <3> DEFINE R == Weights!Universe \ {Cash}
                 rest == [t \in R |-> kept[t]]
      <3>1. rest \in [R -> Nat] /\ kept \in [Weights!Universe -> Int] /\ rest \in [R -> Int]
            /\ \A t \in R : kept[t] = rest[t]
        BY <1>6
      <3>2. R \in SUBSET (Weights!Universe \cap R) /\ IsFiniteSet(R)
        BY <2>2
      <3> HIDE DEF R, rest
      <3>3. Total(kept, R) = Total(rest, R)
        BY <2>2, <3>1, <3>2, TotalAgree
      <3>4. Total(rest, R) \in Nat
        BY <3>1, <3>2, TotalNat
      <3> QED BY <3>3, <3>4 DEF R
    <2> QED BY <1>4, <1>6, <2>1, <2>3, <2>4
  <1>8. "raised" \notin {"optimal", "optimal_inaccurate"}
    OBVIOUS
  <1>9. Weights!Universe' = Weights!Universe
    BY <1>0 DEF Weights!Universe
  <1> HIDE DEF kept, total
  <1>10. Weights!Usable' => target'.weight = kept /\ target'.total = total
    BY <1>5, <1>8 DEF Weights!Usable
  <1> QED BY <1>0, <1>6, <1>7, <1>9, <1>10 DEF Accepted

LEMMA AcceptedNext ==
  ASSUME Accepted, [Weights!Next]_weights
  PROVE  Accepted'
  <1>1. CASE UNCHANGED weights
    <2>1. UNCHANGED <<ask, phase, budget, target, trades>>
      BY <1>1 DEF weights
    <2>2. /\ Weights!Usable' = Weights!Usable /\ Weights!Universe' = Weights!Universe
          /\ {Weights!Trade(t) : t \in {u \in Weights!Universe : Weights!Traded(u)}}'
             = {Weights!Trade(t) : t \in {u \in Weights!Universe : Weights!Traded(u)}}
      BY <2>1 DEF Weights!Usable, Weights!Universe, Weights!Trade, Weights!Traded,
               Weights!Change, Weights!Previous
    <2> QED BY <2>1, <2>2 DEF Accepted
  <1>2. CASE Weights!Pose
    BY <1>2 DEF Weights!Pose, Accepted
  <1>3. CASE Weights!NoAnswer
    BY <1>3 DEF Weights!NoAnswer, Accepted, Weights!Usable
  <1>4. CASE Weights!Compare
    <2>1. /\ phase = "solved" /\ phase' = "done" /\ UNCHANGED <<ask, budget, target>>
          /\ trades' = IF Weights!Usable
                       THEN {Weights!Trade(t) : t \in {u \in Weights!Universe : Weights!Traded(u)}}
                       ELSE {}
      BY <1>4 DEF Weights!Compare
    <2>2. /\ Weights!Usable' = Weights!Usable /\ Weights!Universe' = Weights!Universe
          /\ {Weights!Trade(t) : t \in {u \in Weights!Universe : Weights!Traded(u)}}'
             = {Weights!Trade(t) : t \in {u \in Weights!Universe : Weights!Traded(u)}}
      BY <2>1 DEF Weights!Usable, Weights!Universe, Weights!Trade, Weights!Traded,
               Weights!Change, Weights!Previous
    <2> QED BY <2>1, <2>2 DEF Accepted
  <1> QED BY <1>1, <1>2, <1>3, <1>4, SolveAccepted DEF Weights!Next

\* What the band and the sign of a change make of a weight of zero.
LEMMA ZeroWeight ==
  ASSUME NEW p \in Int, NEW n \in Nat \ {0}
  PROVE  /\ p >= Weights!Band => Weights!Absolute(0 * Weights!Whole - p * n) >= Weights!Band * n
         /\ p \in 0 .. Weights!Band - 1 =>
              ~(Weights!Absolute(0 * Weights!Whole - p * n) >= Weights!Band * n)
         /\ p >= 0 => ~(0 * Weights!Whole - p * n > 0)
  <1>1. 0 * Weights!Whole - p * n = -(p * n) /\ p * n \in Int
    BY DEF Weights!Whole
  <1>2. p >= Weights!Band => p * n >= Weights!Band * n
    BY DEF Weights!Band
  <1>3. p >= 0 => p * n >= 0
    OBVIOUS
  <1>4. p >= Weights!Band => p >= 0
    BY DEF Weights!Band
  <1>5. ASSUME p \in 0 .. Weights!Band - 1
        PROVE  ~(Weights!Absolute(0 * Weights!Whole - p * n) >= Weights!Band * n)
    <2>1. p \in 0 .. 49 /\ Weights!Band = 50
      BY <1>5 DEF Weights!Band
    <2>2. p * n < 50 * n
      BY <2>1
    <2>3. Weights!Absolute(0 * Weights!Whole - p * n) = p * n
      BY <1>1, <1>3, <2>1 DEF Weights!Absolute
    <2> QED BY <1>1, <2>1, <2>2, <2>3
  <1> QED BY <1>1, <1>2, <1>3, <1>4, <1>5 DEF Weights!Absolute

LEMMA AcceptedSold == Accepted => IneligibleSoldWhole
  <1> SUFFICES ASSUME Accepted, phase = "done", Weights!Usable,
                      NEW t \in ask.known \ ask.eligible
               PROVE  /\ Weights!Previous[t] >= Weights!Band =>
                           [name |-> t, action |-> "SELL", whole |-> TRUE] \in trades
                      /\ Weights!Previous[t] >= 0 => ~\E x \in trades : x.name = t /\ x.action = "BUY"
                      /\ Weights!Previous[t] \in 0 .. Weights!Band - 1 => ~\E x \in trades : x.name = t
    BY DEF IneligibleSoldWhole, Weights!IneligibleSoldWhole
  <1>1. /\ ask \in Asks /\ target.total \in Nat \ {0} /\ target.weight[t] = 0
        /\ trades = {Weights!Trade(u) : u \in {v \in Weights!Universe : Weights!Traded(v)}}
    BY DEF Accepted
  <1>2. t \in Weights!Universe /\ t # Cash /\ Weights!Previous[t] \in Int
    BY <1>1, AskIs DEF Weights!Universe
  <1> DEFINE p == Weights!Previous[t]
             n == target.total
  <1>3. Weights!Change(t) = 0 * Weights!Whole - p * n
    BY <1>1 DEF Weights!Change
  <1>4. p >= Weights!Band => Weights!Traded(t)
    BY <1>1, <1>2, <1>3, ZeroWeight DEF Weights!Traded
  <1>5. p >= 0 => ~(Weights!Change(t) > 0)
    BY <1>1, <1>2, <1>3, ZeroWeight
  <1>6. p >= 0 => Weights!Trade(t) = [name |-> t, action |-> "SELL", whole |-> TRUE]
    BY <1>1, <1>5 DEF Weights!Trade
  <1>7. p >= Weights!Band => p >= 0
    BY <1>2 DEF Weights!Band
  <1>8. p >= Weights!Band => [name |-> t, action |-> "SELL", whole |-> TRUE] \in trades
    BY <1>1, <1>2, <1>4, <1>6, <1>7
  <1>9. \A u : Weights!Trade(u).name = u
    BY DEF Weights!Trade
  <1>10. p >= 0 => \A x \in trades : x.name = t => x = Weights!Trade(t)
    BY <1>1, <1>9
  <1>11. p \in 0 .. Weights!Band - 1 => ~Weights!Traded(t)
    BY <1>1, <1>2, <1>3, ZeroWeight DEF Weights!Traded
  <1>12. p \in 0 .. Weights!Band - 1 => ~\E x \in trades : x.name = t
    BY <1>1, <1>9, <1>11
  <1> QED BY <1>6, <1>8, <1>10, <1>12

\* For any book, any question and any answer the solvers' tolerances let through, a
\* name that may hold no weight is sold whole when it has the band's weight or more,
\* is left as it is when it has less, and is not bought unless it is short.
THEOREM IneligibleSold == DaySpec => []IneligibleSoldWhole
  <1>1. DayInit => Accepted
    BY DayStarts, AcceptedInit
  <1>2. Accepted /\ [DayNext]_<<vars, weights, session, intake, part>> => Accepted'
    BY DaySteps, AcceptedNext
  <1> QED BY <1>1, <1>2, AcceptedSold, PTL DEF DaySpec

-----------------------------------------------------------------------------
(* The optimizer: its own budgets leave it an answer.                      *)

LEMMA UniverseIs ==
  ASSUME ask \in Asks
  PROVE  /\ IsFiniteSet(ask.known) /\ IsFiniteSet(ask.known \cup {Fund})
         /\ IsFiniteSet(Weights!Universe) /\ Weights!Universe = ask.known \cup {Fund, Cash}
         /\ Weights!Universe \ {Cash} = ask.known \cup {Fund}
         /\ Fund \notin ask.known /\ Cash \notin ask.known /\ Fund # Cash
  <1>1. IsFiniteSet(ask.known)
    BY AskIs, WeightsAssumption, FS_Subset
  <1>2. IsFiniteSet(ask.known \cup {Fund})
    BY <1>1, FS_AddElement
  <1>3. Weights!Universe \ {Cash} = ask.known \cup {Fund}
    BY AskIs DEF Weights!Universe
  <1> QED BY <1>1, <1>2, <1>3, AskIs DEF Weights!Universe

LEMMA PreviousIs ==
  ASSUME ask \in Asks
  PROVE  Weights!Previous \in [Weights!Universe -> Int] /\ Weights!Previous[Cash] \in Nat
  <1> DEFINE N == ask.known \cup {Fund}
             f == [t \in N |-> ask.prev[t]]
  <1>1. Weights!Total(N, LAMBDA u : ask.prev[u]) = Total(f, N)
    BY DEF Total, MapThenSumSet, MapThenFoldSet,
           Weights!Total, Weights!MapThenSumSet, Weights!MapThenFoldSet
  <1>2. f \in [N -> Int]
    BY AskIs, UniverseIs
  <1>3. Total(f, N) \in Int
    <2>1. IsFiniteSet(N)
      BY UniverseIs
    <2> HIDE DEF f, N
    <2> QED BY <1>2, <2>1, TotalFacts
  <1>4. Cash \in Weights!Universe
    BY DEF Weights!Universe
  <1>5. Weights!Previous[Cash] = Weights!Larger(0, Weights!Whole - Total(f, N))
    BY <1>1, <1>4 DEF Weights!Previous
  <1>6. Weights!Previous[Cash] \in Nat
    BY <1>3, <1>5 DEF Weights!Larger, Weights!Whole
  <1>7. \A t \in Weights!Universe : Weights!Previous[t] \in Int
    BY <1>6, AskIs
  <1>8. Weights!Previous = [t \in Weights!Universe |-> Weights!Previous[t]]
    BY DEF Weights!Previous
  <1> QED BY <1>6, <1>7, <1>8

LEMMA AbsoluteIs ==
  ASSUME NEW n \in Int
  PROVE  Weights!Absolute(n) \in Nat
  BY DEF Weights!Absolute

\* What each weight is away from the book.
Moved(w) == [t \in Weights!Universe |-> Weights!Absolute(w[t] - Weights!Previous[t])]

LEMMA TurnoverIs ==
  ASSUME ask \in Asks, NEW w \in [Weights!Universe -> Int]
  PROVE  /\ Moved(w) \in [Weights!Universe -> Nat]
         /\ Weights!Turnover2(w, Weights!Previous) = Total(Moved(w), Weights!Universe)
         /\ Weights!Turnover2(w, Weights!Previous) \in Nat
  <1>1. DOMAIN Weights!Previous = Weights!Universe
    BY DEF Weights!Previous
  <1>2. Moved(w) \in [Weights!Universe -> Nat]
    <2>1. ASSUME NEW t \in Weights!Universe
          PROVE  Weights!Absolute(w[t] - Weights!Previous[t]) \in Nat
      <3>1. w[t] - Weights!Previous[t] \in Int
        BY PreviousIs
      <3> QED BY <3>1, AbsoluteIs
    <2> QED BY <2>1 DEF Moved
  <1>3. Weights!Turnover2(w, Weights!Previous) = Total(Moved(w), Weights!Universe)
    <2> DEFINE S == DOMAIN Weights!Previous
               F == [t \in S |-> Weights!Absolute(w[t] - Weights!Previous[t])]
    <2>1. Weights!Turnover2(w, Weights!Previous) = Total(F, S)
      BY DEF Weights!Turnover2, Total, MapThenSumSet, MapThenFoldSet,
             Weights!Total, Weights!MapThenSumSet, Weights!MapThenFoldSet
    <2>2. S = Weights!Universe
      BY <1>1
    <2>3. F = Moved(w)
      BY <1>1 DEF Moved
    <2> HIDE DEF F, S
    <2> QED BY <2>1, <2>2, <2>3
  <1> QED BY <1>2, <1>3, UniverseIs, TotalNat

\* Whatever the probe measures is a whole number.
LEMMA MeasuresAre ==
  ASSUME ask \in Asks, NEW m \in Weights!Measures
  PROVE  m \in Nat
  <1>1. CASE m = 0
    BY <1>1
  <1>2. CASE m # 0
    <2> DEFINE Told(v) == {Weights!Turnover2(Weights!Plus(w, off), Weights!Previous) :
                             w \in Weights!Least, off \in Weights!Near(v)}
    <2>1. PICK v \in Weights!Verdicts : m \in Told(v)
      <3>1. Weights!Measures = {0} \cup UNION {Told(v) : v \in Weights!Verdicts}
        BY DEF Weights!Measures
      <3> HIDE DEF Told
      <3> QED BY <1>2, <3>1
    <2>2. PICK w \in Weights!Least : \E off \in Weights!Near(v) :
            m = Weights!Turnover2(Weights!Plus(w, off), Weights!Previous)
      BY <2>1
    <2>3. PICK off \in Weights!Near(v) :
            m = Weights!Turnover2(Weights!Plus(w, off), Weights!Previous)
      BY <2>2
    <2>4. w \in Weights!Feasible
      BY Zenon DEF Weights!Least
    <2>5. Weights!Plus(w, off) \in [Weights!Universe -> Int]
      <3>1. ASSUME NEW t \in Weights!Universe PROVE w[t] + off[t] \in Int
        BY <2>4, FeasibleIs, NearIs
      <3> QED BY <3>1 DEF Weights!Plus
    <2> DEFINE W == Weights!Plus(w, off)
    <2>6. W \in [Weights!Universe -> Int]
      BY <2>5
    <2>7. m = Weights!Turnover2(W, Weights!Previous)
      BY <2>3
    <2> HIDE DEF W
    <2> QED BY <2>6, <2>7, TurnoverIs
  <1> QED BY <1>1, <1>2

\* The book, put into its box.
Boxed == [t \in Weights!Universe |-> Weights!Projected(t)]

LEMMA BoxedIs ==
  ASSUME ask \in Asks
  PROVE  /\ Boxed \in [Weights!Universe -> Nat]
         /\ Boxed[Cash] = Weights!Sleeve /\ \A t \in ask.known : Boxed[t] <= Weights!Cap(t)
         /\ Weights!Floor2 = Total(Moved(Boxed), Weights!Universe)
                             + Weights!Absolute(Weights!Whole - Total(Boxed, Weights!Universe))
         /\ Weights!Floor2 \in Nat
  <1>1. ASSUME NEW t \in Weights!Universe
        PROVE  /\ Weights!Projected(t) \in Nat
               /\ t # Cash => Weights!Projected(t) <= Weights!Cap(t)
    <2>1. Weights!Cap(t) \in Nat /\ Weights!Previous[t] \in Int
      BY AskIs, PreviousIs
    <2> QED BY <2>1 DEF Weights!Projected, Weights!Sleeve, Weights!Larger, Weights!Smaller
  <1>2. Boxed \in [Weights!Universe -> Nat] /\ \A t \in Weights!Universe : Boxed[t] = Weights!Projected(t)
    BY <1>1 DEF Boxed
  <1>3. Boxed[Cash] = Weights!Sleeve
    BY <1>2 DEF Weights!Universe, Weights!Projected
  <1>4. \A t \in ask.known : Boxed[t] <= Weights!Cap(t)
    BY <1>1, <1>2, UniverseIs
  <1>5. Weights!Forced2 = Total(Moved(Boxed), Weights!Universe)
    BY DEF Moved, Boxed, Weights!Forced2, Total, MapThenSumSet, MapThenFoldSet,
           Weights!Total, Weights!MapThenSumSet, Weights!MapThenFoldSet
  <1>6. Weights!Total(Weights!Universe, Weights!Projected) = Total(Boxed, Weights!Universe)
    BY DEF Boxed, Total, MapThenSumSet, MapThenFoldSet,
           Weights!Total, Weights!MapThenSumSet, Weights!MapThenFoldSet
  <1>7. Weights!Floor2 = Total(Moved(Boxed), Weights!Universe)
                         + Weights!Absolute(Weights!Whole - Total(Boxed, Weights!Universe))
    BY <1>5, <1>6 DEF Weights!Floor2
  <1>8. Total(Moved(Boxed), Weights!Universe) \in Nat
    <2>1. Boxed \in [Weights!Universe -> Int]
      BY <1>2
    <2> QED BY <2>1, TurnoverIs
  <1>9. Weights!Absolute(Weights!Whole - Total(Boxed, Weights!Universe)) \in Nat
    <2>1. Total(Boxed, Weights!Universe) \in Nat
      BY <1>2, UniverseIs, TotalNat
    <2> QED BY <2>1, AbsoluteIs DEF Weights!Whole
  <1>10. Weights!Floor2 \in Nat
    BY <1>7, <1>8, <1>9
  <1> QED BY <1>2, <1>3, <1>4, <1>7, <1>10

\* The budget covers what the box forces, whatever the probe measured.
LEMMA BudgetCovers ==
  ASSUME ask \in Asks, NEW m \in Weights!Measures
  PROVE  Weights!EffectiveCap(m) \in Int /\ Weights!Floor2 <= 2 * Weights!EffectiveCap(m)
  <1> DEFINE binding2 == Weights!Larger(Weights!Floor2, m)
             forced == (binding2 + 1) \div 2 + binding2 \div 2000 + Weights!Slack
             daily == (Weights!DailyTurnover * ask.conviction) \div 100
  <1>1. binding2 \in Nat /\ Weights!Floor2 <= binding2 /\ Weights!Floor2 \in Nat
    BY BoxedIs, MeasuresAre DEF Weights!Larger
  <1>2. daily \in Int
    <2>1. ask.conviction \in Int
      BY WeightsAssumption DEF Weights!Ask
    <2> QED BY <2>1 DEF Weights!DailyTurnover
  <1>3. Weights!EffectiveCap(m) = Weights!Larger(daily, forced)
    BY DEF Weights!EffectiveCap
  <1> HIDE DEF binding2, daily
  <1>4. forced \in Int /\ binding2 <= 2 * forced
    BY <1>1 DEF Weights!Slack
  <1> HIDE DEF forced
  <1>5. Weights!EffectiveCap(m) \in Int /\ forced <= Weights!EffectiveCap(m)
    BY <1>2, <1>3, <1>4 DEF Weights!Larger
  <1> QED BY <1>1, <1>4, <1>5

\* An answer that is d away from the box costs no more than the box and d.
LEMMA ApartFromBox ==
  ASSUME ask \in Asks, NEW G \in [Weights!Universe -> Nat], NEW d \in [Weights!Universe -> Nat],
         \/ \A t \in Weights!Universe : G[t] = Boxed[t] + d[t]
         \/ \A t \in Weights!Universe : Boxed[t] = G[t] + d[t]
  PROVE  Weights!Turnover2(G, Weights!Previous)
           <= Total(Moved(Boxed), Weights!Universe) + Total(d, Weights!Universe)
  <1>1. /\ G \in [Weights!Universe -> Int] /\ Boxed \in [Weights!Universe -> Int]
        /\ d \in [Weights!Universe -> Int]
    BY BoxedIs
  <1>2. Moved(G) \in [Weights!Universe -> Int] /\ Moved(Boxed) \in [Weights!Universe -> Int]
    BY <1>1, TurnoverIs
  <1> DEFINE H == Plus(Moved(Boxed), d, Weights!Universe)
  <1>3. /\ H \in [Weights!Universe -> Int]
        /\ \A t \in Weights!Universe : H[t] = Moved(Boxed)[t] + d[t]
        /\ Total(H, Weights!Universe)
             = Total(Moved(Boxed), Weights!Universe) + Total(d, Weights!Universe)
    BY <1>1, <1>2, UniverseIs, TotalOfPlus
  <1>4. ASSUME NEW t \in Weights!Universe
        PROVE  Moved(G)[t] <= H[t]
    <2>1. /\ Moved(G)[t] = Weights!Absolute(G[t] - Weights!Previous[t])
          /\ Moved(Boxed)[t] = Weights!Absolute(Boxed[t] - Weights!Previous[t])
      BY DEF Moved
    <2>2. G[t] \in Int /\ Boxed[t] \in Int /\ d[t] \in Nat /\ Weights!Previous[t] \in Int
      BY <1>1, PreviousIs
    <2>3. G[t] = Boxed[t] + d[t] \/ Boxed[t] = G[t] + d[t]
      OBVIOUS
    <2>4. H[t] = Moved(Boxed)[t] + d[t]
      BY <1>3
    <2> HIDE DEF H
    <2> QED BY <2>1, <2>2, <2>3, <2>4 DEF Weights!Absolute
  <1> HIDE DEF H
  <1>5. Total(Moved(G), Weights!Universe) <= Total(H, Weights!Universe)
    BY <1>2, <1>3, <1>4, UniverseIs, TotalLeq
  <1>6. Weights!Turnover2(G, Weights!Previous) = Total(Moved(G), Weights!Universe)
    BY <1>1, TurnoverIs
  <1> QED BY <1>3, <1>5, <1>6

\* Weights that make up the whole, that the box lets through but for the fund, and that
\* cost what is forced.
Balanced(G) ==
  /\ G \in [Weights!Universe -> Nat]
  /\ Total(G, Weights!Universe) = Weights!Whole /\ G[Cash] = Weights!Sleeve
  /\ \A t \in ask.known : G[t] <= Weights!Cap(t)
  /\ Weights!Turnover2(G, Weights!Previous) <= Weights!Floor2

\* The box leaves room: the fund takes it.
LEMMA RoomToFund ==
  ASSUME ask \in Asks, Total(Boxed, Weights!Universe) <= Weights!Whole
  PROVE  \E G : Balanced(G)
  <1> DEFINE U == Weights!Universe
             r == Weights!Whole - Total(Boxed, U)
             d == [t \in U |-> IF t = Fund THEN r ELSE 0]
             G == [t \in U |-> Boxed[t] + d[t]]
  <1>1. Boxed \in [U -> Nat] /\ Boxed \in [U -> Int] /\ Total(Boxed, U) \in Nat
    BY BoxedIs, UniverseIs, TotalNat
  <1>2. r \in Nat /\ Weights!Absolute(Weights!Whole - Total(Boxed, U)) = r
    BY <1>1 DEF Weights!Whole, Weights!Absolute
  <1>3. Fund \in U /\ Cash \in U /\ Cash # Fund /\ Fund \notin ask.known /\ IsFiniteSet(U)
        /\ ask.known \subseteq U
    BY UniverseIs
  <1> HIDE DEF r, U
  <1>4. d \in [U -> Nat] /\ d \in [U -> Int] /\ \A t \in U : d[t] = IF t = Fund THEN r ELSE 0
    BY <1>2
  <1> HIDE DEF d
  <1>5. /\ G \in [U -> Nat] /\ G \in [U -> Int]
        /\ \A t \in U : G[t] = Boxed[t] + d[t]
    BY <1>1, <1>4
  <1> HIDE DEF G
  <1>6. Total(d, U) = r
    <2>1. r \in Int
      BY <1>2
    <2> QED BY <1>3, <1>4, <2>1, TotalOne
  <1>7. Total(G, U) = Weights!Whole
    <2>1. Total(G, U) = Total(Boxed, U) + Total(d, U)
      BY <1>1, <1>3, <1>4, <1>5, TotalPlus
    <2> QED BY <1>1, <1>6, <2>1 DEF r, Weights!Whole
  <1>8. G[Cash] = Weights!Sleeve
    <2>1. G[Cash] = Boxed[Cash] + 0
      BY <1>3, <1>4, <1>5
    <2> QED BY <2>1, BoxedIs DEF Weights!Sleeve
  <1>9. \A t \in ask.known : G[t] <= Weights!Cap(t)
    <2>1. ASSUME NEW t \in ask.known PROVE G[t] = Boxed[t]
      <3>1. t \in U /\ d[t] = 0
        BY <1>3, <1>4
      <3> QED BY <1>1, <1>5, <3>1
    <2> QED BY <2>1, BoxedIs
  <1>10. Weights!Turnover2(G, Weights!Previous) <= Weights!Floor2
    <2>1. Weights!Turnover2(G, Weights!Previous) <= Total(Moved(Boxed), U) + Total(d, U)
      BY <1>4, <1>5, ApartFromBox DEF U
    <2>2. Weights!Floor2 = Total(Moved(Boxed), U) + r
      BY <1>2, BoxedIs DEF U
    <2> QED BY <1>6, <2>1, <2>2
  <1> QED BY <1>5, <1>7, <1>8, <1>9, <1>10 DEF Balanced, U

\* The box holds more than the whole: what is sold makes up for it.
LEMMA ExcessIsSold ==
  ASSUME ask \in Asks, ~(Total(Boxed, Weights!Universe) <= Weights!Whole)
  PROVE  \E G : Balanced(G)
  <1> DEFINE U == Weights!Universe
             R == U \ {Cash}
             B == [t \in R |-> Boxed[t]]
             m == Weights!Whole - Weights!Sleeve
  <1>1. Boxed \in [U -> Nat] /\ Boxed \in [U -> Int] /\ Total(Boxed, U) \in Nat
        /\ Boxed[Cash] = Weights!Sleeve
    BY BoxedIs, UniverseIs, TotalNat
  <1>2. Cash \in U /\ IsFiniteSet(U) /\ IsFiniteSet(R) /\ ask.known \subseteq R
        /\ R \in SUBSET U
    BY UniverseIs
  <1> HIDE DEF U
  <1>3. B \in [R -> Nat] /\ B \in [R -> Int] /\ \A t \in R : B[t] = Boxed[t]
    BY <1>1
  <1>4. m \in Nat
    BY DEF Weights!Whole, Weights!Sleeve
  <1>5. Total(Boxed, U) = Weights!Sleeve + Total(B, R) /\ Total(B, R) \in Nat
    <2>1. Total(Boxed, U) = Boxed[Cash] + Total(Boxed, R)
      <3>1. U \in SUBSET U
        OBVIOUS
      <3> QED BY <1>1, <1>2, <3>1, TotalFacts
    <2>2. Total(Boxed, R) = Total(B, R)
      <3>1. R \in SUBSET (U \cap R)
        BY <1>2
      <3> HIDE DEF B, R
      <3> QED BY <1>1, <1>2, <1>3, <3>1, TotalAgree
    <2>3. Total(B, R) \in Nat
      <3> HIDE DEF B, R
      <3> QED BY <1>2, <1>3, TotalNat
    <2> QED BY <1>1, <2>1, <2>2, <2>3
  <1>6. m <= Total(B, R)
    BY <1>1, <1>5 DEF U, Weights!Whole, Weights!Sleeve
  <1>7. PICK g \in [R -> Nat] : Total(g, R) = m /\ \A t \in R : g[t] <= B[t]
    <2> HIDE DEF B, R, m
    <2> QED BY <1>2, <1>3, <1>4, <1>6, TotalDown
  <1> DEFINE G == [t \in U |-> IF t = Cash THEN Weights!Sleeve ELSE g[t]]
             d == [t \in U |-> Boxed[t] - G[t]]
  <1>8. /\ G \in [U -> Nat] /\ G \in [U -> Int]
        /\ G[Cash] = Weights!Sleeve /\ \A t \in R : G[t] = g[t]
    BY <1>2 DEF Weights!Sleeve
  <1>9. \A t \in U : G[t] <= Boxed[t]
    <2>1. ASSUME NEW t \in R PROVE G[t] <= Boxed[t]
      BY <1>3, <1>7, <1>8
    <2> QED BY <1>1, <1>8, <2>1 DEF Weights!Sleeve
  <1> HIDE DEF G
  <1>10. d \in [U -> Nat] /\ d \in [U -> Int] /\ \A t \in U : Boxed[t] = G[t] + d[t]
    <2>1. \A t \in U : Boxed[t] - G[t] \in Nat /\ Boxed[t] = G[t] + (Boxed[t] - G[t])
      BY <1>1, <1>8, <1>9
    <2> QED BY <2>1
  <1> HIDE DEF d
  <1>11. Total(G, U) = Weights!Whole
    <2>1. Total(G, U) = G[Cash] + Total(G, R)
      <3>1. U \in SUBSET U
        OBVIOUS
      <3> QED BY <1>2, <1>8, <3>1, TotalFacts
    <2>2. Total(G, R) = Total(g, R)
      <3>1. R \in SUBSET (U \cap R) /\ g \in [R -> Int]
        BY <1>2
      <3> HIDE DEF R
      <3> QED BY <1>2, <1>8, <3>1, TotalAgree
    <2> QED BY <1>7, <1>8, <2>1, <2>2 DEF Weights!Whole, Weights!Sleeve
  <1>12. Total(Boxed, U) = Weights!Whole + Total(d, U)
    BY <1>1, <1>2, <1>8, <1>10, <1>11, TotalPlus
  <1>13. \A t \in ask.known : G[t] <= Weights!Cap(t)
    <2>1. ASSUME NEW t \in ask.known PROVE G[t] <= Weights!Cap(t)
      <3>1. t \in U /\ Weights!Cap(t) \in Nat /\ Boxed[t] <= Weights!Cap(t)
        BY <1>2, AskIs, BoxedIs DEF U
      <3>2. G[t] <= Boxed[t] /\ G[t] \in Nat /\ Boxed[t] \in Nat
        BY <1>1, <1>8, <1>9, <3>1
      <3> QED BY <3>1, <3>2
    <2> QED BY <2>1
  <1>14. Weights!Turnover2(G, Weights!Previous) <= Weights!Floor2
    <2>1. Weights!Turnover2(G, Weights!Previous) <= Total(Moved(Boxed), U) + Total(d, U)
      BY <1>8, <1>10, ApartFromBox DEF U
    <2>2. Total(d, U) \in Int
      <3>1. U \in SUBSET U
        OBVIOUS
      <3> QED BY <1>2, <1>10, <3>1, TotalFacts
    <2>3. Weights!Absolute(Weights!Whole - Total(Boxed, U)) = Total(d, U)
      BY <1>1, <1>12, <2>2 DEF U, Weights!Absolute, Weights!Whole
    <2>4. Weights!Floor2 = Total(Moved(Boxed), U) + Total(d, U)
      BY <2>3, BoxedIs DEF U
    <2> QED BY <2>1, <2>4
  <1> QED BY <1>8, <1>11, <1>13, <1>14 DEF Balanced, U

\* Where neither a sector nor a volume binds, such weights are an answer.
LEMMA BalancedIsFeasible ==
  ASSUME ask \in Asks, Grid = 1, ask.depth >= Weights!Whole, ask.sector >= Weights!Whole,
         NEW G, Balanced(G)
  PROVE  G \in Weights!Feasible
  <1> DEFINE U == Weights!Universe
             K == ask.known
             v == [t \in K |-> G[t]]
  <1>1. /\ G \in [U -> Nat] /\ G \in [U -> Int] /\ Total(G, U) = Weights!Whole
        /\ G[Cash] = Weights!Sleeve /\ \A t \in K : G[t] <= Weights!Cap(t)
    BY DEF Balanced
  <1>2. /\ IsFiniteSet(K) /\ IsFiniteSet(U) /\ K \subseteq U /\ Fund \in U /\ Cash \in U
        /\ Fund \notin K /\ Cash \notin K /\ Fund # Cash /\ U \ {Cash} = K \cup {Fund}
        /\ ask.depth \in Nat /\ ask.sector \in Nat
    BY UniverseIs, WeightsAssumption DEF Weights!Ask
  <1>3. \A t \in U : Weights!Cap(t) \in Nat
    BY AskIs
  <1> HIDE DEF U, K
  <1>4. v \in [K -> Nat] /\ v \in [K -> Int] /\ \A t \in K : v[t] = G[t]
    BY <1>1, <1>2
  <1>5. Weights!Total(K, LAMBDA t : v[t]) = Total(v, K)
    BY DEF Total, MapThenSumSet, MapThenFoldSet,
           Weights!Total, Weights!MapThenSumSet, Weights!MapThenFoldSet
  <1>6. Weights!Total(K, LAMBDA t : G[t]) = Total(G, K)
    BY DEF Total, MapThenSumSet, MapThenFoldSet,
           Weights!Total, Weights!MapThenSumSet, Weights!MapThenFoldSet
  <1>7. Total(v, K) = Total(G, K) /\ Total(v, K) \in Nat
    <2>1. K \in SUBSET (U \cap K)
      BY <1>2
    <2> HIDE DEF v
    <2>2. Total(G, K) = Total(v, K)
      BY <1>1, <1>2, <1>4, <2>1, TotalAgree
    <2> QED BY <1>2, <1>4, <2>2, TotalNat
  <1>8. Weights!Whole = Weights!Sleeve + (G[Fund] + Total(v, K))
    <2>1. Total(G, U) = G[Cash] + Total(G, U \ {Cash})
      <3>1. U \in SUBSET U
        OBVIOUS
      <3> QED BY <1>1, <1>2, <3>1, TotalFacts
    <2>2. Total(G, U \ {Cash}) = G[Fund] + Total(G, (U \ {Cash}) \ {Fund})
      <3>1. U \ {Cash} \in SUBSET U /\ Fund \in U \ {Cash}
        BY <1>2
      <3> QED BY <1>1, <1>2, <3>1, TotalFacts
    <2>3. (U \ {Cash}) \ {Fund} = K
      BY <1>2
    <2>4. Total(G, U \ {Cash}) = G[Fund] + Total(v, K)
      BY <1>7, <2>2, <2>3
    <2> QED BY <1>1, <2>1, <2>4
  <1>9. G[Fund] \in Nat
    BY <1>1, <1>2
  <1>10. \A t \in K : G[t] \in Weights!Levels(t)
    <2>1. ASSUME NEW t \in K PROVE G[t] \in Weights!Levels(t)
      <3>1. G[t] \in Nat /\ Weights!Cap(t) \in Nat /\ G[t] <= Weights!Cap(t)
        BY <1>1, <1>2, <1>3
      <3>2. G[t] \in 0 .. Weights!Cap(t) /\ ~(ask.depth < Weights!Whole)
        BY <1>2, <3>1 DEF Weights!Whole
      <3>3. G[t] \in {k * Grid : k \in 0 .. Weights!Cap(t) \div Grid}
        <4>1. Weights!Cap(t) \div Grid = Weights!Cap(t) /\ G[t] * Grid = G[t]
          BY <3>1
        <4> QED BY <3>2, <4>1
      <3> QED BY <3>2, <3>3 DEF Weights!Levels
    <2> QED BY <2>1
  <1>11. v \in [K -> UNION {Weights!Levels(t) : t \in K}]
    BY <1>10
  <1> DEFINE w == [t \in U |->
                     IF t = Cash THEN Weights!Sleeve
                     ELSE IF t = Fund
                          THEN Weights!Whole - Weights!Sleeve
                               - Weights!Total(K, LAMBDA u : v[u])
                     ELSE v[t]]
  <1>12. w = G
    <2>1. Weights!Whole - Weights!Sleeve - Total(v, K) = G[Fund]
      BY <1>7, <1>8, <1>9 DEF Weights!Whole, Weights!Sleeve
    <2>2. Weights!Whole - Weights!Sleeve - Weights!Total(K, LAMBDA u : v[u]) = G[Fund]
      BY <1>5, <2>1
    <2>3. ASSUME NEW t \in U PROVE w[t] = G[t]
      <3>1. t = Cash \/ t = Fund \/ t \in K
        BY <1>2
      <3> HIDE DEF v
      <3> QED BY <1>1, <1>2, <1>4, <2>2, <3>1
    <2> HIDE DEF v
    <2> QED BY <1>1, <2>3
  <1>13. Weights!Total(K, LAMBDA t : G[t]) <= ask.sector
    BY <1>2, <1>6, <1>7, <1>8, <1>9 DEF Weights!Whole, Weights!Sleeve
  <1>14. G[Fund] >= 0
    BY <1>9
  <1> HIDE DEF v
  <1>15. \E u \in [K -> UNION {Weights!Levels(t) : t \in K}] :
           G = [t \in U |->
                  IF t = Cash THEN Weights!Sleeve
                  ELSE IF t = Fund
                       THEN Weights!Whole - Weights!Sleeve - Weights!Total(K, LAMBDA x : u[x])
                  ELSE u[t]]
    BY Zenon, <1>11, <1>12
  <1> QED BY Zenon, <1>10, <1>13, <1>14, <1>15 DEF Weights!Feasible, U, K

\* What is posed carries a budget that covers what the box forces.
Budgeted ==
  ask \in Asks /\ (phase = "posed" => budget \in Int /\ Weights!Floor2 <= 2 * budget)

LEMMA BudgetedNext ==
  ASSUME Budgeted, [Weights!Next]_weights
  PROVE  Budgeted'
  <1>1. ask' = ask
    BY DEF Budgeted, weights, Weights!Next, Weights!Pose, Weights!Solve, Weights!NoAnswer,
           Weights!Compare
  <1>2. Weights!Floor2' = Weights!Floor2
    <2> USE DEF Weights!Total, Weights!MapThenSumSet, Weights!MapThenFoldSet
    <2>1. Weights!Universe' = Weights!Universe /\ Weights!Previous' = Weights!Previous
      BY <1>1 DEF Weights!Universe, Weights!Previous
    <2>2. Weights!Forced2' = Weights!Forced2
      BY <1>1, <2>1 DEF Weights!Forced2, Weights!Projected, Weights!Cap
    <2> QED BY <1>1, <2>1, <2>2 DEF Weights!Floor2, Weights!Projected, Weights!Cap
  <1>3. CASE Weights!Pose
    <2>1. PICK m \in Weights!Measures : budget' = Weights!EffectiveCap(m)
      BY <1>3, Zenon DEF Weights!Pose
    <2>2. budget' \in Int /\ Weights!Floor2 <= 2 * budget'
      BY <2>1, BudgetCovers DEF Budgeted
    <2> QED BY <1>1, <1>2, <2>2 DEF Budgeted
  <1>4. CASE Weights!Solve \/ Weights!NoAnswer \/ Weights!Compare
    <2>1. phase' \in {"solved", "done"}
      BY <1>4 DEF Weights!Solve, Weights!NoAnswer, Weights!Compare
    <2> QED BY <1>1, <2>1 DEF Budgeted
  <1>5. CASE UNCHANGED weights
    BY <1>1, <1>2, <1>5 DEF Budgeted, weights
  <1> QED BY <1>3, <1>4, <1>5 DEF Weights!Next

LEMMA BudgetLeavesAnswer ==
  ASSUME Budgeted, Grid = 1
  PROVE  BudgetNeverStarves
  <1> SUFFICES ASSUME phase = "posed", ask.depth >= Weights!Whole, ask.sector >= Weights!Whole
               PROVE  \E w \in Weights!Feasible :
                        Weights!Turnover2(w, Weights!Previous) <= 2 * budget
    BY DEF BudgetNeverStarves, Weights!BudgetNeverStarves
  <1>1. ask \in Asks /\ budget \in Int /\ Weights!Floor2 <= 2 * budget
    BY DEF Budgeted
  <1>2. PICK G : Balanced(G)
    BY <1>1, RoomToFund, ExcessIsSold
  <1>3. G \in Weights!Feasible
    BY <1>1, <1>2, BalancedIsFeasible
  <1>4. Weights!Turnover2(G, Weights!Previous) <= Weights!Floor2
    BY <1>2 DEF Balanced
  <1>5. Weights!Turnover2(G, Weights!Previous) \in Nat /\ Weights!Floor2 \in Nat
    <2>1. G \in [Weights!Universe -> Int]
      BY <1>2 DEF Balanced
    <2> QED BY <1>1, <2>1, TurnoverIs, BoxedIs
  <1>6. Weights!Turnover2(G, Weights!Previous) <= 2 * budget
    BY <1>1, <1>4, <1>5
  <1> QED BY <1>3, <1>6

\* With weights by the basis point (a coarser grid is TLC's): where only the box
\* forces anything, the budget the optimizer sets itself leaves an answer,
\* whatever its probe measured, or had it not been answered.  Of a question that a
\* sector or a volume binds nothing is said: there it is up to the probe.
THEOREM BudgetSuffices == ASSUME Grid = 1 PROVE DaySpec => []BudgetNeverStarves
  <1>1. DayInit => Budgeted
    BY DayStarts DEF Weights!Init, Budgeted
  <1>2. Budgeted /\ [DayNext]_<<vars, weights, session, intake, part>> => Budgeted'
    BY DaySteps, BudgetedNext
  <1>3. Budgeted => BudgetNeverStarves
    BY BudgetLeavesAnswer
  <1> QED BY <1>1, <1>2, <1>3, PTL DEF DaySpec

-----------------------------------------------------------------------------
(* The arm's rows and the predictor's.                                     *)

\* What the arm says never blanks out a number the predictor has.
LEMMA MergeKeepsAlpha ==
  ASSUME NEW real, NEW rows, NEW t \in DOMAIN real,
         "alpha" \in DOMAIN real[t], real[t].alpha # {}
  PROVE  Intake!Merged(real, rows)[t].alpha # {}
  <1>1. CASE t \notin DOMAIN rows
    BY <1>1 DEF Intake!Merged
  <1>2. CASE t \in DOMAIN rows /\ rows[t].alpha = {}
    <2> DEFINE kept == [real[t] EXCEPT !.of = rows[t].of]
    <2>1. kept.alpha = real[t].alpha
      OBVIOUS
    <2>2. Intake!Merged(real, rows)[t] = kept
      BY <1>2 DEF Intake!Merged
    <2> QED BY <2>1, <2>2
  <1>3. CASE t \in DOMAIN rows /\ rows[t].alpha # {}
    BY <1>3 DEF Intake!Merged
  <1> QED BY <1>1, <1>2, <1>3

\* Every row of the predictor's batch has a place for its alpha.
LEMMA BatchRows ==
  ASSUME NEW t \in DOMAIN Intake!Batch
  PROVE  "alpha" \in DOMAIN Intake!Batch[t]
  <1>1. CASE store.batch = {} \/ \E b \in store.batch : ~b.ok
    BY <1>1 DEF Intake!Batch, Intake!NoRows
  <1>2. CASE ~(store.batch = {} \/ \E b \in store.batch : ~b.ok)
    <2> DEFINE b == CHOOSE d \in store.batch : TRUE
    <2>1. Intake!Batch = [u \in DOMAIN b.alpha |-> Intake!Opinion(b.alpha[u], Intake!Stamped(b), "predictor")]
      BY <1>2 DEF Intake!Batch
    <2> HIDE DEF b
    <2> QED BY <2>1 DEF Intake!Opinion
  <1> QED BY <1>1, <1>2

\* Only the read of the predictions leads from the entries to the predictions.
LEMMA OneRead ==
  ASSUME Intake!Next, reading = "actionable", reading' = "read"
  PROVE  Intake!ReadPredictions
  BY DEF Intake!Next, Intake!Abort, Intake!CheckUpstream, Intake!ReadSignals, Intake!ReadPointer, Intake!SelectChampion,
         Intake!FilterToUniverse, Intake!FilterByCoverage, Intake!Actionable, Intake!ReadDerisk, Intake!Solve, Intake!ReadGate, Intake!Produce

\* No arm, whatever it injects, leaves a name the predictor has an alpha for
\* without one.
THEOREM AlphaSurvivesMerge == DaySpec => RealAlphaKept
  <1>1. ASSUME [Intake!Next]_intake, reading = "actionable", reading' = "read",
               NEW t \in DOMAIN Intake!Batch, Intake!Batch[t].alpha # {}
        PROVE  predictions'[t].alpha # {}
    <2>1. Intake!Next
      BY <1>1 DEF intake
    <2>2. Intake!ReadPredictions
      BY <1>1, <2>1, OneRead
    <2>3. predictions' = Intake!Merged(Intake!Batch, injected)
      BY <1>1, <2>2 DEF Intake!ReadPredictions, Intake!Abort
    <2> QED BY <1>1, <2>3, BatchRows, MergeKeepsAlpha
  <1>2. [DayNext]_<<vars, weights, session, intake, part>> =>
          [reading = "actionable" /\ reading' = "read" =>
             \A t \in DOMAIN Intake!Batch : Intake!Batch[t].alpha # {} => predictions'[t].alpha # {}]_intake
    BY <1>1, DaySteps
  <1> QED BY <1>2, PTL DEF DaySpec, RealAlphaKept, Intake!RealAlphaKept, Intake!vars, intake

-----------------------------------------------------------------------------
(* The champion's arm.                                                     *)

\* The reading counts as the library does.
LEMMA CountIs ==
  \A S : Intake!Cardinality(S) = Cardinality(S)
  BY Zenon DEF Intake!Cardinality, Cardinality

LEMMA FeedIs ==
  ASSUME NEW value, IsFeed(value)
  PROVE  /\ IsFiniteSet(DOMAIN value)
         /\ \A t \in DOMAIN value : value[t] \in Int
         /\ Cardinality(DOMAIN value) \in Nat
  BY IntakeAssumption, FS_Subset, FS_CardinalityType DEF IsFeed

\* What is before a name is less than all, and grows with every better one.
LEMMA RankIs ==
  ASSUME NEW value, IsFeed(value), NEW t \in DOMAIN value
  PROVE  /\ Intake!Rank(value, t) \in Nat
         /\ Intake!Rank(value, t) < Cardinality(DOMAIN value)
         /\ \A u \in DOMAIN value : value[u] > value[t] => Intake!Rank(value, u) < Intake!Rank(value, t)
  <1> DEFINE Above(u) == {x \in DOMAIN value : value[x] > value[u]}
  <1>1. IsFiniteSet(DOMAIN value) /\ \A u \in DOMAIN value : value[u] \in Int
    BY FeedIs
  <1>2. \A u \in DOMAIN value : /\ IsFiniteSet(Above(u)) /\ Cardinality(Above(u)) \in Nat
                               /\ Intake!Rank(value, u) = Cardinality(Above(u))
    <2>1. \A u : Above(u) \in SUBSET DOMAIN value
      OBVIOUS
    <2>2. \A u : Intake!Rank(value, u) = Cardinality(Above(u))
      BY Zenon, CountIs DEF Intake!Rank
    <2> HIDE DEF Above
    <2>3. \A u : IsFiniteSet(Above(u))
      BY <1>1, <2>1, FS_Subset
    <2> QED BY <2>2, <2>3, FS_CardinalityType
  <1>3. Cardinality(Above(t)) < Cardinality(DOMAIN value)
    <2>1. t \notin Above(t) /\ Above(t) \in SUBSET DOMAIN value
      BY <1>1
    <2>2. Above(t) # DOMAIN value
      BY <2>1
    <2> HIDE DEF Above
    <2>3. /\ Cardinality(Above(t)) <= Cardinality(DOMAIN value)
          /\ Cardinality(DOMAIN value) = Cardinality(Above(t)) => DOMAIN value = Above(t)
      BY <1>1, <2>1, FS_Subset
    <2> QED BY <1>2, <2>2, <2>3, FeedIs
  <1>4. ASSUME NEW u \in DOMAIN value, value[u] > value[t]
        PROVE  Cardinality(Above(u)) < Cardinality(Above(t))
    <2>1. Above(u) \in SUBSET Above(t) /\ u \in Above(t) /\ u \notin Above(u)
      BY <1>1, <1>4
    <2>2. Above(u) # Above(t)
      BY <2>1
    <2> HIDE DEF Above
    <2>3. /\ Cardinality(Above(u)) <= Cardinality(Above(t))
          /\ Cardinality(Above(t)) = Cardinality(Above(u)) => Above(t) = Above(u)
      BY <1>2, <2>1, FS_Subset
    <2> QED BY <1>2, <2>2, <2>3
  <1> HIDE DEF Above
  <1> QED BY <1>2, <1>3, <1>4

\* Some name of a feed has none before it.
LEMMA BestIs ==
  ASSUME NEW value, IsFeed(value), DOMAIN value # {}
  PROVE  \E t \in DOMAIN value : Intake!Rank(value, t) = 0
  <1> DEFINE V == {value[t] : t \in DOMAIN value}
             f == [t \in DOMAIN value |-> value[t]]
  <1>1. IsFiniteSet(DOMAIN value) /\ V \in SUBSET Int /\ V # {}
    BY FeedIs
  <1>2. f \in Surjection(DOMAIN value, V)
    BY DEF Surjection
  <1>3. IsFiniteSet(V)
    <2> HIDE DEF f, V
    <2> QED BY <1>1, <1>2, FS_Surjection
  <1>4. PICK m \in V : \A y \in V : y <= m
    <2> HIDE DEF V
    <2> QED BY <1>1, <1>3, GreatestIs
  <1>5. PICK t \in DOMAIN value : value[t] = m
    OBVIOUS
  <1> DEFINE above == {u \in DOMAIN value : value[u] > value[t]}
  <1>6. above = {}
    BY <1>1, <1>4, <1>5
  <1>7. Intake!Rank(value, t) = Cardinality(above)
    BY Zenon, CountIs DEF Intake!Rank
  <1>8. Cardinality({}) = 0
    BY FS_EmptySet
  <1> HIDE DEF above
  <1> QED BY <1>6, <1>7, <1>8

\* The score of a better rank is higher, and none is negative.
LEMMA ScoreIs ==
  ASSUME NEW n \in Nat, NEW r \in Nat, r < n
  PROVE  /\ Intake!RankToScore(r, n) \in Nat
         /\ \A q \in Nat : q < r => Intake!RankToScore(q, n) > Intake!RankToScore(r, n)
  <1> DEFINE steps == Intake!Max({n - 1, 1})
  <1>1. steps \in Int /\ steps >= r
    <2> DEFINE S == {n - 1, 1}
    <2>1. S \in SUBSET Int /\ S # {}
      OBVIOUS
    <2>2. IsFiniteSet(S)
      <3>1. S = {n - 1} \cup {1}
        OBVIOUS
      <3>2. IsFiniteSet({n - 1})
        BY FS_Singleton
      <3> HIDE DEF S
      <3> QED BY <3>1, <3>2, FS_AddElement
    <2>3. n - 1 \in S
      OBVIOUS
    <2>4. Max(S) \in S /\ \A y \in S : y <= Max(S)
      <3> HIDE DEF S
      <3> QED BY <2>1, <2>2, GreatestIs
    <2>5. steps = Max(S)
      BY DEF Intake!Max, Max
    <2> HIDE DEF steps
    <2>6. n - 1 <= Max(S) /\ Max(S) \in Int
      <3> HIDE DEF S
      <3> QED BY <2>1, <2>3, <2>4
    <2> HIDE DEF S
    <2> QED BY <2>5, <2>6
  <1>2. \A q : Intake!RankToScore(q, n) = 95 * steps - q * 35
    BY DEF Intake!RankToScore, Intake!ScoreCeiling, Intake!ScoreFloor
  <1> HIDE DEF steps
  <1> QED BY <1>1, <1>2

\* What an arm proposes of a feed: as many of the best as it has leave for, in
\* the order of the feed.
LEMMA PicksAre ==
  ASSUME NEW value, IsFeed(value), Intake!Budget \in Nat \ {0}
  PROVE  LET p == Intake!Picks(value)
         IN  /\ DOMAIN p \subseteq DOMAIN value /\ (DOMAIN value # {} => DOMAIN p # {})
             /\ p \in Intake!Entries(DOMAIN p)
             /\ \A t \in DOMAIN p, u \in DOMAIN value :
                  value[u] > value[t] => u \in DOMAIN p /\ p[u].score > p[t].score
  <1> DEFINE n == Cardinality(DOMAIN value)
             P == {u \in DOMAIN value : Intake!Rank(value, u) < Intake!Budget}
             score(t) == Intake!RankToScore(Intake!Rank(value, t), n)
             p == Intake!Picks(value)
  <1>1. n \in Nat
    BY FeedIs
  <1>2. p = [t \in P |-> [signal |-> "ENTER", sector |-> t \in store.sectors, score |-> score(t)]]
    <2>1. Intake!Cardinality(DOMAIN value) = n
      BY CountIs
    <2> QED BY Zenon, <2>1 DEF Intake!Picks
  <1>3. P \subseteq DOMAIN value
    OBVIOUS
  <1>4. \A t \in P : /\ Intake!Rank(value, t) \in Nat /\ Intake!Rank(value, t) < n
                    /\ Intake!Rank(value, t) < Intake!Budget
    BY RankIs
  <1>5. ASSUME NEW t \in P, NEW u \in DOMAIN value, value[u] > value[t]
        PROVE  u \in P /\ score(u) > score(t)
    <2>1. Intake!Rank(value, u) \in Nat /\ Intake!Rank(value, u) < Intake!Rank(value, t)
      BY <1>5, RankIs
    <2>2. u \in P
      BY <1>4, <2>1
    <2> HIDE DEF n, P, p
    <2>3. score(u) > score(t)
      BY <1>1, <1>4, <2>1, ScoreIs
    <2> QED BY <2>2, <2>3
  <1>6. DOMAIN value # {} => P # {}
    BY BestIs
  <1> HIDE DEF P, n
  <1>7. \A t \in P : score(t) \in Nat
    BY <1>1, <1>4, ScoreIs
  <1> HIDE DEF score, p
  <1>8. DOMAIN p = P
    BY <1>2
  <1>9. \A t \in P : p[t].score = score(t)
    BY <1>2
  <1>10. p \in Intake!Entries(P)
    <2> DEFINE row(t) == [signal |-> "ENTER", sector |-> t \in store.sectors, score |-> score(t)]
               R == [signal : {"ENTER", "HOLD", "EXIT", "REDUCE"}, score : Nat, sector : BOOLEAN]
    <2>1. ASSUME NEW t \in P PROVE row(t) \in R
      <3>1. (t \in store.sectors) \in BOOLEAN
        <4>1. CASE t \in store.sectors
          BY <4>1
        <4>2. CASE t \notin store.sectors
          BY <4>2
        <4> QED BY <4>1, <4>2
      <3>2. \A b \in BOOLEAN, v \in Nat : [signal |-> "ENTER", sector |-> b, score |-> v] \in R
        OBVIOUS
      <3> QED BY Zenon, <1>7, <3>1, <3>2
    <2>2. p = [t \in P |-> row(t)]
      BY <1>2
    <2>3. Intake!Entries(P) = [P -> R]
      BY Zenon DEF Intake!Entries
    <2> HIDE DEF row, R
    <2> QED BY <2>1, <2>2, <2>3
  <1>11. ASSUME NEW t \in DOMAIN p, NEW u \in DOMAIN value, value[u] > value[t]
         PROVE  u \in DOMAIN p /\ p[u].score > p[t].score
    BY <1>5, <1>8, <1>9, <1>11
  <1> QED BY Zenon, <1>3, <1>6, <1>8, <1>10, <1>11 DEF p
-----------------------------------------------------------------------------
(* What the reading holds.                                                  *)

IsEntries(e) == \E S \in SUBSET ReadNames : e \in Intake!Entries(S)

LEMMA EntriesAre ==
  ASSUME NEW e, IsEntries(e)
  PROVE  /\ DOMAIN e \subseteq ReadNames /\ IsFiniteSet(DOMAIN e)
         /\ e \in Intake!Entries(DOMAIN e)
  <1>1. PICK S \in SUBSET ReadNames : e \in Intake!Entries(S)
    BY Zenon DEF IsEntries
  <1>2. DOMAIN e = S
    BY <1>1 DEF Intake!Entries
  <1> QED BY <1>1, <1>2, IntakeAssumption, FS_Subset

LEMMA NoRowsAreEntries ==
  IsEntries(Intake!NoRows)
  <1>1. Intake!NoRows \in Intake!Entries({})
    BY DEF Intake!NoRows, Intake!Entries
  <1> QED BY <1>1 DEF IsEntries

\* What is left of entries is entries, and so are entries with their sectors.
LEMMA OnlyIs ==
  ASSUME NEW e, IsEntries(e), NEW S
  PROVE  IsEntries(Intake!Only(e, S))
  <1> DEFINE D == DOMAIN e
  <1>1. D \subseteq ReadNames /\ e \in Intake!Entries(D)
    BY EntriesAre
  <1>2. Intake!Only(e, S) = [t \in D \cap S |-> e[t]]
    BY Zenon DEF Intake!Only
  <1> HIDE DEF D
  <1>3. Intake!Only(e, S) \in Intake!Entries(D \cap S)
    BY <1>1, <1>2 DEF Intake!Entries
  <1> QED BY <1>1, <1>3 DEF IsEntries

LEMMA PatchedIs ==
  ASSUME NEW e, IsEntries(e)
  PROVE  IsEntries(Intake!Patched(e)) /\ DOMAIN Intake!Patched(e) = DOMAIN e
  <1> DEFINE D == DOMAIN e
             R == [signal : {"ENTER", "HOLD", "EXIT", "REDUCE"}, score : Nat, sector : BOOLEAN]
             row(t) == [e[t] EXCEPT !.sector = @ \/ t \in store.sectors]
  <1>1. D \subseteq ReadNames /\ e \in Intake!Entries(D)
    BY EntriesAre
  <1>2. Intake!Patched(e) = [t \in D |-> row(t)]
    BY Zenon DEF Intake!Patched
  <1>3. \A S : Intake!Entries(S) = [S -> R]
    BY Zenon DEF Intake!Entries
  <1>4. ASSUME NEW t \in D PROVE row(t) \in R
    <2>1. e[t] \in R
      <3> HIDE DEF R, D
      <3> QED BY <1>1, <1>3
    <2>2. e[t].sector \in BOOLEAN
      BY <2>1
    <2>3. (e[t].sector \/ t \in store.sectors) \in BOOLEAN
      <3>1. CASE e[t].sector \/ t \in store.sectors
        BY <3>1
      <3>2. CASE ~(e[t].sector \/ t \in store.sectors)
        BY <3>2
      <3> QED BY <3>1, <3>2
    <2>4. \A r \in R, b \in BOOLEAN : [r EXCEPT !.sector = b] \in R
      OBVIOUS
    <2> HIDE DEF R
    <2> QED BY Zenon, <2>1, <2>3, <2>4
  <1> HIDE DEF D, R, row
  <1>5. Intake!Patched(e) \in Intake!Entries(D)
    BY <1>2, <1>3, <1>4
  <1>6. DOMAIN Intake!Patched(e) = D
    BY <1>2
  <1> QED BY <1>1, <1>5, <1>6 DEF IsEntries, D

\* A producer leaves documents of their kinds.
LEMMA StoreStays ==
  ASSUME IsStore(store), Intake!Produce
  PROVE  IsStore(store')
  <1>1. PICK change \in Changes : store' = [store EXCEPT ![change.of] = change.to]
    BY Zenon DEF Intake!Produce
  <1>2. DOMAIN store' = DOMAIN store
    BY <1>1
  <1>3. ASSUME NEW of \in Documents
        PROVE  IsDocument(of, store'[of])
    <2>1. of \in DOMAIN store /\ IsDocument(of, store[of])
      BY <1>3 DEF IsStore
    <2>2. CASE of = change.of
      <3>1. store'[of] = change.to
        BY <1>1, <2>1, <2>2
      <3> QED BY <2>2, <3>1, IntakeAssumption
    <2>3. CASE of # change.of
      <3>1. store'[of] = store[of]
        BY <1>1, <2>1, <2>3
      <3> QED BY <2>1, <3>1
    <2> QED BY <2>2, <2>3
  <1> QED BY <1>2, <1>3 DEF IsStore

\* The newest of dated documents is one of them.
LEMMA NewestIs ==
  ASSUME NEW docs, Dated(docs), NEW n \in Nat, NEW doc \in Intake!Newest(docs, n)
  PROVE  \E day \in DOMAIN docs : doc = docs[day]
  <1> DEFINE seen == DOMAIN docs \cap 0 .. n
  <1>1. seen # {} /\ doc = docs[Intake!Min(seen)]
    BY DEF Intake!Newest
  <1>2. Intake!Min(seen) = Min(seen)
    BY Zenon DEF Intake!Min, Min
  <1>3. seen \subseteq Int /\ seen \subseteq DOMAIN docs
    BY DEF Dated
  <1>4. IsFiniteSet(seen)
    BY <1>3, FS_Subset DEF Dated
  <1> HIDE DEF seen
  <1>5. Min(seen) \in seen
    BY <1>1, <1>3, <1>4, LeastIs
  <1> QED BY <1>1, <1>2, <1>3, <1>5
\* As many as the producer proposed, or the default: always one at least.
LEMMA BudgetIs ==
  ASSUME IsEntries(raw.candidates)
  PROVE  Intake!Budget \in Nat \ {0}
  <1> DEFINE D == DOMAIN raw.candidates
  <1>1. IsFiniteSet(D)
    BY EntriesAre
  <1>2. Cardinality(D) \in Nat /\ (Cardinality(D) = 0 <=> D = {})
    <2> HIDE DEF D
    <2> QED BY <1>1, FS_CardinalityType, FS_EmptySet
  <1>3. Intake!Budget = IF D = {} THEN TopDefault ELSE Cardinality(D)
    BY Zenon, CountIs DEF Intake!Budget
  <1> HIDE DEF D
  <1> QED BY <1>2, <1>3, IntakeAssumption

\* What an arm serves: the picks of a feed that has names, of the days of its
\* producer's cadence, and rows for names of the universe.
Serves(served) ==
  /\ IsFeed(Intake!Feed.value) /\ DOMAIN Intake!Feed.value # {}
  /\ Intake!Feed.age \in 0 .. Intake!Feed.bound
  /\ served.picks = Intake!Picks(Intake!Feed.value)
  /\ DOMAIN served.rows = DOMAIN served.picks

LEMMA ThinktankServes ==
  ASSUME IsStore(store), arm = "thinktank_coverage", ~Intake!ThinktankCoverage.refused
  PROVE  Serves(Intake!ThinktankCoverage)
  <1> DEFINE usable == {doc \in Intake!Selected : doc.complete /\ Intake!Fresh(doc.age, 3) /\ DOMAIN doc.rating # {}}
             rating == (CHOOSE doc \in usable : TRUE).rating
  <1>1. Intake!ThinktankCoverage = IF usable = {} THEN Intake!Refused
                                   ELSE Intake!Serving(Intake!Picks(rating), Intake!Unscored(Intake!Picks(rating)))
    BY Zenon DEF Intake!ThinktankCoverage, Intake!SelectionMaxAge
  <1>2. usable # {}
    BY <1>1 DEF Intake!Refused
  <1>3. usable = {store.selection} /\ store.selection.ok
    BY <1>2 DEF Intake!Selected
  <1>4. Intake!Fresh(store.selection.age, 3) /\ DOMAIN store.selection.rating # {}
    BY <1>3
  <1>5. rating = store.selection.rating
    BY <1>3
  <1>6. store.selection.age \in Int /\ IsFeed(store.selection.rating)
    BY <1>3 DEF IsStore, Documents, IsDocument
  <1>7. Intake!Feed = [age |-> store.selection.age, bound |-> 3, value |-> store.selection.rating]
    BY DEF Intake!Feed, Intake!ShadowServed
  <1> HIDE DEF usable, rating
  <1>8. Intake!ThinktankCoverage = Intake!Serving(Intake!Picks(rating), Intake!Unscored(Intake!Picks(rating)))
    BY <1>1, <1>2
  <1>9. DOMAIN Intake!Unscored(Intake!Picks(rating)) = DOMAIN Intake!Picks(rating)
    BY DEF Intake!Unscored
  <1> QED BY <1>4, <1>5, <1>6, <1>7, <1>8, <1>9 DEF Serves, Intake!Serving, Intake!Fresh

\* The least of a finite set of days, in the reading as in the library.
LEMMA EarliestIs ==
  ASSUME NEW S \in SUBSET Int, IsFiniteSet(S), S # {}
  PROVE  Intake!Min(S) \in S /\ \A y \in S : Intake!Min(S) <= y
  <1>1. Intake!Min(S) = Min(S)
    BY Zenon DEF Intake!Min, Min
  <1> QED BY <1>1, LeastIs

LEMMA DirectServes ==
  ASSUME IsStore(store), arm = "scanner_predictor_direct", ~Intake!PredictorDirect.refused
  PROVE  Serves(Intake!PredictorDirect)
  <1> DEFINE usable == {q \in Intake!Cohort : Intake!Fresh(q.age, 8) /\ Intake!Cardinality(DOMAIN q.alpha) > 1}
             alpha == (CHOOSE q \in usable : TRUE).alpha
             days == store.cohorts.days
             first == Intake!Min(DOMAIN days)
  <1>1. Intake!PredictorDirect = IF usable = {} THEN Intake!Refused
                                 ELSE Intake!Serving(Intake!Picks(alpha), Intake!DirectRows(alpha))
    BY Zenon DEF Intake!PredictorDirect, Intake!CohortMaxAge
  <1>2. usable # {}
    BY <1>1 DEF Intake!Refused
  <1>3. /\ store.cohorts.ok /\ DOMAIN days # {}
        /\ Intake!Cohort = {[age |-> first, alpha |-> days[first]]}
    BY <1>2 DEF Intake!Cohort
  <1>4. Dated(days) /\ \A day \in DOMAIN days : IsFeed(days[day])
    BY <1>3 DEF IsStore, Documents, IsDocument
  <1>5. first \in DOMAIN days /\ DOMAIN days \subseteq Int
    <2> HIDE DEF days
    <2> QED BY <1>3, <1>4, EarliestIs DEF Dated
  <1> HIDE DEF first
  <1>6. Intake!Fresh(first, 8) /\ Intake!Cardinality(DOMAIN days[first]) > 1 /\ alpha = days[first]
    BY <1>2, <1>3
  <1>7. IsFeed(days[first])
    BY <1>4, <1>5
  <1>8. DOMAIN days[first] # {}
    <2>1. Cardinality({}) = 0
      BY FS_EmptySet
    <2> HIDE DEF days
    <2> QED BY <1>6, <2>1, CountIs
  <1>9. Intake!Feed = [age |-> first, bound |-> 8, value |-> days[first]]
    BY DEF Intake!Feed, Intake!ShadowServed, first
  <1> HIDE DEF usable, alpha, days
  <1>10. Intake!PredictorDirect = Intake!Serving(Intake!Picks(alpha), Intake!DirectRows(alpha))
    BY <1>1, <1>2
  <1>11. DOMAIN Intake!DirectRows(alpha) = DOMAIN Intake!Picks(alpha)
    BY DEF Intake!DirectRows
  <1> QED BY <1>5, <1>6, <1>7, <1>8, <1>9, <1>10, <1>11 DEF Serves, Intake!Serving, Intake!Fresh

LEMMA ShadowServes ==
  ASSUME IsStore(store), arm \in Intake!ShadowServed, ~Intake!ShadowArm.refused
  PROVE  Serves(Intake!ShadowArm)
  <1> DEFINE usable == {q \in Intake!ArmShadow : q.doc.ok}
             valid == {q \in usable : /\ q.doc.own /\ q.doc.dated
                                      /\ Intake!Fresh(q.age, 8)
                                      /\ DOMAIN Intake!EnterPicks(q.doc) # {}}
             score == Intake!EnterPicks((CHOOSE q \in valid : TRUE).doc)
             seen == DOMAIN store.shadows \cap 0 .. 30
             all == DOMAIN store.shadows \cap Nat
             first == Intake!Min(seen)
  <1>1. Intake!ShadowArm = IF valid = {} THEN Intake!Refused
                           ELSE Intake!Serving(Intake!Picks(score), Intake!Unscored(Intake!Picks(score)))
    BY Zenon DEF Intake!ShadowArm, Intake!CohortMaxAge
  <1>2. valid # {}
    BY <1>1 DEF Intake!Refused
  <1>3. seen # {} /\ Intake!ArmShadow = {[age |-> first, doc |-> store.shadows[first]]}
    BY <1>2 DEF Intake!ArmShadow, Intake!ShadowLookback
  <1>4. Dated(store.shadows) /\ \A day \in DOMAIN store.shadows : store.shadows[day].ok => IsFeed(store.shadows[day].score)
    BY DEF IsStore, Documents, IsDocument
  <1>5. /\ seen \subseteq Int /\ seen \subseteq DOMAIN store.shadows /\ IsFiniteSet(seen)
        /\ all \subseteq Int /\ all \subseteq DOMAIN store.shadows /\ IsFiniteSet(all)
        /\ seen \subseteq all /\ \A d \in all : d \in seen \/ d > 30
        /\ \A d \in seen : d <= 30
    BY <1>4, FS_Subset DEF Dated
  <1> HIDE DEF seen, all
  <1>6. Intake!Min(all) = first /\ first \in seen
    <2>1. first \in seen /\ \A d \in seen : first <= d
      BY <1>3, <1>5, EarliestIs
    <2>2. all # {}
      BY <1>3, <1>5
    <2> DEFINE m == Intake!Min(all)
    <2>3. m \in all /\ \A d \in all : m <= d
      BY <1>5, <2>2, EarliestIs
    <2> HIDE DEF first, m
    <2>4. first \in Int /\ m \in Int /\ m <= first /\ first <= 30
      BY <1>5, <2>1, <2>3
    <2>5. m \in seen
      BY <1>5, <2>3, <2>4
    <2>6. first <= m
      BY <2>1, <2>5
    <2>7. m = first
      BY <2>4, <2>6
    <2> QED BY <2>1, <2>7 DEF m
  <1> HIDE DEF first
  <1>7. LET doc == store.shadows[first]
        IN  /\ doc.ok /\ Intake!Fresh(first, 8) /\ DOMAIN Intake!EnterPicks(doc) # {}
            /\ score = Intake!EnterPicks(doc)
    BY <1>2, <1>3
  <1>8. score = store.shadows[first].score
    BY <1>7 DEF Intake!EnterPicks, Intake!NoRows
  <1>9. IsFeed(store.shadows[first].score)
    BY <1>4, <1>5, <1>6, <1>7
  <1>10. Intake!Feed = [age |-> first, bound |-> 8, value |-> store.shadows[first].score]
    <2>1. arm # "scanner_predictor_direct" /\ arm # "thinktank_coverage"
      BY DEF Intake!ShadowServed
    <2> QED BY <1>6, <2>1 DEF Intake!Feed, all
  <1> HIDE DEF usable, valid, score
  <1>11. Intake!ShadowArm = Intake!Serving(Intake!Picks(score), Intake!Unscored(Intake!Picks(score)))
    BY <1>1, <1>2
  <1>12. DOMAIN Intake!Unscored(Intake!Picks(score)) = DOMAIN Intake!Picks(score)
    BY DEF Intake!Unscored
  <1> QED BY <1>5, <1>6, <1>7, <1>8, <1>9, <1>10, <1>11, <1>12 DEF Serves, Intake!Serving, Intake!Fresh
\* The arm of the predictor's cut is handed no predictions and refuses; the
\* agentic arm serves what is there; each other arm serves picks of its feed.
LEMMA ChampionIs ==
  ASSUME IsStore(store), arm \in Intake!ValidChampions, IsEntries(raw.candidates), ~Intake!Champion.refused
  PROVE  /\ arm \in Intake!NoopArms =>
              Intake!Champion.picks = raw.candidates /\ DOMAIN Intake!Champion.rows = {}
         /\ arm \notin Intake!NoopArms => arm # "scanner_top20_predictor" /\ Serves(Intake!Champion)
  <1>1. CASE arm = "agentic"
    <2>1. Intake!Champion = Intake!Serving(raw.candidates, Intake!Given)
      BY <1>1 DEF Intake!Champion, Intake!NoopArms, Intake!ShadowServed
    <2> QED BY <1>1, <2>1 DEF Intake!NoopArms, Intake!Serving, Intake!Given, Intake!NoRows
  <1>2. CASE arm = "scanner_predictor_direct"
    <2>1. Intake!Champion = Intake!PredictorDirect
      BY <1>2 DEF Intake!Champion, Intake!NoopArms, Intake!ShadowServed
    <2> QED BY <1>2, <2>1, DirectServes DEF Intake!NoopArms
  <1>3. CASE arm = "scanner_top20_predictor"
    <2>1. Intake!Champion = Intake!TopTwenty(Intake!Given)
      BY <1>3 DEF Intake!Champion, Intake!NoopArms, Intake!ShadowServed
    <2>2. DOMAIN Intake!Given = {}
      BY DEF Intake!Given, Intake!NoRows
    <2> DEFINE scored == {t \in Intake!CutPool \cap DOMAIN Intake!Given : Intake!Given[t].alpha # {}}
    <2>3. scored = {}
      BY <2>2
    <2>4. scored = {} => Intake!TopTwenty(Intake!Given) = Intake!Refused
      BY Zenon DEF Intake!TopTwenty
    <2> QED BY <2>1, <2>3, <2>4 DEF Intake!Refused
  <1>4. CASE arm = "thinktank_coverage"
    <2>1. Intake!Champion = Intake!ThinktankCoverage
      BY <1>4 DEF Intake!Champion, Intake!NoopArms, Intake!ShadowServed
    <2> QED BY <1>4, <2>1, ThinktankServes DEF Intake!NoopArms
  <1>5. CASE arm \in Intake!ShadowServed
    <2>1. /\ arm \notin Intake!NoopArms /\ arm # "scanner_predictor_direct"
          /\ arm # "scanner_top20_predictor" /\ arm # "thinktank_coverage"
      BY <1>5 DEF Intake!NoopArms, Intake!ShadowServed
    <2>2. Intake!Champion = Intake!ShadowArm
      BY <1>5, <2>1 DEF Intake!Champion
    <2> QED BY <1>5, <2>1, <2>2, ShadowServes
  <1> QED BY <1>1, <1>2, <1>3, <1>4, <1>5 DEF Intake!ValidChampions, Intake!NoopArms, Intake!DedicatedArms

\* What an arm serves is entries, and its rows are for names of the universe.
LEMMA ServedIs ==
  ASSUME IsStore(store), arm \in Intake!ValidChampions, IsEntries(raw.candidates), ~Intake!Champion.refused
  PROVE  IsEntries(Intake!Champion.picks) /\ DOMAIN Intake!Champion.rows \subseteq ReadNames
  <1>1. CASE arm \in Intake!NoopArms
    BY <1>1, ChampionIs
  <1>2. CASE arm \notin Intake!NoopArms
    <2> DEFINE value == Intake!Feed.value
               p == Intake!Picks(value)
    <2>1. Serves(Intake!Champion)
      BY <1>2, ChampionIs
    <2>2. Intake!Champion.picks = p /\ DOMAIN Intake!Champion.rows = DOMAIN p /\ IsFeed(value)
      BY <2>1 DEF Serves
    <2>3. Intake!Budget \in Nat \ {0}
      BY BudgetIs
    <2> HIDE DEF value, p
    <2>4. DOMAIN p \subseteq DOMAIN value /\ p \in Intake!Entries(DOMAIN p)
      BY <2>2, <2>3, PicksAre DEF p
    <2>5. DOMAIN p \subseteq ReadNames
      BY <2>2, <2>4 DEF IsFeed
    <2> QED BY <2>2, <2>4, <2>5 DEF IsEntries
  <1> QED BY <1>1, <1>2

-----------------------------------------------------------------------------
(* The invariant of the reading: what its types need.                      *)

IntakeStages ==
  {"start", "checked", "signals", "pointer", "armed", "listed", "admitted",
   "actionable", "read", "sized", "solved", "judged", "aborted"}

\* The signals are entries, and nothing is actionable before it is chosen.
SignalsKept ==
  /\ DOMAIN Intake!NoSignals \subseteq DOMAIN raw
  /\ IsEntries(raw.candidates) /\ IsEntries(raw.universe)
  /\ reading \in IntakeStages
  /\ reading \in {"start", "checked", "signals", "pointer", "armed", "listed", "admitted"} =>
       DOMAIN actionable = {}
  /\ DOMAIN actionable = {} \/ DOMAIN raw.candidates \subseteq DOMAIN actionable

\* The store holds documents, and what was read of them is what it should be.
ReadKept ==
  /\ IsStore(store) /\ arm \in Intake!ValidChampions
  /\ DOMAIN predictions \subseteq ReadNames /\ DOMAIN injected \subseteq ReadNames
  /\ outcome \in Intake!Outcome
  /\ changes \in 0 .. MaxChanges

IntakeKept == SignalsKept /\ ReadKept

LEMMA IntakeStarts ==
  ASSUME Intake!Init
  PROVE  IntakeKept
  <1>1. DOMAIN Intake!NoSignals \subseteq DOMAIN raw /\ raw.candidates = Intake!NoRows /\ raw.universe = Intake!NoRows
    BY DEF Intake!Init, Intake!NoSignals
  <1>2. SignalsKept
    BY <1>1, NoRowsAreEntries DEF Intake!Init, SignalsKept, IntakeStages, Intake!NoRows
  <1>3. IsStore(store) /\ arm \in Intake!ValidChampions /\ changes \in 0 .. MaxChanges
    BY IntakeAssumption DEF Intake!Init, Intake!ValidChampions, Intake!NoopArms
  <1>4. outcome \in Intake!Outcome
    BY DEF Intake!Init, Intake!Outcome
  <1> QED BY <1>2, <1>3, <1>4 DEF Intake!Init, IntakeKept, ReadKept, Intake!NoRows
\* The same, of a step that leaves the signals alone.
LEMMA SignalsSame ==
  ASSUME SignalsKept, UNCHANGED <<raw, actionable>>, reading' \in IntakeStages,
         reading' \in {"start", "checked", "signals", "pointer", "armed", "listed", "admitted"} =>
           DOMAIN actionable = {}
  PROVE  SignalsKept'
  BY DEF SignalsKept, IsEntries

\* The same, of a step that puts other candidates in the place of those there.
LEMMA SignalsReplaced ==
  ASSUME SignalsKept, NEW e, IsEntries(e), raw' = [raw EXCEPT !.candidates = e],
         actionable' = actionable, reading' \in IntakeStages, DOMAIN actionable = {}
  PROVE  SignalsKept'
  <1>1. /\ DOMAIN raw' = DOMAIN raw /\ raw'.candidates = e /\ raw'.universe = raw.universe
    BY DEF SignalsKept, Intake!NoSignals
  <1>2. IsEntries(raw.universe)
    BY DEF SignalsKept
  <1> QED BY <1>1, <1>2 DEF SignalsKept, IsEntries

LEMMA SignalsStay ==
  ASSUME IntakeKept, Intake!Next
  PROVE  SignalsKept'
  <1> USE DEF IntakeKept
  <1>1. CASE Intake!Abort
    BY <1>1, SignalsSame DEF Intake!Abort, IntakeStages
  <1>2. CASE Intake!CheckUpstream
    BY <1>1, <1>2, SignalsSame DEF Intake!CheckUpstream, IntakeStages, SignalsKept
  <1>3. CASE Intake!ReadSignals
    <2> DEFINE found == IF store.latest # {} THEN store.latest ELSE Intake!Newest(store.dated, 14)
    <2>1. CASE ~Intake!Abort
      <3>1. PICK doc \in found : doc.ok /\ raw' = doc
        BY <1>3, <2>1 DEF Intake!ReadSignals, Intake!Lookback
      <3>2. /\ reading = "checked" /\ reading' = "signals" /\ actionable' = actionable
        BY <1>3, <2>1 DEF Intake!ReadSignals
      <3>3. /\ \A d \in store.latest : IsSignals(d)
            /\ Dated(store.dated) /\ \A day \in DOMAIN store.dated : IsSignals(store.dated[day])
        BY DEF ReadKept, IsStore, Documents, IsDocument
      <3>4. IsSignals(doc)
        BY <3>1, <3>3, NewestIs
      <3>5. DOMAIN Intake!NoSignals \subseteq DOMAIN doc /\ IsEntries(doc.candidates) /\ IsEntries(doc.universe)
        BY <3>1, <3>4 DEF IsSignals, IsEntries
      <3>6. reading' \in IntakeStages /\ DOMAIN actionable = {}
        BY <3>2 DEF SignalsKept, IntakeStages
      <3> HIDE DEF found
      <3> QED BY <3>1, <3>2, <3>5, <3>6 DEF SignalsKept, IsEntries
    <2> QED BY <1>1, <2>1
  <1>4. CASE Intake!ReadPointer
    BY <1>1, <1>4, SignalsSame DEF Intake!ReadPointer, IntakeStages, SignalsKept
  <1>5. CASE Intake!SelectChampion
    <2>1. CASE ~Intake!Abort
      <3>1. /\ ~Intake!Champion.refused /\ raw' = [raw EXCEPT !.candidates = Intake!Champion.picks]
            /\ reading = "pointer" /\ reading' = "armed" /\ actionable' = actionable
        BY <1>5, <2>1 DEF Intake!SelectChampion
      <3>2. IsEntries(Intake!Champion.picks)
        BY <3>1, ServedIs DEF SignalsKept, ReadKept
      <3>3. DOMAIN actionable = {} /\ reading' \in IntakeStages
        BY <3>1 DEF SignalsKept, IntakeStages
      <3> QED BY <3>1, <3>2, <3>3, SignalsReplaced
    <2> QED BY <1>1, <2>1
  <1>6. CASE Intake!FilterToUniverse
    <2> DEFINE e == IF store.library.reachable THEN Intake!Only(raw.candidates, store.library.listed) ELSE raw.candidates
    <2>1. reading = "armed" /\ reading' = "listed" /\ actionable' = actionable
      BY <1>6 DEF Intake!FilterToUniverse
    <2>2. IsEntries(e)
      BY OnlyIs DEF SignalsKept
    <2>3. DOMAIN actionable = {} /\ reading' \in IntakeStages
      BY <2>1 DEF SignalsKept, IntakeStages
    <2>4. CASE store.library.reachable
      <3>1. raw' = [raw EXCEPT !.candidates = e]
        BY <1>6, <2>4 DEF Intake!FilterToUniverse
      <3> HIDE DEF e
      <3> QED BY <2>1, <2>2, <2>3, <3>1, SignalsReplaced
    <2>5. CASE ~store.library.reachable
      <3>1. raw' = raw
        BY <1>6, <2>5 DEF Intake!FilterToUniverse
      <3> QED BY <2>1, <2>3, <3>1, SignalsSame
    <2> QED BY <2>4, <2>5
  <1>7. CASE Intake!FilterByCoverage
    <2>1. CASE ~Intake!Abort
      <3> DEFINE S == {t \in DOMAIN raw.candidates : store.library.coverage[t] >= Intake!MinCoverage}
      <3>1. raw' = [raw EXCEPT !.candidates = Intake!Only(raw.candidates, S)]
        BY <1>7, <2>1 DEF Intake!FilterByCoverage
      <3>2. reading = "listed" /\ reading' = "admitted" /\ actionable' = actionable
        BY <1>7, <2>1 DEF Intake!FilterByCoverage
      <3> HIDE DEF S
      <3>3. IsEntries(Intake!Only(raw.candidates, S))
        BY OnlyIs DEF SignalsKept
      <3>4. DOMAIN actionable = {} /\ reading' \in IntakeStages
        BY <3>2 DEF SignalsKept, IntakeStages
      <3> QED BY <3>1, <3>2, <3>3, <3>4, SignalsReplaced
    <2> QED BY <1>1, <2>1
  <1>8. CASE Intake!Actionable
    <2> DEFINE both == [raw EXCEPT !.candidates = Intake!Patched(@), !.universe = Intake!Patched(@)]
    <2>1. reading' = "actionable" /\ (raw' = raw \/ raw' = both)
      BY <1>8 DEF Intake!Actionable
    <2>2. DOMAIN raw'.candidates \subseteq DOMAIN actionable'
      <3> DEFINE needed == (\E t \in Intake!Enters(raw.candidates) : ~raw.candidates[t].sector)
                              \/ \E t \in Intake!Enters(raw.universe) : ~raw.universe[t].sector
                 patched == IF ~needed THEN raw ELSE both
      <3>1. raw' = patched
        BY Zenon, <1>8 DEF Intake!Actionable
      <3>2. actionable' = [t \in DOMAIN patched.candidates \cup DOMAIN patched.universe |->
                             IF t \in DOMAIN patched.candidates THEN patched.candidates[t] ELSE patched.universe[t]]
        BY Zenon, <1>8 DEF Intake!Actionable
      <3> HIDE DEF patched
      <3> QED BY <3>1, <3>2
    <2>3. /\ DOMAIN both = DOMAIN raw
          /\ both.candidates = Intake!Patched(raw.candidates) /\ both.universe = Intake!Patched(raw.universe)
      BY DEF SignalsKept, Intake!NoSignals
    <2> HIDE DEF both
    <2>4. /\ DOMAIN Intake!NoSignals \subseteq DOMAIN raw' /\ IsEntries(raw'.candidates) /\ IsEntries(raw'.universe)
      <3>1. CASE raw' = raw
        BY <3>1 DEF SignalsKept
      <3>2. CASE raw' = both
        BY <2>3, <3>2, PatchedIs DEF SignalsKept
      <3> QED BY <2>1, <3>1, <3>2
    <2> QED BY <2>1, <2>2, <2>4 DEF SignalsKept, IsEntries, IntakeStages
  <1>9. CASE Intake!ReadPredictions
    BY <1>1, <1>9, SignalsSame DEF Intake!ReadPredictions, IntakeStages, SignalsKept
  <1>10. CASE Intake!ReadDerisk
    BY <1>1, <1>10, SignalsSame DEF Intake!ReadDerisk, IntakeStages, SignalsKept
  <1>11. CASE Intake!Solve
    BY <1>11, SignalsSame DEF Intake!Solve, IntakeStages, SignalsKept
  <1>12. CASE Intake!ReadGate
    BY <1>1, <1>12, SignalsSame DEF Intake!ReadGate, IntakeStages, SignalsKept
  <1>13. CASE Intake!Produce
    BY <1>13, SignalsSame DEF Intake!Produce, SignalsKept
  <1> QED BY <1>2, <1>3, <1>4, <1>5, <1>6, <1>7, <1>8, <1>9, <1>10, <1>11, <1>12, <1>13 DEF Intake!Next
\* The same, of a step that leaves the store and what was read of it alone.
LEMMA ReadsSame ==
  ASSUME ReadKept, UNCHANGED <<store, arm, injected, predictions, outcome, changes>>
  PROVE  ReadKept'
  BY DEF ReadKept, IsStore

\* The rows that are merged are those of the batch and those of the arm.
LEMMA MergedIs ==
  ASSUME ReadKept
  PROVE  DOMAIN Intake!Merged(Intake!Batch, injected) \subseteq ReadNames
  <1>1. DOMAIN Intake!Batch \subseteq ReadNames
    <2>1. CASE store.batch = {} \/ \E b \in store.batch : ~b.ok
      BY <2>1 DEF Intake!Batch, Intake!NoRows
    <2>2. CASE ~(store.batch = {} \/ \E b \in store.batch : ~b.ok)
      <3> DEFINE b == CHOOSE d \in store.batch : TRUE
      <3>1. b \in store.batch /\ b.ok
        BY <2>2
      <3>2. DOMAIN Intake!Batch = DOMAIN b.alpha
        BY <2>2 DEF Intake!Batch
      <3>3. \A d \in store.batch : d.ok => DOMAIN d.alpha \subseteq ReadNames
        BY DEF ReadKept, IsStore, Documents, IsDocument
      <3> HIDE DEF b
      <3> QED BY <3>1, <3>2, <3>3
    <2> QED BY <2>1, <2>2
  <1>2. DOMAIN Intake!Merged(Intake!Batch, injected) = DOMAIN Intake!Batch \cup DOMAIN injected
    BY DEF Intake!Merged
  <1> QED BY <1>1, <1>2 DEF ReadKept

\* The names with a depth are names of a universe of the scanner.
LEMMA DepthIs ==
  ASSUME ReadKept
  PROVE  Intake!TradingDepth \in SUBSET ReadNames
  <1>1. Dated(store.scans) /\ \A day \in DOMAIN store.scans : store.scans[day].ok => DOMAIN store.scans[day].adv \subseteq ReadNames
    BY DEF ReadKept, IsStore, Documents, IsDocument
  <1>2. ASSUME NEW doc \in Intake!Newest(store.scans, 10)
        PROVE  (IF doc.ok THEN {t \in DOMAIN doc.adv : doc.adv[t] > 0} ELSE {}) \subseteq ReadNames
    <2>1. PICK day \in DOMAIN store.scans : doc = store.scans[day]
      BY <1>1, <1>2, NewestIs
    <2> QED BY <1>1, <2>1
  <1>3. Intake!TradingDepth = UNION {IF doc.ok THEN {t \in DOMAIN doc.adv : doc.adv[t] > 0} ELSE {} : doc \in Intake!Newest(store.scans, 10)}
    BY Zenon DEF Intake!TradingDepth, Intake!UniverseMaxAge
  <1> QED BY <1>2, <1>3

LEMMA ReadsStay ==
  ASSUME IntakeKept, Intake!Next
  PROVE  ReadKept'
  <1> USE DEF IntakeKept
  <1>1. CASE Intake!Abort
    BY <1>1, ReadsSame DEF Intake!Abort
  <1>2. CASE Intake!CheckUpstream \/ Intake!ReadSignals \/ Intake!FilterToUniverse
              \/ Intake!FilterByCoverage \/ Intake!Actionable
    BY <1>1, <1>2, ReadsSame
       DEF Intake!CheckUpstream, Intake!ReadSignals, Intake!FilterToUniverse, Intake!FilterByCoverage, Intake!Actionable
  <1>3. CASE Intake!ReadPointer
    <2>1. CASE ~Intake!Abort
      <3>1. arm' \in Intake!ValidChampions
        BY <1>3, <2>1 DEF Intake!ReadPointer
      <3> QED BY <1>3, <2>1, <3>1 DEF Intake!ReadPointer, ReadKept, IsStore
    <2> QED BY <1>1, <2>1
  <1>4. CASE Intake!SelectChampion
    <2>1. CASE ~Intake!Abort
      <3>1. ~Intake!Champion.refused /\ injected' = Intake!Champion.rows
        BY <1>4, <2>1 DEF Intake!SelectChampion
      <3>2. DOMAIN injected' \subseteq ReadNames
        BY <3>1, ServedIs DEF SignalsKept, ReadKept
      <3> QED BY <1>4, <2>1, <3>2 DEF Intake!SelectChampion, ReadKept, IsStore
    <2> QED BY <1>1, <2>1
  <1>5. CASE Intake!ReadPredictions
    <2>1. CASE ~Intake!Abort
      <3>1. predictions' = Intake!Merged(Intake!Batch, injected)
        BY <1>5, <2>1 DEF Intake!ReadPredictions
      <3>2. DOMAIN predictions' \subseteq ReadNames
        BY <3>1, MergedIs
      <3> QED BY <1>5, <2>1, <3>2 DEF Intake!ReadPredictions, ReadKept, IsStore
    <2> QED BY <1>1, <2>1
  <1>6. CASE Intake!ReadDerisk
    <2>1. CASE ~Intake!Abort
      <3>1. outcome' = [outcome EXCEPT !.derated = Intake!Derisk = "active"]
        BY <1>6, <2>1 DEF Intake!ReadDerisk
      <3>2. outcome' \in Intake!Outcome
        BY <3>1 DEF ReadKept, Intake!Outcome
      <3> QED BY <1>6, <2>1, <3>2 DEF Intake!ReadDerisk, ReadKept, IsStore
    <2> QED BY <1>1, <2>1
  <1>7. CASE Intake!Solve
    <2> DEFINE a == Intake!Derisk = "active"
               b == Intake!Derisk # "refused" /\ Intake!OneAnchor
               d == Intake!TradingDepth
    <2>1. outcome' = [outcome EXCEPT !.floored = a, !.solvable = b, !.deep = d]
      BY Zenon, <1>7 DEF Intake!Solve
    <2>2. a \in BOOLEAN /\ b \in BOOLEAN
      <3> HIDE DEF Intake!Derisk, Intake!OneAnchor
      <3> QED OBVIOUS
    <2>3. d \in SUBSET ReadNames
      BY DepthIs
    <2> HIDE DEF a, b, d
    <2>4. outcome' \in Intake!Outcome
      BY <2>1, <2>2, <2>3 DEF ReadKept, Intake!Outcome
    <2> QED BY <1>7, <2>4 DEF Intake!Solve, ReadKept, IsStore
  <1>8. CASE Intake!ReadGate
    <2>1. CASE ~Intake!Abort
      <3>1. outcome' = [outcome EXCEPT !.judged = Intake!Verdict] /\ \A b \in store.batch : b.ok
        BY <1>8, <2>1 DEF Intake!ReadGate
      <3>2. Intake!Verdict \in {"none", "clean", "flagged"}
        <4>1. \A b \in store.batch : b.judged \in {"clean", "flagged"}
          BY <3>1 DEF ReadKept, IsStore, Documents, IsDocument
        <4> QED BY <4>1 DEF Intake!Verdict
      <3>3. outcome' \in Intake!Outcome
        BY <3>1, <3>2 DEF ReadKept, Intake!Outcome
      <3> QED BY <1>8, <2>1, <3>3 DEF Intake!ReadGate, ReadKept, IsStore
    <2> QED BY <1>1, <2>1
  <1>9. CASE Intake!Produce
    <2>1. IsStore(store')
      BY <1>9, StoreStays DEF ReadKept
    <2>2. changes' \in 0 .. MaxChanges
      BY <1>9, IntakeAssumption DEF Intake!Produce, ReadKept
    <2> QED BY <1>9, <2>1, <2>2 DEF Intake!Produce, ReadKept, IsStore
  <1> QED BY <1>2, <1>3, <1>4, <1>5, <1>6, <1>7, <1>8, <1>9 DEF Intake!Next

\* What the planner has read is of its kind, whatever the stores hold.
THEOREM IntakeTypes == DaySpec => []IntakeKept
  <1>1. DayInit => IntakeKept
    BY DayStarts, IntakeStarts
  <1>2. IntakeKept /\ [DayNext]_<<vars, weights, session, intake, part>> => IntakeKept'
    <2>1. CASE UNCHANGED intake
      BY <2>1, SignalsSame, ReadsSame DEF IntakeKept, intake, SignalsKept
    <2>2. CASE Intake!Next
      BY <2>2, SignalsStay, ReadsStay DEF IntakeKept
    <2> QED BY <2>1, <2>2, DaySteps
  <1> QED BY <1>1, <1>2, PTL DEF DaySpec
\* Which is the reading's type invariant.
LEMMA IntakeTyped ==
  ASSUME IntakeKept
  PROVE  Intake!TypeOK
  <1>1. /\ \E S \in SUBSET ReadNames : raw.candidates \in Intake!Entries(S)
        /\ \E S \in SUBSET ReadNames : raw.universe \in Intake!Entries(S)
    BY Zenon DEF IntakeKept, SignalsKept, IsEntries
  <1> QED BY <1>1 DEF IntakeKept, SignalsKept, ReadKept, Intake!TypeOK, IntakeStages

\* Only the selection of the champion arms the signals.
LEMMA OneSelection ==
  ASSUME Intake!Next, reading = "pointer", reading' = "armed"
  PROVE  Intake!SelectChampion
  BY DEF Intake!Next, Intake!Abort, Intake!CheckUpstream, Intake!ReadSignals, Intake!ReadPointer, Intake!ReadPredictions,
         Intake!FilterToUniverse, Intake!FilterByCoverage, Intake!Actionable, Intake!ReadDerisk, Intake!Solve, Intake!ReadGate, Intake!Produce

\* A champion's candidates are never none, are the best of its latest document
\* in its own order, and that document is of the last days of its producer's
\* cadence.
THEOREM ArmServesItsBest == DaySpec => PicksOfTheArm
  <1> DEFINE value == Intake!Feed.value
             picked == DOMAIN raw'.candidates
             Best == /\ picked # {} /\ picked \subseteq DOMAIN value
                     /\ Intake!Feed.age \in 0 .. Intake!Feed.bound
                     /\ \A t \in picked, u \in DOMAIN value :
                          value[u] > value[t] =>
                            u \in picked /\ raw'.candidates[u].score > raw'.candidates[t].score
  <1>1. ASSUME IntakeKept, Intake!Next, reading = "pointer", reading' = "armed",
               arm \notin Intake!NoopArms
        PROVE  Best
    <2>1. ~Intake!Champion.refused /\ raw' = [raw EXCEPT !.candidates = Intake!Champion.picks]
      BY <1>1, OneSelection DEF Intake!SelectChampion, Intake!Abort
    <2>2. raw'.candidates = Intake!Champion.picks
      BY <1>1, <2>1 DEF IntakeKept, SignalsKept, Intake!NoSignals
    <2>3. Serves(Intake!Champion)
      BY <1>1, <2>1, ChampionIs DEF IntakeKept, SignalsKept, ReadKept
    <2>4. /\ IsFeed(value) /\ DOMAIN value # {} /\ Intake!Feed.age \in 0 .. Intake!Feed.bound
          /\ raw'.candidates = Intake!Picks(value)
      BY <2>2, <2>3 DEF Serves
    <2>5. Intake!Budget \in Nat \ {0}
      BY <1>1, BudgetIs DEF IntakeKept, SignalsKept
    <2> HIDE DEF value
    <2> DEFINE p == Intake!Picks(value)
    <2>6. /\ DOMAIN p \subseteq DOMAIN value /\ DOMAIN p # {}
          /\ \A t \in DOMAIN p, u \in DOMAIN value :
               value[u] > value[t] => u \in DOMAIN p /\ p[u].score > p[t].score
      BY <2>4, <2>5, PicksAre
    <2> HIDE DEF p
    <2>7. raw'.candidates = p
      BY <2>4 DEF p
    <2> QED BY <2>4, <2>6, <2>7
  <1>2. IntakeKept /\ [DayNext]_<<vars, weights, session, intake, part>> =>
          [/\ reading = "pointer" /\ reading' = "armed"
           /\ arm \notin Intake!NoopArms \cup {"scanner_top20_predictor"}
           => Best]_intake
    <2> HIDE DEF Best
    <2> QED BY <1>1, DaySteps
  <1> QED BY <1>2, IntakeTypes, PTL DEF DaySpec, PicksOfTheArm, Intake!PicksOfTheArm, Intake!vars, intake
-----------------------------------------------------------------------------
(* The planner.                                                            *)

\* The planner of the day is the planner, and the rest of the day leaves it
\* alone.
LEMMA PlanRuns == DaySpec => Spec
  BY DayStarts, DaySteps, PTL DEF DaySpec, Spec

\* A name held when the book is saved has a stop of all its shares or is exited, and
\* not both; the shares a REDUCE leaves have no stop, and nothing is said of them.
THEOREM DayWatches == DaySpec => PositionsWatched
  BY PlanRuns, SavedWatches, PTL DEF PositionsWatched

\* A name below the loss floor is sold whole, but for one: with the optimizer on, a
\* name research says EXIT of is left to the optimizer, which may not sell it
\* (HardRiskSurvives).
THEOREM DaySellsHardRisk == DaySpec => HardRiskSold
  BY PlanRuns, SavedSells, PTL DEF HardRiskSold

\* No book sells a name whole and buys it, the benchmark fund apart.
THEOREM DayIsOneSided == DaySpec => NotSoldAndBought
  BY PlanRuns, SavedIsOneSided, PTL DEF NotSoldAndBought

\* The entries of a plan stay together within the caps.
THEOREM DayWithinCaps == DaySpec => BatchWithinCaps
  BY PlanRuns, SavedWithinCaps, PTL DEF BatchWithinCaps

-----------------------------------------------------------------------------
(* The types of the day.                                                   *)

\* The planner, the daemon and the reading keep their types.
THEOREM DayTypes == DaySpec => []DayTypeOK
  <1>1. ASSUME Kept, Counted PROVE Daemon!TypeOK
    BY <1>1 DEF Kept, Counted, DayPhases, Daemon!TypeOK
  <1>2. TypeOK /\ Kept /\ Counted /\ IntakeKept => DayTypeOK
    BY <1>1, IntakeTyped DEF DayTypeOK
  <1> QED BY <1>2, PlanRuns, PlanTypes, DaemonTypes, IntakeTypes, PTL
=============================================================================
