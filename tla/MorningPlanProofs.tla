-------------------------- MODULE MorningPlanProofs --------------------------
(***************************************************************************)
(* The morning planner keeps its types, and the books it saves their       *)
(* promises, for any finite set of names, any stories and settings, any    *)
(* number of runs, failures and fills.                                     *)
(***************************************************************************)
EXTENDS MorningPlan, Totals

-----------------------------------------------------------------------------
(* The invariant: what each stage of a run has made sure of.               *)

PlanStages ==
  {"idle", "read", "exits", "book", "entries", "optimize", "cutover", "planned", "saved"}
Begun == {"idle", "read", "exits", "book", "entries"}

EntryRecords == [ticker : Names, value : Int]
UrgentRecords == [ticker : Names, kind : {"EXIT", "REDUCE", "COVER"}, shares : Int \ {0}]
StopRecords == [ticker : Names, shares : Nat \ {0}, kind : {"gap", "alpha"}]

IsBook(b) ==
  /\ DOMAIN b = DOMAIN EmptyBook
  /\ b.date \in {"today", "earlier", "corrupt"} /\ b.executed \subseteq Names
  /\ \A e \in b.entries : e \in EntryRecords
  /\ \A u \in b.urgent : u \in UrgentRecords /\ (u.kind = "COVER" => u.shares > 0)
  /\ \A s \in b.stops : s \in StopRecords

Shaped ==
  /\ position \in [Names -> Int] /\ view \in [Names -> Int]
  /\ DOMAIN facts = Names /\ \A t \in Names : facts[t] \in Stories[t]
  /\ setting \in Settings
  /\ IsBook(disk) /\ IsBook(book)
  /\ \A s \in signals : s \in [ticker : Names, kind : {"EXIT", "REDUCE"}]
  /\ stage \in PlanStages /\ run \in 0 .. MaxRuns /\ fills \in 0 .. MaxFills

\* The sales of a book in the making are of the planner's own kinds, and of
\* names it saw; the optimizer's leave shorts alone.
Selling ==
  /\ stage \in Begun => book.urgent = {}
  /\ stage \in Begun \ {"entries"} \/ (OwnsExits /\ stage \in {"entries", "optimize", "cutover"}) => book.entries = {}
  /\ \A u \in book.urgent : /\ u.kind # "COVER"
                            /\ u.kind = "EXIT" => /\ view[u.ticker] # 0 /\ u.shares = view[u.ticker]
                                                  /\ OwnsExits => view[u.ticker] > 0
  /\ OwnsExits => \A s \in signals : s.kind = "EXIT" /\ view[s.ticker] > 0

\* What a usable log asks for is what its weights may ask for.
Wished ==
  /\ stage # "cutover" => log = NoLog
  /\ log.usable => \A t \in Names : log.wish[t] \in Wishes(t)

Doomed(t) == view[t] > 0 /\ LossFloor(facts[t]) /\ ~(OwnsExits /\ facts[t].research = "EXIT")

\* A doomed name is on its way out from the first step that looks at it.
Leaves ==
  \A t \in Names : Doomed(t) =>
    /\ stage \in {"exits", "book", "entries"} =>
         facts[t].research = "EXIT" \/ Signal(t, "EXIT") \in signals
    /\ stage \in {"optimize", "cutover", "planned"} =>
         UrgentRecord(t, "EXIT", view[t]) \in book.urgent

Planned == {EntryRecord(t, Dollars(facts[t], Quarters)) : t \in Decision.bought}

\* What the rules buy is the decision's, and what the optimizer buys it does
\* not sell.
Bought ==
  /\ stage \in {"optimize", "cutover"} => OwnsExits
  /\ ~OwnsExits /\ stage \in {"entries", "planned", "saved"} => book.entries = Planned
  /\ OwnsExits => \A t \in Names \ {Spy} :
       ~(/\ \E u \in book.urgent : u.ticker = t /\ u.kind = "EXIT"
         /\ \E e \in book.entries : e.ticker = t)

PlanKept == Shaped /\ Selling /\ Wished /\ Leaves /\ Bought

-----------------------------------------------------------------------------
(* What the operators return.                                              *)

\* A book with other sales in it.
LEMMA AddUrgentIs ==
  ASSUME NEW b, IsBook(b), NEW U
  PROVE  LET c == AddUrgent(b, U)
         IN  /\ DOMAIN c = DOMAIN b
             /\ c.date = b.date /\ c.executed = b.executed /\ c.entries = b.entries /\ c.stops = b.stops
             /\ c.urgent = b.urgent \cup {u \in U : ~\E v \in b.urgent : v.ticker = u.ticker /\ v.kind = u.kind}
  BY DEF AddUrgent, IsBook, EmptyBook

LEMMA AddUrgentBook ==
  ASSUME NEW b, IsBook(b), NEW U,
         \A u \in U : u \in UrgentRecords /\ (u.kind = "COVER" => u.shares > 0)
  PROVE  IsBook(AddUrgent(b, U))
  <1> DEFINE c == AddUrgent(b, U)
  <1>1. /\ DOMAIN c = DOMAIN b
        /\ c.date = b.date /\ c.executed = b.executed /\ c.entries = b.entries /\ c.stops = b.stops
        /\ c.urgent = b.urgent \cup {u \in U : ~\E v \in b.urgent : v.ticker = u.ticker /\ v.kind = u.kind}
    BY AddUrgentIs
  <1> HIDE DEF c
  <1>2. \A u \in c.urgent : u \in b.urgent \/ u \in U
    BY <1>1
  <1>3. IsBook(c)
    BY <1>1, <1>2 DEF IsBook
  <1> QED BY <1>3 DEF c

\* The rules sell names that are held, whole or in part.
LEMMA StrategyExitsAre ==
  ASSUME NEW f, NEW H \in SUBSET Names
  PROVE  \A s \in StrategyExits(f, H) : s \in [ticker : Names, kind : {"EXIT", "REDUCE"}]
  <1>1. \A x : Verdict(x) \in {"EXIT", "REDUCE", "none"}
    <2> SUFFICES ASSUME NEW x PROVE Verdict(x) \in {"EXIT", "REDUCE", "none"}
      OBVIOUS
    <2> DEFINE hard == \/ LossFloor(x) \/ CatalystDone(x)
                       \/ TrailFires(x) /\ ~SectorVeto(x)
                       \/ ~TrailFires(x) /\ FallbackFires(x)
    <2>1. Verdict(x) = CASE hard -> "EXIT"
                         [] OTHER -> IF ProfitFires(x) THEN "REDUCE"
                                     ELSE IF MomentumFires(x) \/ Ages(x, ExitDays) THEN "EXIT"
                                     ELSE IF Ages(x, ReduceDays) THEN "REDUCE" ELSE "none"
      BY Zenon DEF Verdict
    <2> HIDE DEF hard
    <2> QED BY <2>1
  <1> HIDE DEF Verdict
  <1> QED BY <1>1 DEF StrategyExits, Signal

LEMMA LossFloorExitsAre ==
  ASSUME NEW f, NEW v, DOMAIN v = Names, NEW S
  PROVE  /\ \A s \in LossFloorExits(f, v, S) : /\ s \in [ticker : Names, kind : {"EXIT", "REDUCE"}]
                                              /\ s.kind = "EXIT" /\ v[s.ticker] > 0
         /\ \A t \in Names : v[t] > 0 /\ LossFloor(f[t]) =>
              t \in Leaving(f, S) \/ Signal(t, "EXIT") \in LossFloorExits(f, v, S)
  BY DEF LossFloorExits, Signal

LEMMA ForcedExitsAre ==
  ASSUME NEW f, NEW v, DOMAIN v = Names, NEW S, NEW q
  PROVE  \A s \in ForcedExits(f, v, S, q) : /\ s \in [ticker : Names, kind : {"EXIT", "REDUCE"}]
                                            /\ s.kind = "EXIT" /\ v[s.ticker] > 0
  <1> DEFINE held == {t \in Names : v[t] # 0}
             lower(t) == {u \in held : Conviction(f[u], v[u]) < Conviction(f[t], v[t])}
             out == {u \in held : /\ Cardinality(lower(u)) < ForcedCount(q)
                                  /\ v[u] > 0 /\ u \notin Leaving(f, S)}
  <1>1. ForcedExits(f, v, S, q) = {Signal(t, "EXIT") : t \in out}
    BY Zenon DEF ForcedExits
  <1>2. \A t \in out : t \in Names /\ v[t] > 0
    OBVIOUS
  <1> HIDE DEF out
  <1> QED BY <1>1, <1>2 DEF Signal

\* The names that leave are those of research and those of the signals.
LEMMA LeavingIs ==
  ASSUME NEW f, NEW S, \A s \in S : s \in [ticker : Names, kind : {"EXIT", "REDUCE"}], NEW t \in Leaving(f, S)
  PROVE  f[t].research = "EXIT" \/ Signal(t, "EXIT") \in S
  <1>1. CASE t \in ResearchSells(f, "EXIT")
    BY <1>1 DEF ResearchSells
  <1>2. CASE t \in {s.ticker : s \in {x \in S : x.kind = "EXIT"}}
    <2>1. PICK s \in S : s.kind = "EXIT" /\ s.ticker = t
      BY <1>2
    <2>2. s = [ticker |-> t, kind |-> "EXIT"]
      BY <2>1
    <2> QED BY <2>1, <2>2 DEF Signal
  <1> QED BY <1>1, <1>2 DEF Leaving

LEMMA PlannedSalesAre ==
  ASSUME NEW R, R.exit \in SUBSET Names, R.reduce \in SUBSET Names,
         NEW S, \A s \in S : s \in [ticker : Names, kind : {"EXIT", "REDUCE"}],
         NEW v \in [Names -> Int]
  PROVE  /\ \A u \in PlannedSales(R, S, v) :
              /\ u \in UrgentRecords /\ u.kind # "COVER"
              /\ u.kind = "EXIT" => u.ticker \in ExitTickers(R, S) /\ v[u.ticker] # 0 /\ u.shares = v[u.ticker]
         /\ \A t \in ExitTickers(R, S) : v[t] # 0 => UrgentRecord(t, "EXIT", v[t]) \in PlannedSales(R, S, v)
  <1>1. ExitTickers(R, S) \subseteq Names /\ ReduceTickers(R, S) \subseteq Names
    BY DEF ExitTickers, ReduceTickers
  <1>2. \A n \in Int : Half(n) \in Int
    BY DEF Half
  <1>3. \A t \in Names : v[t] \in Int /\ Half(v[t]) \in Int
    BY <1>2
  <1> HIDE DEF ExitTickers, ReduceTickers, Half
  <1>4. ASSUME NEW u \in PlannedSales(R, S, v)
        PROVE  /\ u \in UrgentRecords /\ u.kind # "COVER"
               /\ u.kind = "EXIT" => u.ticker \in ExitTickers(R, S) /\ v[u.ticker] # 0 /\ u.shares = v[u.ticker]
    <2>1. CASE \E t \in ExitTickers(R, S) : v[t] # 0 /\ u = UrgentRecord(t, "EXIT", v[t])
      BY <1>1, <1>3, <2>1 DEF UrgentRecord, UrgentRecords
    <2>2. CASE \E t \in ReduceTickers(R, S) : Half(v[t]) # 0 /\ u = UrgentRecord(t, "REDUCE", Half(v[t]))
      BY <1>1, <1>3, <2>2 DEF UrgentRecord, UrgentRecords
    <2> QED BY <2>1, <2>2 DEF PlannedSales
  <1> QED BY <1>4 DEF PlannedSales

-----------------------------------------------------------------------------
(* The decision of the rules.                                              *)

\* Some name is taken after all others.
LEMMA LastIs ==
  ASSUME NEW f, NEW S, IsFiniteSet(S), S # {}, \A t \in S : f[t].score \in Int /\ f[t].alpha \in Int
  PROVE  LastOf(f, S) \in S
  <1> DEFINE Has(U) == \E t \in U : \A u \in U : ~Before(f, t, u)
             D == {U \in SUBSET S : U # {} /\ ~Has(U)}
  <1>1. Has(S)
    <2> SUFFICES ASSUME D # {} PROVE FALSE
      OBVIOUS
    <2>1. PICK U \in D : \A x \in U : U \ {x} \notin D
      <3> HIDE DEF D
      <3>1. D \in SUBSET SUBSET S
        BY DEF D
      <3> QED BY <3>1, LeastCounterexample
    <2>2. PICK x \in U : TRUE
      OBVIOUS
    <2>9. \A t \in U : f[t].score \in Int /\ f[t].alpha \in Int
      OBVIOUS
    <2>3. \A a \in U : ~Before(f, a, a)
      BY <2>9 DEF Before
    <2>6. \A a, b, d \in U : Before(f, a, b) /\ Before(f, b, d) => Before(f, a, d)
      BY <2>9 DEF Before
    <2> HIDE DEF Before
    <2>4. CASE U \ {x} = {}
      <3>1. \A u \in U : u = x
        BY <2>4
      <3>2. \A u \in U : ~Before(f, x, u)
        BY <2>2, <2>3, <3>1
      <3> QED BY <3>2
    <2>5. CASE U \ {x} # {}
      <3>1. PICK m \in U \ {x} : \A u \in U \ {x} : ~Before(f, m, u)
        BY <2>1, <2>5
      <3>2. CASE ~Before(f, m, x)
        BY <3>1, <3>2
      <3>3. CASE Before(f, m, x)
        <4>1. ASSUME NEW u \in U, Before(f, x, u) PROVE FALSE
          <5>1. Before(f, m, u)
            BY <2>2, <2>6, <3>1, <3>3, <4>1
          <5>2. u = x
            BY <3>1, <5>1
          <5> QED BY <2>2, <2>3, <4>1, <5>2
        <4> QED BY <4>1
      <3> QED BY <3>2, <3>3
    <2> QED BY <2>4, <2>5
  <1> QED BY <1>1 DEF LastOf

\* h gives what was decided after any part of the names, the last of it last.
Base(known) == [bought |-> {}, aborted |-> FALSE, book |-> known]

Decides(h, U, f, held, known, regime, q) ==
  h = [s \in SUBSET U |->
         IF s = {} THEN Base(known)
         ELSE Consider(h[s \ {LastOf(f, s)}], LastOf(f, s), f[LastOf(f, s)], held, regime, q)]

\* The other way round, for a function on the parts of the names.
LEMMA IsDecides ==
  ASSUME NEW U, NEW f, NEW held, NEW known, NEW regime, NEW q, NEW h,
         h = [s \in SUBSET U |-> h[s]], h[{}] = Base(known),
         \A s \in SUBSET U : s # {} =>
           h[s] = Consider(h[s \ {LastOf(f, s)}], LastOf(f, s), f[LastOf(f, s)], held, regime, q)
  PROVE  Decides(h, U, f, held, known, regime, q)
  <1> DEFINE step(s) == Consider(h[s \ {LastOf(f, s)}], LastOf(f, s), f[LastOf(f, s)], held, regime, q)
  <1>1. \A s \in SUBSET U : h[s] = IF s = {} THEN Base(known) ELSE step(s)
    OBVIOUS
  <1> HIDE DEF step
  <1>2. [s \in SUBSET U |-> h[s]] = [s \in SUBSET U |-> IF s = {} THEN Base(known) ELSE step(s)]
    BY <1>1
  <1> QED BY Zenon, <1>2 DEF Decides, step

\* Two that do so agree on what both know.
LEMMA DecidesOnce ==
  ASSUME NEW S, IsFiniteSet(S), NEW f, NEW held, NEW known, NEW regime, NEW q,
         \A s \in SUBSET S : s # {} => LastOf(f, s) \in s,
         NEW U \in SUBSET S, NEW V \in SUBSET S, NEW g, NEW h,
         Decides(g, U, f, held, known, regime, q), Decides(h, V, f, held, known, regime, q)
  PROVE  \A s \in SUBSET (U \cap V) : g[s] = h[s]
  <1> DEFINE D == {s \in SUBSET (U \cap V) : g[s] # h[s]}
  <1>1. SUFFICES ASSUME D # {} PROVE FALSE
    OBVIOUS
  <1>2. PICK s \in D : \A x \in s : s \ {x} \notin D
    <2>1. D \in SUBSET SUBSET S
      OBVIOUS
    <2> HIDE DEF D
    <2> QED BY <1>1, <2>1, LeastCounterexample
  <1>3. s \in SUBSET U /\ s \in SUBSET V /\ s \in SUBSET S /\ g[s] # h[s]
    OBVIOUS
  <1>4. s # {}
    <2>1. g[{}] = Base(known) /\ h[{}] = Base(known)
      BY DEF Decides
    <2> QED BY <1>3, <2>1
  <1> DEFINE l == LastOf(f, s)
  <1>5. l \in s
    BY <1>3, <1>4
  <1>6. g[s \ {l}] = h[s \ {l}]
    BY <1>2, <1>3, <1>5
  <1> HIDE DEF D, l
  <1>7. g[s] = Consider(g[s \ {l}], l, f[l], held, regime, q)
    BY <1>3, <1>4 DEF Decides, l
  <1>8. h[s] = Consider(h[s \ {l}], l, f[l], held, regime, q)
    BY <1>3, <1>4 DEF Decides, l
  <1> QED BY <1>3, <1>6, <1>7, <1>8

LEMMA DecidesExist ==
  ASSUME NEW S, IsFiniteSet(S), NEW f, NEW held, NEW known, NEW regime, NEW q,
         \A s \in SUBSET S : s # {} => LastOf(f, s) \in s
  PROVE  \E h : Decides(h, S, f, held, known, regime, q)
  <1> DEFINE Has(U) == \E h : Decides(h, U, f, held, known, regime, q)
             D == {U \in SUBSET S : ~Has(U)}
  <1>1. SUFFICES ASSUME D # {} PROVE FALSE
    OBVIOUS
  <1>2. PICK U \in D : \A x \in U : U \ {x} \notin D
    <2> HIDE DEF D
    <2>1. D \in SUBSET SUBSET S
      BY DEF D
    <2> QED BY <1>1, <2>1, LeastCounterexample
  <1>3. U \in SUBSET S /\ ~Has(U) /\ \A x \in U : Has(U \ {x})
    BY <1>2
  <1> DEFINE of(V) == CHOOSE h : Decides(h, V, f, held, known, regime, q)
             rest(s) == U \ {CHOOSE x \in U \ s : TRUE}
             l(s) == LastOf(f, s)
             step(p, t) == Consider(p, t, f[t], held, regime, q)
             top == step(of(U \ {l(U)})[U \ {l(U)}], l(U))
             g == [s \in SUBSET U |-> IF s = {} THEN Base(known) ELSE IF s = U THEN top ELSE of(rest(s))[s]]
  <1>4. \A x \in U : Decides(of(U \ {x}), U \ {x}, f, held, known, regime, q)
    BY <1>3
  <1> HIDE DEF D, Has, of, top, step
  <1>5. ASSUME NEW s \in SUBSET U, s # U
        PROVE  \E x \in U : s \in SUBSET (U \ {x}) /\ rest(s) = U \ {x}
    <2>1. (CHOOSE x \in U \ s : TRUE) \in U \ s
      BY <1>5
    <2> QED BY <2>1
  <1> HIDE DEF rest
  <1>6. \A s \in SUBSET U : s # {} => l(s) \in s
    BY <1>3
  <1> HIDE DEF l
  <1>7. \A x, y \in U : \A s \in SUBSET U : x \notin s /\ y \notin s => of(U \ {x})[s] = of(U \ {y})[s]
    <2>1. SUFFICES ASSUME NEW x \in U, NEW y \in U, NEW s \in SUBSET U, x \notin s, y \notin s
                   PROVE  of(U \ {x})[s] = of(U \ {y})[s]
      OBVIOUS
    <2>2. U \ {x} \in SUBSET S /\ U \ {y} \in SUBSET S /\ s \in SUBSET ((U \ {x}) \cap (U \ {y}))
      BY <1>3, <2>1
    <2> QED BY <1>4, <2>2, DecidesOnce
  <1>8. g[{}] = Base(known)
    OBVIOUS
  <1>9. ASSUME NEW s \in SUBSET U, s # {}
        PROVE  g[s] = step(g[s \ {l(s)}], l(s))
    <2>1. l(s) \in s /\ l(s) \in U /\ s \ {l(s)} \in SUBSET U /\ s \ {l(s)} # U
      BY <1>6, <1>9
    <2> DEFINE r == s \ {l(s)}
    <2>2. CASE r = {}
      <3>1. g[r] = Base(known)
        BY <2>2
      <3>2. CASE s = U
        <4>1. of(U \ {l(U)})[{}] = Base(known)
          <5>1. Decides(of(U \ {l(U)}), U \ {l(U)}, f, held, known, regime, q)
            BY <1>4, <2>1, <3>2
          <5> QED BY <5>1 DEF Decides
        <4>2. U \ {l(U)} = {}
          BY <2>2, <3>2
        <4>3. top = step(Base(known), l(U))
          BY <4>1, <4>2 DEF top
        <4>4. g[s] = top
          BY <1>9, <3>2
        <4> HIDE DEF g
        <4> QED BY <3>1, <3>2, <4>3, <4>4
      <3>3. CASE s # U
        <4>1. PICK x \in U : s \in SUBSET (U \ {x}) /\ rest(s) = U \ {x}
          BY <1>5, <3>3
        <4>2. of(U \ {x})[s] = step(of(U \ {x})[r], l(s)) /\ of(U \ {x})[{}] = Base(known)
          BY <1>4, <1>9, <4>1 DEF Decides, step, l
        <4>3. g[s] = of(U \ {x})[s]
          BY <1>9, <3>3, <4>1
        <4> HIDE DEF g
        <4> QED BY <2>2, <3>1, <4>2, <4>3
      <3> QED BY <3>2, <3>3
    <2>3. CASE r # {}
      <3>1. PICK y \in U : r \in SUBSET (U \ {y}) /\ rest(r) = U \ {y}
        BY <1>5, <2>1
      <3>2. g[r] = of(U \ {y})[r]
        BY <2>1, <2>3, <3>1
      <3>3. CASE s = U
        <4>1. g[s] = step(of(U \ {l(U)})[U \ {l(U)}], l(U))
          BY <1>9, <3>3 DEF top
        <4>2. r = U \ {l(U)} /\ l(U) \in U /\ l(U) \notin r
          BY <2>1, <3>3
        <4> HIDE DEF g, r
        <4>3. of(U \ {l(U)})[r] = of(U \ {y})[r]
          BY <1>7, <2>1, <3>1, <4>2 DEF r
        <4>4. g[s] = step(g[r], l(s))
          BY <3>2, <3>3, <4>1, <4>2, <4>3
        <4> QED BY <4>4 DEF r
      <3>4. CASE s # U
        <4>1. PICK x \in U : s \in SUBSET (U \ {x}) /\ rest(s) = U \ {x}
          BY <1>5, <3>4
        <4>2. of(U \ {x})[s] = step(of(U \ {x})[r], l(s))
          BY <1>4, <1>9, <4>1 DEF Decides, step, l
        <4>3. g[s] = of(U \ {x})[s]
          BY <1>9, <3>4, <4>1
        <4>4. of(U \ {x})[r] = of(U \ {y})[r]
          BY <1>7, <2>1, <3>1, <4>1
        <4> HIDE DEF g
        <4> QED BY <3>2, <4>2, <4>3, <4>4
      <3> QED BY <3>3, <3>4
    <2> QED BY <2>2, <2>3
  <1>10. g = [s \in SUBSET U |-> g[s]]
    OBVIOUS
  <1> HIDE DEF g
  <1>11. Decides(g, U, f, held, known, regime, q)
    BY <1>8, <1>9, <1>10, IsDecides DEF step, l
  <1> QED BY <1>3, <1>11 DEF Has

\* The names research asks to enter.
Asked(f) == {t \in DOMAIN f : f[t].research = "ENTER"}

\* The rules decide name after name, each against the book of those before it.
LEMMA DecisionIs ==
  ASSUME NEW f, NEW held, NEW known, NEW regime, NEW q, IsFiniteSet(DOMAIN f),
         \A t \in DOMAIN f : f[t].score \in Int /\ f[t].alpha \in Int
  PROVE  /\ IsFiniteSet(Asked(f)) /\ \A s \in SUBSET Asked(f) : s # {} => LastOf(f, s) \in s
         /\ \E h : /\ Decides(h, Asked(f), f, held, known, regime, q)
                   /\ DecideEntries(f, held, known, regime, q) = h[Asked(f)]
  <1> DEFINE C == {t \in DOMAIN f : f[t].research = "ENTER"}
  <1>1. IsFiniteSet(C) /\ \A s \in SUBSET C : IsFiniteSet(s) /\ s \in SUBSET DOMAIN f
    <2>1. C \in SUBSET DOMAIN f
      OBVIOUS
    <2> HIDE DEF C
    <2> QED BY <2>1, FS_Subset
  <1>2. \A s \in SUBSET C : s # {} => LastOf(f, s) \in s
    <2> HIDE DEF C
    <2>1. ASSUME NEW s \in SUBSET C, s # {} PROVE LastOf(f, s) \in s
      <3>1. \A t \in s : f[t].score \in Int /\ f[t].alpha \in Int
        BY <1>1
      <3> QED BY <1>1, <2>1, <3>1, LastIs
    <2> QED BY <2>1
  <1> DEFINE iter == CHOOSE h : Decides(h, C, f, held, known, regime, q)
  <1>3. DecideEntries(f, held, known, regime, q) = iter[C]
    BY Zenon DEF DecideEntries, MapThenFoldSet, Decides, Base
  <1>4. Decides(iter, C, f, held, known, regime, q)
    <2> HIDE DEF C
    <2>1. \E h : Decides(h, C, f, held, known, regime, q)
      BY <1>1, <1>2, DecidesExist
    <2> QED BY <2>1
  <1> HIDE DEF iter
  <1> QED BY <1>1, <1>2, <1>3, <1>4 DEF Asked

-----------------------------------------------------------------------------
(* The caps.                                                               *)

\* What each name of a book counts for a sector, and for the equity.
InSector(b, s) == [t \in DOMAIN b |-> IF b[t].sector = s THEN b[t].value ELSE 0]
InEquity(b) == [t \in DOMAIN b |-> b[t].value]

LEMMA ExposureIs ==
  ASSUME NEW b, NEW s
  PROVE  Exposure(b, s) = Total(InSector(b, s), DOMAIN b) /\ Equity(b) = Total(InEquity(b), DOMAIN b)
  <1>1. Exposure(b, s) = Total(InSector(b, s), DOMAIN b)
    BY DEF Exposure, Total, InSector, MapThenSumSet, MapThenFoldSet
  <1>2. Equity(b) = Total(InEquity(b), DOMAIN b)
    BY DEF Equity, Total, InEquity, MapThenSumSet, MapThenFoldSet
  <1> QED BY <1>1, <1>2

\* A book of finitely many names, each with a value.
Valued(b) == IsFiniteSet(DOMAIN b) /\ \A t \in DOMAIN b : b[t].value \in Int

LEMMA ValuedIs ==
  ASSUME NEW b, Valued(b), NEW s
  PROVE  /\ InSector(b, s) \in [DOMAIN b -> Int] /\ InEquity(b) \in [DOMAIN b -> Int]
         /\ Exposure(b, s) \in Int /\ Equity(b) \in Int
  <1>1. InSector(b, s) \in [DOMAIN b -> Int] /\ InEquity(b) \in [DOMAIN b -> Int]
    BY DEF Valued, InSector, InEquity
  <1>2. IsFiniteSet(DOMAIN b) /\ DOMAIN b \in SUBSET DOMAIN b
    BY DEF Valued
  <1> QED BY <1>1, <1>2, ExposureIs, TotalFacts

\* A book with one more name.
With(b, t, r) == [u \in DOMAIN b \cup {t} |-> IF u = t THEN r ELSE b[u]]

LEMMA ExposureWith ==
  ASSUME NEW b, Valued(b), NEW t, t \notin DOMAIN b, NEW r, r.value \in Int
  PROVE  /\ Valued(With(b, t, r))
         /\ \A s : Exposure(With(b, t, r), s) = Exposure(b, s) + (IF r.sector = s THEN r.value ELSE 0)
         /\ Equity(With(b, t, r)) = Equity(b) + r.value
  <1> DEFINE c == With(b, t, r)
             B == DOMAIN b
             C == B \cup {t}
  <1>1. DOMAIN c = C /\ c[t] = r /\ (\A u \in B : c[u] = b[u])
    BY DEF With
  <1> HIDE DEF c
  <1>2. IsFiniteSet(B) /\ \A u \in B : b[u].value \in Int
    BY DEF Valued
  <1>3. IsFiniteSet(C)
    <2> HIDE DEF B
    <2> QED BY <1>2, FS_AddElement
  <1>4. Valued(c)
    BY <1>1, <1>2, <1>3 DEF Valued
  <1>5. ASSUME NEW F \in [B -> Int], NEW G \in [C -> Int], \A u \in B : G[u] = F[u]
        PROVE  Total(G, C) = Total(F, B) + G[t]
    <2> HIDE DEF B
    <2>1. t \in C /\ t \notin B /\ B \in SUBSET C /\ B \in SUBSET (C \cap B)
      BY DEF B
    <2>2. Total(G, C) = G[t] + Total(G, B)
      <3>1. Total(G, B \cup {t}) = G[t] + Total(G, B)
        <4> HIDE DEF C
        <4> QED BY <1>3, <1>5, <2>1, TotalAdd
      <3> QED BY <3>1
    <2> HIDE DEF C
    <2>3. Total(G, B) = Total(F, B)
      BY <1>2, <1>3, <1>5, <2>1, TotalAgree
    <2>4. Total(F, B) \in Int /\ G[t] \in Int
      <3>1. B \in SUBSET B
        OBVIOUS
      <3> QED BY <1>2, <1>5, <2>1, <3>1, TotalFacts
    <2> QED BY <2>2, <2>3, <2>4
  <1>6. ASSUME NEW s
        PROVE  Exposure(c, s) = Exposure(b, s) + (IF r.sector = s THEN r.value ELSE 0)
    <2>1. InSector(b, s) \in [B -> Int] /\ InSector(c, s) \in [C -> Int]
      BY <1>1, <1>4, ValuedIs
    <2>2. /\ \A u \in B : InSector(c, s)[u] = InSector(b, s)[u]
          /\ InSector(c, s)[t] = IF r.sector = s THEN r.value ELSE 0
      BY <1>1 DEF InSector
    <2> HIDE DEF C, B
    <2>3. Total(InSector(c, s), C) = Total(InSector(b, s), B) + InSector(c, s)[t]
      BY <1>5, <2>1, <2>2
    <2> QED BY <1>1, <2>2, <2>3, ExposureIs DEF B
  <1>7. Equity(c) = Equity(b) + r.value
    <2>1. InEquity(b) \in [B -> Int] /\ InEquity(c) \in [C -> Int]
      BY <1>1, <1>4, ValuedIs
    <2>2. /\ \A u \in B : InEquity(c)[u] = InEquity(b)[u]
          /\ InEquity(c)[t] = r.value
      BY <1>1 DEF InEquity
    <2> HIDE DEF C, B
    <2>3. Total(InEquity(c), C) = Total(InEquity(b), B) + InEquity(c)[t]
      BY <1>5, <2>1, <2>2
    <2> QED BY <1>1, <2>2, <2>3, ExposureIs DEF B
  <1> QED BY <1>4, <1>6, <1>7 DEF c

\* The sector and the size of a name the rules buy.
Lot(f, t, q) == [sector |-> f[t].sector, value |-> Dollars(f[t], q)]

\* What is approved out of some names is not held, is in the book beside what
\* is, and the book is within the caps of every sector it adds to and of the
\* equity.
Approved(p, s, f, known, q) ==
  /\ DOMAIN p = {"bought", "aborted", "book"}
  /\ p.bought \subseteq s /\ p.bought \cap DOMAIN known = {}
  /\ Valued(p.book) /\ DOMAIN p.book = DOMAIN known \cup p.bought
  /\ \A t \in DOMAIN known : p.book[t] = known[t]
  /\ \A t \in p.bought : p.book[t] = Lot(f, t, q)
  /\ p.bought # {} => Equity(p.book) <= MaxEquity
  /\ \A t \in p.bought : Exposure(p.book, f[t].sector) <= MaxSector

LEMMA ApprovedStep ==
  ASSUME NEW f, NEW known, NEW regime, NEW q, NEW s, NEW l \in s, NEW p,
         Dollars(f[l], q) \in Int, Approved(p, s \ {l}, f, known, q)
  PROVE  Approved(Consider(p, l, f[l], DOMAIN known, regime, q), s, f, known, q)
  <1> DEFINE n == Consider(p, l, f[l], DOMAIN known, regime, q)
             taken == ~(p.aborted \/ ~Admitted(p, l, f[l], DOMAIN known, regime, q))
             c == With(p.book, l, Lot(f, l, q))
  <1>1. CASE ~taken
    <2>1. n = p
      BY <1>1 DEF Consider
    <2> HIDE DEF n
    <2> QED BY <2>1 DEF Approved, n
  <1>2. CASE taken
    <2>1. /\ l \notin DOMAIN known
          /\ Exposure(p.book, f[l].sector) + Dollars(f[l], q) <= MaxSector
          /\ Equity(p.book) + Dollars(f[l], q) <= MaxEquity
      BY <1>2 DEF Admitted, CheckOrder
    <2>2. n = [p EXCEPT !.bought = p.bought \cup {l}, !.aborted = Aborts(p, f[l]), !.book = c]
      BY Zenon, <1>2 DEF Consider, With, Lot
    <2> HIDE DEF n, taken, c
    <2>3. /\ DOMAIN n = {"bought", "aborted", "book"} /\ n.bought = p.bought \cup {l} /\ n.book = c
      BY <2>2 DEF Approved
    <2>4. l \notin DOMAIN p.book /\ Valued(p.book)
      BY <2>1 DEF Approved
    <2>5. Lot(f, l, q).value = Dollars(f[l], q) /\ Lot(f, l, q).sector = f[l].sector
      BY DEF Lot
    <2>6. /\ Valued(c) /\ Equity(c) = Equity(p.book) + Dollars(f[l], q)
          /\ \A x : Exposure(c, x) = Exposure(p.book, x) + (IF f[l].sector = x THEN Dollars(f[l], q) ELSE 0)
      <3>1. /\ Valued(c) /\ Equity(c) = Equity(p.book) + Lot(f, l, q).value
            /\ \A x : Exposure(c, x) = Exposure(p.book, x) + (IF Lot(f, l, q).sector = x THEN Lot(f, l, q).value ELSE 0)
        <4> DEFINE r == Lot(f, l, q)
        <4>1. r.value \in Int
          BY <2>5
        <4> HIDE DEF r
        <4>2. /\ Valued(With(p.book, l, r)) /\ Equity(With(p.book, l, r)) = Equity(p.book) + r.value
              /\ \A x : Exposure(With(p.book, l, r), x) = Exposure(p.book, x) + (IF r.sector = x THEN r.value ELSE 0)
          BY <2>4, <4>1, ExposureWith
        <4> QED BY <4>2 DEF c, r
      <3> QED BY <2>5, <3>1
    <2>7. \A x : Exposure(p.book, x) \in Int
      BY <2>4, ValuedIs
    <2>8. /\ DOMAIN c = DOMAIN p.book \cup {l} /\ c[l] = Lot(f, l, q)
          /\ \A t \in DOMAIN p.book : c[t] = p.book[t]
      BY <2>4 DEF c, With
    <2>9. /\ n.bought \subseteq s /\ n.bought \cap DOMAIN known = {}
          /\ DOMAIN c = DOMAIN known \cup n.bought
          /\ \A t \in DOMAIN known : c[t] = known[t]
          /\ \A t \in n.bought : c[t] = Lot(f, t, q)
      BY <2>1, <2>3, <2>8 DEF Approved
    <2>10. Equity(c) <= MaxEquity
      BY <2>1, <2>6
    <2>11. \A t \in n.bought : Exposure(c, f[t].sector) <= MaxSector
      <3>1. SUFFICES ASSUME NEW t \in n.bought PROVE Exposure(c, f[t].sector) <= MaxSector
        OBVIOUS
      <3>2. CASE f[t].sector = f[l].sector
        BY <2>1, <2>6, <3>2
      <3>3. CASE f[t].sector # f[l].sector
        <4>1. t \in p.bought
          BY <2>3, <3>1, <3>3
        <4>2. Exposure(p.book, f[t].sector) <= MaxSector
          BY <4>1 DEF Approved
        <4>3. Exposure(c, f[t].sector) = Exposure(p.book, f[t].sector) + 0
          BY <2>6, <3>3
        <4> QED BY <2>7, <4>2, <4>3
      <3> QED BY <3>2, <3>3
    <2>12. Approved(n, s, f, known, q)
      BY <2>3, <2>6, <2>9, <2>10, <2>11 DEF Approved
    <2> QED BY <2>12 DEF n
  <1> QED BY <1>1, <1>2

\* So is the whole decision.
LEMMA DecisionApproved ==
  ASSUME NEW f, IsFiniteSet(DOMAIN f), NEW known, Valued(known), NEW regime, NEW q,
         \A t \in DOMAIN f : f[t].score \in Int /\ f[t].alpha \in Int /\ Dollars(f[t], q) \in Int
  PROVE  Approved(DecideEntries(f, DOMAIN known, known, regime, q), DOMAIN f, f, known, q)
  <1> DEFINE C == Asked(f)
             held == DOMAIN known
  <1>1. /\ IsFiniteSet(C) /\ \A s \in SUBSET C : s # {} => LastOf(f, s) \in s
        /\ \E h : Decides(h, C, f, held, known, regime, q) /\ DecideEntries(f, held, known, regime, q) = h[C]
    BY DecisionIs
  <1>2. PICK h : Decides(h, C, f, held, known, regime, q) /\ DecideEntries(f, held, known, regime, q) = h[C]
    BY <1>1
  <1>3. C \subseteq DOMAIN f
    BY DEF Asked
  <1> HIDE DEF C
  <1> DEFINE D == {s \in SUBSET C : ~Approved(h[s], s, f, known, q)}
  <1>4. D = {}
    <2> SUFFICES ASSUME D # {} PROVE FALSE
      OBVIOUS
    <2>1. PICK s \in D : \A x \in s : s \ {x} \notin D
      <3>1. D \in SUBSET SUBSET C
        OBVIOUS
      <3> HIDE DEF D
      <3> QED BY <1>1, <3>1, LeastCounterexample
    <2>2. s \in SUBSET C /\ ~Approved(h[s], s, f, known, q)
      OBVIOUS
    <2>3. CASE s = {}
      <3>1. h[s] = Base(known)
        BY <1>2, <2>3 DEF Decides
      <3> HIDE DEF D
      <3>2. Approved(Base(known), {}, f, known, q)
        BY DEF Approved, Base
      <3> QED BY <2>2, <2>3, <3>1, <3>2
    <2>4. CASE s # {}
      <3> DEFINE l == LastOf(f, s)
      <3>1. l \in s
        BY <1>1, <2>2, <2>4
      <3>2. Approved(h[s \ {l}], s \ {l}, f, known, q)
        BY <2>1, <2>2, <3>1
      <3>3. h[s] = Consider(h[s \ {l}], l, f[l], held, regime, q)
        BY <1>2, <2>2, <2>4 DEF Decides
      <3>4. Dollars(f[l], q) \in Int
        BY <1>3, <2>2, <3>1
      <3> HIDE DEF D, l
      <3>5. Approved(Consider(h[s \ {l}], l, f[l], held, regime, q), s, f, known, q)
        BY <3>1, <3>2, <3>4, ApprovedStep
      <3> QED BY <2>2, <3>3, <3>5
    <2> QED BY <2>3, <2>4
  <1>5. Approved(h[C], C, f, known, q)
    BY <1>4
  <1> QED BY <1>2, <1>3, <1>5 DEF Approved

-----------------------------------------------------------------------------
(* The caps of a plan.                                                     *)

LEMMA DollarsIs ==
  ASSUME Shaped
  PROVE  \A t \in Names : Dollars(facts[t], Quarters) \in Int
  <1>1. setting.drawdown \in Nat
    BY PlanAssumption DEF Shaped, Setting
  <1>2. Quarters \in Nat
    BY <1>1 DEF Quarters, DrawdownQuarters
  <1>3. SUFFICES ASSUME NEW t \in Names PROVE Dollars(facts[t], Quarters) \in Int
    OBVIOUS
  <1> DEFINE w == facts[t].weight
             a == facts[t].atrWeight
             v == facts[t].adv
             q == Quarters
  <1>4. w \in Nat /\ a \in Nat /\ v \in Nat
    BY PlanAssumption DEF Shaped
  <1> HIDE DEF w, a, v, q
  <1>5. (w * q) \div 4 \in Int /\ (a * q) \div 4 \in Int /\ MaxPosition \in Int
    BY <1>2, <1>4 DEF q, MaxPosition
  <1>6. Dollars(facts[t], Quarters) = Smaller(Smaller(Smaller((w * q) \div 4, MaxPosition), (a * q) \div 4), v)
    BY DEF Dollars, w, a, v, q
  <1>7. \A x, y \in Int : Smaller(x, y) \in Int
    BY DEF Smaller
  <1> DEFINE wq == (w * q) \div 4
             aq == (a * q) \div 4
  <1> HIDE DEF wq, aq
  <1>8. Smaller(Smaller(Smaller(wq, MaxPosition), aq), v) \in Int
    <2>1. wq \in Int /\ aq \in Int /\ MaxPosition \in Int /\ v \in Int
      BY <1>4, <1>5 DEF wq, aq
    <2>2. Smaller(wq, MaxPosition) \in Int
      BY <1>7, <2>1
    <2>3. Smaller(Smaller(wq, MaxPosition), aq) \in Int
      BY <1>7, <2>1, <2>2
    <2> QED BY <1>7, <2>1, <2>3
  <1> QED BY <1>6, <1>8 DEF wq, aq

LEMMA KnownBookIs ==
  ASSUME Shaped
  PROVE  Valued(KnownBook) /\ DOMAIN KnownBook = HeldIn(view) /\ HeldIn(view) \subseteq Names
  <1>1. DOMAIN KnownBook = HeldIn(view) /\ HeldIn(view) \subseteq Names
    BY DEF KnownBook, HeldIn
  <1>2. IsFiniteSet(HeldIn(view))
    BY <1>1, PlanAssumption, FS_Subset
  <1>3. ASSUME NEW t \in Names PROVE Value(t, view[t]) \in Int
    <2>1. view[t] \in Int /\ facts[t].price \in Nat
      BY PlanAssumption DEF Shaped
    <2> DEFINE n == view[t] * facts[t].price
    <2>2. n \in Int
      BY <2>1
    <2> HIDE DEF n
    <2>3. n \div 10 \in Int
      BY <2>2
    <2> QED BY <2>3 DEF Value, Unit, n
  <1>4. \A t \in DOMAIN KnownBook : KnownBook[t].value = Value(t, view[t])
    BY DEF KnownBook
  <1> HIDE DEF KnownBook, HeldIn
  <1> QED BY <1>1, <1>2, <1>3, <1>4 DEF Valued

LEMMA DecisionKept ==
  ASSUME Shaped
  PROVE  Approved(Decision, Names, facts, KnownBook, Quarters)
  <1>1. DOMAIN facts = Names /\ IsFiniteSet(DOMAIN facts)
    BY PlanAssumption DEF Shaped
  <1>2. \A t \in DOMAIN facts : facts[t].score \in Int /\ facts[t].alpha \in Int /\ Dollars(facts[t], Quarters) \in Int
    BY <1>1, PlanAssumption, DollarsIs DEF Shaped
  <1>3. Approved(DecideEntries(facts, DOMAIN KnownBook, KnownBook, Regime, Quarters), DOMAIN facts, facts, KnownBook, Quarters)
    BY <1>1, <1>2, KnownBookIs, DecisionApproved
  <1> QED BY <1>1, <1>3, KnownBookIs DEF Decision

\* What some entries cost, of the names of a set.
Cost(E, S) == MapThenSumSet(LAMBDA e : e.value, {e \in E : e.ticker \in S})

LEMMA CostOfPlan ==
  ASSUME Shaped, NEW S
  PROVE  Cost(Planned, S) = Total([t \in Decision.bought \cap S |-> Dollars(facts[t], Quarters)], Decision.bought \cap S)
  <1> DEFINE B == Decision.bought \cap S
             E == {e \in Planned : e.ticker \in S}
             F == [t \in B |-> Dollars(facts[t], Quarters)]
             G == [e \in E |-> e.value]
             f == [t \in B |-> EntryRecord(t, Dollars(facts[t], Quarters))]
  <1>1. Cost(Planned, S) = Total(G, E)
    BY DEF Cost, Total, MapThenSumSet, MapThenFoldSet
  <1>2. B \in SUBSET Names
    BY DecisionKept DEF Approved
  <1>3. IsFiniteSet(B)
    <2> HIDE DEF B
    <2> QED BY <1>2, PlanAssumption, FS_Subset
  <1>4. F \in [B -> Int]
    <2> HIDE DEF B
    <2> QED BY <1>2, DollarsIs
  <1>5. E = {f[t] : t \in B}
    <2>1. Planned = {EntryRecord(t, Dollars(facts[t], Quarters)) : t \in Decision.bought}
      BY DEF Planned
    <2>2. \A t : EntryRecord(t, Dollars(facts[t], Quarters)).ticker = t
      BY DEF EntryRecord
    <2>3. \A t \in B : f[t] = EntryRecord(t, Dollars(facts[t], Quarters))
      OBVIOUS
    <2> HIDE DEF f
    <2> QED BY <2>1, <2>2, <2>3
  <1>6. f \in [B -> E] /\ \A x \in B : f[x].ticker = x /\ f[x].value = F[x]
    <2>1. \A x \in B : f[x].ticker = x /\ f[x].value = F[x]
      BY DEF EntryRecord
    <2> HIDE DEF E, B
    <2> QED BY <1>5, <2>1
  <1> HIDE DEF B, E, F, f
  <1>7. \A x \in B : f[x] \in E /\ G[f[x]] = F[x]
    BY <1>6
  <1>8. G \in [E -> Int]
    <2>1. \A e \in E : e.value \in Int
      BY <1>4, <1>5, <1>6
    <2> QED BY <2>1
  <1> HIDE DEF G
  <1>9. \A x, y \in B : f[x] = f[y] => x = y
    BY <1>6
  <1>10. Total(F, B) = Total(G, E)
    BY <1>3, <1>4, <1>5, <1>6, <1>7, <1>8, <1>9, TotalRename
  <1> QED BY <1>1, <1>10 DEF F, B

\* A plan with what is held is the book the decision ended with.
LEMMA PlanInBook ==
  ASSUME Shaped
  PROVE  /\ \A s : Exposure(KnownBook, s) + Cost(Planned, {t \in Names : facts[t].sector = s})
                     = Exposure(Decision.book, s)
         /\ Equity(KnownBook) + Cost(Planned, Names) = Equity(Decision.book)
  <1> DEFINE B == Decision.bought
             K == DOMAIN KnownBook
             b == Decision.book
             size(t) == Dollars(facts[t], Quarters)
  <1>1. /\ B \in SUBSET Names /\ B \cap K = {} /\ Valued(b) /\ DOMAIN b = K \cup B
        /\ \A t \in K : b[t] = KnownBook[t]
        /\ \A t \in B : b[t].sector = facts[t].sector /\ b[t].value = size(t)
    <2>1. /\ B \in SUBSET Names /\ B \cap K = {} /\ Valued(b) /\ DOMAIN b = K \cup B
          /\ \A t \in K : b[t] = KnownBook[t]
          /\ \A t \in B : b[t] = Lot(facts, t, Quarters)
      BY DecisionKept DEF Approved
    <2>2. \A t : Lot(facts, t, Quarters).sector = facts[t].sector /\ Lot(facts, t, Quarters).value = size(t)
      BY DEF Lot
    <2> HIDE DEF B, K, b, size
    <2> QED BY <2>1, <2>2
  <1>2. IsFiniteSet(B) /\ IsFiniteSet(K) /\ Valued(KnownBook)
    <2> HIDE DEF B
    <2> QED BY <1>1, KnownBookIs, PlanAssumption, FS_Subset DEF Valued
  <1>3. \A t \in B : size(t) \in Int
    <2> HIDE DEF B
    <2> QED BY <1>1, DollarsIs
  <1>4. ASSUME NEW s
        PROVE  Exposure(KnownBook, s) + Cost(Planned, {t \in Names : facts[t].sector = s}) = Exposure(b, s)
    <2> DEFINE T == {t \in Names : facts[t].sector = s}
               P == B \cap T
               F == [t \in P |-> size(t)]
               G == [t \in B |-> IF facts[t].sector = s THEN size(t) ELSE 0]
    <2>1. Cost(Planned, T) = Total(F, P)
      BY CostOfPlan
    <2>2. /\ P \in SUBSET B /\ F \in [P -> Int] /\ G \in [B -> Int]
          /\ \A t \in B : G[t] = IF t \in P THEN F[t] ELSE 0
      <3> HIDE DEF B, size
      <3> QED BY <1>1, <1>3
    <2> HIDE DEF F, P
    <2>3. Total(F, P) = Total(G, B)
      <3> HIDE DEF G, B
      <3> QED BY <1>2, <2>2, TotalPart
    <2>4. InSector(KnownBook, s) \in [K -> Int] /\ InSector(b, s) \in [K \cup B -> Int]
      <3>1. InSector(b, s) \in [DOMAIN b -> Int]
        BY <1>1, ValuedIs
      <3> HIDE DEF b, B
      <3> QED BY <1>1, <1>2, <3>1, ValuedIs
    <2>5. /\ \A t \in K : InSector(b, s)[t] = InSector(KnownBook, s)[t]
          /\ \A t \in B : InSector(b, s)[t] = G[t]
      <3> HIDE DEF b, B, K, size
      <3>1. \A t \in K : InSector(b, s)[t] = InSector(KnownBook, s)[t]
        BY <1>1 DEF InSector, K
      <3> QED BY <1>1, <3>1 DEF InSector
    <2> HIDE DEF G, T, b, B, K
    <2>6. Total(InSector(b, s), K \cup B) = Total(InSector(KnownBook, s), K) + Total(G, B)
      <3>1. K \cap B = {}
        BY <1>1
      <3> QED BY <1>2, <2>2, <2>4, <2>5, <3>1, TotalUnion
    <2>7. Exposure(b, s) = Total(InSector(b, s), K \cup B) /\ Exposure(KnownBook, s) = Total(InSector(KnownBook, s), K)
      BY <1>1, ExposureIs DEF K
    <2> QED BY <2>1, <2>3, <2>6, <2>7 DEF T
  <1>5. Equity(KnownBook) + Cost(Planned, Names) = Equity(b)
    <2> DEFINE P == B \cap Names
               F == [t \in P |-> size(t)]
    <2>1. Cost(Planned, Names) = Total(F, P)
      BY CostOfPlan
    <2>2. P = B
      BY <1>1
    <2>3. F \in [B -> Int] /\ \A t \in B : F[t] = size(t)
      <3> HIDE DEF B, size
      <3> QED BY <1>3, <2>2
    <2>4. InEquity(KnownBook) \in [K -> Int] /\ InEquity(b) \in [K \cup B -> Int]
      <3>1. InEquity(b) \in [DOMAIN b -> Int]
        BY <1>1, ValuedIs
      <3> HIDE DEF b, B
      <3> QED BY <1>1, <1>2, <3>1, ValuedIs
    <2> HIDE DEF F
    <2>5. /\ \A t \in K : InEquity(b)[t] = InEquity(KnownBook)[t]
          /\ \A t \in B : InEquity(b)[t] = F[t]
      <3> HIDE DEF b, B, K, size
      <3>1. \A t \in K : InEquity(b)[t] = InEquity(KnownBook)[t]
        BY <1>1 DEF InEquity, K
      <3> QED BY <1>1, <2>3, <3>1 DEF InEquity
    <2> HIDE DEF b, B, K, P
    <2>6. Total(InEquity(b), K \cup B) = Total(InEquity(KnownBook), K) + Total(F, B)
      <3>1. K \cap B = {}
        BY <1>1
      <3> QED BY <1>2, <2>3, <2>4, <2>5, <3>1, TotalUnion
    <2>7. Equity(b) = Total(InEquity(b), K \cup B) /\ Equity(KnownBook) = Total(InEquity(KnownBook), K)
      BY <1>1, ExposureIs DEF K
    <2> QED BY <2>1, <2>2, <2>6, <2>7
  <1> QED BY <1>4, <1>5

\* A plan is within the caps.
LEMMA PlanWithinCaps ==
  ASSUME Shaped, Planned # {}
  PROVE  /\ \A e \in Planned :
              Exposure(KnownBook, facts[e.ticker].sector)
                + Cost(Planned, {t \in Names : facts[t].sector = facts[e.ticker].sector}) <= MaxSector
         /\ Equity(KnownBook) + Cost(Planned, Names) <= MaxEquity
  <1>1. Decision.bought # {} /\ \A e \in Planned : e.ticker \in Decision.bought
    BY DEF Planned, EntryRecord
  <1>2. /\ Equity(Decision.book) <= MaxEquity
        /\ \A t \in Decision.bought : Exposure(Decision.book, facts[t].sector) <= MaxSector
    BY <1>1, DecisionKept DEF Approved
  <1> QED BY <1>1, <1>2, PlanInBook

-----------------------------------------------------------------------------
(* The shapes.                                                             *)

LEMMA EmptyIsBook == IsBook(EmptyBook)
  BY DEF IsBook, EmptyBook

\* A book taken over, and one with other entries.
LEMMA ResetIsBook ==
  ASSUME IsBook(disk)
  PROVE  /\ IsBook(ResetPending(Loaded))
         /\ ResetPending(Loaded).urgent = {} /\ ResetPending(Loaded).entries = {}
  <1>1. IsBook(Loaded)
    BY EmptyIsBook DEF Loaded
  <1>2. ASSUME NEW b, IsBook(b)
        PROVE  IsBook(ResetPending(b)) /\ ResetPending(b).urgent = {} /\ ResetPending(b).entries = {}
    BY <1>2 DEF ResetPending, IsBook, EmptyBook
  <1> QED BY <1>1, <1>2

LEMMA EntriesInBook ==
  ASSUME NEW b, IsBook(b), NEW E, \A e \in E : e \in EntryRecords
  PROVE  LET c == [b EXCEPT !.entries = E]
         IN  IsBook(c) /\ c.entries = E /\ c.urgent = b.urgent
  BY DEF IsBook, EmptyBook

\* What the optimizer's log makes of the book.
LEMMA OptimizerSalesAre ==
  ASSUME Shaped
  PROVE  \A u \in OptimizerSales :
           /\ u \in UrgentRecords /\ u.kind # "COVER" /\ view[u.ticker] > 0
           /\ log.wish[u.ticker] \in {"trim", "sell"}
           /\ u.kind = "EXIT" => u.shares = view[u.ticker]
  <1>1. ASSUME NEW u \in OptimizerSales
        PROVE  /\ u \in UrgentRecords /\ u.kind # "COVER" /\ view[u.ticker] > 0
               /\ log.wish[u.ticker] \in {"trim", "sell"}
               /\ u.kind = "EXIT" => u.shares = view[u.ticker]
    <2>1. PICK t \in Names :
            /\ log.wish[t] \in {"trim", "sell"} /\ view[t] > 0
            /\ u = IF log.wish[t] = "sell" \/ view[t] = 1 THEN UrgentRecord(t, "EXIT", view[t])
                   ELSE UrgentRecord(t, "REDUCE", 1)
      BY DEF OptimizerSales
    <2>2. view[t] \in Int
      BY DEF Shaped
    <2>3. u.kind # "COVER" /\ (u.kind = "EXIT" => u.shares = view[u.ticker])
      BY <2>1 DEF UrgentRecord
    <2> QED BY <2>1, <2>2, <2>3 DEF UrgentRecord, UrgentRecords
  <1> QED BY <1>1

LEMMA OptimizerEntriesAre ==
  ASSUME Shaped
  PROVE  \A e \in OptimizerEntries : e \in EntryRecords /\ log.wish[e.ticker] = "buy"
  <1>1. ASSUME NEW t \in Names PROVE Value(t, 1) \in Int
    <2>1. facts[t].price \in Nat
      BY PlanAssumption DEF Shaped
    <2> QED BY <2>1 DEF Value, Unit
  <1> HIDE DEF Value
  <1> QED BY <1>1 DEF OptimizerEntries, EntryRecord, EntryRecords

LEMMA CutoverBook ==
  ASSUME Shaped
  PROVE  LET c == [AddUrgent(book, OptimizerSales) EXCEPT !.entries = OptimizerEntries]
         IN  /\ IsBook(c) /\ c.entries = OptimizerEntries
             /\ c.urgent = book.urgent
                  \cup {u \in OptimizerSales : ~\E v \in book.urgent : v.ticker = u.ticker /\ v.kind = u.kind}
  <1> DEFINE a == AddUrgent(book, OptimizerSales)
  <1>1. IsBook(book)
    BY DEF Shaped
  <1>2. \A u \in OptimizerSales : u \in UrgentRecords /\ (u.kind = "COVER" => u.shares > 0)
    BY OptimizerSalesAre
  <1>3. IsBook(a)
    BY <1>1, <1>2, AddUrgentBook
  <1>4. a.urgent = book.urgent \cup {u \in OptimizerSales : ~\E v \in book.urgent : v.ticker = u.ticker /\ v.kind = u.kind}
    BY <1>1, AddUrgentIs
  <1>5. \A e \in OptimizerEntries : e \in EntryRecords
    BY OptimizerEntriesAre
  <1> HIDE DEF a
  <1>6. LET c == [a EXCEPT !.entries = OptimizerEntries]
        IN  IsBook(c) /\ c.entries = OptimizerEntries /\ c.urgent = a.urgent
    BY <1>3, <1>5, EntriesInBook
  <1> QED BY <1>4, <1>6 DEF a

\* The entries of the rules.
LEMMA PlannedAre ==
  ASSUME Shaped
  PROVE  \A e \in Planned : /\ e \in EntryRecords /\ e.ticker \in Decision.bought
                            /\ view[e.ticker] = 0
  <1>1. Decision.bought \subseteq Names /\ Decision.bought \cap HeldIn(view) = {}
    BY DecisionKept, KnownBookIs DEF Approved
  <1>2. \A t \in Names : Dollars(facts[t], Quarters) \in Int
    BY DollarsIs
  <1>3. \A t \in Names : t \notin HeldIn(view) => view[t] = 0
    BY DEF HeldIn
  <1>4. ASSUME NEW e \in Planned
        PROVE  e \in EntryRecords /\ e.ticker \in Decision.bought /\ view[e.ticker] = 0
    <2>1. PICK t \in Decision.bought : e = EntryRecord(t, Dollars(facts[t], Quarters))
      BY DEF Planned
    <2> QED BY <1>1, <1>2, <1>3, <2>1 DEF EntryRecord, EntryRecords
  <1> QED BY <1>4

\* The plan's sales.
Research ==
  IF OwnsExits THEN [exit |-> {}, reduce |-> {}]
  ELSE [exit |-> ResearchSells(facts, "EXIT"), reduce |-> ResearchSells(facts, "REDUCE")]

LEMMA SalesAre ==
  ASSUME Shaped
  PROVE  /\ \A u \in PlannedSales(Research, signals, view) :
              /\ u \in UrgentRecords /\ u.kind # "COVER"
              /\ u.kind = "EXIT" => /\ u.ticker \in ExitTickers(Research, signals)
                                    /\ view[u.ticker] # 0 /\ u.shares = view[u.ticker]
         /\ \A t \in ExitTickers(Research, signals) :
              view[t] # 0 => UrgentRecord(t, "EXIT", view[t]) \in PlannedSales(Research, signals, view)
  <1>1. Research.exit \in SUBSET Names /\ Research.reduce \in SUBSET Names
    BY DEF Research, ResearchSells, Shaped
  <1>2. /\ \A s \in signals : s \in [ticker : Names, kind : {"EXIT", "REDUCE"}]
        /\ view \in [Names -> Int]
    BY DEF Shaped
  <1> QED BY <1>1, <1>2, PlannedSalesAre

\* The book as it is saved: the sales there are, and covers of what is short.
LEMMA ArmedIs ==
  ASSUME Shaped
  PROVE  /\ IsBook(Armed(position)) /\ Armed(position).entries = book.entries
         /\ Armed(position).stops = {[ticker |-> t, shares |-> position[t],
                                      kind |-> IF setting.optimizer THEN "gap" ELSE "alpha"] : t \in Watched(position)}
         /\ Armed(position).urgent = book.urgent \cup
              {u \in {UrgentRecord(t, "COVER", -position[t]) : t \in {n \in Names : position[n] < 0}} :
                 ~\E v \in book.urgent : v.ticker = u.ticker /\ v.kind = u.kind}
  <1> DEFINE S == {[ticker |-> t, shares |-> position[t],
                    kind |-> IF setting.optimizer THEN "gap" ELSE "alpha"] : t \in Watched(position)}
             b == [book EXCEPT !.stops = S]
             C == {UrgentRecord(t, "COVER", -position[t]) : t \in {n \in Names : position[n] < 0}}
  <1>1. Armed(position) = AddUrgent(b, C)
    BY Zenon DEF Armed
  <1>2. \A t \in Names : position[t] \in Int
    BY DEF Shaped
  <1>3. \A s \in S : s \in StopRecords
    <2>1. \A t \in Watched(position) : t \in Names /\ position[t] \in Nat \ {0}
      BY <1>2 DEF Watched
    <2> HIDE DEF Watched
    <2> QED BY <2>1 DEF StopRecords
  <1>4. \A u \in C : u \in UrgentRecords /\ (u.kind = "COVER" => u.shares > 0)
    BY <1>2 DEF UrgentRecord, UrgentRecords
  <1> HIDE DEF S, C
  <1>5. IsBook(b) /\ b.stops = S /\ b.urgent = book.urgent /\ b.entries = book.entries
    <2>1. IsBook(book)
      BY DEF Shaped
    <2> QED BY <1>3, <2>1 DEF IsBook, EmptyBook
  <1> HIDE DEF b
  <1>6. IsBook(AddUrgent(b, C))
    BY <1>4, <1>5, AddUrgentBook
  <1>7. /\ AddUrgent(b, C).entries = b.entries /\ AddUrgent(b, C).stops = b.stops
        /\ AddUrgent(b, C).urgent = b.urgent \cup {u \in C : ~\E v \in b.urgent : v.ticker = u.ticker /\ v.kind = u.kind}
    BY <1>5, AddUrgentIs
  <1> QED BY <1>1, <1>5, <1>6, <1>7 DEF S, C

LEMMA ShapedStarts == Init => Shaped
  <1>1. ASSUME Init PROVE Shaped
    <2>1. DOMAIN facts = Names /\ \A t \in Names : facts[t] \in Stories[t]
      BY <1>1 DEF Init
    <2>2. position \in [Names -> Int]
      BY <1>1, <2>1, PlanAssumption DEF Init
    <2>3. \A d \in {"earlier", "corrupt"} : IsBook([EmptyBook EXCEPT !.date = d])
      BY DEF IsBook, EmptyBook
    <2>4. IsBook([EmptyBook EXCEPT !.date = "earlier", !.executed = Names])
      BY DEF IsBook, EmptyBook
    <2>5. IsBook(disk)
      BY <1>1, <2>3, <2>4, EmptyIsBook DEF Init
    <2> QED BY <1>1, <2>1, <2>2, <2>5, EmptyIsBook, PlanAssumption DEF Init, Shaped, PlanStages
  <1> QED BY <1>1

LEMMA ShapedSame ==
  ASSUME Shaped, UNCHANGED vars
  PROVE  Shaped'
  BY DEF Shaped, vars, IsBook

\* A run that ends leaves the file and the account.
LEMMA ShapedExit ==
  ASSUME Shaped, Exit
  PROVE  Shaped'
  <1>1. view' \in [Names -> Int] /\ IsBook(book')
    BY EmptyIsBook DEF Exit
  <1> QED BY <1>1 DEF Exit, Shaped, IsBook, PlanStages

LEMMA ShapedStays ==
  ASSUME Shaped, Next
  PROVE  Shaped'
  <1>1. CASE Begin
    <2>1. run' \in 0 .. MaxRuns
      BY <1>1, PlanAssumption DEF Begin, Shaped
    <2>2. IsBook(book') /\ view' \in [Names -> Int]
      BY <1>1, EmptyIsBook DEF Begin, Shaped
    <2> QED BY <1>1, <2>1, <2>2 DEF Begin, Shaped, IsBook, PlanStages
  <1>2. CASE EvaluateExits
    <2> DEFINE strategy == IF OwnsExits THEN {} ELSE StrategyExits(facts, HeldIn(view))
    <2>1. signals' = strategy \cup LossFloorExits(facts, view, strategy)
      BY Zenon, <1>2 DEF EvaluateExits
    <2>2. \A s \in strategy : s \in [ticker : Names, kind : {"EXIT", "REDUCE"}]
      BY StrategyExitsAre DEF HeldIn
    <2>3. DOMAIN view = Names
      BY DEF Shaped
    <2> HIDE DEF strategy
    <2>4. \A s \in LossFloorExits(facts, view, strategy) : s \in [ticker : Names, kind : {"EXIT", "REDUCE"}]
      BY <2>3, LossFloorExitsAre
    <2>5. \A s \in signals' : s \in [ticker : Names, kind : {"EXIT", "REDUCE"}]
      BY <2>1, <2>2, <2>4
    <2> QED BY <1>2, <2>5 DEF EvaluateExits, Shaped, IsBook, PlanStages
  <1>3. CASE TakeBook
    <2>1. DOMAIN view = Names
      BY DEF Shaped
    <2>2. \A s \in ForcedExits(facts, view, signals, Quarters) : s \in [ticker : Names, kind : {"EXIT", "REDUCE"}]
      BY <2>1, ForcedExitsAre
    <2>3. \A s \in signals' : s \in [ticker : Names, kind : {"EXIT", "REDUCE"}]
      BY <1>3, <2>2 DEF TakeBook, Shaped
    <2>4. IsBook(book')
      BY <1>3, ResetIsBook DEF TakeBook, Shaped
    <2> QED BY <1>3, <2>3, <2>4 DEF TakeBook, Shaped, IsBook, PlanStages
  <1>4. CASE PlanEntries
    <2>1. CASE OwnsExits
      BY <1>4, <2>1 DEF PlanEntries, Shaped, IsBook, PlanStages
    <2>2. CASE ~OwnsExits
      <3> DEFINE E == book.entries \cup Planned
      <3>1. book' = [book EXCEPT !.entries = E]
        BY <1>4, <2>2 DEF PlanEntries, Planned
      <3>2. \A e \in E : e \in EntryRecords
        BY PlannedAre DEF Shaped, IsBook
      <3> HIDE DEF E
      <3>3. IsBook(book')
        BY <3>1, <3>2, EntriesInBook DEF Shaped
      <3> QED BY <1>4, <3>3 DEF PlanEntries, Shaped, IsBook, PlanStages
    <2> QED BY <2>1, <2>2
  <1>5. CASE PlanExits
    <2>1. book' = AddUrgent(book, PlannedSales(Research, signals, view))
      BY Zenon, <1>5 DEF PlanExits, Research
    <2>2. \A u \in PlannedSales(Research, signals, view) : u \in UrgentRecords /\ (u.kind = "COVER" => u.shares > 0)
      BY SalesAre
    <2>3. IsBook(book')
      BY <2>1, <2>2, AddUrgentBook DEF Shaped
    <2>4. stage' \in PlanStages /\ signals' = {}
      BY <1>5 DEF PlanExits, PlanStages
    <2> QED BY <1>5, <2>3, <2>4 DEF PlanExits, Shaped, IsBook
  <1>6. CASE Optimize
    BY <1>6 DEF Optimize, Shaped, IsBook, PlanStages
  <1>7. CASE Cutover
    <2>1. IsBook(book')
      <3>1. CASE book' = book
        BY <3>1 DEF Shaped
      <3>2. CASE book' = [AddUrgent(book, OptimizerSales) EXCEPT !.entries = OptimizerEntries]
        BY <3>2, CutoverBook
      <3> QED BY <1>7, <3>1, <3>2 DEF Cutover
    <2> QED BY <1>7, <2>1 DEF Cutover, Shaped, IsBook, PlanStages
  <1>8. CASE Finalize
    <2>1. IsBook(disk')
      BY <1>8, ArmedIs DEF Finalize
    <2> QED BY <1>8, <2>1 DEF Finalize, Shaped, IsBook, PlanStages
  <1>9. CASE Report \/ Fail
    BY <1>9, ShapedExit DEF Report, Fail
  <1>10. CASE LateFill
    <2>1. PICK t \in Names \ {Spy} : \E n \in {-1, 1} : position' = [position EXCEPT ![t] = @ + n]
      BY Zenon, <1>10 DEF LateFill
    <2>2. PICK n \in {-1, 1} : position' = [position EXCEPT ![t] = @ + n]
      BY <2>1
    <2>3. position' \in [Names -> Int]
      BY <2>2 DEF Shaped
    <2>4. fills' \in 0 .. MaxFills
      BY <1>10, PlanAssumption DEF LateFill, Shaped
    <2> QED BY <1>10, <2>3, <2>4 DEF LateFill, Shaped, IsBook
  <1>11. CASE Trade
    <2>1. fills' \in 0 .. MaxFills
      <3>1. fills' = fills + 1 /\ fills < MaxFills
        BY Zenon, <1>11 DEF Trade
      <3> QED BY <3>1, PlanAssumption DEF Shaped
    <2>2. position' \in [Names -> Int] /\ IsBook(disk')
      <3>1. IsBook(disk)
        BY DEF Shaped
      <3>2. ASSUME NEW u \in disk.urgent,
                   position' = [position EXCEPT ![u.ticker] = IF u.kind = "COVER" THEN @ + u.shares ELSE @ - u.shares],
                   disk' = [disk EXCEPT !.urgent = @ \ {u}, !.executed = @ \cup {u.ticker}]
            PROVE  position' \in [Names -> Int] /\ IsBook(disk')
        <4>1. u.ticker \in Names /\ u.shares \in Int
          BY <3>1, <3>2 DEF IsBook, UrgentRecords
        <4>2. position' \in [Names -> Int]
          BY <3>2, <4>1 DEF Shaped
        <4>3. /\ DOMAIN disk' = DOMAIN disk /\ disk'.date = disk.date /\ disk'.entries = disk.entries
              /\ disk'.urgent = disk.urgent \ {u} /\ disk'.stops = disk.stops
              /\ disk'.executed = disk.executed \cup {u.ticker}
          BY <3>1, <3>2 DEF IsBook, EmptyBook
        <4> QED BY <3>1, <4>1, <4>2, <4>3 DEF IsBook
      <3>3. ASSUME NEW e \in disk.entries,
                   position' = [position EXCEPT ![e.ticker] = @ + (e.value * Unit) \div facts[e.ticker].price],
                   disk' = [disk EXCEPT !.entries = @ \ {e}, !.executed = @ \cup {e.ticker}]
            PROVE  position' \in [Names -> Int] /\ IsBook(disk')
        <4>1. e.ticker \in Names /\ e.value \in Int
          BY <3>1, <3>3 DEF IsBook, EntryRecords
        <4>2. facts[e.ticker].price \in Nat \ {0}
          BY <4>1, PlanAssumption DEF Shaped
        <4> DEFINE n == e.value * Unit
                   d == n \div facts[e.ticker].price
        <4>3. n \in Int
          BY <4>1 DEF Unit
        <4> HIDE DEF n
        <4>4. d \in Int
          BY <4>2, <4>3
        <4>5. position' = [position EXCEPT ![e.ticker] = @ + d]
          BY Zenon, <3>3 DEF n
        <4> HIDE DEF d
        <4>6. position' \in [Names -> Int]
          BY <4>1, <4>4, <4>5 DEF Shaped
        <4>7. /\ DOMAIN disk' = DOMAIN disk /\ disk'.date = disk.date /\ disk'.urgent = disk.urgent
              /\ disk'.entries = disk.entries \ {e} /\ disk'.stops = disk.stops
              /\ disk'.executed = disk.executed \cup {e.ticker}
          BY <3>1, <3>3 DEF IsBook, EmptyBook
        <4> QED BY <3>1, <4>1, <4>6, <4>7 DEF IsBook
      <3> QED BY <1>11, <3>2, <3>3 DEF Trade
    <2> QED BY <1>11, <2>1, <2>2 DEF Trade, Shaped, IsBook
  <1> QED BY <1>1, <1>2, <1>3, <1>4, <1>5, <1>6, <1>7, <1>8, <1>9, <1>10, <1>11 DEF Next

-----------------------------------------------------------------------------
(* The sales and the signals.                                              *)

\* What no step changes: the morning, and what is true of the names.
LEMMA SameMorning ==
  ASSUME Next
  PROVE  facts' = facts /\ setting' = setting
  BY DEF Next, Begin, EvaluateExits, TakeBook, PlanEntries, PlanExits, Optimize, Cutover,
         Finalize, Report, Fail, Exit, LateFill, Trade

LEMMA SellingStays ==
  ASSUME PlanKept, Next
  PROVE  Selling'
  <1>1. OwnsExits' = OwnsExits
    BY SameMorning DEF OwnsExits
  <1>2. Selling /\ Shaped
    BY DEF PlanKept
  <1>3. ASSUME UNCHANGED <<view, signals, book>>, stage' = stage \/ stage' \notin Begun,
               stage' \in {"optimize", "cutover"} => stage \in {"entries", "optimize", "cutover"}
        PROVE  Selling'
    BY <1>1, <1>2, <1>3 DEF Selling, Begun
  <1>4. CASE Begin \/ Report \/ Fail
    <2>1. signals' = {} /\ book' = EmptyBook
      BY <1>4 DEF Begin, Report, Fail, Exit
    <2> QED BY <2>1 DEF Selling, EmptyBook
  <1>5. CASE EvaluateExits
    <2> DEFINE strategy == IF OwnsExits THEN {} ELSE StrategyExits(facts, HeldIn(view))
    <2>1. signals' = strategy \cup LossFloorExits(facts, view, strategy)
      BY Zenon, <1>5 DEF EvaluateExits
    <2>2. OwnsExits => strategy = {}
      OBVIOUS
    <2> HIDE DEF strategy
    <2>3. \A s \in LossFloorExits(facts, view, strategy) : s.kind = "EXIT" /\ view[s.ticker] > 0
      BY <1>2, LossFloorExitsAre DEF Shaped
    <2>4. OwnsExits => \A s \in signals' : s.kind = "EXIT" /\ view[s.ticker] > 0
      BY <2>1, <2>2, <2>3
    <2>5. stage = "read" /\ stage' = "exits" /\ book' = book /\ view' = view
      BY Zenon, <1>5 DEF EvaluateExits
    <2> QED BY <1>1, <1>2, <2>4, <2>5 DEF Selling, Begun
  <1>6. CASE TakeBook
    <2>1. /\ signals' = signals \cup ForcedExits(facts, view, signals, Quarters)
          /\ book' = ResetPending(Loaded) /\ stage' = "book" /\ view' = view
      BY Zenon, <1>6 DEF TakeBook
    <2>2. \A s \in ForcedExits(facts, view, signals, Quarters) : s.kind = "EXIT" /\ view[s.ticker] > 0
      BY <1>2, ForcedExitsAre DEF Shaped
    <2>3. book'.urgent = {} /\ book'.entries = {}
      BY <1>2, <2>1, ResetIsBook DEF Shaped
    <2>4. OwnsExits => \A s \in signals' : s.kind = "EXIT" /\ view[s.ticker] > 0
      BY <1>2, <2>1, <2>2 DEF Selling
    <2> QED BY <1>1, <2>1, <2>3, <2>4 DEF Selling, Begun
  <1>7. CASE PlanEntries
    <2>1. /\ stage = "book" /\ stage' = "entries" /\ signals' = signals /\ view' = view
          /\ OwnsExits => book' = book
      BY Zenon, <1>7 DEF PlanEntries
    <2>2. book'.urgent = book.urgent
      <3>1. IsBook(book)
        BY <1>2 DEF Shaped
      <3> QED BY <1>7, <3>1 DEF PlanEntries, IsBook, EmptyBook
    <2> QED BY <1>1, <1>2, <2>1, <2>2 DEF Selling, Begun
  <1>8. CASE PlanExits
    <2>1. book' = AddUrgent(book, PlannedSales(Research, signals, view))
      BY Zenon, <1>8 DEF PlanExits, Research
    <2>2. stage = "entries" /\ signals' = {} /\ view' = view /\ stage' \notin Begun
      BY <1>8 DEF PlanExits, Begun
    <2>3. \A u \in book'.urgent : u \in PlannedSales(Research, signals, view)
      <3>1. book.urgent = {}
        BY <1>2, <2>2 DEF Selling, Begun
      <3> QED BY <1>2, <2>1, <3>1, AddUrgentIs DEF Shaped
    <2>4. book'.entries = book.entries
      BY <1>2, <2>1, AddUrgentIs DEF Shaped
    <2>5. OwnsExits => \A t \in ExitTickers(Research, signals) : view[t] > 0
      BY <1>2 DEF Selling, ExitTickers, Research
    <2>6. \A u \in book'.urgent : /\ u.kind # "COVER"
                                  /\ u.kind = "EXIT" => /\ view[u.ticker] # 0 /\ u.shares = view[u.ticker]
                                                        /\ OwnsExits => view[u.ticker] > 0
      BY <1>2, <2>3, <2>5, SalesAre
    <2> QED BY <1>1, <1>2, <2>2, <2>4, <2>6 DEF Selling, Begun
  <1>9. CASE Optimize
    BY <1>3, <1>9 DEF Optimize, Begun
  <1>10. CASE Cutover
    <2>1. /\ stage = "cutover" /\ stage' = "planned" /\ signals' = signals /\ view' = view
      BY Zenon, <1>10 DEF Cutover
    <2>2. \A u \in book'.urgent : /\ u.kind # "COVER"
                                  /\ u.kind = "EXIT" => /\ view[u.ticker] # 0 /\ u.shares = view[u.ticker]
                                                        /\ OwnsExits => view[u.ticker] > 0
      <3>1. CASE book' = book
        BY <1>2, <3>1 DEF Selling
      <3>2. CASE book' = [AddUrgent(book, OptimizerSales) EXCEPT !.entries = OptimizerEntries]
        <4>1. \A u \in book'.urgent : u \in book.urgent \/ u \in OptimizerSales
          BY <1>2, <3>2, CutoverBook
        <4>2. \A u \in OptimizerSales : /\ u.kind # "COVER" /\ view[u.ticker] > 0
                                        /\ u.kind = "EXIT" => u.shares = view[u.ticker]
          BY <1>2, OptimizerSalesAre
        <4>3. \A u \in OptimizerSales : view[u.ticker] # 0
          <5>1. ASSUME NEW u \in OptimizerSales
                PROVE  view[u.ticker] \in Int
            <6>1. u \in UrgentRecords
              BY <1>2, OptimizerSalesAre
            <6>2. u.ticker \in Names
              BY <6>1 DEF UrgentRecords
            <6> QED BY <1>2, <6>2 DEF Shaped
          <5> QED BY <4>2, <5>1
        <4> QED BY <1>2, <4>1, <4>2, <4>3 DEF Selling
      <3> QED BY <1>10, <3>1, <3>2 DEF Cutover
    <2> QED BY <1>1, <1>2, <2>1, <2>2 DEF Selling, Begun
  <1>11. CASE Finalize
    BY <1>3, <1>11 DEF Finalize, Begun
  <1>12. CASE LateFill
    BY <1>3, <1>12 DEF LateFill
  <1>13. CASE Trade
    <2>1. UNCHANGED <<stage, view, signals, book>>
      BY Zenon, <1>13 DEF Trade
    <2> QED BY <1>3, <2>1
  <1> QED BY <1>4, <1>5, <1>6, <1>7, <1>8, <1>9, <1>10, <1>11, <1>12, <1>13 DEF Next

LEMMA WishedStays ==
  ASSUME PlanKept, Next
  PROVE  Wished'
  <1>1. ASSUME log' = NoLog PROVE Wished'
    BY <1>1 DEF Wished, NoLog
  <1>2. stage # "cutover" => log = NoLog
    BY DEF PlanKept, Wished
  <1>3. CASE Optimize
    <2>1. stage' = "cutover" /\ UNCHANGED <<facts, view, book>>
      BY Zenon, <1>3 DEF Optimize
    <2>2. CASE log' = NoLog
      BY <1>1, <2>2
    <2>3. CASE \E wish \in [Names -> {"none", "buy", "trim", "sell"}] :
                 /\ \A t \in Names : wish[t] \in Wishes(t)
                 /\ log' = [usable |-> TRUE, wish |-> wish]
      <3>1. \A t \in Names : log'.wish[t] \in Wishes(t)
        BY <2>3
      <3>2. HardExits' = HardExits
        BY <2>1 DEF HardExits
      <3>3. ASSUME NEW t \in Names PROVE Wishes(t)' = Wishes(t)
        BY <2>1, <3>2 DEF Wishes, Pinned, Enterable
      <3> QED BY <2>1, <3>1, <3>3 DEF Wished
    <2> QED BY Zenon, <1>3, <2>2, <2>3 DEF Optimize
  <1>4. CASE Begin \/ Cutover \/ Report \/ Fail
    BY <1>1, <1>4 DEF Begin, Cutover, Report, Fail, Exit
  <1>5. CASE EvaluateExits \/ TakeBook \/ PlanEntries \/ PlanExits \/ Finalize \/ LateFill \/ Trade
    <2>1. log' = log /\ stage # "cutover"
      BY <1>5 DEF EvaluateExits, TakeBook, PlanEntries, PlanExits, Finalize, LateFill, Trade
    <2> QED BY <1>1, <1>2, <2>1
  <1> QED BY <1>3, <1>4, <1>5 DEF Next

-----------------------------------------------------------------------------
(* What leaves, and what is bought.                                        *)

LEMMA LeavesStay ==
  ASSUME PlanKept, Next
  PROVE  Leaves'
  <1>1. Shaped /\ Selling /\ Leaves
    BY DEF PlanKept
  <1>2. facts' = facts /\ OwnsExits' = OwnsExits
    BY SameMorning DEF OwnsExits
  <1>3. ASSUME stage' \in {"idle", "read", "saved"}
        PROVE  Leaves'
    BY <1>3 DEF Leaves
  <1>4. ASSUME view' = view, NEW t \in Names, Doomed(t)'
        PROVE  Doomed(t)
    BY <1>2, <1>4 DEF Doomed
  <1>5. ASSUME view' = view, signals \subseteq signals', book.urgent \subseteq book'.urgent,
               \/ stage' \in {"exits", "book", "entries"} /\ stage \in {"exits", "book", "entries"}
               \/ stage' \in {"optimize", "cutover", "planned"} /\ stage \in {"optimize", "cutover", "planned"}
        PROVE  Leaves'
    <2>1. ASSUME NEW t \in Names, Doomed(t)'
          PROVE  /\ stage' \in {"exits", "book", "entries"} =>
                      facts'[t].research = "EXIT" \/ Signal(t, "EXIT") \in signals'
                 /\ stage' \in {"optimize", "cutover", "planned"} =>
                      UrgentRecord(t, "EXIT", view'[t]) \in book'.urgent
      <3>1. Doomed(t)
        BY <1>4, <1>5, <2>1
      <3>2. /\ stage \in {"exits", "book", "entries"} =>
                 facts[t].research = "EXIT" \/ Signal(t, "EXIT") \in signals
            /\ stage \in {"optimize", "cutover", "planned"} =>
                 UrgentRecord(t, "EXIT", view[t]) \in book.urgent
        BY <1>1, <3>1 DEF Leaves
      <3> QED BY <1>2, <1>5, <3>2
    <2> QED BY <2>1 DEF Leaves
  <1>6. CASE Begin \/ Finalize \/ Report \/ Fail
    BY <1>3, <1>6 DEF Begin, Finalize, Report, Fail, Exit
  <1>7. CASE EvaluateExits
    <2> DEFINE strategy == IF OwnsExits THEN {} ELSE StrategyExits(facts, HeldIn(view))
    <2>1. signals' = strategy \cup LossFloorExits(facts, view, strategy)
      BY Zenon, <1>7 DEF EvaluateExits
    <2>2. \A s \in strategy : s \in [ticker : Names, kind : {"EXIT", "REDUCE"}]
      BY StrategyExitsAre DEF HeldIn
    <2>3. DOMAIN view = Names
      BY <1>1 DEF Shaped
    <2>4. view' = view /\ stage' = "exits"
      BY Zenon, <1>7 DEF EvaluateExits
    <2> HIDE DEF strategy
    <2>5. \A t \in Names : view[t] > 0 /\ LossFloor(facts[t]) =>
            t \in Leaving(facts, strategy) \/ Signal(t, "EXIT") \in LossFloorExits(facts, view, strategy)
      BY <2>3, LossFloorExitsAre
    <2>6. ASSUME NEW t \in Names, Doomed(t)
          PROVE  facts[t].research = "EXIT" \/ Signal(t, "EXIT") \in signals'
      <3>1. view[t] > 0 /\ LossFloor(facts[t])
        BY <2>6 DEF Doomed
      <3>2. CASE t \in Leaving(facts, strategy)
        <4>1. facts[t].research = "EXIT" \/ Signal(t, "EXIT") \in strategy
          BY <2>2, <3>2, LeavingIs
        <4> QED BY <2>1, <4>1
      <3>3. CASE Signal(t, "EXIT") \in LossFloorExits(facts, view, strategy)
        BY <2>1, <3>3
      <3> QED BY <2>5, <3>1, <3>2, <3>3
    <2>7. \A t \in Names : Doomed(t)' => facts'[t].research = "EXIT" \/ Signal(t, "EXIT") \in signals'
      BY <1>2, <1>4, <2>4, <2>6
    <2> QED BY <2>4, <2>7 DEF Leaves
  <1>8. CASE TakeBook
    <2>1. stage = "exits" /\ stage' = "book" /\ view' = view /\ signals \subseteq signals'
      BY <1>8 DEF TakeBook
    <2>2. \A t \in Names : Doomed(t) => facts[t].research = "EXIT" \/ Signal(t, "EXIT") \in signals
      BY <1>1, <2>1 DEF Leaves
    <2>3. \A t \in Names : Doomed(t)' => facts'[t].research = "EXIT" \/ Signal(t, "EXIT") \in signals'
      BY <1>2, <1>4, <2>1, <2>2
    <2> QED BY <2>1, <2>3 DEF Leaves
  <1>9. CASE PlanEntries
    <2>1. stage = "book" /\ stage' = "entries" /\ view' = view /\ signals' = signals
      BY <1>9 DEF PlanEntries
    <2>2. book'.urgent = book.urgent
      <3>1. IsBook(book)
        BY <1>1 DEF Shaped
      <3> QED BY <1>9, <3>1 DEF PlanEntries, IsBook, EmptyBook
    <2> QED BY <1>5, <2>1, <2>2
  <1>10. CASE PlanExits
    <2> DEFINE sales == PlannedSales(Research, signals, view)
    <2>1. book' = AddUrgent(book, sales)
      BY Zenon, <1>10 DEF PlanExits, Research
    <2>2. stage = "entries" /\ view' = view /\ stage' \in {"optimize", "planned"}
      BY <1>10 DEF PlanExits
    <2>3. book.urgent = {}
      BY <1>1, <2>2 DEF Selling, Begun
    <2>4. book'.urgent = book.urgent
            \cup {u \in sales : ~\E v \in book.urgent : v.ticker = u.ticker /\ v.kind = u.kind}
      BY <1>1, <2>1, AddUrgentIs DEF Shaped
    <2> HIDE DEF sales
    <2>5. sales \subseteq book'.urgent
      BY <2>3, <2>4
    <2>6. ASSUME NEW t \in Names, Doomed(t)
          PROVE  UrgentRecord(t, "EXIT", view[t]) \in book'.urgent
      <3>1. facts[t].research = "EXIT" \/ Signal(t, "EXIT") \in signals
        BY <1>1, <2>2, <2>6 DEF Leaves
      <3>4. t \in ExitTickers(Research, signals)
        <4>1. Signal(t, "EXIT") \in signals => t \in ExitTickers(Research, signals)
          BY DEF ExitTickers, Signal
        <4>2. facts[t].research = "EXIT" => t \in ExitTickers(Research, signals)
          <5>1. facts[t].research = "EXIT" => ~OwnsExits /\ DOMAIN facts = Names
            BY <1>1, <2>6 DEF Doomed, Shaped
          <5> QED BY <5>1 DEF ExitTickers, Research, ResearchSells
        <4> QED BY <3>1, <4>1, <4>2
      <3>5. view[t] # 0
        <4>1. view[t] \in Int /\ view[t] > 0
          BY <1>1, <2>6 DEF Doomed, Shaped
        <4> QED BY <4>1
      <3>6. UrgentRecord(t, "EXIT", view[t]) \in sales
        BY <1>1, <3>4, <3>5, SalesAre DEF sales
      <3> QED BY <2>5, <3>6
    <2>7. \A t \in Names : Doomed(t)' => UrgentRecord(t, "EXIT", view'[t]) \in book'.urgent
      BY <1>4, <2>2, <2>6
    <2> QED BY <2>2, <2>7 DEF Leaves
  <1>11. CASE Optimize
    BY <1>5, <1>11 DEF Optimize
  <1>12. CASE Cutover
    <2>1. stage = "cutover" /\ stage' = "planned" /\ view' = view /\ signals' = signals
      BY Zenon, <1>12 DEF Cutover
    <2>2. book.urgent \subseteq book'.urgent
      <3>1. CASE book' = book
        BY <3>1
      <3>2. CASE book' = [AddUrgent(book, OptimizerSales) EXCEPT !.entries = OptimizerEntries]
        BY <1>1, <3>2, CutoverBook
      <3> QED BY <1>12, <3>1, <3>2 DEF Cutover
    <2> QED BY <1>5, <2>1, <2>2
  <1>13. CASE LateFill
    BY <1>5, <1>13 DEF LateFill
  <1>14. CASE Trade
    <2>1. stage' = stage /\ stage = "idle"
      BY Zenon, <1>14 DEF Trade
    <2> QED BY <1>3, <2>1
  <1> QED BY <1>6, <1>7, <1>8, <1>9, <1>10, <1>11, <1>12, <1>13, <1>14 DEF Next

\* The decision is of the morning, and of the view.
LEMMA PlannedSame ==
  ASSUME UNCHANGED <<facts, setting, view>>
  PROVE  Planned' = Planned
  BY DEF Planned, Decision, KnownBook, HeldIn, Value, Quarters, Regime

\* What the weights may ask for of a name that is sold whole is no purchase.
LEMMA SoldIsNotWished ==
  ASSUME PlanKept, OwnsExits, log.usable, NEW t \in Names \ {Spy}, NEW u \in book.urgent,
         u.ticker = t, u.kind = "EXIT"
  PROVE  log.wish[t] # "buy"
  <1>1. log.wish[t] \in Wishes(t)
    BY DEF PlanKept, Wished
  <1>2. Pinned(t)
    BY DEF Pinned, HardExits
  <1>3. view[t] > 0 /\ view[t] \in Int
    BY DEF PlanKept, Selling, Shaped
  <1>4. ~(view[t] < 0)
    BY <1>3
  <1> QED BY <1>1, <1>2, <1>3, <1>4 DEF Wishes
LEMMA BoughtStays ==
  ASSUME PlanKept, Next
  PROVE  Bought'
  <1>1. Shaped /\ Selling /\ Bought
    BY DEF PlanKept
  <1>2. facts' = facts /\ setting' = setting /\ OwnsExits' = OwnsExits
    BY SameMorning DEF OwnsExits
  <1>3. ASSUME stage' \in Begun \ {"entries"}, book'.entries = {}
        PROVE  Bought'
    BY <1>3 DEF Bought, Begun
  <1>4. ASSUME UNCHANGED <<view, book>>,
               stage' \in {"optimize", "cutover"} => stage \in {"optimize", "cutover"},
               stage' \in {"entries", "planned", "saved"} => OwnsExits \/ stage \in {"entries", "planned", "saved"}
        PROVE  Bought'
    <2>1. Planned' = Planned
      BY <1>2, <1>4, PlannedSame
    <2> QED BY <1>1, <1>2, <1>4, <2>1 DEF Bought
  <1>5. CASE Begin \/ Report \/ Fail
    <2>1. stage' \in {"idle", "read"} /\ book' = EmptyBook
      BY <1>5 DEF Begin, Report, Fail, Exit
    <2> QED BY <1>3, <2>1 DEF Begun, EmptyBook
  <1>6. CASE EvaluateExits
    <2>1. stage = "read" /\ stage' = "exits" /\ book' = book
      BY Zenon, <1>6 DEF EvaluateExits
    <2>2. book.entries = {}
      BY <1>1, <2>1 DEF Selling, Begun
    <2> QED BY <1>3, <2>1, <2>2 DEF Begun
  <1>7. CASE TakeBook
    <2>1. stage' = "book" /\ book' = ResetPending(Loaded)
      BY Zenon, <1>7 DEF TakeBook
    <2>2. book'.entries = {}
      BY <1>1, <2>1, ResetIsBook DEF Shaped
    <2> QED BY <1>3, <2>1, <2>2 DEF Begun
  <1>8. CASE PlanEntries
    <2>1. stage = "book" /\ stage' = "entries" /\ view' = view
      BY Zenon, <1>8 DEF PlanEntries
    <2>2. book.entries = {}
      BY <1>1, <2>1 DEF Selling, Begun
    <2>3. CASE OwnsExits
      <3>1. book' = book
        BY <1>8, <2>3 DEF PlanEntries
      <3> QED BY <1>2, <2>1, <2>2, <2>3, <3>1 DEF Bought
    <2>4. CASE ~OwnsExits
      <3>1. book' = [book EXCEPT !.entries = @ \cup Planned]
        BY <1>8, <2>4 DEF PlanEntries, Planned
      <3>2. book'.entries = book.entries \cup Planned
        BY <1>1, <3>1 DEF Shaped, IsBook, EmptyBook
      <3>3. Planned' = Planned
        BY <1>2, <2>1, PlannedSame
      <3> QED BY <1>2, <2>1, <2>2, <2>4, <3>2, <3>3 DEF Bought
    <2> QED BY <2>3, <2>4
  <1>9. CASE PlanExits
    <2>1. book' = AddUrgent(book, PlannedSales(Research, signals, view))
      BY Zenon, <1>9 DEF PlanExits, Research
    <2>2. book'.entries = book.entries
      BY <1>1, <2>1, AddUrgentIs DEF Shaped
    <2>3. stage = "entries" /\ view' = view /\ stage' = IF OwnsExits THEN "optimize" ELSE "planned"
      BY Zenon, <1>9 DEF PlanExits
    <2>4. CASE OwnsExits
      <3>1. book.entries = {}
        BY <1>1, <2>3, <2>4 DEF Selling
      <3> QED BY <1>2, <2>2, <2>3, <2>4, <3>1 DEF Bought
    <2>5. CASE ~OwnsExits
      <3>1. Planned' = Planned
        BY <1>2, <2>3, PlannedSame
      <3> QED BY <1>1, <1>2, <2>2, <2>3, <2>5, <3>1 DEF Bought
    <2> QED BY <2>4, <2>5
  <1>10. CASE Optimize
    BY <1>4, <1>10 DEF Optimize
  <1>11. CASE Cutover
    <2>1. stage = "cutover" /\ stage' = "planned" /\ view' = view
      BY Zenon, <1>11 DEF Cutover
    <2>2. OwnsExits
      BY <1>1, <2>1 DEF Bought
    <2>3. CASE book' = book
      BY <1>4, <2>1, <2>2, <2>3
    <2>4. CASE log.usable /\ book' = [AddUrgent(book, OptimizerSales) EXCEPT !.entries = OptimizerEntries]
      <3>1. /\ book'.entries = OptimizerEntries
            /\ \A u \in book'.urgent : u \in book.urgent \/ u \in OptimizerSales
        BY <1>1, <2>4, CutoverBook
      <3>2. ASSUME NEW t \in Names \ {Spy}, NEW u \in book'.urgent, NEW e \in book'.entries,
                   u.ticker = t, u.kind = "EXIT", e.ticker = t
            PROVE  FALSE
        <4>1. log.wish[t] = "buy"
          BY <1>1, <3>1, <3>2, OptimizerEntriesAre
        <4>2. u \notin OptimizerSales
          BY <1>1, <3>2, <4>1, OptimizerSalesAre
        <4>3. u \in book.urgent
          BY <3>1, <4>2
        <4> QED BY <2>2, <2>4, <3>2, <4>1, <4>3, SoldIsNotWished
      <3> QED BY <1>2, <2>1, <2>2, <3>2 DEF Bought
    <2> QED BY <1>11, <2>3, <2>4 DEF Cutover
  <1>12. CASE Finalize
    BY <1>4, <1>12 DEF Finalize
  <1>13. CASE LateFill
    BY <1>4, <1>13 DEF LateFill
  <1>14. CASE Trade
    <2>1. UNCHANGED <<stage, view, book>>
      BY Zenon, <1>14 DEF Trade
    <2> QED BY <1>4, <2>1
  <1> QED BY <1>5, <1>6, <1>7, <1>8, <1>9, <1>10, <1>11, <1>12, <1>13, <1>14 DEF Next

\* The planner keeps its promises at every stage of a run.
LEMMA PlanHolds == Spec => []PlanKept
  <1>1. ASSUME Init PROVE PlanKept
    <2>1. Shaped
      BY <1>1, ShapedStarts
    <2>2. stage = "idle" /\ signals = {} /\ book = EmptyBook /\ log = NoLog
      BY <1>1 DEF Init
    <2> QED BY <2>1, <2>2 DEF PlanKept, Selling, Wished, Leaves, Bought, EmptyBook, NoLog, Begun
  <1>2. ASSUME PlanKept, UNCHANGED vars PROVE PlanKept'
    <2>1. Shaped'
      BY <1>2, ShapedSame DEF PlanKept
    <2>2. Selling' /\ Leaves'
      BY <1>2 DEF PlanKept, Selling, Leaves, Doomed, OwnsExits, vars
    <2>3. Wished'
      BY <1>2 DEF PlanKept, Wished, Wishes, Pinned, HardExits, Enterable, vars
    <2>4. Planned' = Planned
      BY <1>2, PlannedSame DEF vars
    <2>5. Bought'
      BY <1>2, <2>4 DEF PlanKept, Bought, OwnsExits, vars
    <2> QED BY <2>1, <2>2, <2>3, <2>5 DEF PlanKept
  <1>3. ASSUME PlanKept, Next PROVE PlanKept'
    BY <1>3, ShapedStays, SellingStays, WishedStays, LeavesStay, BoughtStays DEF PlanKept
  <1>4. PlanKept /\ [Next]_vars => PlanKept'
    BY <1>2, <1>3
  <1> QED BY <1>1, <1>4, PTL DEF Spec

-----------------------------------------------------------------------------
(* The theorems.                                                           *)

\* Every variable of the planner keeps its type, whatever the book on file
\* was, whatever failed and whatever filled.
THEOREM PlanTypes == Spec => []TypeOK
  <1>1. ASSUME PlanKept PROVE TypeOK
    <2>1. IsBook(disk)
      BY <1>1 DEF PlanKept, Shaped
    <2>2. \A r \in disk.urgent : /\ r.ticker \in Names /\ r.shares \in Int \ {0}
                                 /\ r.kind = "COVER" => r.shares > 0
      BY <2>1 DEF IsBook, UrgentRecords
    <2>3. \A r \in disk.stops : r.ticker \in Names /\ r.shares > 0
      BY <2>1 DEF IsBook, StopRecords
    <2>4. \A r \in disk.entries : r.ticker \in Names
      BY <2>1 DEF IsBook, EntryRecords
    <2>5. \A r \in Pending(disk) : r.ticker \in Names
      BY <2>2, <2>3, <2>4 DEF Pending
    <2> QED BY <1>1, <2>1, <2>2, <2>3, <2>5 DEF TypeOK, PlanKept, Shaped, IsBook, PlanStages
  <1> QED BY <1>1, PlanHolds, PTL

LEMMA SavedIs ==
  ASSUME PlanKept, Next, Saves
  PROVE  disk' = Armed(position) /\ UNCHANGED <<position, view, book>>
  <1>1. Finalize
    BY DEF Next, Saves, Begin, EvaluateExits, TakeBook, PlanEntries, PlanExits, Optimize, Cutover,
           Finalize, Report, Fail, Exit, LateFill, Trade
  <1> QED BY <1>1 DEF Finalize

\* In the book that is saved a name nothing sells has a stop of as many shares as
\* are held, a name only exited is sold for all it was read to have, none has both,
\* and every short is bought back.  What a REDUCE leaves has no stop.
THEOREM SavedWatches == Spec => [][PositionsWatchedStep]_vars
  <1>1. ASSUME PlanKept, Next, Saves, NEW t \in Names
        PROVE  /\ position[t] > 0 /\ facts[t].atrKnown /\ facts[t].paid > 0
                    /\ "REDUCE" \notin UrgentKinds(disk', t) =>
                    \/ \E s \in disk'.stops : s.ticker = t /\ s.shares = position[t]
                    \/ \E u \in disk'.urgent :
                         u.ticker = t /\ u.kind = "EXIT" /\ u.shares = view[t]
               /\ UrgentKinds(disk', t) # {} => ~\E s \in disk'.stops : s.ticker = t
               /\ position[t] < 0 => \E u \in disk'.urgent :
                                       /\ u.ticker = t /\ u.kind = "COVER"
                                       /\ u.shares = -position[t]
    <2>1. /\ Shaped /\ \A u \in book.urgent : u.kind # "COVER"
          /\ \A u \in book.urgent : u.kind = "EXIT" => u.shares = view[u.ticker]
          /\ \A u \in book.urgent : u.kind \in {"EXIT", "REDUCE", "COVER"}
      <3>1. IsBook(book) /\ Shaped /\ Selling
        BY <1>1 DEF PlanKept, Shaped
      <3>2. ASSUME NEW u \in book.urgent PROVE u.kind \in {"EXIT", "REDUCE", "COVER"}
        <4>1. u \in UrgentRecords
          BY <3>1 DEF IsBook
        <4> QED BY <4>1 DEF UrgentRecords
      <3>3. \A u \in book.urgent : u.kind # "COVER" /\ (u.kind = "EXIT" => u.shares = view[u.ticker])
        BY <3>1 DEF Selling
      <3> QED BY <3>1, <3>2, <3>3
    <2>2. /\ disk'.stops = {[ticker |-> n, shares |-> position[n],
                             kind |-> IF setting.optimizer THEN "gap" ELSE "alpha"] : n \in Watched(position)}
          /\ disk'.urgent = book.urgent \cup
               {u \in {UrgentRecord(n, "COVER", -position[n]) : n \in {m \in Names : position[m] < 0}} :
                  ~\E v \in book.urgent : v.ticker = u.ticker /\ v.kind = u.kind}
      BY <1>1, <2>1, SavedIs, ArmedIs
    <2>3. ASSUME position[t] > 0, facts[t].atrKnown, facts[t].paid > 0,
                 "REDUCE" \notin UrgentKinds(disk', t)
          PROVE  \/ \E s \in disk'.stops : s.ticker = t /\ s.shares = position[t]
                 \/ \E u \in disk'.urgent : u.ticker = t /\ u.kind = "EXIT" /\ u.shares = view[t]
      <3>1. ASSUME NEW u \in book.urgent, u.ticker = t
            PROVE  u \in disk'.urgent /\ u.kind = "EXIT" /\ u.shares = view[t]
        <4>1. u \in disk'.urgent
          BY <2>2, <3>1
        <4>2. u.kind # "REDUCE"
          BY <2>3, <3>1, <4>1 DEF UrgentKinds
        <4>3. u.kind = "EXIT"
          BY <2>1, <3>1, <4>2
        <4> QED BY <2>1, <3>1, <4>1, <4>3
      <3>2. CASE \E u \in book.urgent : u.ticker = t
        BY <3>1, <3>2
      <3>3. CASE ~\E u \in book.urgent : u.ticker = t
        <4>1. t \in Watched(position)
          BY <2>3, <3>3 DEF Watched
        <4>2. [ticker |-> t, shares |-> position[t], kind |-> IF setting.optimizer THEN "gap" ELSE "alpha"]
                \in disk'.stops
          BY <2>2, <4>1
        <4> QED BY <4>2
      <3> QED BY <3>2, <3>3
    <2>5. ASSUME NEW s \in disk'.stops, s.ticker = t
          PROVE  UrgentKinds(disk', t) = {}
      <3>1. t \in Watched(position)
        BY <2>2, <2>5
      <3>2. position[t] > 0 /\ ~\E u \in book.urgent : u.ticker = t
        BY <3>1 DEF Watched
      <3>3. ASSUME NEW u \in disk'.urgent, u.ticker = t PROVE FALSE
        <4>1. PICK n \in Names : position[n] < 0 /\ u = UrgentRecord(n, "COVER", -position[n])
          BY <2>2, <3>2, <3>3
        <4>2. n = t
          BY <3>3, <4>1 DEF UrgentRecord
        <4>3. position[t] \in Int
          BY <2>1 DEF Shaped
        <4> QED BY <3>2, <4>1, <4>2, <4>3
      <3> QED BY <3>3 DEF UrgentKinds
    <2>4. ASSUME position[t] < 0
          PROVE  \E u \in disk'.urgent : u.ticker = t /\ u.kind = "COVER" /\ u.shares = -position[t]
      <3> DEFINE c == UrgentRecord(t, "COVER", -position[t])
      <3>1. c.ticker = t /\ c.kind = "COVER" /\ c.shares = -position[t]
        BY DEF UrgentRecord
      <3>2. c \in {UrgentRecord(n, "COVER", -position[n]) : n \in {m \in Names : position[m] < 0}}
        BY <2>4
      <3> HIDE DEF c
      <3>3. c \in disk'.urgent
        BY <2>1, <2>2, <3>1, <3>2
      <3> QED BY <3>1, <3>3
    <2> QED BY <2>3, <2>4, <2>5
  <1>2. PlanKept /\ [Next]_vars => [PositionsWatchedStep]_vars
    BY <1>1 DEF PositionsWatchedStep
  <1> QED BY <1>2, PlanHolds, PTL DEF Spec

\* A name below the loss floor is sold whole, with the optimizer on or off, its
\* log usable or not, the book held or not, priced or not; with the optimizer on a
\* name research says EXIT of is the exception.
THEOREM SavedSells == Spec => [][HardRiskSoldStep]_vars
  <1>1. ASSUME PlanKept, Next, Saves, NEW t \in Names, Doomed(t)
        PROVE  \E u \in disk'.urgent : u.ticker = t /\ u.kind = "EXIT" /\ u.shares = view[t]
    <2> DEFINE x == UrgentRecord(t, "EXIT", view[t])
    <2>1. x \in book.urgent
      BY <1>1 DEF PlanKept, Leaves, Saves
    <2>2. x.ticker = t /\ x.kind = "EXIT" /\ x.shares = view[t]
      BY DEF UrgentRecord
    <2>3. book.urgent \subseteq disk'.urgent
      BY <1>1, SavedIs, ArmedIs DEF PlanKept
    <2> HIDE DEF x
    <2> QED BY <2>1, <2>2, <2>3
  <1>2. PlanKept /\ [Next]_vars => [HardRiskSoldStep]_vars
    BY <1>1 DEF HardRiskSoldStep, Doomed
  <1> QED BY <1>2, PlanHolds, PTL DEF Spec

\* No book sells a name whole and buys it, but for the benchmark fund.
THEOREM SavedIsOneSided == Spec => [][NotSoldAndBoughtStep]_vars
  <1>1. ASSUME PlanKept, Next, Saves, NEW t \in Names \ {Spy},
               NEW u \in disk'.urgent, u.ticker = t, u.kind = "EXIT",
               NEW e \in disk'.entries, e.ticker = t
        PROVE  FALSE
    <2>1. Shaped
      BY <1>1 DEF PlanKept
    <2>2. e \in book.entries /\ u \in book.urgent
      <3>1. disk'.entries = book.entries
        BY <1>1, <2>1, SavedIs, ArmedIs
      <3>2. \A n : UrgentRecord(n, "COVER", -position[n]).kind = "COVER"
        BY DEF UrgentRecord
      <3>3. u \in book.urgent \cup {UrgentRecord(n, "COVER", -position[n]) : n \in {m \in Names : position[m] < 0}}
        BY <1>1, <2>1, SavedIs, ArmedIs
      <3> QED BY <1>1, <3>1, <3>2, <3>3
    <2>3. CASE OwnsExits
      BY <1>1, <2>2, <2>3 DEF PlanKept, Bought
    <2>4. CASE ~OwnsExits
      <3>1. book.entries = Planned
        BY <1>1, <2>4 DEF PlanKept, Bought, Saves
      <3>2. view[t] = 0
        BY <1>1, <2>1, <2>2, <3>1, PlannedAre
      <3>3. view[t] # 0
        BY <1>1, <2>2 DEF PlanKept, Selling
      <3> QED BY <3>2, <3>3
    <2> QED BY <2>3, <2>4
  <1>2. PlanKept /\ [Next]_vars => [NotSoldAndBoughtStep]_vars
    BY <1>1 DEF NotSoldAndBoughtStep
  <1> QED BY <1>2, PlanHolds, PTL DEF Spec

\* The entries of a plan made by the rules stay, all together and with what is
\* held, within the caps of their sectors and of the equity.
THEOREM SavedWithinCaps == Spec => [][BatchWithinCapsStep]_vars
  <1>1. ASSUME PlanKept, Next, Saves, ~OwnsExits, disk'.entries # {}
        PROVE  /\ \A e \in disk'.entries :
                    Exposure(KnownBook, facts[e.ticker].sector)
                      + Cost(disk'.entries, {t \in Names : facts[t].sector = facts[e.ticker].sector}) <= MaxSector
               /\ Equity(KnownBook) + Cost(disk'.entries, Names) <= MaxEquity
    <2>1. Shaped
      BY <1>1 DEF PlanKept
    <2>2. disk'.entries = Planned
      <3>1. disk'.entries = book.entries
        BY <1>1, <2>1, SavedIs, ArmedIs
      <3>2. book.entries = Planned
        BY <1>1 DEF PlanKept, Bought, Saves
      <3> QED BY <3>1, <3>2
    <2>3. Planned # {}
      BY <1>1, <2>2
    <2> QED BY <2>1, <2>2, <2>3, PlanWithinCaps
  <1>2. ASSUME PlanKept, Next PROVE BatchWithinCapsStep
    BY <1>1, <1>2 DEF BatchWithinCapsStep, Cost
  <1>3. PlanKept /\ [Next]_vars => [BatchWithinCapsStep]_vars
    BY <1>2
  <1> QED BY <1>3, PlanHolds, PTL DEF Spec
==============================================================================
