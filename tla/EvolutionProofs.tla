--------------------------- MODULE EvolutionProofs ---------------------------
(***************************************************************************)
(* What holds of every run of the evolution, for every suite, gene space,  *)
(* population size, number of crashes and of generations.                  *)
(*                                                                         *)
(* ResumeInv ties the state in memory to the one on disk from a process's  *)
(* start to its end.  GenerationInv types what a generation works on: the  *)
(* genome files (one per id), the population, the survivors, the results   *)
(* of everything evaluated, the scores.  LedgerInv says of every record,   *)
(* also of those being rewritten, that the child it names is one of the    *)
(* genome it is about.  ChampionInv bounds them by the champion, and       *)
(* PopulationInv follows the population and its files through the breeding *)
(* and the saving.  The lemmas before them are about what those rest on:   *)
(* lists in an order, sums of probe results, ids, survivors, files.        *)
(***************************************************************************)
EXTENDS Evolution, FiniteSetTheorems, TLAPS

-----------------------------------------------------------------------------
(* Lists in an order                                                       *)

\* A strict total order on S, given as its pairs.
Orders(before, S) ==
  /\ \A x \in S : <<x, x>> \notin before
  /\ \A x, y, z \in S : <<x, y>> \in before /\ <<y, z>> \in before => <<x, z>> \in before
  /\ \A x, y \in S : x = y \/ <<x, y>> \in before \/ <<y, x>> \in before

\* How many come before each member of an ordered set: 0, 1, 2 ... and so on.
LEMMA RanksAreTaken ==
  ASSUME NEW S, IsFiniteSet(S), NEW before, Orders(before, S)
  PROVE  \A k \in 1..Cardinality(S) :
           \E x \in S : Cardinality({y \in S : <<y, x>> \in before}) = k - 1
<1>. DEFINE Ahead(x) == {y \in S : <<y, x>> \in before}
            n == Cardinality(S)
            rank == [x \in S |-> Cardinality(Ahead(x)) + 1]
<1>1. n \in Nat
  BY FS_CardinalityType
<1>2. ASSUME NEW x \in S
      PROVE  /\ IsFiniteSet(Ahead(x)) /\ Cardinality(Ahead(x)) \in Nat
             /\ Cardinality(Ahead(x)) < n
  <2>1. Ahead(x) \in SUBSET S /\ x \notin Ahead(x)
    BY DEF Orders
  <2>. HIDE DEF Ahead
  <2>2. IsFiniteSet(Ahead(x)) /\ Cardinality(Ahead(x)) <= n /\ Cardinality(Ahead(x)) # n
    BY <2>1, FS_Subset
  <2>3. Cardinality(Ahead(x)) \in Nat
    BY <2>2, FS_CardinalityType
  <2>. QED BY <1>1, <2>2, <2>3
<1>3. ASSUME NEW x \in S, NEW y \in S, <<x, y>> \in before
      PROVE  Cardinality(Ahead(x)) # Cardinality(Ahead(y))
  <2>1. Ahead(x) \in SUBSET Ahead(y) /\ x \in Ahead(y) /\ x \notin Ahead(x)
    BY <1>3 DEF Orders
  <2>2. IsFiniteSet(Ahead(y))
    BY <1>2
  <2>. HIDE DEF Ahead
  <2>. QED BY <2>1, <2>2, FS_Subset
<1>4. rank \in Injection(S, 1..n)
  <2>1. rank \in [S -> 1..n]
    <3>. SUFFICES ASSUME NEW x \in S PROVE Cardinality(Ahead(x)) + 1 \in 1..n
      OBVIOUS
    <3>. HIDE DEF Ahead, n
    <3>. QED BY <1>1, <1>2
  <2>2. ASSUME NEW x \in S, NEW y \in S, rank[x] = rank[y] PROVE x = y
    <3>1. Cardinality(Ahead(x)) = Cardinality(Ahead(y))
      <4>. HIDE DEF Ahead
      <4>. QED BY <1>2, <2>2
    <3>. HIDE DEF Ahead, rank
    <3>. QED BY <1>3, <3>1 DEF Orders
  <2>. HIDE DEF rank
  <2>. QED BY <2>1, <2>2 DEF Injection, IsInjective
<1>5. rank \in Surjection(S, 1..n)
  <2>. HIDE DEF rank
  <2>1. IsFiniteSet(1..n) /\ Cardinality(1..n) = n
    BY <1>1, FS_Interval
  <2>. QED BY <1>4, <2>1, FS_Injection
<1>6. ASSUME NEW k \in 1..n PROVE \E x \in S : Cardinality(Ahead(x)) = k - 1
  <2>1. PICK x \in S : rank[x] = k
    <3>. HIDE DEF rank
    <3>. QED BY <1>5 DEF Surjection
  <2>. HIDE DEF Ahead
  <2>. QED BY <1>2, <2>1
<1>. QED BY <1>6

LEMMA InOrderFacts ==
  ASSUME NEW S, IsFiniteSet(S), NEW before, Orders(before, S)
  PROVE  /\ InOrder(S, before) \in Seq(S) /\ Len(InOrder(S, before)) = Cardinality(S)
         /\ \A i, j \in DOMAIN InOrder(S, before) :
              InOrder(S, before)[i] = InOrder(S, before)[j] => i = j
         /\ S # {} => /\ InOrder(S, before) # <<>>
                      /\ \A y \in S : <<y, InOrder(S, before)[1]>> \notin before
<1>. DEFINE Ahead(x) == {y \in S : <<y, x>> \in before}
            n == Cardinality(S)
            list == InOrder(S, before)
<1>1. n \in Nat /\ (S # {} => n # 0)
  BY FS_CardinalityType, FS_EmptySet
<1>2. list = [k \in 1..n |-> CHOOSE x \in S : Cardinality(Ahead(x)) = k - 1]
  BY DEF InOrder
<1>3. \A k \in 1..n : \E x \in S : Cardinality(Ahead(x)) = k - 1
  BY RanksAreTaken
<1>4. \A k \in 1..n : list[k] \in S /\ Cardinality(Ahead(list[k])) = k - 1
  <2>. HIDE DEF list, Ahead, n
  <2>. QED BY <1>2, <1>3
<1>5. list \in Seq(S) /\ Len(list) = n /\ DOMAIN list = 1..n
  <2>1. list \in [1..n -> S]
    <3>. HIDE DEF list, Ahead, n
    <3>. QED BY <1>2, <1>4
  <2>. HIDE DEF list, n
  <2>. QED BY <1>1, <2>1
<1>6. ASSUME NEW i \in 1..n, NEW j \in 1..n, list[i] = list[j] PROVE i = j
  <2>1. i - 1 = j - 1
    <3>. HIDE DEF list, Ahead, n
    <3>. QED BY <1>4, <1>6
  <2>. HIDE DEF list, n
  <2>. QED BY <1>1, <2>1
<1>7. ASSUME S # {}, NEW y \in S PROVE <<y, list[1]>> \notin before
  <2>1. 1 \in 1..n
    BY <1>1, <1>7
  <2>2. Cardinality(Ahead(list[1])) = 0
    <3>. HIDE DEF list, Ahead, n
    <3>. QED BY <1>4, <2>1
  <2>3. Ahead(list[1]) \in SUBSET S
    OBVIOUS
  <2>4. IsFiniteSet(Ahead(list[1]))
    <3>. HIDE DEF list, Ahead, n
    <3>. QED BY <2>3, FS_Subset
  <2>5. Ahead(list[1]) = {}
    <3>. HIDE DEF list, Ahead, n
    <3>. QED BY <2>2, <2>4, FS_EmptySet
  <2>. HIDE DEF list
  <2>. QED BY <2>5
<1>8. S # {} => list # <<>>
  <2>. HIDE DEF list, n
  <2>. QED BY <1>1, <1>5
<1>. HIDE DEF list, n
<1>. QED BY <1>5, <1>6, <1>7, <1>8 DEF list, n

LEMMA LeastNumber ==
  ASSUME NEW S \in SUBSET Int, IsFiniteSet(S), S # {}
  PROVE  /\ Min(S) \in S /\ \A x \in S : Min(S) <= x
         /\ \E x \in S : \A y \in S : y <= x
<1>. DEFINE up == {d \in S \X S : d[1] < d[2]}
            down == {d \in S \X S : d[1] > d[2]}
<1>1. Orders(up, S) /\ Orders(down, S)
  BY DEF Orders
<1>2. /\ \A x, y \in S : <<y, x>> \notin up => x <= y
      /\ \A x, y \in S : <<y, x>> \notin down => y <= x
  OBVIOUS
<1>. HIDE DEF up, down
<1>3. \E x \in S : \A y \in S : x <= y
  <2>1. InOrder(S, up)[1] \in S
    BY <1>1, InOrderFacts
  <2>. QED BY <1>1, <1>2, <2>1, InOrderFacts
<1>4. \E x \in S : \A y \in S : y <= x
  <2>1. InOrder(S, down)[1] \in S
    BY <1>1, InOrderFacts
  <2>. QED BY <1>1, <1>2, <2>1, InOrderFacts
<1>. QED BY <1>3, <1>4 DEF Min

-----------------------------------------------------------------------------
(* Results: what a run of the suite is scored                              *)

Rates == [facts : Nat, tokens : Nat]
GateNames == {"transport_error", "schema_invalid", "cross_contamination", "confabulation"}
Components == [gates : SUBSET GateNames, A : Nat, R : Nat, D : Nat, L : Nat, rate : Rates]
Results == {r \in [c : Components, fitness : Nat] : r.c.gates # {} => r.fitness = 0}

LEMMA TotalType ==
  ASSUME NEW S, IsFiniteSet(S), NEW f \in [S -> Nat]
  PROVE  Total(f) \in Nat
<1>. DEFINE part == [x \in S |-> {x} \X (1..f[x])]
            parts == {{x} \X (1..f[x]) : x \in S}
<1>1. part \in Surjection(S, parts)
  <2>2. part \in [S -> parts]
    OBVIOUS
  <2>3. \A y \in parts : \E z \in S : part[z] = y
    OBVIOUS
  <2>. HIDE DEF part, parts
  <2>. QED BY <2>2, <2>3 DEF Surjection
<1>2. IsFiniteSet(parts)
  BY <1>1, FS_Surjection
<1>3. ASSUME NEW x \in S PROVE IsFiniteSet({x} \X (1..f[x]))
  <2>1. IsFiniteSet({x})
    BY FS_Singleton
  <2>2. f[x] \in Int /\ 1 \in Int
    OBVIOUS
  <2>3. IsFiniteSet(1..f[x])
    BY <2>2, FS_Interval
  <2>. QED BY <2>1, <2>3, FS_Product
<1>4. IsFiniteSet(UNION parts)
  BY <1>2, <1>3, FS_UNION
<1>5. Total(f) = Cardinality(UNION parts)
  BY DEF Total
<1>. HIDE DEF parts
<1>. QED BY <1>4, <1>5, FS_CardinalityType

LEMMA BandType ==
  ASSUME NEW num \in Int, NEW den \in Int
  PROVE  Band(num, den) \in Nat
<1>1. CASE num <= 0
  BY <1>1 DEF Band
<1>2. CASE num > 0 /\ num >= den
  BY <1>2 DEF Band, Bands
<1>3. CASE num > 0 /\ num < den
  <2>1. 20 * num \in Nat /\ den \in Nat \ {0}
    BY <1>3
  <2>2. (20 * num) \div den \in Nat
    BY <2>1
  <2>. QED BY <1>3, <2>2 DEF Band, Bands
<1>. QED BY <1>1, <1>2, <1>3

LEMMA DensityType ==
  ASSUME NEW rate \in Rates, NEW ref \in Rates
  PROVE  Density(rate, ref) \in Nat
<1>1. ref.facts \in Nat /\ ref.tokens \in Nat /\ rate.facts \in Nat /\ rate.tokens \in Nat
  BY DEF Rates
<1>2. rate.facts * ref.tokens \in Int /\ rate.tokens * ref.facts \in Int
  BY <1>1
<1>3. Band(rate.facts * ref.tokens, rate.tokens * ref.facts) \in Nat
  BY <1>2, BandType
<1>. QED BY <1>3 DEF Density

LEMMA FitnessType ==
  ASSUME NEW c \in Components
  PROVE  [c |-> c, fitness |-> Fitness(c)] \in Results
<1>1. c.A \in Nat /\ c.R \in Nat /\ c.D \in Nat /\ c.L \in Nat
  BY DEF Components
<1>2. Fitness(c) \in Nat /\ (c.gates # {} => Fitness(c) = 0)
  BY <1>1 DEF Fitness, TierA, TierR, TierD, TierL
<1>. QED BY <1>2 DEF Results

LEMMA AskedFacts ==
  ASSUME NEW probes, IsFiniteSet(probes), probes # {}, NEW run, IsRun(run, probes)
  PROVE  /\ AskedIn(run) = probes
         /\ DOMAIN run = 1..Len(run) /\ Len(run) \in Nat \ {0}
         /\ IsFiniteSet(DOMAIN run) /\ Cardinality(DOMAIN run) = Len(run)
         /\ IsFiniteSet(Asked(run)) /\ Asked(run) # {}
         /\ \A a \in Asked(run) : a[2] \in probes /\ run[a[1]][a[2]] \in Reply
<1>1. DOMAIN run = 1..Len(run) /\ Len(run) \in Nat \ {0}
  BY DEF IsRun
<1>2. \A k \in DOMAIN run : run[k] \in [probes -> Reply]
  BY DEF IsRun
<1>3. AskedIn(run) = probes
  BY <1>1, <1>2 DEF AskedIn
<1>4. IsFiniteSet(DOMAIN run) /\ Cardinality(DOMAIN run) = Len(run)
  BY <1>1, FS_Interval
<1>5. Asked(run) = (DOMAIN run) \X probes
  BY <1>3 DEF Asked
<1>6. IsFiniteSet(Asked(run))
  BY <1>4, <1>5, FS_Product
<1>7. Asked(run) # {}
  <2>1. PICK p \in probes : TRUE
    OBVIOUS
  <2>2. <<1, p>> \in Asked(run)
    BY <1>1, <1>5
  <2>. QED BY <2>2
<1>8. ASSUME NEW a \in Asked(run) PROVE a[2] \in probes /\ run[a[1]][a[2]] \in Reply
  <2>1. a[1] \in DOMAIN run /\ a[2] \in probes
    BY <1>5
  <2>. HIDE DEF Reply
  <2>. QED BY <1>2, <2>1
<1>. QED BY <1>1, <1>3, <1>4, <1>6, <1>7, <1>8

LEMMA ScoredType ==
  ASSUME NEW probes, IsFiniteSet(probes), probes # {}, NEW run, IsRun(run, probes),
         NEW ref \in Rates
  PROVE  Scored(run, ref) \in Results
<1>1. /\ AskedIn(run) = probes /\ Len(run) \in Nat
      /\ IsFiniteSet(DOMAIN run) /\ Cardinality(DOMAIN run) = Len(run)
      /\ IsFiniteSet(Asked(run)) /\ Asked(run) # {}
      /\ \A a \in Asked(run) : a[2] \in probes /\ run[a[1]][a[2]] \in Reply
  BY AskedFacts
<1>2. Cardinality(Asked(run)) \in Nat /\ Cardinality(AskedIn(run)) \in Nat
  BY <1>1, FS_CardinalityType
<1>3. RunGates(run) \in SUBSET GateNames
  <2>1. ASSUME NEW p, NEW r PROVE Gates(p, r) \subseteq GateNames
    BY DEF Gates, Forbidden, GateNames
  <2>. QED BY <2>1 DEF RunGates
<1>4. ASSUME NEW p \in probes
      PROVE  /\ Passes(run, p) \in Nat /\ Passes(run, p) <= Len(run)
             /\ 4 * Passes(run, p) * (Len(run) - Passes(run, p)) \in Nat
  <2>1. {k \in DOMAIN run : Passed(p, run[k][p])} \in SUBSET DOMAIN run
    OBVIOUS
  <2>2. Passes(run, p) \in Nat /\ Passes(run, p) <= Len(run)
    BY <1>1, <2>1, FS_Subset, FS_CardinalityType DEF Passes
  <2>3. Len(run) - Passes(run, p) \in Nat /\ 4 * Passes(run, p) \in Nat
    BY <1>1, <2>2
  <2>4. \A i, j \in Nat : i * j \in Nat
    OBVIOUS
  <2>. QED BY <2>2, <2>3, <2>4
<1>5. Accuracy(run) \in Nat
  <2>1. [p \in AskedIn(run) |-> Passes(run, p)] \in [probes -> Nat]
    BY <1>1, <1>4
  <2>2. Total([p \in AskedIn(run) |-> Passes(run, p)]) \in Nat
    BY <2>1, TotalType
  <2>. QED BY <1>2, <2>2, BandType DEF Accuracy
<1>6. Reliability(run) \in Nat
  <2>. DEFINE n == Cardinality(DOMAIN run)
              f == [p \in AskedIn(run) |-> 4 * Passes(run, p) * (n - Passes(run, p))]
              whole == n * n * Cardinality(AskedIn(run))
  <2>1. f \in [probes -> Nat]
    BY <1>1, <1>4
  <2>2. Total(f) \in Nat
    <3>. HIDE DEF f
    <3>. QED BY <2>1, TotalType
  <2>3. whole \in Int
    BY <1>1, <1>2
  <2>4. Reliability(run) = Band(whole - Total(f), whole)
    BY DEF Reliability
  <2>. HIDE DEF f, whole
  <2>. QED BY <2>2, <2>3, <2>4, BandType
<1>7. Rate(run) \in Rates
  <2>1. [a \in Asked(run) |-> Relevant(run[a[1]][a[2]])] \in [Asked(run) -> Nat]
    BY <1>1 DEF Relevant, Reply
  <2>2. [a \in Asked(run) |-> run[a[1]][a[2]].tokens] \in [Asked(run) -> Nat]
    BY <1>1 DEF Reply
  <2>3. FactsUsed(run) \in Nat /\ BriefingTokens(run) \in Nat
    BY <1>1, <2>1, <2>2, TotalType DEF FactsUsed, BriefingTokens
  <2>. QED BY <2>3 DEF Rate, Rates
<1>8. Density(Rate(run), ref) \in Nat
  BY <1>7, DensityType
<1>9. Latency(run) \in Nat
  <2>1. TwiceMedian(run) \in Int
    <3>. DEFINE ms(a) == Millis(run[a[1]][a[2]])
                Upto(v) == {a \in Asked(run) : ms(a) <= v}
                n == Cardinality(Asked(run))
                seen == {ms(a) : a \in Asked(run)}
                half == {v \in seen : 2 * Cardinality(Upto(v)) >= n}
                more == {v \in seen : 2 * Cardinality(Upto(v)) > n}
    <3>1. \A a \in Asked(run) : ms(a) \in Nat
      BY <1>1 DEF Millis, Reply
    <3>2. seen \in SUBSET Int /\ seen # {} /\ IsFiniteSet(seen)
      <4>1. [a \in Asked(run) |-> ms(a)] \in Surjection(Asked(run), seen)
        BY DEF Surjection
      <4>. QED BY <1>1, <3>1, <4>1, FS_Surjection
    <3>3. PICK v \in seen : \A w \in seen : w <= v
      <4>. HIDE DEF seen
      <4>. QED BY <3>2, LeastNumber
    <3>4. Upto(v) = Asked(run)
      BY <3>3
    <3>5. n \in Nat \ {0}
      BY <1>1, FS_CardinalityType, FS_EmptySet
    <3>6. v \in half /\ v \in more
      <4>. HIDE DEF seen, Upto
      <4>. QED BY <3>3, <3>4, <3>5
    <3>7. half \in SUBSET seen /\ more \in SUBSET seen
      OBVIOUS
    <3>8. TwiceMedian(run) = Min(half) + Min(more)
      BY DEF TwiceMedian
    <3>. HIDE DEF half, more, seen
    <3>9. IsFiniteSet(half) /\ IsFiniteSet(more) /\ half \in SUBSET Int /\ more \in SUBSET Int
      BY <3>2, <3>7, FS_Subset
    <3>10. Min(half) \in Int
      BY <3>6, <3>9, LeastNumber
    <3>11. Min(more) \in Int
      BY <3>6, <3>9, LeastNumber
    <3>. QED BY <3>8, <3>10, <3>11
  <2>2. /\ 2 * LatencyCeiling - TwiceMedian(run) \in Int
        /\ 2 * (LatencyCeiling - LatencyFloor) \in Int
    BY <2>1 DEF LatencyCeiling, LatencyFloor
  <2>. QED BY <2>2, BandType DEF Latency
<1>. DEFINE c == [gates |-> RunGates(run), A |-> Accuracy(run), R |-> Reliability(run),
                  D |-> Density(Rate(run), ref), L |-> Latency(run), rate |-> Rate(run)]
<1>10. c \in Components
  BY <1>3, <1>5, <1>6, <1>7, <1>8, <1>9 DEF Components
<1>11. Scored(run, ref) = [c |-> c, fitness |-> Fitness(c)]
  BY DEF Scored
<1>. HIDE DEF c
<1>. QED BY <1>10, <1>11, FitnessType

LEMMA RescoreType ==
  ASSUME NEW r \in Results, NEW ref \in Rates
  PROVE  Rescore(r, ref) \in Results
<1>1. CASE ref.facts = 0
  BY <1>1 DEF Rescore
<1>2. CASE ref.facts # 0
  <2>. DEFINE c == [r.c EXCEPT !.D = Density(r.c.rate, ref)]
  <2>1. r.c \in Components /\ r.c.rate \in Rates
    BY DEF Results, Components
  <2>2. Density(r.c.rate, ref) \in Nat
    BY <2>1, DensityType
  <2>3. c \in Components
    BY <2>1, <2>2 DEF Components
  <2>4. Rescore(r, ref) = [c |-> c, fitness |-> Fitness(c)]
    BY <1>2 DEF Rescore
  <2>. HIDE DEF c
  <2>. QED BY <2>3, <2>4, FitnessType
<1>. QED BY <1>1, <1>2

LEMMA MeasuredType ==
  ASSUME NEW genes \in GeneSpace
  PROVE  Measured[genes] \subseteq Results /\ HeldOut[genes] \subseteq Results
<1>1. NoRate \in Rates
  BY DEF NoRate, Rates
<1>2. IsFiniteSet(SmokeProbes) /\ Probes # {}
  BY GradingAssumption, FS_Subset
<1>3. ASSUME NEW run \in Runs[genes]
      PROVE  Scored(run, NoRate) \in Results /\ Scored(Smoke(run), NoRate) \in Results
  <2>1. IsRun(run, Probes)
    BY EvolutionAssumption
  <2>2. Scored(run, NoRate) \in Results
    BY <1>1, <1>2, <2>1, ScoredType, GradingAssumption
  <2>3. 1 \in DOMAIN run /\ run[1] \in [Probes -> Reply]
    BY <2>1 DEF IsRun
  <2>4. Smoke(run) = [k \in 1..1 |-> [p \in SmokeProbes |-> run[1][p]]]
    BY DEF Smoke
  <2>5. [p \in SmokeProbes |-> run[1][p]] \in [SmokeProbes -> Reply]
    BY <2>3, GradingAssumption
  <2>6. IsRun(Smoke(run), SmokeProbes)
    BY <2>4, <2>5 DEF IsRun
  <2>7. Scored(Smoke(run), NoRate) \in Results
    BY <1>1, <1>2, <2>6, ScoredType, GradingAssumption
  <2>. QED BY <2>2, <2>7
<1>4. ASSUME NEW run \in HoldoutRuns[genes]
      PROVE  Scored(run, NoRate) \in Results
  <2>1. IsRun(run, HoldoutProbes)
    BY EvolutionAssumption
  <2>. QED BY <1>1, <2>1, ScoredType, GradingAssumption
<1>5. Measured[genes] = {Scored(Smoke(run), NoRate) : run \in {r \in Runs[genes] : RunGates(Smoke(r)) # {}}}
       \cup {Scored(run, NoRate) : run \in Runs[genes]}
  BY DEF Measured
<1>6. HeldOut[genes] = {Scored(run, NoRate) : run \in HoldoutRuns[genes]}
  BY DEF HeldOut
<1>. QED BY <1>3, <1>4, <1>5, <1>6

-----------------------------------------------------------------------------
(* The order of the genome files                                           *)

Tags == {"g", "restart", "s", "xover"} \X Nat
GenomeIds == {id \in Seq(Tags) : id # <<>> /\ id[1][1] \in {"g", "s"}}

LEMMA TagsAreOrdered ==
  ASSUME NEW t \in Tags, NEW u \in Tags, NEW v \in Tags
  PROVE  /\ ~ TagBefore(t, t)
         /\ t = u \/ TagBefore(t, u) \/ TagBefore(u, t)
         /\ TagBefore(t, u) /\ TagBefore(u, v) => TagBefore(t, v)
<1>. DEFINE rank(x) == Rank[x[1]]
<1>1. ASSUME NEW x \in Tags
      PROVE  /\ x = <<x[1], x[2]>> /\ x[2] \in Nat
             /\ \/ x[1] = "g" /\ rank(x) = 1
                \/ x[1] = "restart" /\ rank(x) = 2
                \/ x[1] = "s" /\ rank(x) = 3
                \/ x[1] = "xover" /\ rank(x) = 4
  BY DEF Tags, Rank
<1>2. \A x, y \in Tags : TagBefore(x, y) <=> rank(x) < rank(y) \/ (rank(x) = rank(y) /\ x[2] < y[2])
  BY DEF TagBefore
<1>3. \A x \in Tags : rank(x) \in Nat
  BY <1>1
<1>4. \A x, y \in Tags : rank(x) = rank(y) /\ x[2] = y[2] => x = y
  BY <1>1
<1>5. \A x \in Tags : x[2] \in Nat
  BY <1>1
<1>. HIDE DEF rank
<1>. QED BY <1>2, <1>3, <1>4, <1>5

LEMMA IdsAreOrdered ==
  ASSUME NEW a \in Seq(Tags), NEW b \in Seq(Tags), NEW c \in Seq(Tags)
  PROVE  /\ ~ IdBefore(a, a)
         /\ a = b \/ IdBefore(a, b) \/ IdBefore(b, a)
         /\ IdBefore(a, b) /\ IdBefore(b, c) => IdBefore(a, c)
<1>1. /\ DOMAIN a = 1..Len(a) /\ Len(a) \in Nat /\ \A i \in 1..Len(a) : a[i] \in Tags
      /\ DOMAIN b = 1..Len(b) /\ Len(b) \in Nat /\ \A i \in 1..Len(b) : b[i] \in Tags
      /\ DOMAIN c = 1..Len(c) /\ Len(c) \in Nat /\ \A i \in 1..Len(c) : c[i] \in Tags
  OBVIOUS
<1>2. ~ IdBefore(a, a)
  BY <1>1, TagsAreOrdered DEF IdBefore
<1>3. ASSUME a # b PROVE IdBefore(a, b) \/ IdBefore(b, a)
  <2>. DEFINE same(i) == i \in DOMAIN a /\ i \in DOMAIN b /\ a[i] = b[i]
              D == {i \in (DOMAIN a) \cup (DOMAIN b) : ~ same(i)}
  <2>1. D # {}
    <3>1. SUFFICES ASSUME \A i \in (DOMAIN a) \cup (DOMAIN b) : same(i) PROVE FALSE
      OBVIOUS
    <3>2. Len(a) = Len(b)
      <4>1. Len(a) > 0 => Len(a) <= Len(b)
        BY <1>1, <3>1
      <4>2. Len(b) > 0 => Len(b) <= Len(a)
        BY <1>1, <3>1
      <4>3. Len(a) \in Nat /\ Len(b) \in Nat
        BY <1>1
      <4>. QED BY <4>1, <4>2, <4>3
    <3>. QED BY <1>1, <1>3, <3>1, <3>2
  <2>2. D \in SUBSET Int /\ IsFiniteSet(D)
    <3>1. IsFiniteSet(DOMAIN a) /\ IsFiniteSet(DOMAIN b)
      <4>1. 1 \in Int /\ Len(a) \in Int /\ Len(b) \in Int
        BY <1>1
      <4>2. IsFiniteSet(1..Len(a)) /\ IsFiniteSet(1..Len(b))
        BY <4>1, FS_Interval
      <4>. QED BY <1>1, <4>2
    <3>2. IsFiniteSet((DOMAIN a) \cup (DOMAIN b))
      BY <3>1, FS_Union
    <3>3. D \in SUBSET ((DOMAIN a) \cup (DOMAIN b))
      OBVIOUS
    <3>4. IsFiniteSet(D)
      <4>. HIDE DEF D
      <4>. QED BY <3>2, <3>3, FS_Subset
    <3>. QED BY <1>1, <3>4
  <2>3. PICK i \in D : \A j \in D : i <= j
    <3>. HIDE DEF D
    <3>. QED BY <2>1, <2>2, LeastNumber
  <2>4. i \in Nat \ {0} /\ (i \in DOMAIN a \/ i \in DOMAIN b) /\ ~ same(i)
    BY <1>1, <2>3
  <2>5. ASSUME NEW k \in 1..(i - 1) PROVE same(k)
    <3>1. k \in (DOMAIN a) \cup (DOMAIN b)
      BY <1>1, <2>4
    <3>2. k \notin D
      <4>. HIDE DEF D
      <4>. QED BY <2>3, <2>4, <2>2
    <3>. QED BY <3>1, <3>2
  <2>6. CASE i \in DOMAIN b /\ (i \in DOMAIN a => TagBefore(a[i], b[i]))
    BY <2>5, <2>6 DEF IdBefore
  <2>7. CASE i \in DOMAIN a /\ (i \in DOMAIN b => TagBefore(b[i], a[i]))
    BY <2>5, <2>7 DEF IdBefore
  <2>8. i \in DOMAIN a /\ i \in DOMAIN b => TagBefore(a[i], b[i]) \/ TagBefore(b[i], a[i])
    BY <1>1, <2>4, TagsAreOrdered
  <2>. QED BY <2>4, <2>6, <2>7, <2>8
<1>4. ASSUME IdBefore(a, b), IdBefore(b, c) PROVE IdBefore(a, c)
  <2>1. PICK i \in DOMAIN b : /\ \A k \in 1..(i - 1) : k \in DOMAIN a /\ a[k] = b[k]
                              /\ i \in DOMAIN a => TagBefore(a[i], b[i])
    BY <1>4 DEF IdBefore
  <2>2. PICK j \in DOMAIN c : /\ \A k \in 1..(j - 1) : k \in DOMAIN b /\ b[k] = c[k]
                              /\ j \in DOMAIN b => TagBefore(b[j], c[j])
    BY <1>4 DEF IdBefore
  <2>3. i \in Nat \ {0} /\ j \in Nat \ {0}
    BY <1>1
  <2>4. CASE i < j
    <3>1. i \in DOMAIN c /\ b[i] = c[i]
      BY <1>1, <2>2, <2>3, <2>4
    <3>2. \A k \in 1..(i - 1) : k \in DOMAIN a /\ a[k] = c[k]
      BY <1>1, <2>1, <2>2, <2>3, <2>4
    <3>. QED BY <2>1, <3>1, <3>2 DEF IdBefore
  <2>5. CASE j < i
    <3>1. j \in DOMAIN a /\ a[j] = b[j] /\ j \in DOMAIN b
      BY <1>1, <2>1, <2>3, <2>5
    <3>2. \A k \in 1..(j - 1) : k \in DOMAIN a /\ a[k] = c[k]
      BY <1>1, <2>1, <2>2, <2>3, <2>5
    <3>. QED BY <2>2, <3>1, <3>2 DEF IdBefore
  <2>6. CASE i = j
    <3>1. \A k \in 1..(i - 1) : k \in DOMAIN a /\ a[k] = c[k]
      BY <1>1, <2>1, <2>2, <2>6
    <3>2. i \in DOMAIN a => TagBefore(a[i], c[i])
      <4>1. ASSUME i \in DOMAIN a PROVE TagBefore(a[i], b[i]) /\ TagBefore(b[i], c[i])
                                        /\ a[i] \in Tags /\ b[i] \in Tags /\ c[i] \in Tags
        BY <1>1, <2>1, <2>2, <2>6, <4>1
      <4>. QED BY <4>1, TagsAreOrdered
    <3>. QED BY <2>2, <2>6, <3>1, <3>2 DEF IdBefore
  <2>. QED BY <2>3, <2>4, <2>5, <2>6
<1>. QED BY <1>2, <1>3, <1>4

\* The genomes of a directory, in the order of their file names.
LEMMA LoadFacts ==
  ASSUME NEW dir, IsFiniteSet(dir), \A f \in dir : f.id \in Seq(Tags),
         \A f, g \in dir : f.id = g.id => f = g
  PROVE  Load(dir) \in Seq(dir) /\ (dir # {} => Load(dir) # <<>>)
<1>. DEFINE before == {d \in dir \X dir : IdBefore(d[1].id, d[2].id)}
<1>1. \A f, g \in dir : <<f, g>> \in before <=> IdBefore(f.id, g.id)
  OBVIOUS
<1>2. Orders(before, dir)
  <2>. HIDE DEF before
  <2>1. \A f \in dir : <<f, f>> \notin before
    BY <1>1, IdsAreOrdered
  <2>2. ASSUME NEW f \in dir, NEW g \in dir PROVE f = g \/ <<f, g>> \in before \/ <<g, f>> \in before
    BY <1>1, IdsAreOrdered
  <2>3. ASSUME NEW f \in dir, NEW g \in dir, NEW h \in dir, <<f, g>> \in before, <<g, h>> \in before
        PROVE  <<f, h>> \in before
    BY <1>1, <2>3, IdsAreOrdered
  <2>. QED BY <2>1, <2>2, <2>3 DEF Orders
<1>. HIDE DEF before
<1>3. InOrder(dir, before) \in Seq(dir) /\ (dir # {} => InOrder(dir, before) # <<>>)
  BY <1>2, InOrderFacts
<1>. QED BY <1>3 DEF Load, before

-----------------------------------------------------------------------------
(* Ids, and the genomes that carry them                                    *)

\* The id of a child of a genome of this id.
BredFrom(id, parent) == parent \in GenomeIds /\ \E n \in Nat : id = Tagged(n, Cut(parent))
IsNamed(g) ==
  \/ Len(g.id) = 1
  \/ \E n \in Nat : g.id \in {CrossoverId(n), RestartId(n)}
  \/ BredFrom(g.id, g.parent)
Genomes == {g \in [id : GenomeIds, genes : GeneSpace, parent : GenomeIds \cup {NoId}] : IsNamed(g)}

LEMMA TaggedFacts ==
  ASSUME NEW n \in Nat, NEW id \in Seq(Tags)
  PROVE  /\ Tagged(n, id) \in GenomeIds /\ Len(Tagged(n, id)) = Len(id) + 1
         /\ Tagged(n, id)[1] = <<"g", n>> /\ Tagged(n, id)[1][1] = "g"
         /\ Tagged(n, id)[1][2] = n
         /\ \A k \in 1..Len(id) : Tagged(n, id)[k + 1] = id[k]
<1>1. << <<"g", n>> >> \in Seq(Tags)
  BY DEF Tags
<1>2. /\ Tagged(n, id) \in Seq(Tags) /\ Len(Tagged(n, id)) = Len(id) + 1 /\ Tagged(n, id) # <<>>
      /\ Tagged(n, id)[1] = <<"g", n>>
      /\ \A k \in 1..Len(id) : Tagged(n, id)[k + 1] = id[k]
  BY <1>1 DEF Tagged
<1>. QED BY <1>2 DEF GenomeIds

LEMMA TagsTell ==
  ASSUME NEW m \in Nat, NEW n \in Nat, NEW a \in Seq(Tags), NEW b \in Seq(Tags),
         Tagged(m, a) = Tagged(n, b)
  PROVE  m = n /\ a = b
<1>1. m = n
  BY TaggedFacts
<1>2. Len(a) + 1 = Len(b) + 1
  BY TaggedFacts
<1>3. Len(a) = Len(b)
  BY <1>2
<1>4. \A k \in 1..Len(a) : a[k] = b[k]
  BY <1>3, TaggedFacts
<1>. QED BY <1>1, <1>3, <1>4

LEMMA CutFacts ==
  ASSUME NEW id \in GenomeIds
  PROVE  /\ Cut(id) \in GenomeIds /\ Cut(id)[1] = id[1] /\ Len(Cut(id)) <= Len(id)
         /\ Len(id) <= 3 => Cut(id) = id
         /\ Len(id) > 3 => Len(Cut(id)) = 4
<1>1. CASE Len(id) <= 3
  BY <1>1 DEF Cut, GenomeIds
<1>2. CASE Len(id) > 3
  <2>1. id \in Seq(Tags) /\ Len(id) \in Nat /\ id[4] \in Tags
    BY <1>2 DEF GenomeIds
  <2>2. SubSeq(id, 1, 3) \in Seq(Tags) /\ Len(SubSeq(id, 1, 3)) = 3 /\ SubSeq(id, 1, 3)[1] = id[1]
    BY <1>2, <2>1
  <2>3. << <<id[4][1], 0>> >> \in Seq(Tags)
    BY <2>1 DEF Tags
  <2>4. Cut(id) = SubSeq(id, 1, 3) \o << <<id[4][1], 0>> >>
    BY <1>2, <2>1 DEF Cut
  <2>5. Cut(id) \in Seq(Tags) /\ Len(Cut(id)) = 4 /\ Cut(id)[1] = id[1] /\ Cut(id) # <<>>
    BY <2>2, <2>3, <2>4
  <2>. QED BY <1>2, <2>1, <2>5 DEF GenomeIds
<1>3. Len(id) \in Nat
  BY DEF GenomeIds
<1>. QED BY <1>1, <1>2, <1>3

\* The ids of a restart and of a crossover are nobody's child's.
LEMMA SpecialIds ==
  ASSUME NEW n \in Nat
  PROVE  /\ CrossoverId(n) \in GenomeIds /\ Len(CrossoverId(n)) = 2 /\ CrossoverId(n)[1] = <<"g", n>>
         /\ RestartId(n) \in GenomeIds /\ Len(RestartId(n)) = 2 /\ RestartId(n)[1] = <<"g", n>>
         /\ CrossoverId(n)[2][1] = "xover" /\ RestartId(n)[2][1] = "restart"
<1>. DEFINE x == << <<"xover", 0>> >>
            r == << <<"restart", 0>> >>
<1>1. x \in Seq(Tags) /\ Len(x) = 1 /\ x[1][1] = "xover"
  BY DEF Tags
<1>2. r \in Seq(Tags) /\ Len(r) = 1 /\ r[1][1] = "restart"
  BY DEF Tags
<1>3. CrossoverId(n) = Tagged(n, x) /\ RestartId(n) = Tagged(n, r)
  BY DEF CrossoverId, RestartId
<1>. HIDE DEF x, r
<1>4. /\ Tagged(n, x) \in GenomeIds /\ Len(Tagged(n, x)) = 2 /\ Tagged(n, x)[1] = <<"g", n>>
      /\ Tagged(n, x)[2] = x[1]
  <2>1. /\ Tagged(n, x) \in GenomeIds /\ Len(Tagged(n, x)) = Len(x) + 1
        /\ Tagged(n, x)[1] = <<"g", n>>
        /\ \A k \in 1..Len(x) : Tagged(n, x)[k + 1] = x[k]
    BY <1>1, TaggedFacts
  <2>2. Tagged(n, x)[1 + 1] = x[1]
    BY <1>1, <2>1
  <2>. QED BY <1>1, <2>1, <2>2
<1>5. /\ Tagged(n, r) \in GenomeIds /\ Len(Tagged(n, r)) = 2 /\ Tagged(n, r)[1] = <<"g", n>>
      /\ Tagged(n, r)[2] = r[1]
  <2>1. /\ Tagged(n, r) \in GenomeIds /\ Len(Tagged(n, r)) = Len(r) + 1
        /\ Tagged(n, r)[1] = <<"g", n>>
        /\ \A k \in 1..Len(r) : Tagged(n, r)[k + 1] = r[k]
    BY <1>2, TaggedFacts
  <2>2. Tagged(n, r)[1 + 1] = r[1]
    BY <1>2, <2>1
  <2>. QED BY <1>2, <2>1, <2>2
<1>. QED BY <1>1, <1>2, <1>3, <1>4, <1>5

LEMMA BredIdFacts ==
  ASSUME NEW parent \in GenomeIds, NEW n \in Nat, NEW id, id = Tagged(n, Cut(parent))
  PROVE  /\ id \in GenomeIds /\ BredFrom(id, parent)
         /\ id[1] = <<"g", n>> /\ Len(id) = Len(Cut(parent)) + 1 /\ Len(id) >= 2
         /\ id[2][1] \in {"g", "s"}
         /\ \A m \in Nat : id # CrossoverId(m) /\ id # RestartId(m)
<1>1. Cut(parent) \in GenomeIds /\ Cut(parent)[1] = parent[1]
  BY CutFacts
<1>2. Cut(parent) \in Seq(Tags) /\ Len(Cut(parent)) \in Nat \ {0} /\ Cut(parent)[1][1] \in {"g", "s"}
  BY <1>1 DEF GenomeIds
<1>3. /\ id \in GenomeIds /\ id[1] = <<"g", n>> /\ Len(id) = Len(Cut(parent)) + 1
      /\ \A k \in 1..Len(Cut(parent)) : id[k + 1] = Cut(parent)[k]
  BY <1>2, TaggedFacts
<1>4. id[1 + 1] = Cut(parent)[1] /\ Len(id) >= 2
  BY <1>2, <1>3
<1>5. id[2][1] \in {"g", "s"}
  BY <1>2, <1>4
<1>6. \A m \in Nat : id # CrossoverId(m) /\ id # RestartId(m)
  BY <1>5, SpecialIds
<1>7. BredFrom(id, parent)
  BY DEF BredFrom
<1>. QED BY <1>3, <1>4, <1>5, <1>6, <1>7

\* Whatever has the id of a genome's child is one of its children.
LEMMA IdsTellParents ==
  ASSUME NEW parent \in GenomeIds, Len(parent) <= 3, NEW g \in Genomes,
         BredFrom(g.id, parent)
  PROVE  g.parent = parent
<1>1. PICK n \in Nat : g.id = Tagged(n, Cut(parent))
  BY DEF BredFrom
<1>2. Len(g.id) >= 2 /\ \A m \in Nat : g.id # CrossoverId(m) /\ g.id # RestartId(m)
  BY <1>1, BredIdFacts
<1>3. BredFrom(g.id, g.parent)
  <2>1. IsNamed(g) /\ Len(g.id) # 1
    BY <1>2 DEF Genomes
  <2>. QED BY <1>2, <2>1 DEF IsNamed
<1>4. PICK m \in Nat : g.id = Tagged(m, Cut(g.parent))
  BY <1>3 DEF BredFrom
<1>5. g.parent \in GenomeIds
  BY <1>3 DEF BredFrom
<1>6. Cut(parent) \in Seq(Tags) /\ Cut(g.parent) \in Seq(Tags)
  BY <1>5, CutFacts DEF GenomeIds
<1>7. Cut(parent) = Cut(g.parent)
  <2>1. Tagged(n, Cut(parent)) = Tagged(m, Cut(g.parent))
    BY <1>1, <1>4
  <2>. QED BY <1>6, <2>1, TagsTell
<1>8. Len(parent) \in Nat /\ Len(g.parent) \in Nat
  BY <1>5 DEF GenomeIds
<1>9. Cut(parent) = parent
  BY CutFacts
<1>10. Len(g.parent) <= 3
  <2>1. SUFFICES ASSUME Len(g.parent) > 3 PROVE FALSE
    BY <1>8
  <2>2. Len(Cut(g.parent)) = 4
    BY <1>5, <2>1, CutFacts
  <2>3. Len(parent) = 4
    BY <1>7, <1>9, <2>2
  <2>. QED BY <2>3
<1>. QED BY <1>5, <1>7, <1>9, <1>10, CutFacts

LEMMA SeedFacts ==
  /\ Seeds \in Seq(Genomes) /\ Seeds # <<>> /\ DOMAIN Seeds = DOMAIN SeedGenes
  /\ \A k \in DOMAIN Seeds : /\ Seeds[k] \in Genomes /\ Seeds[k].id = SeedId(k)
                             /\ Seeds[k].genes = SeedGenes[k] /\ Seeds[k].parent = NoId
<1>1. DOMAIN SeedGenes = 1..Len(SeedGenes) /\ Len(SeedGenes) \in Nat \ {0}
  BY EvolutionAssumption
<1>2. ASSUME NEW k \in DOMAIN SeedGenes
      PROVE  Seed(k) \in Genomes
  <2>1. k \in Nat /\ SeedGenes[k] \in GeneSpace
    BY <1>1, EvolutionAssumption
  <2>2. SeedId(k) \in GenomeIds /\ Len(SeedId(k)) = 1
    BY <2>1 DEF SeedId, GenomeIds, Tags
  <2>. QED BY <2>1, <2>2 DEF Seed, Genomes, IsNamed
<1>3. Seeds \in [1..Len(SeedGenes) -> Genomes]
  BY <1>1, <1>2 DEF Seeds
<1>4. Seeds \in Seq(Genomes) /\ Len(Seeds) = Len(SeedGenes)
  BY <1>1, <1>3
<1>. QED BY <1>1, <1>2, <1>4 DEF Seeds, Seed

LEMMA ChildFacts ==
  ASSUME NEW parent \in Genomes, NEW n \in Nat, NEW gene \in Genes, NEW text \in Texts
  PROVE  /\ Child(parent, ChildId(n, parent), gene, text) \in Genomes
         /\ Child(parent, ChildId(n, parent), gene, text).id = ChildId(n, parent)
         /\ BredFrom(ChildId(n, parent), parent.id)
<1>1. parent.id \in GenomeIds /\ parent.genes \in GeneSpace
  BY DEF Genomes
<1>2. ChildId(n, parent) \in GenomeIds /\ BredFrom(ChildId(n, parent), parent.id)
  BY <1>1, BredIdFacts DEF ChildId
<1>3. [parent.genes EXCEPT ![gene] = text] \in GeneSpace
  BY <1>1 DEF GeneSpace
<1>. QED BY <1>1, <1>2, <1>3 DEF Child, Genomes, IsNamed

LEMMA CrossoverFacts ==
  ASSUME NEW a \in Genomes, NEW b \in Genomes, NEW n \in Nat, NEW gene \in Genes
  PROVE  /\ Crossover(a, b, CrossoverId(n), gene) \in Genomes
         /\ Crossover(a, b, CrossoverId(n), gene).id = CrossoverId(n)
<1>1. a.id \in GenomeIds /\ a.genes \in GeneSpace /\ b.genes \in GeneSpace
  BY DEF Genomes
<1>2. CrossoverId(n) \in GenomeIds
  BY SpecialIds
<1>3. [a.genes EXCEPT ![gene] = b.genes[gene]] \in GeneSpace
  BY <1>1 DEF GeneSpace
<1>. QED BY <1>1, <1>2, <1>3 DEF Crossover, Child, Genomes, IsNamed

LEMMA RestartFacts ==
  ASSUME NEW k \in DOMAIN Seeds, NEW n \in Nat
  PROVE  /\ [Seeds[k] EXCEPT !.id = RestartId(n)] \in Genomes
         /\ [Seeds[k] EXCEPT !.id = RestartId(n)].id = RestartId(n)
         /\ [Seeds[k] EXCEPT !.id = RestartId(n)].genes = Seeds[k].genes
<1>1. RestartId(n) \in GenomeIds
  BY SpecialIds
<1>2. Seeds[k] \in [id : GenomeIds, genes : GeneSpace, parent : GenomeIds \cup {NoId}]
  BY SeedFacts DEF Genomes
<1>. QED BY <1>1, <1>2 DEF Genomes, IsNamed

-----------------------------------------------------------------------------
(* Survivors and files                                                     *)

LEMMA FirstOfFacts ==
  ASSUME NEW T, NEW list \in Seq(T), NEW n \in Nat \ {0}
  PROVE  /\ FirstOf(list, n) \in Seq(T) /\ Len(FirstOf(list, n)) <= n
         /\ Len(FirstOf(list, n)) <= Len(list)
         /\ \A i \in DOMAIN FirstOf(list, n) : i \in DOMAIN list /\ FirstOf(list, n)[i] = list[i]
         /\ list # <<>> => FirstOf(list, n) # <<>> /\ FirstOf(list, n)[1] = list[1]
         /\ Len(list) <= n => FirstOf(list, n) = list
<1>. DEFINE m == IF Len(list) < n THEN Len(list) ELSE n
<1>1. /\ m \in Nat /\ m <= n /\ m <= Len(list) /\ Len(list) \in Nat
      /\ (list # <<>> => m >= 1) /\ (Len(list) <= n => m = Len(list))
  OBVIOUS
<1>2. FirstOf(list, n) = SubSeq(list, 1, m)
  BY DEF FirstOf
<1>. HIDE DEF m
<1>3. /\ SubSeq(list, 1, m) \in Seq(T) /\ Len(SubSeq(list, 1, m)) = m
      /\ \A i \in 1..m : SubSeq(list, 1, m)[i] = list[i]
  BY <1>1
<1>4. Len(list) <= n => SubSeq(list, 1, m) = list
  BY <1>1, <1>3
<1>. QED BY <1>1, <1>2, <1>3, <1>4

\* The places of a list of evaluated genomes, in the order of their fitness.
LEMMA RankedFacts ==
  ASSUME pop \in Seq(Genomes), NEW places \in SUBSET DOMAIN pop,
         \A i \in DOMAIN pop : results[pop[i].id].fitness \in Nat
  PROVE  \E order \in Seq(places) :
           /\ Len(order) = Cardinality(places)
           /\ \A i, j \in DOMAIN order : order[i] = order[j] => i = j
           /\ Ranked(places) = [k \in DOMAIN order |-> pop[order[k]]]
           /\ places # {} =>
                /\ order # <<>>
                /\ \A i \in places :
                     results[pop[i].id].fitness <= results[pop[order[1]].id].fitness
<1>. DEFINE score(i) == results[pop[i].id].fitness
            better == {d \in places \X places :
                         \/ score(d[1]) > score(d[2])
                         \/ score(d[1]) = score(d[2]) /\ d[1] < d[2]}
            order == InOrder(places, better)
<1>1. IsFiniteSet(places)
  <2>1. DOMAIN pop = 1..Len(pop) /\ Len(pop) \in Int /\ 1 \in Int
    OBVIOUS
  <2>2. IsFiniteSet(DOMAIN pop)
    BY <2>1, FS_Interval
  <2>. QED BY <2>2, FS_Subset
<1>2. \A i, j \in places : <<i, j>> \in better <=>
                             score(i) > score(j) \/ (score(i) = score(j) /\ i < j)
  OBVIOUS
<1>3. \A i \in places : score(i) \in Nat /\ i \in Nat
  OBVIOUS
<1>4. Orders(better, places)
  <2>. HIDE DEF better, score
  <2>1. \A i \in places : <<i, i>> \notin better
    BY <1>2, <1>3
  <2>2. ASSUME NEW i \in places, NEW j \in places, NEW k \in places,
               <<i, j>> \in better, <<j, k>> \in better
        PROVE  <<i, k>> \in better
    BY <1>2, <1>3, <2>2
  <2>3. ASSUME NEW i \in places, NEW j \in places
        PROVE  i = j \/ <<i, j>> \in better \/ <<j, i>> \in better
    BY <1>2, <1>3
  <2>. QED BY <2>1, <2>2, <2>3 DEF Orders
<1>5. Ranked(places) = [k \in DOMAIN order |-> pop[order[k]]]
  BY DEF Ranked
<1>6. /\ order \in Seq(places) /\ Len(order) = Cardinality(places)
      /\ \A i, j \in DOMAIN order : order[i] = order[j] => i = j
      /\ places # {} => order # <<>> /\ \A i \in places : <<i, order[1]>> \notin better
  <2>. HIDE DEF better
  <2>. QED BY <1>1, <1>4, InOrderFacts
<1>7. ASSUME places # {}, NEW i \in places PROVE score(i) <= score(order[1])
  <2>1. order[1] \in places /\ <<i, order[1]>> \notin better
    <3>. HIDE DEF order, better
    <3>. QED BY <1>6, <1>7
  <2>. HIDE DEF order, better, score
  <2>. QED BY <1>2, <1>3, <2>1
<1>. HIDE DEF order, better
<1>. QED BY <1>5, <1>6, <1>7

\* The survivors are places of the population, and the best is the first.
LEMMA CrownFacts ==
  ASSUME pop \in Seq(Genomes), pop # <<>>, \A i \in DOMAIN pop : results[pop[i].id] \in Results,
         Crown
  PROVE  /\ keep' \in Seq(Genomes) /\ keep' # <<>> /\ Len(keep') <= Survivors
         /\ \E place \in [DOMAIN keep' -> DOMAIN pop] :
              /\ \A i, j \in DOMAIN keep' : place[i] = place[j] => i = j
              /\ \A i \in DOMAIN keep' : keep'[i] = pop[place[i]]
         /\ \A i \in DOMAIN pop : results[pop[i].id].fitness <= results[keep'[1].id].fitness
<1>. DEFINE sound == {i \in DOMAIN pop : ~Gated(pop[i])}
            places == IF sound = {} THEN DOMAIN pop ELSE sound
            n == IF sound = {} THEN 1 ELSE Survivors
<1>1. keep' = FirstOf(Ranked(places), n)
  BY DEF Crown
<1>2. /\ places \in SUBSET DOMAIN pop /\ places # {}
      /\ n \in Nat \ {0} /\ n <= Survivors
      /\ \A i \in DOMAIN pop : i \notin places => Gated(pop[i])
  BY EvolutionAssumption
<1>3. \A i \in DOMAIN pop : /\ results[pop[i].id].fitness \in Nat
                            /\ Gated(pop[i]) => results[pop[i].id].fitness = 0
  BY DEF Results, Gated
<1>. HIDE DEF places, n
<1>4. PICK order \in Seq(places) :
           /\ Len(order) = Cardinality(places)
           /\ \A i, j \in DOMAIN order : order[i] = order[j] => i = j
           /\ Ranked(places) = [k \in DOMAIN order |-> pop[order[k]]]
           /\ order # <<>>
           /\ \A i \in places :
                results[pop[i].id].fitness <= results[pop[order[1]].id].fitness
  BY <1>2, <1>3, RankedFacts
<1>5. \A k \in DOMAIN order : order[k] \in DOMAIN pop /\ pop[order[k]] \in Genomes
  BY <1>2, <1>4
<1>6. /\ Ranked(places) \in Seq(Genomes) /\ DOMAIN Ranked(places) = DOMAIN order
      /\ Ranked(places) # <<>> /\ 1 \in DOMAIN order
  <2>1. DOMAIN order = 1..Len(order) /\ Len(order) \in Nat \ {0}
    BY <1>4
  <2>2. Ranked(places) \in [1..Len(order) -> Genomes]
    BY <1>4, <1>5, <2>1
  <2>3. Ranked(places) \in Seq(Genomes) /\ DOMAIN Ranked(places) = 1..Len(order)
    BY <2>1, <2>2
  <2>4. 1 \in DOMAIN Ranked(places)
    BY <2>1, <2>3
  <2>. QED BY <2>1, <2>3, <2>4
<1>7. /\ keep' \in Seq(Genomes) /\ keep' # <<>> /\ keep'[1] = Ranked(places)[1]
      /\ Len(keep') <= n
      /\ \A i \in DOMAIN keep' : i \in DOMAIN order /\ keep'[i] = pop[order[i]]
  <2>. DEFINE list == Ranked(places)
  <2>1. list \in Seq(Genomes) /\ list # <<>> /\ DOMAIN list = DOMAIN order
        /\ \A i \in DOMAIN order : list[i] = pop[order[i]]
    BY <1>4, <1>6
  <2>. HIDE DEF list
  <2>2. /\ FirstOf(list, n) \in Seq(Genomes) /\ Len(FirstOf(list, n)) <= n
        /\ FirstOf(list, n) # <<>> /\ FirstOf(list, n)[1] = list[1]
        /\ \A i \in DOMAIN FirstOf(list, n) : i \in DOMAIN list /\ FirstOf(list, n)[i] = list[i]
    BY <1>2, <2>1, FirstOfFacts
  <2>3. keep' = FirstOf(list, n)
    BY <1>1 DEF list
  <2>4. keep'[1] = Ranked(places)[1]
    BY <2>2, <2>3 DEF list
  <2>. QED BY <2>1, <2>2, <2>3, <2>4
<1>8. keep'[1] = pop[order[1]]
  BY <1>4, <1>6, <1>7
<1>9. Len(keep') <= Survivors
  BY <1>2, <1>7, EvolutionAssumption
<1>10. \A i \in DOMAIN pop : results[pop[i].id].fitness <= results[keep'[1].id].fitness
  BY <1>2, <1>3, <1>4, <1>5, <1>6, <1>8
<1>11. \E place \in [DOMAIN keep' -> DOMAIN pop] :
              /\ \A i, j \in DOMAIN keep' : place[i] = place[j] => i = j
              /\ \A i \in DOMAIN keep' : keep'[i] = pop[place[i]]
  <2>. DEFINE place == [i \in DOMAIN keep' |-> order[i]]
  <2>1. place \in [DOMAIN keep' -> DOMAIN pop]
    BY <1>5, <1>7
  <2>2. \A i, j \in DOMAIN keep' : place[i] = place[j] => i = j
    BY <1>4, <1>7
  <2>3. \A i \in DOMAIN keep' : keep'[i] = pop[place[i]]
    BY <1>7
  <2>. HIDE DEF place
  <2>. QED BY <2>1, <2>2, <2>3
<1>. QED BY <1>7, <1>9, <1>10, <1>11

LEMMA DensestFacts ==
  ASSUME keep \in Seq(Genomes), keep # <<>>,
         \A i \in DOMAIN keep : results[keep[i].id] \in Results
  PROVE  \E i \in DOMAIN keep : Densest = keep[i]
<1>. DEFINE D(i) == results[keep[i].id].c.D
            all == {D(i) : i \in DOMAIN keep}
            best == {i \in DOMAIN keep : \A j \in DOMAIN keep : D(j) <= D(i)}
<1>1. DOMAIN keep = 1..Len(keep) /\ Len(keep) \in Nat /\ 1 \in DOMAIN keep
  OBVIOUS
<1>2. IsFiniteSet(DOMAIN keep)
  <2>1. Len(keep) \in Int /\ 1 \in Int
    OBVIOUS
  <2>. QED BY <1>1, <2>1, FS_Interval
<1>3. \A i \in DOMAIN keep : D(i) \in Nat
  BY DEF Results, Components
<1>4. [i \in DOMAIN keep |-> D(i)] \in Surjection(DOMAIN keep, all)
  BY DEF Surjection
<1>5. IsFiniteSet(all) /\ all \in SUBSET Int /\ all # {}
  BY <1>1, <1>2, <1>3, <1>4, FS_Surjection
<1>6. PICK d \in all : \A e \in all : e <= d
  <2>. HIDE DEF all
  <2>. QED BY <1>5, LeastNumber
<1>7. best # {} /\ best \in SUBSET DOMAIN keep
  <2>1. PICK i \in DOMAIN keep : d = D(i)
    OBVIOUS
  <2>2. i \in best
    BY <1>6, <2>1
  <2>. QED BY <2>2
<1>8. Densest = keep[Min(best)]
  BY DEF Densest
<1>. HIDE DEF best
<1>9. IsFiniteSet(best) /\ best \in SUBSET Int
  BY <1>1, <1>2, <1>7, FS_Subset
<1>10. Min(best) \in best
  BY <1>7, <1>9, LeastNumber
<1>. QED BY <1>7, <1>8, <1>10

LEMMA SaveFacts ==
  ASSUME NEW dir, IsFiniteSet(dir), \A f, h \in dir : f.id = h.id => f = h, NEW g
  PROVE  /\ IsFiniteSet(Save(dir, g)) /\ g \in Save(dir, g)
         /\ \A f, h \in Save(dir, g) : f.id = h.id => f = h
         /\ Save(dir, g) \subseteq dir \cup {g}
         /\ \A f \in dir : (f.id = g.id => f = g) => f \in Save(dir, g)
<1>1. {f \in dir : f.id # g.id} \in SUBSET dir
  OBVIOUS
<1>2. IsFiniteSet({f \in dir : f.id # g.id})
  BY <1>1, FS_Subset
<1>3. IsFiniteSet(Save(dir, g))
  BY <1>2, FS_AddElement DEF Save
<1>. QED BY <1>3 DEF Save

-----------------------------------------------------------------------------
(* What a resumed run finds                                                *)

Fields == {"generation", "ref", "anchored", "champion", "fitness", "gaps", "stopped"}
IsState(s) == DOMAIN s = Fields /\ s.generation \in Nat /\ s.anchored \in BOOLEAN

\* s may follow t in state.json
Follows(s, t) ==
  /\ s.generation >= t.generation
  /\ t.anchored => s.anchored /\ s.ref = t.ref

DiskGeneration == IF stateFile = NoFile THEN 0 ELSE stateFile.generation

IsList(s) == \E S : s \in Seq(S)
\* Records of generations that a resumed run has not passed
NotAhead(list) ==
  IsList(list) /\ \A i \in DOMAIN list : "gen" \in DOMAIN list[i] /\ list[i].gen \in Nat
                                           /\ list[i].gen <= DiskGeneration

StatesInv == IsState(st) /\ (stateFile = NoFile \/ IsState(stateFile))
MemoryFollowsDisk ==
  pc # "down" =>
    /\ st.generation = DiskGeneration
    /\ stateFile # NoFile => Follows(st, stateFile)
RecordsInv == NotAhead(ledger) /\ NotAhead(rows)

ResumeInv == StatesInv /\ MemoryFollowsDisk /\ RecordsInv

-----------------------------------------------------------------------------

LEMMA FreshIsState == IsState(FreshState) /\ FreshState.generation = 0
BY DEF FreshState, IsState, Fields

LEMMA EmptyIsNotAhead == NotAhead(<<>>)
<1>1. <<>> \in Seq({}) /\ DOMAIN <<>> = {}
  OBVIOUS
<1>. QED BY <1>1 DEF NotAhead, IsList

LEMMA AppendNotAhead ==
  ASSUME NEW list, NotAhead(list), NEW r,
         "gen" \in DOMAIN r, r.gen \in Nat, r.gen <= DiskGeneration
  PROVE  NotAhead(Append(list, r))
<1>1. PICK S : list \in Seq(S)
  BY DEF NotAhead, IsList
<1>2. list \in Seq(S \cup {r})
  BY <1>1
<1>3. /\ Append(list, r) \in Seq(S \cup {r})
      /\ DOMAIN Append(list, r) = 1..(Len(list) + 1)
      /\ \A i \in 1..(Len(list) + 1) :
           Append(list, r)[i] = IF i = Len(list) + 1 THEN r ELSE list[i]
      /\ DOMAIN list = 1..Len(list) /\ Len(list) \in Nat
  BY <1>2
<1>. HIDE DEF DiskGeneration
<1>4. ASSUME NEW i \in DOMAIN Append(list, r)
      PROVE  LET x == Append(list, r)[i]
             IN  "gen" \in DOMAIN x /\ x.gen \in Nat /\ x.gen <= DiskGeneration
  <2>1. CASE i = Len(list) + 1
    BY <1>3, <2>1
  <2>2. CASE i # Len(list) + 1
    BY <1>3, <2>2 DEF NotAhead
  <2>. QED BY <2>1, <2>2
<1>. QED BY <1>3, <1>4 DEF NotAhead, IsList

LEMMA ResolveNotAhead ==
  ASSUME NotAhead(ledger)
  PROVE  NotAhead([i \in DOMAIN ledger |-> Resolve(ledger[i])])
<1>. DEFINE list == [i \in DOMAIN ledger |-> Resolve(ledger[i])]
            S == {Resolve(ledger[i]) : i \in DOMAIN ledger}
<1>1. DOMAIN ledger = 1..Len(ledger) /\ Len(ledger) \in Nat
  BY DEF NotAhead, IsList
<1>2. list \in Seq(S)
  BY <1>1
<1>3. ASSUME NEW i \in DOMAIN ledger
      PROVE  "gen" \in DOMAIN Resolve(ledger[i]) /\ Resolve(ledger[i]).gen = ledger[i].gen
  BY DEF Resolve, NotAhead
<1>. QED BY <1>2, <1>3 DEF NotAhead, IsList

\* Steps that leave state.json alone
LEMMA SameDisk ==
  ASSUME ResumeInv, stateFile' = stateFile, IsState(st'),
         pc' # "down" => st'.generation = DiskGeneration
                         /\ (stateFile # NoFile => Follows(st', stateFile)),
         NotAhead(ledger'), NotAhead(rows')
  PROVE  ResumeInv'
<1>1. DiskGeneration' = DiskGeneration
  BY DEF DiskGeneration
<1>2. \A list : NotAhead(list) => NotAhead(list)'
  BY <1>1 DEF NotAhead
<1>. QED BY <1>1 DEF ResumeInv, StatesInv, MemoryFollowsDisk, RecordsInv, NotAhead

LEMMA AlikeFollows ==
  ASSUME NEW s, NEW t, IsState(s), DOMAIN t = DOMAIN s,
         t.generation = s.generation, t.anchored = s.anchored, t.ref = s.ref
  PROVE  IsState(t) /\ Follows(t, s)
BY DEF IsState, Follows

LEMMA AnchorFacts ==
  ASSUME NEW s, IsState(s), NEW f
  PROVE  /\ IsState(Anchor(s, f)) /\ Follows(Anchor(s, f), s)
         /\ Anchor(s, f).generation = s.generation
<1>1. CASE Anchor(s, f) = s
  BY <1>1 DEF Follows, IsState
<1>2. CASE Anchor(s, f) # s
  <2>1. PICK ref : ~s.anchored /\ Anchor(s, f) = [s EXCEPT !.anchored = TRUE, !.ref = ref]
    BY <1>2 DEF Anchor
  <2>. QED BY <2>1 DEF IsState, Fields, Follows
<1>. QED BY <1>1, <1>2

-----------------------------------------------------------------------------
(* One lemma per kind of step                                              *)

LEMMA StartResumes ==
  ASSUME ResumeInv, Start
  PROVE  ResumeInv'
<1>1. /\ stateFile' = stateFile /\ ledger' = ledger /\ rows' = <<>> /\ st' = Resumed
  BY DEF Start, disk
<1>2. IsState(st') /\ st'.generation = DiskGeneration
      /\ (stateFile # NoFile => st' = stateFile)
  BY <1>1, FreshIsState DEF ResumeInv, StatesInv, Resumed, DiskGeneration
<1>3. stateFile # NoFile => Follows(st', stateFile)
  BY <1>2 DEF Follows, IsState, ResumeInv, StatesInv
<1>4. NotAhead(ledger') /\ NotAhead(rows')
  BY <1>1, EmptyIsNotAhead DEF ResumeInv, RecordsInv
<1>. QED BY <1>1, <1>2, <1>3, <1>4, SameDisk

LEMMA CrashResumes ==
  ASSUME ResumeInv, Crash
  PROVE  ResumeInv'
<1>1. /\ stateFile' = stateFile /\ ledger' = ledger /\ rows' = <<>>
      /\ st' = FreshState /\ pc' = "down"
  BY DEF Crash, disk
<1>. QED BY <1>1, FreshIsState, EmptyIsNotAhead, SameDisk DEF ResumeInv, RecordsInv

\* A generation at work: the state changes only in its champion and reference
LEMMA WorkResumes ==
  ASSUME ResumeInv, pc # "down",
         UNCHANGED <<stateFile, ledger, rows>>,
         \/ st' = st
         \/ \E f : st' = Anchor(st, f)
         \/ \E c, x : st' = [st EXCEPT !.champion = c, !.fitness = x]
  PROVE  ResumeInv'
<1>1. IsState(st') /\ Follows(st', st) /\ st'.generation = st.generation
  <2>1. IsState(st)
    BY DEF ResumeInv, StatesInv
  <2>2. CASE st' = st
    BY <2>1, <2>2 DEF IsState, Follows
  <2>3. CASE \E f : st' = Anchor(st, f)
    <3>1. PICK f : st' = Anchor(st, f)
      BY <2>3
    <3>2. /\ IsState(Anchor(st, f)) /\ Follows(Anchor(st, f), st)
          /\ Anchor(st, f).generation = st.generation
      BY <2>1, AnchorFacts
    <3>. QED BY <3>1, <3>2
  <2>4. CASE \E c, x : st' = [st EXCEPT !.champion = c, !.fitness = x]
    <3>1. PICK c, x : st' = [st EXCEPT !.champion = c, !.fitness = x]
      BY <2>4
    <3>2. /\ DOMAIN st' = DOMAIN st /\ st'.generation = st.generation
          /\ st'.anchored = st.anchored /\ st'.ref = st.ref
      BY <2>1, <3>1 DEF IsState, Fields
    <3>. QED BY <2>1, <3>2, AlikeFollows
  <2>. QED BY <2>2, <2>3, <2>4
<1>2. stateFile # NoFile => Follows(st', stateFile)
  BY <1>1 DEF ResumeInv, MemoryFollowsDisk, Follows, StatesInv, IsState
<1>. QED BY <1>1, <1>2, SameDisk DEF ResumeInv, MemoryFollowsDisk, RecordsInv

LEMMA LedgerResumes ==
  ASSUME ResumeInv, TruncateLedger \/ RewriteLedger \/ AppendRecord
  PROVE  ResumeInv'
<1>1. /\ stateFile' = stateFile /\ st' = st /\ pc # "down"
  BY DEF TruncateLedger, RewriteLedger, AppendRecord, memory
<1>2. NotAhead(ledger') /\ NotAhead(rows')
  <2>1. CASE TruncateLedger
    BY <2>1, ResolveNotAhead, EmptyIsNotAhead DEF TruncateLedger, ResumeInv, RecordsInv
  <2>2. CASE RewriteLedger
    BY <2>2 DEF RewriteLedger, memory, ResumeInv, RecordsInv
  <2>3. CASE AppendRecord
    <3>1. PICK gene \in Predictions : ledger' = Append(ledger, Record(pop[at], gene))
      BY <2>3 DEF AppendRecord
    <3>2. LET r == Record(pop[at], gene)
          IN  "gen" \in DOMAIN r /\ r.gen = st.generation
      BY DEF Record
    <3>3. st.generation \in Nat /\ st.generation = DiskGeneration
      BY <1>1 DEF ResumeInv, StatesInv, IsState, MemoryFollowsDisk
    <3>4. rows' = rows
      BY <2>3 DEF AppendRecord
    <3>. QED BY <3>1, <3>2, <3>3, <3>4, AppendNotAhead DEF ResumeInv, RecordsInv
  <2>. QED BY <2>1, <2>2, <2>3
<1>. QED BY <1>1, <1>2, SameDisk DEF ResumeInv, StatesInv, MemoryFollowsDisk

\* The end of a generation: memory and state.json move on together
LEMMA TallyResumes ==
  ASSUME ResumeInv, Tally, ~IsState(NoFile)
  PROVE  /\ ResumeInv'
         /\ stateFile' # NoFile
         /\ stateFile # NoFile => Follows(stateFile', stateFile)
<1>. DEFINE next == [st EXCEPT !.generation = @ + 1]
<1>1. /\ IsState(next) /\ next.generation = DiskGeneration + 1 /\ DiskGeneration \in Nat
      /\ stateFile # NoFile => Follows(next, stateFile)
  <2>1. IsState(st) /\ pc # "down" /\ st.generation = DiskGeneration
    BY DEF Tally, ResumeInv, StatesInv, MemoryFollowsDisk
  <2>2. IsState(next) /\ next.generation = DiskGeneration + 1 /\ DiskGeneration \in Nat
        /\ next.anchored = st.anchored /\ next.ref = st.ref
    BY <2>1 DEF IsState, Fields
  <2>. QED BY <2>1, <2>2 DEF ResumeInv, StatesInv, MemoryFollowsDisk, Follows, DiskGeneration
<1>2. \E s : /\ IsState(s) /\ s.generation = next.generation
             /\ Follows(s, next)
             /\ \E why : st' = [s EXCEPT !.stopped = why]
             /\ stateFile' = st'
  <2>. HIDE DEF next
  <2>1. PICK before, s : /\ Tallied(before, s)
                         /\ \/ s = next
                            \/ \E subject, f : s = Checked(next, subject, f)
    BY DEF Tally, next
  <2>2. IsState(s) /\ s.generation = next.generation /\ Follows(s, next)
    <3>1. CASE s = next
      BY <1>1, <3>1 DEF Follows, IsState
    <3>2. CASE \E subject, f : s = Checked(next, subject, f)
      <4>1. PICK subject, f : s = Checked(next, subject, f)
        BY <3>2
      <4>2. PICK gaps : s = [Anchor(next, f) EXCEPT !.gaps = gaps]
        BY <4>1 DEF Checked
      <4>3. /\ IsState(Anchor(next, f)) /\ Follows(Anchor(next, f), next)
            /\ Anchor(next, f).generation = next.generation
        BY <1>1, AnchorFacts
      <4>. QED BY <4>2, <4>3 DEF IsState, Fields, Follows
    <3>. QED BY <2>1, <3>1, <3>2
  <2>3. (\E why : st' = [s EXCEPT !.stopped = why]) /\ stateFile' = st'
    BY <2>1 DEF Tallied, SaveState
  <2>. QED BY <2>2, <2>3
<1>3. /\ IsState(st') /\ stateFile' = st' /\ st'.generation = DiskGeneration + 1
      /\ stateFile # NoFile => Follows(st', stateFile)
  <2>. HIDE DEF next
  <2>1. PICK s, why : /\ IsState(s) /\ s.generation = next.generation /\ Follows(s, next)
                      /\ st' = [s EXCEPT !.stopped = why] /\ stateFile' = st'
    BY <1>2
  <2>2. IsState(st') /\ st'.generation = s.generation /\ st'.anchored = s.anchored
        /\ st'.ref = s.ref
    BY <2>1 DEF IsState, Fields
  <2>. QED BY <1>1, <2>1, <2>2 DEF Follows, IsState, ResumeInv, StatesInv
<1>4. stateFile' # NoFile /\ DiskGeneration' = DiskGeneration + 1
  BY <1>3 DEF DiskGeneration
<1>5. ledger' = ledger /\ rows' = <<>>
  BY DEF Tally
<1>6. NotAhead(ledger)' /\ NotAhead(rows)'
  <2>1. NotAhead(ledger)
    BY DEF ResumeInv, RecordsInv
  <2>2. NotAhead(ledger)'
    BY <1>1, <1>4, <1>5, <2>1 DEF NotAhead
  <2>3. <<>> \in Seq({}) /\ DOMAIN <<>> = {}
    OBVIOUS
  <2>. QED BY <1>5, <2>2, <2>3 DEF NotAhead, IsList
<1>7. Follows(st', st')
  BY <1>3 DEF Follows, IsState
<1>. QED BY <1>3, <1>4, <1>6, <1>7 DEF ResumeInv, StatesInv, MemoryFollowsDisk, RecordsInv

LEMMA StepResumes ==
  ASSUME ResumeInv, [Next]_vars, ~IsState(NoFile)
  PROVE  ResumeInv'
<1>1. CASE Start \/ Crash
  BY <1>1, StartResumes, CrashResumes
<1>2. CASE TruncateLedger \/ RewriteLedger \/ AppendRecord
  BY <1>2, LedgerResumes
<1>3. CASE Tally
  BY <1>3, TallyResumes
<1>4. CASE EvaluateGenome
  <2>1. pc # "down" /\ UNCHANGED <<stateFile, ledger, rows>>
    BY <1>4 DEF EvaluateGenome, disk
  <2>2. st' = st \/ \E f : st' = Anchor(st, f)
    BY <1>4 DEF EvaluateGenome
  <2>. QED BY <2>1, <2>2, WorkResumes
<1>5. CASE Crown
  <2>1. pc # "down" /\ UNCHANGED <<stateFile, ledger, rows>>
    BY <1>5 DEF Crown
  <2>2. st' = st \/ \E c, x : st' = [st EXCEPT !.champion = c, !.fitness = x]
    BY <1>5 DEF Crown
  <2>. QED BY <2>1, <2>2, WorkResumes
<1>6. CASE SaveSeed \/ Mutate \/ Cross \/ Restart \/ SaveGenome \/ UnlinkStale
  <2>1. pc # "down" /\ UNCHANGED <<stateFile, ledger, rows, st>>
    BY <1>6 DEF SaveSeed, Mutate, Cross, Restart, SaveGenome, UnlinkStale, disk
  <2>. QED BY <2>1, WorkResumes
<1>7. CASE UNCHANGED vars
  BY <1>7, SameDisk DEF vars, disk, memory, ResumeInv, StatesInv, MemoryFollowsDisk, RecordsInv
<1>. QED BY <1>1, <1>2, <1>3, <1>4, <1>5, <1>6, <1>7 DEF Next

-----------------------------------------------------------------------------

\* Memory follows the disk and no record is ahead of it.  (evolve.py:53-60, 284-296)
THEOREM ResumedRunsAgree == ~IsState(NoFile) /\ Spec => []ResumeInv
<1>. SUFFICES ASSUME ~IsState(NoFile) PROVE Spec => []ResumeInv
  OBVIOUS
<1>1. Init => ResumeInv
  BY FreshIsState, EmptyIsNotAhead
  DEF Init, ResumeInv, StatesInv, MemoryFollowsDisk, RecordsInv
<1>2. ResumeInv /\ [Next]_vars => ResumeInv'
  BY StepResumes
<1>. QED BY <1>1, <1>2, PTL DEF Spec

\* A crash between any two writes costs one generation at most.  (evolve.py:7)
THEOREM CrashesCostOneGeneration == ~IsState(NoFile) /\ Spec => []ResumesWhereItWas
<1>1. ResumeInv => ResumesWhereItWas
  BY DEF ResumeInv, RecordsInv, NotAhead, ResumesWhereItWas, DiskGeneration
<1>. QED BY <1>1, ResumedRunsAgree, PTL

-----------------------------------------------------------------------------
(* What a generation works on                                              *)

IsScore(s) == s.fitness \in Nat /\ s.ref \in Rates

Stages == {"score", "rewrite", "crown", "record", "mutate", "restart", "save", "unlink"}
Chosen == {"record", "mutate", "restart", "save", "unlink"}
Breeding == {"mutate", "restart", "save", "unlink"}

FilesInv ==
  /\ IsFiniteSet(files) /\ files \subseteq Genomes
  /\ \A f, g \in files : f.id = g.id => f = g
ListsInv == pop \in Seq(Genomes) /\ keep \in Seq(Genomes) /\ nxt \in Seq(Genomes)
PlaceInv ==
  /\ pc \in {"down", "seed", "evaluate", "tally", "done"} \cup Stages
  /\ at \in Nat \ {0}
  /\ pc # "down" => pop # <<>>
  /\ pc \in {"seed", "evaluate", "record"} => at <= Len(pop)
  /\ pc \in Breeding => nxt # <<>>
  /\ pc = "save" => at <= Len(nxt)
  /\ pc \in {"unlink", "tally"} => at = 1
ResultsInv ==
  /\ \A x \in DOMAIN results : results[x] \in Results
  /\ pc = "evaluate" => \A i \in 1..(at - 1) : pop[i].id \in DOMAIN results
  /\ pc \in Stages => \A i \in DOMAIN pop : pop[i].id \in DOMAIN results
  /\ pc \in Chosen => keep # <<>> /\ \A i \in DOMAIN keep : \E j \in DOMAIN pop : keep[i] = pop[j]
ScoresInv ==
  /\ IsScore(st) /\ (stateFile # NoFile => IsScore(stateFile))
  /\ pc # "down" /\ stateFile # NoFile => st.fitness >= stateFile.fitness

GenerationInv == FilesInv /\ ListsInv /\ PlaceInv /\ ResultsInv /\ ScoresInv

LEMMA ItemFacts ==
  ASSUME NEW T, NEW list \in Seq(T), NEW i \in Nat \ {0}, i <= Len(list)
  PROVE  i \in DOMAIN list /\ list[i] \in T
OBVIOUS

LEMMA NothingFacts == DOMAIN Nothing = {}
BY DEF Nothing

LEMMA EmptyList == \A T : <<>> \in Seq(T)
OBVIOUS

LEMMA FreshScore == IsScore(FreshState)
BY DEF IsScore, FreshState, NoRate, Rates

LEMMA AnchorScore ==
  ASSUME NEW s, IsState(s), IsScore(s), NEW f, \A x \in DOMAIN f : f[x] \in Results
  PROVE  IsScore(Anchor(s, f)) /\ Anchor(s, f).fitness = s.fitness
<1>1. CASE ~s.anchored /\ ControlId \in DOMAIN f
  <2>1. f[ControlId].c.rate \in Rates
    BY <1>1 DEF Results, Components
  <2>2. Anchor(s, f) = [s EXCEPT !.anchored = TRUE, !.ref = f[ControlId].c.rate]
    BY <1>1 DEF Anchor
  <2>. QED BY <2>1, <2>2 DEF IsState, Fields, IsScore
<1>2. CASE ~(~s.anchored /\ ControlId \in DOMAIN f)
  BY <1>2 DEF Anchor
<1>. QED BY <1>1, <1>2

\* A step that leaves the scores alone.
LEMMA SameScores ==
  ASSUME ScoresInv, pc # "down", UNCHANGED <<st, stateFile>>
  PROVE  ScoresInv'
BY DEF ScoresInv, IsScore

LEMMA StartGeneration ==
  ASSUME ResumeInv, GenerationInv, Start
  PROVE  GenerationInv'
<1>1. FilesInv'
  BY DEF Start, disk, GenerationInv, FilesInv
<1>2. pop' \in Seq(Genomes) /\ pop' # <<>>
  <2>1. CASE files = {}
    BY <2>1, SeedFacts DEF Start
  <2>2. CASE files # {}
    <3>1. pop' = Load(files)
      BY <2>2 DEF Start
    <3>2. \A f \in files : f.id \in Seq(Tags)
      BY DEF GenerationInv, FilesInv, Genomes, GenomeIds
    <3>3. Load(files) \in Seq(files) /\ Load(files) # <<>>
      BY <2>2, <3>2, LoadFacts DEF GenerationInv, FilesInv
    <3>4. files \subseteq Genomes
      BY DEF GenerationInv, FilesInv
    <3>. QED BY <3>1, <3>3, <3>4
  <2>. QED BY <2>1, <2>2
<1>3. /\ pc' \in {"seed", "evaluate"} /\ at' = 1 /\ results' = Nothing
      /\ keep' = <<>> /\ nxt' = <<>> /\ stateFile' = stateFile /\ st' = Resumed
  BY DEF Start, disk
<1>4. ListsInv'
  BY <1>2, <1>3, EmptyList DEF ListsInv
<1>5. PlaceInv'
  BY <1>2, <1>3 DEF PlaceInv, Breeding
<1>6. ResultsInv'
  BY <1>3, NothingFacts DEF ResultsInv, Stages, Chosen
<1>7. ScoresInv'
  <2>1. CASE stateFile = NoFile
    BY <1>3, <2>1, FreshScore DEF Resumed, ScoresInv, IsScore
  <2>2. CASE stateFile # NoFile
    BY <1>3, <2>2 DEF Resumed, GenerationInv, ScoresInv, IsScore
  <2>. QED BY <2>1, <2>2
<1>. QED BY <1>1, <1>4, <1>5, <1>6, <1>7 DEF GenerationInv

LEMMA CrashGeneration ==
  ASSUME GenerationInv, Crash
  PROVE  GenerationInv'
<1>1. FilesInv'
  BY DEF Crash, disk, GenerationInv, FilesInv
<1>2. /\ pc' = "down" /\ at' = 1 /\ results' = Nothing /\ pop' = <<>>
      /\ keep' = <<>> /\ nxt' = <<>> /\ stateFile' = stateFile /\ st' = FreshState
  BY DEF Crash, disk
<1>3. ListsInv'
  BY <1>2, EmptyList DEF ListsInv
<1>4. PlaceInv'
  BY <1>2 DEF PlaceInv, Breeding
<1>5. ResultsInv'
  BY <1>2, NothingFacts DEF ResultsInv, Stages, Chosen
<1>6. ScoresInv'
  BY <1>2, FreshScore DEF GenerationInv, ScoresInv, IsScore
<1>. QED BY <1>1, <1>3, <1>4, <1>5, <1>6 DEF GenerationInv

LEMMA SavedGenome ==
  ASSUME FilesInv, NEW g \in Genomes, files' = Save(files, g)
  PROVE  FilesInv'
<1>1. /\ IsFiniteSet(Save(files, g)) /\ Save(files, g) \subseteq files \cup {g}
      /\ \A f, h \in Save(files, g) : f.id = h.id => f = h
  BY SaveFacts DEF FilesInv
<1>. QED BY <1>1 DEF FilesInv

LEMMA SaveSeedGeneration ==
  ASSUME GenerationInv, SaveSeed
  PROVE  GenerationInv'
<1>1. pc = "seed" /\ files' = Save(files, pop[at]) /\ UNCHANGED <<stateFile, st, pop, results, keep, nxt>>
  BY DEF SaveSeed
<1>2. pop[at] \in Genomes
  BY <1>1, ItemFacts DEF GenerationInv, ListsInv, PlaceInv
<1>3. FilesInv'
  BY <1>1, <1>2, SavedGenome DEF GenerationInv
<1>4. ListsInv'
  BY <1>1 DEF GenerationInv, ListsInv
<1>5. PlaceInv'
  <2>1. Len(pop) \in Nat \ {0} /\ at \in Nat \ {0} /\ pop # <<>>
    BY <1>1 DEF GenerationInv, ListsInv, PlaceInv
  <2>. QED BY <1>1, <2>1 DEF SaveSeed, PlaceInv, Breeding
<1>6. ResultsInv'
  BY <1>1 DEF SaveSeed, GenerationInv, ResultsInv, Stages, Chosen
<1>7. ScoresInv'
  BY <1>1, SameScores DEF GenerationInv
<1>. QED BY <1>3, <1>4, <1>5, <1>6, <1>7 DEF GenerationInv

LEMMA EvaluateGeneration ==
  ASSUME ResumeInv, GenerationInv, EvaluateGenome
  PROVE  GenerationInv'
<1>. DEFINE id == pop[at].id
<1>1. PICK found, f :
             /\ found \in Measured[pop[at].genes]
             /\ f \in {Put(results, id, found)}
                      \cup (IF id \in DOMAIN results THEN {results} ELSE {})
             /\ IF at < Len(pop)
                THEN results' = f /\ at' = at + 1 /\ UNCHANGED <<pc, st>>
                ELSE /\ st' = Anchor(st, f)
                     /\ results' = [x \in DOMAIN f |-> Rescore(f[x], st'.ref)]
                     /\ at' = 1 /\ pc' = "score"
  BY DEF EvaluateGenome
<1>2. pc = "evaluate" /\ UNCHANGED <<disk, pop, keep, nxt>>
  BY DEF EvaluateGenome
<1>3. /\ pop \in Seq(Genomes) /\ at \in Nat \ {0} /\ at <= Len(pop) /\ Len(pop) \in Nat
      /\ \A i \in 1..(at - 1) : pop[i].id \in DOMAIN results
      /\ \A x \in DOMAIN results : results[x] \in Results
      /\ pop # <<>>
  BY <1>2 DEF GenerationInv, ListsInv, PlaceInv, ResultsInv
<1>4. found \in Results
  <2>1. pop[at].genes \in GeneSpace
    BY <1>3, ItemFacts DEF Genomes
  <2>. QED BY <1>1, <2>1, MeasuredType
<1>. HIDE DEF id
<1>5. /\ \A x \in DOMAIN f : f[x] \in Results
      /\ DOMAIN results \subseteq DOMAIN f /\ id \in DOMAIN f
  <2>1. CASE f = results /\ id \in DOMAIN results
    BY <1>3, <2>1
  <2>2. CASE f = Put(results, id, found)
    <3>1. /\ DOMAIN f = {id} \cup DOMAIN results /\ f[id] = found
          /\ \A x \in DOMAIN results : x # id => f[x] = results[x]
      BY <2>2 DEF Put
    <3>. QED BY <1>3, <1>4, <3>1
  <2>. QED BY <1>1, <2>1, <2>2
<1>6. \A i \in 1..at : pop[i].id \in DOMAIN f
  BY <1>3, <1>5 DEF id
<1>7. FilesInv' /\ ListsInv'
  BY <1>2 DEF GenerationInv, FilesInv, ListsInv, disk
<1>8. CASE at < Len(pop)
  <2>1. results' = f /\ at' = at + 1 /\ pc' = "evaluate" /\ UNCHANGED <<st, stateFile>>
    BY <1>1, <1>2, <1>8 DEF disk
  <2>2. PlaceInv'
    BY <1>2, <1>3, <1>8, <2>1 DEF PlaceInv, Breeding
  <2>3. ResultsInv'
    <3>1. (at + 1) - 1 = at
      BY <1>3
    <3>. QED BY <1>2, <1>5, <1>6, <2>1, <3>1 DEF ResultsInv, Stages, Chosen
  <2>4. ScoresInv'
    BY <1>2, <2>1, SameScores DEF GenerationInv
  <2>. QED BY <1>7, <2>2, <2>3, <2>4 DEF GenerationInv
<1>9. CASE ~(at < Len(pop))
  <2>1. /\ st' = Anchor(st, f) /\ results' = [x \in DOMAIN f |-> Rescore(f[x], st'.ref)]
        /\ at' = 1 /\ pc' = "score" /\ stateFile' = stateFile
    BY <1>1, <1>2, <1>9 DEF disk
  <2>2. at = Len(pop)
    BY <1>3, <1>9
  <2>3. IsScore(st') /\ st'.fitness = st.fitness
    BY <1>5, <2>1, AnchorScore DEF ResumeInv, StatesInv, GenerationInv, ScoresInv
  <2>4. st'.ref \in Rates
    BY <2>3 DEF IsScore
  <2>5. PlaceInv'
    BY <1>2, <1>3, <2>1 DEF PlaceInv, Breeding, Stages
  <2>6. ResultsInv'
    <3>1. \A x \in DOMAIN f : Rescore(f[x], st'.ref) \in Results
      BY <1>5, <2>4, RescoreType
    <3>2. DOMAIN results' = DOMAIN f /\ \A x \in DOMAIN f : results'[x] \in Results
      BY <2>1, <3>1
    <3>3. DOMAIN pop = 1..at
      BY <1>3, <2>2
    <3>. QED BY <1>2, <1>6, <2>1, <3>2, <3>3 DEF ResultsInv, Stages, Chosen
  <2>7. ScoresInv'
    BY <1>2, <2>1, <2>3 DEF GenerationInv, ScoresInv, IsScore
  <2>. QED BY <1>7, <2>5, <2>6, <2>7 DEF GenerationInv
<1>. QED BY <1>8, <1>9

LEMMA LedgerGeneration ==
  ASSUME GenerationInv, TruncateLedger \/ RewriteLedger
  PROVE  GenerationInv'
<1>1. /\ UNCHANGED <<files, stateFile, st, pop, results, keep, nxt, at>>
      /\ pc \in {"score", "rewrite"} /\ pc' \in {"crown", "rewrite"}
  BY DEF TruncateLedger, RewriteLedger, memory
<1>2. FilesInv' /\ ListsInv' /\ ScoresInv'
  BY <1>1, SameScores DEF GenerationInv, FilesInv, ListsInv
<1>3. PlaceInv' /\ ResultsInv'
  BY <1>1 DEF GenerationInv, PlaceInv, ResultsInv, Stages, Chosen, Breeding
<1>. QED BY <1>2, <1>3 DEF GenerationInv

LEMMA PopResults ==
  ASSUME GenerationInv, pc \in Stages
  PROVE  /\ pop \in Seq(Genomes) /\ pop # <<>>
         /\ \A i \in DOMAIN pop : pop[i] \in Genomes /\ results[pop[i].id] \in Results
BY DEF GenerationInv, ListsInv, PlaceInv, ResultsInv, Stages

LEMMA CrownGeneration ==
  ASSUME ResumeInv, GenerationInv, Crown
  PROVE  GenerationInv'
<1>1. /\ pc = "crown" /\ pc' = "record" /\ at' = 1
      /\ UNCHANGED <<files, stateFile, pop, results, nxt>>
  BY DEF Crown
<1>2. /\ pop \in Seq(Genomes) /\ pop # <<>>
      /\ \A i \in DOMAIN pop : pop[i] \in Genomes /\ results[pop[i].id] \in Results
  BY <1>1, PopResults DEF Stages
<1>3. /\ keep' \in Seq(Genomes) /\ keep' # <<>>
      /\ \A i \in DOMAIN keep' : \E j \in DOMAIN pop : keep'[i] = pop[j]
  BY <1>2, CrownFacts
<1>4. FilesInv' /\ ListsInv'
  BY <1>1, <1>3 DEF GenerationInv, FilesInv, ListsInv
<1>5. PlaceInv'
  BY <1>1, <1>2 DEF PlaceInv, Stages, Breeding
<1>6. ResultsInv'
  BY <1>1, <1>3 DEF GenerationInv, ResultsInv, Stages
<1>7. ScoresInv'
  <2>. DEFINE fitness == results[keep'[1].id].fitness
  <2>1. fitness \in Nat
    <3>1. 1 \in DOMAIN keep'
      BY <1>3
    <3>2. PICK j \in DOMAIN pop : keep'[1] = pop[j]
      BY <1>3, <3>1
    <3>. QED BY <1>2, <3>2 DEF Results
  <2>2. \/ st' = st
        \/ fitness > st.fitness /\ \E c : st' = [st EXCEPT !.champion = c, !.fitness = fitness]
    BY DEF Crown, Beats
  <2>3. IsScore(st') /\ st'.fitness >= st.fitness
    <3>. HIDE DEF fitness
    <3>1. IsState(st) /\ IsScore(st)
      BY DEF ResumeInv, StatesInv, GenerationInv, ScoresInv
    <3>2. CASE st' = st
      BY <3>1, <3>2 DEF IsScore
    <3>3. CASE fitness > st.fitness /\ \E c : st' = [st EXCEPT !.champion = c, !.fitness = fitness]
      BY <2>1, <3>1, <3>3 DEF IsScore, IsState, Fields
    <3>. QED BY <2>2, <3>2, <3>3
  <2>. QED BY <1>1, <2>3 DEF GenerationInv, ScoresInv, IsScore
<1>. QED BY <1>4, <1>5, <1>6, <1>7 DEF GenerationInv

LEMMA RecordGeneration ==
  ASSUME GenerationInv, AppendRecord
  PROVE  GenerationInv'
<1>1. /\ pc = "record" /\ UNCHANGED <<files, stateFile, st, pop, results, keep>>
      /\ IF at < Len(pop) THEN at' = at + 1 /\ UNCHANGED <<pc, nxt>>
                          ELSE at' = 1 /\ pc' = "mutate" /\ nxt' = keep
  BY DEF AppendRecord
<1>2. FilesInv' /\ ListsInv' /\ ScoresInv'
  <2>1. nxt' \in Seq(Genomes)
    BY <1>1 DEF GenerationInv, ListsInv
  <2>. QED BY <1>1, <2>1, SameScores DEF GenerationInv, FilesInv, ListsInv
<1>3. /\ at \in Nat \ {0} /\ Len(pop) \in Nat /\ pop # <<>> /\ keep # <<>>
  BY <1>1 DEF GenerationInv, PlaceInv, ListsInv, ResultsInv, Chosen
<1>4. PlaceInv'
  BY <1>1, <1>3 DEF GenerationInv, PlaceInv, Stages, Breeding
<1>5. ResultsInv'
  BY <1>1 DEF GenerationInv, ResultsInv, Stages, Chosen
<1>. QED BY <1>2, <1>4, <1>5 DEF GenerationInv

\* A breeding step.
LEMMA BreedGeneration ==
  ASSUME GenerationInv, pc \in {"mutate", "restart"}, pc' \in {"mutate", "restart", "save"},
         UNCHANGED <<files, stateFile, st, pop, results, keep>>,
         at' \in Nat \ {0}, pc' = "save" => at' = 1,
         nxt' = nxt \/ \E g \in Genomes : nxt' = Append(nxt, g)
  PROVE  GenerationInv'
<1>1. nxt \in Seq(Genomes) /\ nxt # <<>>
  BY DEF GenerationInv, ListsInv, PlaceInv, Breeding
<1>2. nxt' \in Seq(Genomes) /\ nxt' # <<>> /\ Len(nxt') \in Nat \ {0}
  <2>1. CASE nxt' = nxt
    BY <1>1, <2>1
  <2>2. CASE \E g \in Genomes : nxt' = Append(nxt, g)
    BY <1>1, <2>2
  <2>. QED BY <2>1, <2>2
<1>3. FilesInv' /\ ListsInv' /\ ScoresInv'
  BY <1>2, SameScores DEF GenerationInv, FilesInv, ListsInv
<1>4. PlaceInv' /\ ResultsInv'
  <2>1. PlaceInv'
    BY <1>2 DEF GenerationInv, PlaceInv, Stages
  <2>2. ResultsInv'
    BY DEF GenerationInv, ResultsInv, Stages, Chosen
  <2>. QED BY <2>1, <2>2
<1>. QED BY <1>3, <1>4 DEF GenerationInv

\* What may be added to the next population.
LEMMA MutateFacts ==
  ASSUME ResumeInv, GenerationInv, Mutate
  PROVE  \/ nxt' = nxt
         \/ \E g \in Genomes : /\ g.id = ChildId(st.generation + 1, keep[at])
                               /\ g.genes \notin Fingerprints(nxt) /\ nxt' = Append(nxt, g)
<1>1. keep[at] \in Genomes /\ st.generation + 1 \in Nat
  BY ItemFacts DEF Mutate, GenerationInv, ListsInv, PlaceInv, ResumeInv, StatesInv, IsState
<1>2. CASE nxt' = nxt
  BY <1>2
<1>3. CASE \E gene \in Genes, text \in Texts :
             nxt' = Bred(Child(keep[at], ChildId(st.generation + 1, keep[at]), gene, text))
  <2>1. PICK gene \in Genes, text \in Texts :
               nxt' = Bred(Child(keep[at], ChildId(st.generation + 1, keep[at]), gene, text))
    BY <1>3
  <2>. DEFINE g == Child(keep[at], ChildId(st.generation + 1, keep[at]), gene, text)
  <2>2. g \in Genomes /\ g.id = ChildId(st.generation + 1, keep[at])
    BY <1>1, ChildFacts
  <2>. HIDE DEF g
  <2>. QED BY <2>1, <2>2 DEF Bred, g
<1>. QED BY <1>2, <1>3 DEF Mutate

LEMMA CrossFacts ==
  ASSUME ResumeInv, GenerationInv, Cross
  PROVE  \/ nxt' = nxt
         \/ \E g \in Genomes : /\ g.id = CrossoverId(st.generation + 1)
                               /\ g.genes \notin Fingerprints(nxt) /\ nxt' = Append(nxt, g)
                               /\ Len(nxt) < Population - 1
<1>1. /\ keep \in Seq(Genomes) /\ keep # <<>> /\ st.generation + 1 \in Nat
      /\ \A i \in DOMAIN keep : results[keep[i].id] \in Results
  BY PopResults DEF Cross, GenerationInv, ListsInv, ResultsInv, ResumeInv, StatesInv, IsState,
                    Stages, Chosen
<1>2. PICK d \in DOMAIN keep : Densest = keep[d]
  BY <1>1, DensestFacts
<1>3. CASE nxt' = nxt
  BY <1>3
<1>4. CASE nxt' # nxt
  <2>1. PICK i \in DOMAIN keep :
               nxt' = Bred(Crossover(keep[i], Densest, CrossoverId(st.generation + 1),
                           IF keep[i] # Densest THEN "briefing_header" ELSE "fact_format"))
    BY <1>4 DEF Cross
  <2>2. Len(nxt) < Population - 1
    BY <1>4 DEF Cross
  <2>. DEFINE gene == IF keep[i] # Densest THEN "briefing_header" ELSE "fact_format"
              g == Crossover(keep[i], Densest, CrossoverId(st.generation + 1), gene)
  <2>3. gene \in Genes
    BY EvolutionAssumption
  <2>4. keep[i] \in Genomes /\ Densest \in Genomes
    BY <1>1, <1>2
  <2>. HIDE DEF gene
  <2>5. g \in Genomes /\ g.id = CrossoverId(st.generation + 1)
    BY <1>1, <2>3, <2>4, CrossoverFacts
  <2>6. nxt' = Bred(g)
    BY <2>1 DEF gene
  <2>. HIDE DEF g
  <2>. QED BY <2>2, <2>5, <2>6 DEF Bred
<1>. QED BY <1>3, <1>4

LEMMA RestartStepFacts ==
  ASSUME ResumeInv, GenerationInv, Restart
  PROVE  \/ nxt' = nxt
         \/ \E g \in Genomes : /\ g.id = RestartId(st.generation + 1)
                               /\ g.genes \notin Fingerprints(nxt) /\ nxt' = Append(nxt, g)
                               /\ Len(nxt) < Population
<1>. DEFINE free == {k \in DOMAIN Seeds : Seeds[k].genes \notin Fingerprints(nxt)}
            before == {d \in free \X free : d[1] < d[2]}
            pool == InOrder(free, before)
            turn == (st.generation % Len(pool)) + 1
            g == [Seeds[pool[turn]] EXCEPT !.id = RestartId(st.generation + 1)]
<1>1. nxt' = IF free # {} /\ Len(nxt) < Population THEN Append(nxt, g) ELSE nxt
  BY DEF Restart
<1>2. SUFFICES ASSUME free # {}, Len(nxt) < Population
               PROVE  g \in Genomes /\ g.id = RestartId(st.generation + 1)
                      /\ g.genes \notin Fingerprints(nxt)
  <2>. HIDE DEF free, g
  <2>. QED BY <1>1
<1>3. st.generation \in Nat /\ st.generation + 1 \in Nat
  BY DEF ResumeInv, StatesInv, IsState
<1>4. IsFiniteSet(free) /\ free \in SUBSET Nat
  <2>1. DOMAIN Seeds = 1..Len(SeedGenes) /\ Len(SeedGenes) \in Int /\ 1 \in Int
    BY SeedFacts, EvolutionAssumption
  <2>2. IsFiniteSet(DOMAIN Seeds)
    BY <2>1, FS_Interval
  <2>3. free \in SUBSET DOMAIN Seeds
    OBVIOUS
  <2>. HIDE DEF free
  <2>. QED BY <2>1, <2>2, <2>3, FS_Subset
<1>5. Orders(before, free)
  <2>1. \A i, j \in free : <<i, j>> \in before <=> i < j
    <3>. HIDE DEF free
    <3>. QED OBVIOUS
  <2>. HIDE DEF before, free
  <2>. QED BY <1>4, <2>1 DEF Orders
<1>6. pool \in Seq(free) /\ pool # <<>>
  <2>. HIDE DEF free, before
  <2>. QED BY <1>2, <1>4, <1>5, InOrderFacts
<1>7. pool[turn] \in free
  <2>. HIDE DEF free, pool
  <2>1. Len(pool) \in Nat \ {0}
    BY <1>6
  <2>2. turn \in 1..Len(pool)
    BY <1>3, <2>1
  <2>. QED BY <1>6, <2>2
<1>8. pool[turn] \in DOMAIN Seeds /\ Seeds[pool[turn]].genes \notin Fingerprints(nxt)
  BY <1>7
<1>. HIDE DEF pool, turn
<1>. QED BY <1>3, <1>8, RestartFacts

LEMMA BreedingGeneration ==
  ASSUME ResumeInv, GenerationInv, Mutate \/ Cross \/ Restart
  PROVE  GenerationInv'
<1>1. nxt' = nxt \/ \E g \in Genomes : nxt' = Append(nxt, g)
  BY MutateFacts, CrossFacts, RestartStepFacts
<1>2. /\ pc \in {"mutate", "restart"} /\ pc' \in {"mutate", "restart", "save"}
      /\ UNCHANGED <<files, stateFile, st, pop, results, keep>>
      /\ at' \in Nat \ {0} /\ (pc' = "save" => at' = 1)
  <2>1. at \in Nat
    BY DEF GenerationInv, PlaceInv
  <2>2. CASE Mutate
    BY <2>1, <2>2 DEF Mutate, disk
  <2>3. CASE Cross
    BY <2>3 DEF Cross, disk
  <2>4. CASE Restart
    <3>1. pc = "restart" /\ pc' = "save" /\ at' = 1 /\ UNCHANGED <<disk, st, pop, results, keep>>
      BY <2>4, Zenon DEF Restart
    <3>. QED BY <3>1 DEF disk
  <2>. QED BY <2>2, <2>3, <2>4
<1>. QED BY <1>1, <1>2, BreedGeneration

LEMMA SaveGeneration ==
  ASSUME GenerationInv, SaveGenome
  PROVE  GenerationInv'
<1>1. pc = "save" /\ files' = Save(files, nxt[at]) /\ UNCHANGED <<stateFile, st, pop, results, keep, nxt>>
  BY DEF SaveGenome
<1>2. nxt[at] \in Genomes
  BY <1>1, ItemFacts DEF GenerationInv, ListsInv, PlaceInv
<1>3. FilesInv'
  BY <1>1, <1>2, SavedGenome DEF GenerationInv
<1>4. ListsInv'
  BY <1>1 DEF GenerationInv, ListsInv
<1>5. PlaceInv'
  <2>1. Len(nxt) \in Nat \ {0} /\ at \in Nat \ {0} /\ nxt # <<>> /\ pop # <<>>
    BY <1>1 DEF GenerationInv, ListsInv, PlaceInv, Breeding
  <2>. QED BY <1>1, <2>1 DEF SaveGenome, PlaceInv, Breeding, Stages
<1>6. ResultsInv'
  BY <1>1 DEF SaveGenome, GenerationInv, ResultsInv, Stages, Chosen
<1>7. ScoresInv'
  BY <1>1, SameScores DEF GenerationInv
<1>. QED BY <1>3, <1>4, <1>5, <1>6, <1>7 DEF GenerationInv

LEMMA UnlinkGeneration ==
  ASSUME GenerationInv, UnlinkStale
  PROVE  GenerationInv'
<1>. DEFINE stale == {f \in files : f.id \notin Ids(nxt)}
<1>1. /\ pc = "unlink" /\ UNCHANGED <<stateFile, st, results, keep, nxt, at>>
      /\ \/ pc' = "tally" /\ pop' = FirstOf(nxt, Population) /\ files' = files
         \/ (\E f \in stale : files' = files \ {f}) /\ UNCHANGED <<pc, pop>>
  BY DEF UnlinkStale
<1>2. FilesInv'
  <2>1. CASE files' = files
    BY <2>1 DEF GenerationInv, FilesInv
  <2>2. CASE \E f \in stale : files' = files \ {f}
    <3>1. PICK f \in stale : files' = files \ {f}
      BY <2>2
    <3>2. IsFiniteSet(files \ {f})
      BY FS_RemoveElement DEF GenerationInv, FilesInv
    <3>. QED BY <3>1, <3>2 DEF GenerationInv, FilesInv
  <2>. QED BY <1>1, <2>1, <2>2
<1>3. nxt \in Seq(Genomes) /\ nxt # <<>> /\ pop \in Seq(Genomes) /\ pop # <<>> /\ at = 1
  BY <1>1 DEF GenerationInv, ListsInv, PlaceInv, Breeding
<1>4. FirstOf(nxt, Population) \in Seq(Genomes) /\ FirstOf(nxt, Population) # <<>>
  BY <1>3, FirstOfFacts, EvolutionAssumption
<1>5. ListsInv' /\ PlaceInv'
  BY <1>1, <1>3, <1>4 DEF GenerationInv, ListsInv, PlaceInv, Breeding, Stages
<1>6. ResultsInv'
  BY <1>1 DEF GenerationInv, ResultsInv, Stages, Chosen
<1>7. ScoresInv'
  BY <1>1, SameScores DEF GenerationInv
<1>. QED BY <1>2, <1>5, <1>6, <1>7 DEF GenerationInv

LEMMA SubjectFacts ==
  ASSUME GenerationInv, pc = "tally"
  PROVE  HoldoutSubject \in Genomes
<1>. DEFINE here == {i \in DOMAIN pop : pop[i].id = st.champion}
<1>1. pop \in Seq(Genomes) /\ pop # <<>> /\ DOMAIN pop = 1..Len(pop) /\ Len(pop) \in Nat \ {0}
  BY DEF GenerationInv, ListsInv, PlaceInv
<1>2. HoldoutSubject = IF here = {} THEN pop[1] ELSE pop[Min(here)]
  BY DEF HoldoutSubject
<1>3. here \in SUBSET DOMAIN pop
  OBVIOUS
<1>. HIDE DEF here
<1>4. IsFiniteSet(here) /\ here \in SUBSET Int
  <2>1. Len(pop) \in Int /\ 1 \in Int
    BY <1>1
  <2>2. IsFiniteSet(DOMAIN pop)
    BY <1>1, <2>1, FS_Interval
  <2>. QED BY <1>1, <1>3, <2>2, FS_Subset
<1>5. here # {} => Min(here) \in here
  BY <1>4, LeastNumber
<1>. QED BY <1>1, <1>2, <1>3, <1>5

LEMMA TallyGeneration ==
  ASSUME ResumeInv, GenerationInv, Tally
  PROVE  /\ GenerationInv'
         /\ stateFile # NoFile => stateFile'.fitness >= stateFile.fitness
<1>. DEFINE next == [st EXCEPT !.generation = @ + 1]
<1>1. /\ pc = "tally" /\ results' = Nothing /\ keep' = <<>> /\ nxt' = <<>>
      /\ UNCHANGED <<files, pop, at>>
  BY DEF Tally
<1>2. IsState(next) /\ IsScore(next) /\ next.fitness = st.fitness
  BY DEF ResumeInv, StatesInv, GenerationInv, ScoresInv, IsScore, IsState, Fields
<1>. HIDE DEF next
<1>3. PICK before, s : /\ Tallied(before, s)
                       /\ \/ s = next
                          \/ \E found \in HeldOut[HoldoutSubject.genes] :
                               s = Checked(next, HoldoutSubject,
                                           [id \in {HoldoutSubject.id} |-> found])
  BY DEF Tally, next
<1>4. IsState(s) /\ IsScore(s) /\ s.fitness = st.fitness
  <2>1. CASE s = next
    BY <1>2, <2>1
  <2>2. CASE s # next
    <3>1. PICK found \in HeldOut[HoldoutSubject.genes] :
                 s = Checked(next, HoldoutSubject, [id \in {HoldoutSubject.id} |-> found])
      BY <1>3, <2>2
    <3>. DEFINE f == [id \in {HoldoutSubject.id} |-> found]
    <3>2. HoldoutSubject.genes \in GeneSpace
      BY <1>1, SubjectFacts DEF Genomes
    <3>3. found \in Results
      BY <3>2, MeasuredType
    <3>4. \A x \in DOMAIN f : f[x] \in Results
      BY <3>3
    <3>5. PICK gaps : s = [Anchor(next, f) EXCEPT !.gaps = gaps]
      BY <3>1 DEF Checked
    <3>. HIDE DEF f
    <3>6. IsScore(Anchor(next, f)) /\ Anchor(next, f).fitness = next.fitness
      BY <1>2, <3>4, AnchorScore
    <3>7. IsState(Anchor(next, f))
      BY <1>2, AnchorFacts
    <3>. QED BY <1>2, <3>5, <3>6, <3>7 DEF IsScore, IsState, Fields
  <2>. QED BY <2>1, <2>2
<1>5. /\ \E why : st' = [s EXCEPT !.stopped = why]
      /\ stateFile' = st' /\ pc' \in {"done", "evaluate"}
  BY <1>3 DEF Tallied, SaveState
<1>6. IsScore(st') /\ st'.fitness = st.fitness
  BY <1>4, <1>5 DEF IsScore, IsState, Fields
<1>7. ScoresInv'
  BY <1>5, <1>6 DEF ScoresInv, IsScore
<1>8. stateFile # NoFile => stateFile'.fitness >= stateFile.fitness
  BY <1>1, <1>5, <1>6 DEF GenerationInv, ScoresInv
<1>9. FilesInv' /\ ListsInv'
  BY <1>1, EmptyList DEF GenerationInv, FilesInv, ListsInv
<1>10. PlaceInv'
  <2>1. pop # <<>> /\ at = 1 /\ Len(pop) \in Nat \ {0}
    BY <1>1 DEF GenerationInv, ListsInv, PlaceInv
  <2>. QED BY <1>1, <1>5, <2>1 DEF PlaceInv, Breeding
<1>11. ResultsInv'
  <2>1. at = 1
    BY <1>1 DEF GenerationInv, PlaceInv
  <2>. QED BY <1>1, <1>5, <2>1, NothingFacts DEF ResultsInv, Stages, Chosen
<1>. QED BY <1>7, <1>8, <1>9, <1>10, <1>11 DEF GenerationInv

LEMMA StepGeneration ==
  ASSUME ResumeInv, GenerationInv, [Next]_vars
  PROVE  GenerationInv'
<1>1. CASE UNCHANGED vars
  BY <1>1 DEF vars, disk, memory, GenerationInv, FilesInv, ListsInv, PlaceInv, ResultsInv,
              ScoresInv, IsScore
<1>. QED BY <1>1, StartGeneration, SaveSeedGeneration, EvaluateGeneration, LedgerGeneration,
            CrownGeneration, RecordGeneration, BreedingGeneration, SaveGeneration,
            UnlinkGeneration, TallyGeneration, CrashGeneration DEF Next

LEMMA InitGeneration == Init => GenerationInv
<1>. SUFFICES ASSUME Init PROVE GenerationInv
  OBVIOUS
<1>1. FilesInv /\ ListsInv
  BY FS_EmptySet, EmptyList DEF Init, FilesInv, ListsInv
<1>2. PlaceInv /\ ResultsInv
  BY NothingFacts DEF Init, PlaceInv, ResultsInv, Stages, Chosen, Breeding
<1>3. ScoresInv
  BY FreshScore DEF Init, ScoresInv
<1>. QED BY <1>1, <1>2, <1>3 DEF GenerationInv

-----------------------------------------------------------------------------
(* The ledger                                                              *)

RecordFields == {"gen", "genome", "verdict", "fitness", "gene", "child", "outcome"}
\* A record names the child that is to test its prediction.
IsRecord(r) == /\ DOMAIN r = RecordFields /\ r.fitness \in Nat
               /\ BredFrom(r.child, r.genome)
AreRecords(list) == \A i \in DOMAIN list : IsRecord(list[i])
LedgerInv == AreRecords(ledger) /\ AreRecords(rows)

LEMMA ResolveFacts ==
  ASSUME NEW row, IsRecord(row)
  PROVE  IsRecord(Resolve(row)) /\ Resolve(row).fitness = row.fitness
<1>1. CASE Resolve(row) = row
  BY <1>1
<1>2. CASE Resolve(row) # row
  <2>1. PICK o : Resolve(row) = [row EXCEPT !.outcome = o]
    BY <1>2 DEF Resolve
  <2>. QED BY <2>1 DEF IsRecord, RecordFields
<1>. QED BY <1>1, <1>2

LEMMA RecordFacts ==
  ASSUME ResumeInv, GenerationInv, pc = "record", NEW gene
  PROVE  /\ IsRecord(Record(pop[at], gene))
         /\ Record(pop[at], gene).fitness = results[pop[at].id].fitness
         /\ at \in DOMAIN pop
<1>1. /\ pop \in Seq(Genomes) /\ \A i \in DOMAIN pop : results[pop[i].id] \in Results
  BY PopResults DEF Stages
<1>2. at \in DOMAIN pop /\ pop[at] \in Genomes
  BY <1>1, ItemFacts DEF GenerationInv, PlaceInv
<1>3. results[pop[at].id].fitness \in Nat
  BY <1>1, <1>2 DEF Results
<1>4. st.generation + 1 \in Nat
  BY DEF ResumeInv, StatesInv, IsState
<1>5. BredFrom(ChildId(st.generation + 1, pop[at]), pop[at].id)
  BY <1>2, <1>4 DEF BredFrom, ChildId, Genomes
<1>. QED BY <1>2, <1>3, <1>5 DEF Record, IsRecord, RecordFields

\* What a step does to the ledger and to the rows read from it.
LEMMA LedgerSteps ==
  ASSUME ResumeInv, GenerationInv, [Next]_vars
  PROVE  /\ \/ ledger' = ledger
            \/ ledger' = <<>>
            \/ ledger' = rows
            \/ pc = "record" /\ \E gene : ledger' = Append(ledger, Record(pop[at], gene))
         /\ \/ rows' = rows
            \/ rows' = <<>>
            \/ rows' = [i \in DOMAIN ledger |-> Resolve(ledger[i])]
<1>1. CASE TruncateLedger
  BY <1>1 DEF TruncateLedger
<1>2. CASE RewriteLedger
  BY <1>2 DEF RewriteLedger, memory
<1>3. CASE AppendRecord
  BY <1>3 DEF AppendRecord
<1>4. CASE Start \/ Crash \/ Tally
  BY <1>4 DEF Start, Crash, Tally, disk
<1>5. CASE SaveSeed \/ EvaluateGenome \/ Crown \/ SaveGenome \/ UnlinkStale
  BY <1>5 DEF SaveSeed, EvaluateGenome, Crown, SaveGenome, UnlinkStale, disk
<1>6. CASE Mutate \/ Cross
  BY <1>6 DEF Mutate, Cross, disk
<1>7. CASE Restart
  <2>1. UNCHANGED disk /\ rows' = rows
    BY <1>7, Zenon DEF Restart
  <2>. QED BY <2>1 DEF disk
<1>8. CASE UNCHANGED vars
  BY <1>8 DEF vars, disk, memory
<1>. QED BY <1>1, <1>2, <1>3, <1>4, <1>5, <1>6, <1>7, <1>8 DEF Next

LEMMA StepLedger ==
  ASSUME ResumeInv, GenerationInv, LedgerInv, [Next]_vars
  PROVE  LedgerInv'
<1>1. AreRecords(<<>>)
  BY DEF AreRecords
<1>2. AreRecords([i \in DOMAIN ledger |-> Resolve(ledger[i])])
  BY ResolveFacts DEF LedgerInv, AreRecords
<1>3. AreRecords(rows')
  BY <1>1, <1>2, LedgerSteps DEF LedgerInv
<1>4. ASSUME NEW gene, pc = "record", ledger' = Append(ledger, Record(pop[at], gene))
      PROVE  AreRecords(ledger')
  <2>1. PICK S : ledger \in Seq(S)
    BY DEF ResumeInv, RecordsInv, NotAhead, IsList
  <2>. DEFINE r == Record(pop[at], gene)
  <2>2. IsRecord(r)
    BY <1>4, RecordFacts
  <2>. HIDE DEF r
  <2>3. ledger \in Seq(S \cup {r}) /\ ledger' = Append(ledger, r)
    BY <1>4, <2>1 DEF r
  <2>4. \A i \in DOMAIN Append(ledger, r) :
          Append(ledger, r)[i] = r \/ (i \in DOMAIN ledger /\ Append(ledger, r)[i] = ledger[i])
    BY <2>3
  <2>. QED BY <2>2, <2>3, <2>4 DEF LedgerInv, AreRecords
<1>5. AreRecords(ledger')
  BY <1>1, <1>4, LedgerSteps DEF LedgerInv
<1>. QED BY <1>3, <1>5 DEF LedgerInv, AreRecords, IsRecord

\* Whatever dies and resumes, a generation works on genomes that the directory may
\* hold: one file per id, a result for all that is scored or kept, a fitness that is
\* a number, and records whose child is one of their genome.  (evolve.py:100-245)
THEOREM GenerationsAreSound ==
  ~IsState(NoFile) /\ Spec => [](ResumeInv /\ GenerationInv /\ LedgerInv)
<1>. SUFFICES ASSUME ~IsState(NoFile)
              PROVE  Spec => [](ResumeInv /\ GenerationInv /\ LedgerInv)
  OBVIOUS
<1>1. Init => GenerationInv /\ LedgerInv
  BY InitGeneration DEF Init, LedgerInv, AreRecords
<1>2. ResumeInv /\ GenerationInv /\ LedgerInv /\ [Next]_vars => GenerationInv' /\ LedgerInv'
  BY StepGeneration, StepLedger
<1>3. Spec => []ResumeInv
  BY ResumedRunsAgree
<1>. QED BY <1>1, <1>2, <1>3, PTL DEF Spec

\* The genome that resolves a prediction descends from the one the record is about,
\* also when the record was made by a process that died since: the id of a child
\* tells its parent, as far as it is not cut.  (evolve.py:180, 215; ledger.py:72-75)
THEOREM PredictionsNameChildren ==
  ~IsState(NoFile) /\ Spec => []PredictionNamesItsChild
<1>1. GenerationInv /\ LedgerInv => PredictionNamesItsChild
  <2>. SUFFICES ASSUME GenerationInv, LedgerInv, NEW i \in DOMAIN ledger,
                       NEW g \in files \cup ToSet(pop),
                       Len(ledger[i].genome) <= 3, g.id = ledger[i].child
                PROVE  g.parent = ledger[i].genome
    BY DEF PredictionNamesItsChild
  <2>1. g \in Genomes
    BY DEF GenerationInv, FilesInv, ListsInv, ToSet
  <2>2. BredFrom(g.id, ledger[i].genome)
    BY DEF LedgerInv, AreRecords, IsRecord
  <2>3. ledger[i].genome \in GenomeIds
    BY <2>2 DEF BredFrom
  <2>. QED BY <2>1, <2>2, <2>3, IdsTellParents
<1>. QED BY <1>1, GenerationsAreSound, PTL

\* state.json goes on from generation to generation, keeps its density reference and
\* never forgets a better champion, over any crashes.  (evolve.py:53-60, 284-296)
THEOREM StateOnlyGrows == ~IsState(NoFile) /\ Spec => StateNeverGoesBack
<1>. SUFFICES ASSUME ~IsState(NoFile) PROVE Spec => StateNeverGoesBack
  OBVIOUS
<1>1. ResumeInv /\ GenerationInv /\ [Next]_vars =>
        [stateFile # NoFile =>
           /\ stateFile' # NoFile
           /\ stateFile'.generation >= stateFile.generation
           /\ stateFile'.fitness >= stateFile.fitness
           /\ stateFile.anchored => stateFile'.ref = stateFile.ref]_vars
  <2>. SUFFICES ASSUME ResumeInv, GenerationInv, [Next]_vars, stateFile # NoFile
                PROVE  /\ stateFile' # NoFile
                       /\ stateFile'.generation >= stateFile.generation
                       /\ stateFile'.fitness >= stateFile.fitness
                       /\ stateFile.anchored => stateFile'.ref = stateFile.ref
    OBVIOUS
  <2>1. CASE Tally
    <3>1. stateFile' # NoFile /\ Follows(stateFile', stateFile)
      BY <2>1, TallyResumes
    <3>2. stateFile'.fitness >= stateFile.fitness
      BY <2>1, TallyGeneration
    <3>. QED BY <3>1, <3>2 DEF Follows
  <2>2. CASE ~Tally
    <3>1. stateFile' = stateFile
      BY <2>2 DEF Next, vars, disk, memory, Start, SaveSeed, EvaluateGenome, TruncateLedger,
                  RewriteLedger, Crown, AppendRecord, Mutate, Cross, Restart, SaveGenome,
                  UnlinkStale, Crash
    <3>2. stateFile.generation \in Nat /\ stateFile.fitness \in Nat
      BY DEF ResumeInv, StatesInv, IsState, GenerationInv, ScoresInv, IsScore
    <3>. QED BY <3>1, <3>2
  <2>. QED BY <2>1, <2>2
<1>. QED BY <1>1, GenerationsAreSound, PTL DEF Spec, StateNeverGoesBack

-----------------------------------------------------------------------------
(* The champion                                                            *)

IsCrown(c) == DOMAIN c = {"genome", "fitness"}
Below(list) == \A i \in DOMAIN list : list[i].fitness <= st.fitness
CrownIsChampion ==
  st.champion # NoId => crown # NoFile /\ crown.genome.id = st.champion /\ crown.fitness = st.fitness
ChampionInv ==
  /\ crashes \in Nat
  /\ Undisturbed =>
       /\ pc = "down" => ledger = <<>> /\ stateFile = NoFile
       /\ Below(ledger) /\ Below(rows)
       /\ CrownIsChampion
       /\ pc = "record" => \A i \in DOMAIN pop : results[pop[i].id].fitness <= st.fitness

LEMMA AnchorChampion ==
  ASSUME NEW s, IsState(s), NEW f
  PROVE  Anchor(s, f).champion = s.champion /\ Anchor(s, f).fitness = s.fitness
BY DEF Anchor, IsState, Fields

\* Steps that record nothing and crown nobody.
LEMMA SameChampion ==
  ASSUME ChampionInv, pc # "down", pc' \notin {"down", "record"}, UNCHANGED <<ledger, crown, crashes>>,
         rows' = rows \/ rows' = <<>>, st'.fitness = st.fitness, st'.champion = st.champion
  PROVE  ChampionInv'
<1>1. DOMAIN <<>> = {}
  OBVIOUS
<1>. QED BY <1>1 DEF ChampionInv, Undisturbed, Below, CrownIsChampion

LEMMA TallyChampion ==
  ASSUME ResumeInv, Tally
  PROVE  /\ st'.fitness = st.fitness /\ st'.champion = st.champion
         /\ st'.generation = st.generation + 1
<1>. DEFINE next == [st EXCEPT !.generation = @ + 1]
<1>1. IsState(next) /\ next.fitness = st.fitness /\ next.champion = st.champion
      /\ next.generation = st.generation + 1
  BY DEF ResumeInv, StatesInv, IsState, Fields
<1>. HIDE DEF next
<1>2. PICK before, s : /\ Tallied(before, s)
                       /\ \/ s = next
                          \/ \E subject, f : s = Checked(next, subject, f)
  BY DEF Tally, next
<1>3. IsState(s) /\ s.fitness = st.fitness /\ s.champion = st.champion
      /\ s.generation = st.generation + 1
  <2>1. CASE s = next
    BY <1>1, <2>1
  <2>2. CASE \E subject, f : s = Checked(next, subject, f)
    <3>1. PICK subject, f : s = Checked(next, subject, f)
      BY <2>2
    <3>2. PICK gaps : s = [Anchor(next, f) EXCEPT !.gaps = gaps]
      BY <3>1 DEF Checked
    <3>3. /\ IsState(Anchor(next, f)) /\ Anchor(next, f).generation = next.generation
          /\ Anchor(next, f).champion = next.champion /\ Anchor(next, f).fitness = next.fitness
      BY <1>1, AnchorFacts, AnchorChampion
    <3>. QED BY <1>1, <3>2, <3>3 DEF IsState, Fields
  <2>. QED BY <1>2, <2>1, <2>2
<1>4. \E why : st' = [s EXCEPT !.stopped = why]
  BY <1>2 DEF Tallied
<1>. QED BY <1>3, <1>4 DEF IsState, Fields

LEMMA StepChampion ==
  ASSUME ResumeInv, GenerationInv, LedgerInv, ChampionInv, [Next]_vars, ~IsCrown(NoFile)
  PROVE  ChampionInv'
<1>1. CASE Start
  <2>1. UNCHANGED <<ledger, crown, stateFile, crashes>> /\ rows' = <<>> /\ st' = Resumed
        /\ pc' \notin {"down", "record"} /\ pc = "down"
    BY <1>1 DEF Start, disk
  <2>2. Undisturbed => st' = FreshState /\ ledger = <<>>
    BY <2>1 DEF ChampionInv, Resumed
  <2>3. FreshState.champion = NoId
    BY DEF FreshState
  <2>. QED BY <2>1, <2>2, <2>3 DEF ChampionInv, Undisturbed, Below, CrownIsChampion
<1>2. CASE Crash
  <2>1. crashes' = crashes + 1
    BY <1>2 DEF Crash
  <2>. QED BY <2>1 DEF ChampionInv, Undisturbed
<1>3. CASE SaveSeed \/ Mutate \/ Cross \/ SaveGenome \/ UnlinkStale
  <2>1. /\ pc # "down" /\ pc' \notin {"down", "record"}
        /\ UNCHANGED <<ledger, crown, crashes, rows, st>>
    BY <1>3 DEF SaveSeed, Mutate, Cross, SaveGenome, UnlinkStale, disk
  <2>. QED BY <2>1, SameChampion
<1>4. CASE Restart
  <2>1. pc = "restart" /\ pc' = "save" /\ UNCHANGED <<disk, crashes, rows, st>>
    BY <1>4, Zenon DEF Restart
  <2>2. pc # "down" /\ pc' \notin {"down", "record"} /\ UNCHANGED <<ledger, crown, crashes>>
    BY <2>1 DEF disk
  <2>. QED BY <2>1, <2>2, SameChampion
<1>5. CASE EvaluateGenome
  <2>1. /\ pc = "evaluate" /\ pc' \in {"evaluate", "score"}
        /\ UNCHANGED <<ledger, crown, crashes, rows>>
        /\ (st' = st \/ \E f : st' = Anchor(st, f))
    BY <1>5 DEF EvaluateGenome, disk
  <2>2. st'.fitness = st.fitness /\ st'.champion = st.champion
    BY <2>1, AnchorChampion DEF ResumeInv, StatesInv
  <2>. QED BY <2>1, <2>2, SameChampion
<1>6. CASE TruncateLedger
  <2>1. /\ pc = "score" /\ pc' \in {"crown", "rewrite"} /\ UNCHANGED <<crown, crashes, st>>
        /\ rows' = [i \in DOMAIN ledger |-> Resolve(ledger[i])]
        /\ ledger' = ledger \/ ledger' = <<>>
    BY <1>6 DEF TruncateLedger
  <2>2. \A i \in DOMAIN ledger : Resolve(ledger[i]).fitness = ledger[i].fitness
    BY ResolveFacts DEF LedgerInv, AreRecords
  <2>. QED BY <2>1, <2>2 DEF ChampionInv, Undisturbed, Below, CrownIsChampion
<1>7. CASE RewriteLedger
  <2>1. pc = "rewrite" /\ pc' = "crown" /\ UNCHANGED <<crown, crashes, st, rows>> /\ ledger' = rows
    BY <1>7 DEF RewriteLedger, memory
  <2>. QED BY <2>1 DEF ChampionInv, Undisturbed, Below, CrownIsChampion
<1>8. CASE Crown
  <2>. DEFINE best == keep'[1]
              fitness == results[best.id].fitness
  <2>1. /\ pc = "crown" /\ pc' = "record" /\ UNCHANGED <<ledger, rows, crashes, pop, results>>
        /\ IF fitness > st.fitness
           THEN /\ st' = [st EXCEPT !.champion = best.id, !.fitness = fitness]
                /\ crown' = [genome |-> best, fitness |-> fitness]
           ELSE UNCHANGED <<st, crown>>
    BY <1>8 DEF Crown, Beats
  <2>2. /\ pop \in Seq(Genomes) /\ pop # <<>>
        /\ \A i \in DOMAIN pop : pop[i] \in Genomes /\ results[pop[i].id] \in Results
    BY <2>1, PopResults DEF Stages
  <2>3. /\ keep' # <<>> /\ keep' \in Seq(Genomes)
        /\ \A i \in DOMAIN keep' : \E j \in DOMAIN pop : keep'[i] = pop[j]
        /\ \A i \in DOMAIN pop : results[pop[i].id].fitness <= fitness
    BY <1>8, <2>2, CrownFacts
  <2>4. 1 \in DOMAIN keep'
    BY <2>3
  <2>5. PICK j \in DOMAIN pop : best = pop[j]
    BY <2>3, <2>4
  <2>6. /\ \A i \in DOMAIN pop : results[pop[i].id].fitness \in Nat
        /\ \A i \in DOMAIN ledger : ledger[i].fitness \in Nat
        /\ \A i \in DOMAIN rows : rows[i].fitness \in Nat
        /\ fitness \in Nat /\ IsState(st) /\ st.fitness \in Nat
    BY <2>2, <2>5 DEF Results, LedgerInv, AreRecords, IsRecord, ResumeInv, StatesInv,
                      GenerationInv, ScoresInv, IsScore
  <2>. HIDE DEF best, fitness
  <2>7. CASE fitness > st.fitness
    <3>1. /\ st'.champion = best.id /\ st'.fitness = fitness
          /\ crown' = [genome |-> best, fitness |-> fitness]
      BY <2>1, <2>6, <2>7 DEF IsState, Fields
    <3>2. crown' # NoFile /\ crown'.genome.id = best.id /\ crown'.fitness = fitness
      BY <3>1 DEF IsCrown
    <3>3. CrownIsChampion'
      BY <3>1, <3>2 DEF CrownIsChampion
    <3>4. Undisturbed => Below(ledger)' /\ Below(rows)'
      BY <2>1, <2>6, <2>7, <3>1 DEF ChampionInv, Below
    <3>5. \A i \in DOMAIN pop' : results'[pop'[i].id].fitness <= st'.fitness
      BY <2>1, <2>3, <3>1
    <3>. QED BY <2>1, <3>3, <3>4, <3>5 DEF ChampionInv, Undisturbed
  <2>8. CASE ~(fitness > st.fitness)
    <3>1. \A i \in DOMAIN pop : results[pop[i].id].fitness <= st.fitness
      BY <2>3, <2>6, <2>8
    <3>2. UNCHANGED <<st, crown>>
      BY <2>1, <2>8
    <3>. QED BY <2>1, <3>1, <3>2 DEF ChampionInv, Undisturbed, Below, CrownIsChampion
  <2>. QED BY <2>7, <2>8
<1>9. CASE AppendRecord
  <2>1. /\ pc = "record" /\ pc' \in {"record", "mutate"}
        /\ UNCHANGED <<rows, crown, crashes, st, pop, results>>
        /\ \E gene : ledger' = Append(ledger, Record(pop[at], gene))
    BY <1>9 DEF AppendRecord
  <2>2. PICK gene : ledger' = Append(ledger, Record(pop[at], gene))
    BY <2>1
  <2>3. PICK S : ledger \in Seq(S)
    BY DEF ResumeInv, RecordsInv, NotAhead, IsList
  <2>. DEFINE r == Record(pop[at], gene)
  <2>4. Undisturbed => r.fitness <= st.fitness
    BY <2>1, RecordFacts DEF ChampionInv
  <2>. HIDE DEF r
  <2>5. ledger \in Seq(S \cup {r}) /\ ledger' = Append(ledger, r)
    BY <2>2, <2>3 DEF r
  <2>6. \A i \in DOMAIN Append(ledger, r) :
          Append(ledger, r)[i] = r \/ (i \in DOMAIN ledger /\ Append(ledger, r)[i] = ledger[i])
    BY <2>5
  <2>7. Undisturbed => Below(ledger)'
    BY <2>1, <2>4, <2>5, <2>6 DEF ChampionInv, Below
  <2>. QED BY <2>1, <2>7 DEF ChampionInv, Undisturbed, Below, CrownIsChampion
<1>10. CASE Tally
  <2>1. /\ pc = "tally" /\ pc' \notin {"down", "record"} /\ rows' = <<>>
        /\ UNCHANGED <<ledger, crown, crashes>>
    BY <1>10 DEF Tally, Tallied
  <2>2. st'.fitness = st.fitness /\ st'.champion = st.champion
    BY <1>10, TallyChampion
  <2>. QED BY <2>1, <2>2, SameChampion
<1>11. CASE UNCHANGED vars
  BY <1>11 DEF vars, disk, memory, ChampionInv, Undisturbed, Below, CrownIsChampion
<1>. QED BY <1>1, <1>2, <1>3, <1>4, <1>5, <1>6, <1>7, <1>8, <1>9, <1>10, <1>11 DEF Next

\* Without a crash, no genome on record did better than the champion, and
\* champion.yaml is the genome that state.json names: the best of a generation is
\* crowned before its records are written.  (evolve.py:161-181)
THEOREM ChampionsAreBest ==
  ~IsState(NoFile) /\ ~IsCrown(NoFile) /\ Spec => []ChampionIsBest
<1>. SUFFICES ASSUME ~IsState(NoFile), ~IsCrown(NoFile) PROVE Spec => []ChampionIsBest
  OBVIOUS
<1>1. Init => ChampionInv
  BY DEF Init, ChampionInv, Undisturbed, Below, CrownIsChampion, FreshState
<1>2. ResumeInv /\ GenerationInv /\ LedgerInv /\ ChampionInv /\ [Next]_vars => ChampionInv'
  BY StepChampion
<1>3. ChampionInv => ChampionIsBest
  BY DEF ChampionInv, ChampionIsBest, Below, CrownIsChampion
<1>4. Spec => [](ResumeInv /\ GenerationInv /\ LedgerInv)
  BY GenerationsAreSound
<1>. QED BY <1>1, <1>2, <1>3, <1>4, PTL DEF Spec

-----------------------------------------------------------------------------
(* The population                                                          *)

\* An id of the generations up to this one: each of them adds a tag
Dated(id, gen) == Len(id) <= gen + 1 /\ (id[1][1] = "g" => id[1][2] <= gen)
AllDated(list, gen) == \A i \in DOMAIN list : Dated(list[i].id, gen)
OneId(list) == \A i, j \in DOMAIN list : list[i].id = list[j].id => i = j
OneGenome(list) == \A i, j \in DOMAIN list : list[i].genes = list[j].genes => i = j

\* What a generation starts from
SoundPop(list, dir, gen) ==
  /\ OneId(list) /\ OneGenome(list) /\ AllDated(list, gen)
  /\ gen > 0 => Len(list) <= Population
  /\ dir = ToSet(list)
\* The survivors of generation gen
SoundKeep(list, gen) ==
  OneId(list) /\ OneGenome(list) /\ AllDated(list, gen) /\ Len(list) <= Population
\* The survivors, and what is bred from them
SoundNext(list, kept, gen) ==
  /\ Len(kept) <= Len(list) /\ \A i \in DOMAIN kept : list[i] = kept[i]
  /\ OneGenome(list) /\ Len(list) <= Population
  /\ \A i \in DOMAIN list : i > Len(kept) => list[i].id[1] = <<"g", gen + 1>>
  /\ gen <= 2 => OneId(list) /\ AllDated(list, gen + 1)
\* The bred are children of the first survivors, one of each
Parented(list, kept, gen, n) ==
  \A i \in DOMAIN list : i > Len(kept) =>
    \E j \in DOMAIN kept : j < n /\ list[i].id = ChildId(gen + 1, kept[j])
NoRestart(list, kept, gen) ==
  \A i \in DOMAIN list : i > Len(kept) => list[i].id # RestartId(gen + 1)

Working == {"evaluate", "score", "rewrite", "crown", "record"}

PopulationInv ==
  /\ crashes \in Nat
  /\ Undisturbed /\ pc = "down" => files = {} /\ stateFile = NoFile
  /\ Undisturbed /\ IdsTellApart =>
       /\ pc = "seed" => /\ pop = Seeds /\ files = {Seeds[i] : i \in 1..(at - 1)}
                         /\ st.generation = 0
       /\ pc \in Working => SoundPop(pop, files, st.generation)
       /\ pc \in Chosen => SoundKeep(keep, st.generation)
       /\ pc \in Breeding => SoundNext(nxt, keep, st.generation) /\ ToSet(keep) \subseteq files
       /\ pc = "mutate" => Parented(nxt, keep, st.generation, at)
       /\ pc = "restart" => NoRestart(nxt, keep, st.generation)
       /\ st.generation <= 2 =>
            /\ pc = "save" => \A k \in 1..(at - 1) : nxt[k] \in files
            /\ pc = "unlink" => ToSet(nxt) \subseteq files
            /\ pc = "tally" => SoundPop(pop, files, st.generation + 1)
       /\ pc = "tally" => ToSet(keep) \subseteq files

LEMMA IdsDiffer ==
  ASSUME NEW gen \in Nat, NEW id, Dated(id, gen), NEW new, new[1] = <<"g", gen + 1>>
  PROVE  id # new
<1>1. new[1][1] = "g" /\ new[1][2] = gen + 1
  OBVIOUS
<1>. QED BY <1>1 DEF Dated

LEMMA SeedsAreSound ==
  SoundPop(Seeds, ToSet(Seeds), 0)
<1>1. /\ DOMAIN Seeds = DOMAIN SeedGenes /\ SeedGenes \in Seq(GeneSpace)
      /\ \A k \in DOMAIN Seeds : Seeds[k].id = SeedId(k) /\ Seeds[k].genes = SeedGenes[k]
  BY SeedFacts, EvolutionAssumption
<1>2. \A k \in Nat : Len(SeedId(k)) = 1 /\ SeedId(k)[1] = <<"s", k>>
  BY DEF SeedId
<1>3. \A k \in DOMAIN Seeds : k \in Nat
  BY <1>1
<1>4. OneId(Seeds)
  <2>1. \A j, k \in Nat : SeedId(j) = SeedId(k) => j = k
    BY DEF SeedId
  <2>. QED BY <1>1, <1>3, <2>1 DEF OneId
<1>5. OneGenome(Seeds)
  BY <1>1, EvolutionAssumption DEF OneGenome, IsInjective
<1>6. AllDated(Seeds, 0)
  <2>1. \A k \in Nat : Dated(SeedId(k), 0)
    BY <1>2 DEF Dated
  <2>. QED BY <1>1, <1>3, <2>1 DEF AllDated
<1>. QED BY <1>4, <1>5, <1>6 DEF SoundPop

\* One more genome in the next population.
LEMMA AppendNext ==
  ASSUME NEW gen \in Nat, NEW kept \in Seq(Genomes), NEW list \in Seq(Genomes),
         SoundKeep(kept, gen), SoundNext(list, kept, gen),
         NEW g \in Genomes, g.id[1] = <<"g", gen + 1>>, g.genes \notin Fingerprints(list),
         Len(list) < Population,
         gen <= 2 => /\ Len(g.id) <= gen + 2
                     /\ \A i \in DOMAIN list : i > Len(kept) => list[i].id # g.id
  PROVE  SoundNext(Append(list, g), kept, gen)
<1>. DEFINE new == Append(list, g)
            n == Len(list) + 1
<1>1. /\ new \in Seq(Genomes) /\ Len(new) = n /\ DOMAIN new = 1..n /\ n \in Nat \ {0}
      /\ DOMAIN list = 1..Len(list) /\ Len(list) \in Nat /\ new[n] = g
      /\ \A i \in DOMAIN list : i \in DOMAIN new /\ new[i] = list[i]
      /\ \A i \in DOMAIN new : i # n => i \in DOMAIN list
      /\ DOMAIN kept = 1..Len(kept) /\ Len(kept) \in Nat
  OBVIOUS
<1>. HIDE DEF new, n
<1>2. Len(kept) <= Len(new) /\ \A i \in DOMAIN kept : new[i] = kept[i]
  <2>1. Len(kept) <= Len(list) /\ \A i \in DOMAIN kept : list[i] = kept[i]
    BY DEF SoundNext
  <2>. QED BY <1>1, <2>1 DEF n
<1>3. OneGenome(new)
  <2>1. \A i \in DOMAIN list : new[i].genes # g.genes
    BY <1>1 DEF Fingerprints
  <2>2. \A i, j \in DOMAIN list : list[i].genes = list[j].genes => i = j
    BY DEF SoundNext, OneGenome
  <2>. QED BY <1>1, <2>1, <2>2 DEF OneGenome
<1>4. Len(new) <= Population
  BY <1>1, EvolutionAssumption DEF n
<1>5. \A i \in DOMAIN new : i > Len(kept) => new[i].id[1] = <<"g", gen + 1>>
  BY <1>1 DEF SoundNext
<1>6. ASSUME gen <= 2 PROVE OneId(new) /\ AllDated(new, gen + 1)
  <2>1. ASSUME NEW i \in DOMAIN list PROVE list[i].id # g.id
    <3>1. CASE i > Len(kept)
      BY <1>6, <3>1
    <3>2. CASE ~(i > Len(kept))
      <4>1. i \in DOMAIN kept /\ list[i] = kept[i]
        BY <1>1, <3>2 DEF SoundNext
      <4>2. Dated(kept[i].id, gen)
        BY <4>1 DEF SoundKeep, AllDated
      <4>. QED BY <4>1, <4>2, IdsDiffer
    <3>. QED BY <3>1, <3>2
  <2>2. \A i, j \in DOMAIN list : list[i].id = list[j].id => i = j
    BY <1>6 DEF SoundNext, OneId
  <2>3. OneId(new)
    BY <1>1, <2>1, <2>2 DEF OneId
  <2>4. \A i \in DOMAIN list : Dated(list[i].id, gen + 1)
    BY <1>6 DEF SoundNext, AllDated
  <2>5. Dated(g.id, gen + 1)
    <3>1. g.id[1][2] = gen + 1 /\ Len(g.id) <= gen + 2
      BY <1>6
    <3>. QED BY <3>1 DEF Dated
  <2>6. AllDated(new, gen + 1)
    BY <1>1, <2>4, <2>5 DEF AllDated
  <2>. QED BY <2>3, <2>6
<1>7. SoundNext(new, kept, gen)
  BY <1>2, <1>3, <1>4, <1>5, <1>6 DEF SoundNext
<1>. QED BY <1>7 DEF new

LEMMA MemoryFacts ==
  ASSUME ResumeInv, GenerationInv
  PROVE  /\ st.generation \in Nat /\ st.generation + 1 \in Nat
         /\ pop \in Seq(Genomes) /\ keep \in Seq(Genomes) /\ nxt \in Seq(Genomes)
         /\ \A f, g \in files : f.id = g.id => f = g
BY DEF ResumeInv, StatesInv, IsState, GenerationInv, ListsInv, FilesInv

LEMMA StartPopulation ==
  ASSUME PopulationInv, Start
  PROVE  PopulationInv'
<1>1. /\ pc = "down" /\ crashes' = crashes /\ st' = Resumed /\ at' = 1
      /\ IF files = {} THEN pc' = "seed" /\ pop' = Seeds ELSE pc' = "evaluate" /\ pop' = Load(files)
      /\ UNCHANGED <<files, stateFile>>
  BY DEF Start, disk
<1>2. SUFFICES ASSUME Undisturbed PROVE PopulationInv'
  BY <1>1 DEF PopulationInv, Undisturbed
<1>3. files = {} /\ st' = FreshState
  BY <1>1, <1>2 DEF PopulationInv, Resumed
<1>4. pc' = "seed" /\ pop' = Seeds /\ files' = {} /\ st'.generation = 0
  BY <1>1, <1>3 DEF FreshState
<1>5. {Seeds[i] : i \in 1..(1 - 1)} = {}
  OBVIOUS
<1>. QED BY <1>1, <1>4, <1>5 DEF PopulationInv, Working, Chosen, Breeding

LEMMA SeedPopulation ==
  ASSUME GenerationInv, PopulationInv, SaveSeed
  PROVE  PopulationInv'
<1>1. /\ pc = "seed" /\ files' = Save(files, pop[at]) /\ UNCHANGED <<crashes, st, pop>>
      /\ IF at < Len(pop) THEN at' = at + 1 /\ pc' = pc ELSE at' = 1 /\ pc' = "evaluate"
  BY DEF SaveSeed
<1>2. crashes' \in Nat /\ pc' # "down"
  BY <1>1 DEF PopulationInv
<1>3. SUFFICES ASSUME Undisturbed, IdsTellApart PROVE PopulationInv'
  BY <1>1, <1>2 DEF PopulationInv, Undisturbed, IdsTellApart
<1>4. pop = Seeds /\ files = {Seeds[i] : i \in 1..(at - 1)} /\ st.generation = 0
  BY <1>1, <1>3 DEF PopulationInv
<1>5. at \in Nat \ {0} /\ at <= Len(Seeds) /\ DOMAIN Seeds = 1..Len(Seeds) /\ Len(Seeds) \in Nat
  BY <1>1, <1>4, SeedFacts DEF GenerationInv, PlaceInv
<1>6. files' = {Seeds[i] : i \in 1..at}
  <2>1. \A i \in 1..(at - 1) : Seeds[i].id # Seeds[at].id
    BY <1>5, SeedsAreSound DEF SoundPop, OneId
  <2>2. files' = {Seeds[i] : i \in 1..(at - 1)} \cup {Seeds[at]}
    BY <1>1, <1>4, <2>1 DEF Save
  <2>3. 1..at = (1..(at - 1)) \cup {at}
    BY <1>5
  <2>. QED BY <2>2, <2>3
<1>7. CASE at < Len(pop)
  <2>1. at' = at + 1 /\ pc' = "seed" /\ (at + 1) - 1 = at
    BY <1>1, <1>5, <1>7
  <2>. QED BY <1>1, <1>2, <1>4, <1>6, <2>1 DEF PopulationInv, Working, Chosen, Breeding
<1>8. CASE ~(at < Len(pop))
  <2>1. at = Len(Seeds) /\ pc' = "evaluate"
    BY <1>1, <1>4, <1>5, <1>8
  <2>2. files' = ToSet(Seeds)
    BY <1>5, <1>6, <2>1 DEF ToSet
  <2>3. SoundPop(pop', files', st'.generation)
    BY <1>1, <1>4, <2>2, SeedsAreSound
  <2>. QED BY <1>2, <2>1, <2>3 DEF PopulationInv, Working, Chosen, Breeding
<1>. QED BY <1>7, <1>8

\* The steps before the champion is crowned.
LEMMA WorkingPopulation ==
  ASSUME ResumeInv, PopulationInv, EvaluateGenome \/ TruncateLedger \/ RewriteLedger
  PROVE  PopulationInv'
<1>1. /\ pc \in Working /\ pc' \in Working \ {"record"} /\ UNCHANGED <<files, pop, crashes>>
      /\ st' = st \/ \E f : st' = Anchor(st, f)
  BY DEF EvaluateGenome, TruncateLedger, RewriteLedger, disk, memory, Working
<1>2. st'.generation = st.generation
  BY <1>1, AnchorFacts DEF ResumeInv, StatesInv
<1>3. Undisturbed /\ IdsTellApart => SoundPop(pop, files, st.generation)
  BY <1>1 DEF PopulationInv
<1>4. pc' \notin {"down", "seed", "tally"} \cup Chosen
  BY <1>1 DEF Working, Chosen
<1>. QED BY <1>1, <1>2, <1>3, <1>4 DEF PopulationInv, Undisturbed, IdsTellApart, Chosen, Breeding

LEMMA CrownPopulation ==
  ASSUME ResumeInv, GenerationInv, PopulationInv, Crown, Survivors <= Population
  PROVE  PopulationInv'
<1>1. /\ pc = "crown" /\ pc' = "record" /\ UNCHANGED <<files, pop, crashes>>
      /\ st' = st \/ \E c, f : st' = [st EXCEPT !.champion = c, !.fitness = f]
  BY DEF Crown
<1>2. st'.generation = st.generation /\ st.generation \in Nat
  BY <1>1 DEF ResumeInv, StatesInv, IsState, Fields
<1>3. SUFFICES ASSUME Undisturbed, IdsTellApart PROVE PopulationInv'
  BY <1>1, <1>2 DEF PopulationInv, Undisturbed, IdsTellApart
<1>4. SoundPop(pop, files, st.generation)
  BY <1>1, <1>3 DEF PopulationInv, Working
<1>5. /\ keep' \in Seq(Genomes) /\ Len(keep') <= Survivors
      /\ \E place \in [DOMAIN keep' -> DOMAIN pop] :
           /\ \A i, j \in DOMAIN keep' : place[i] = place[j] => i = j
           /\ \A i \in DOMAIN keep' : keep'[i] = pop[place[i]]
  BY <1>1, PopResults, CrownFacts DEF Stages
<1>6. PICK place \in [DOMAIN keep' -> DOMAIN pop] :
             /\ \A i, j \in DOMAIN keep' : place[i] = place[j] => i = j
             /\ \A i \in DOMAIN keep' : keep'[i] = pop[place[i]]
  BY <1>5
<1>7. OneId(keep')
  BY <1>4, <1>6 DEF SoundPop, OneId
<1>8. OneGenome(keep')
  BY <1>4, <1>6 DEF SoundPop, OneGenome
<1>9. AllDated(keep', st.generation)
  BY <1>4, <1>6 DEF SoundPop, AllDated
<1>10. Len(keep') <= Population
  <2>1. Len(keep') \in Nat
    BY <1>5
  <2>. QED BY <1>5, <2>1, EvolutionAssumption
<1>11. SoundKeep(keep', st'.generation)
  BY <1>2, <1>7, <1>8, <1>9, <1>10 DEF SoundKeep
<1>12. SoundPop(pop', files', st'.generation)
  BY <1>1, <1>2, <1>4
<1>. QED BY <1>1, <1>11, <1>12 DEF PopulationInv, Undisturbed, Breeding

LEMMA RecordPopulation ==
  ASSUME ResumeInv, GenerationInv, PopulationInv, AppendRecord
  PROVE  PopulationInv'
<1>1. /\ pc = "record" /\ UNCHANGED <<files, crashes, st, pop, keep>>
      /\ \/ pc' = "record"
         \/ at' = 1 /\ pc' = "mutate" /\ nxt' = keep
  BY DEF AppendRecord
<1>2. SUFFICES ASSUME Undisturbed, IdsTellApart PROVE PopulationInv'
  BY <1>1 DEF PopulationInv, Undisturbed, IdsTellApart
<1>3. SoundPop(pop, files, st.generation) /\ SoundKeep(keep, st.generation)
  BY <1>1, <1>2 DEF PopulationInv, Working, Chosen
<1>4. CASE pc' = "record"
  BY <1>1, <1>3, <1>4 DEF PopulationInv, Breeding
<1>5. CASE at' = 1 /\ pc' = "mutate" /\ nxt' = keep
  <2>1. keep \in Seq(Genomes) /\ st.generation \in Nat /\ DOMAIN keep = 1..Len(keep)
        /\ Len(keep) \in Nat
    BY MemoryFacts
  <2>2. AllDated(keep, st.generation + 1)
    <3>1. ASSUME NEW i \in DOMAIN keep PROVE Dated(keep[i].id, st.generation + 1)
      <4>1. Dated(keep[i].id, st.generation) /\ keep[i] \in Genomes
        BY <1>3, <2>1 DEF SoundKeep, AllDated
      <4>2. /\ Len(keep[i].id) \in Nat
            /\ keep[i].id[1][2] \in Nat
        BY <4>1 DEF Genomes, GenomeIds, Tags
      <4>. QED BY <2>1, <4>1, <4>2 DEF Dated
    <3>. QED BY <3>1 DEF AllDated
  <2>3. SoundNext(keep, keep, st.generation)
    BY <1>3, <2>1, <2>2 DEF SoundKeep, SoundNext
  <2>4. Parented(keep, keep, st.generation, 1)
    BY <2>1 DEF Parented
  <2>5. ToSet(keep) \subseteq files
    <3>1. \A i \in DOMAIN keep : \E j \in DOMAIN pop : keep[i] = pop[j]
      BY <1>1 DEF GenerationInv, ResultsInv, Chosen
    <3>. QED BY <1>3, <3>1 DEF SoundPop, ToSet
  <2>. QED BY <1>1, <1>3, <1>5, <2>3, <2>4, <2>5 DEF PopulationInv, Working
<1>. QED BY <1>1, <1>4, <1>5

\* The ids that breeding gives, among those of the population.
LEMMA BredIds ==
  ASSUME NEW gen \in Nat, NEW g \in Genomes, Dated(g.id, gen)
  PROVE  LET id == ChildId(gen + 1, g)
         IN  /\ id[1] = <<"g", gen + 1>> /\ (gen <= 2 => Len(id) <= gen + 2)
             /\ id # CrossoverId(gen + 1) /\ id # RestartId(gen + 1)
<1>. DEFINE id == ChildId(gen + 1, g)
<1>1. g.id \in GenomeIds /\ id = Tagged(gen + 1, Cut(g.id)) /\ gen + 1 \in Nat
  BY DEF ChildId, Genomes
<1>2. Len(g.id) \in Nat /\ Len(g.id) <= gen + 1
  BY <1>1 DEF Dated, GenomeIds
<1>. HIDE DEF id
<1>. DEFINE n == gen + 1
<1>3. /\ id[1] = <<"g", gen + 1>> /\ Len(id) = Len(Cut(g.id)) + 1
      /\ \A m \in Nat : id # CrossoverId(m) /\ id # RestartId(m)
  <2>1. n \in Nat /\ id = Tagged(n, Cut(g.id))
    BY <1>1
  <2>. HIDE DEF n
  <2>2. Cut(g.id) \in Seq(Tags)
    BY <1>1, CutFacts DEF GenomeIds
  <2>3. id[1] = <<"g", n>> /\ Len(id) = Len(Cut(g.id)) + 1
    BY <2>1, <2>2, TaggedFacts
  <2>4. \A m \in Nat : id # CrossoverId(m) /\ id # RestartId(m)
    BY <1>1, <2>1, BredIdFacts
  <2>. QED BY <2>3, <2>4 DEF n
<1>4. gen <= 2 => Cut(g.id) = g.id
  BY <1>1, <1>2, CutFacts
<1>5. gen <= 2 => Len(id) <= gen + 2
  BY <1>2, <1>3, <1>4
<1>6. gen + 1 \in Nat
  OBVIOUS
<1>. QED BY <1>3, <1>5, <1>6 DEF id

\* Two parents of the first three generations have children of different ids.
LEMMA ChildIdsTell ==
  ASSUME NEW gen \in Nat, gen <= 2, NEW a \in Genomes, NEW b \in Genomes,
         Dated(a.id, gen), Dated(b.id, gen),
         ChildId(gen + 1, a) = ChildId(gen + 1, b)
  PROVE  a.id = b.id
<1>1. a.id \in GenomeIds /\ b.id \in GenomeIds
  BY DEF Genomes
<1>2. Len(a.id) \in Nat /\ Len(b.id) \in Nat
  BY <1>1 DEF GenomeIds
<1>3. Len(a.id) <= 3 /\ Len(b.id) <= 3
  BY <1>2 DEF Dated
<1>4. Cut(a.id) = a.id /\ Cut(b.id) = b.id
  BY <1>1, <1>3, CutFacts
<1>5. a.id \in Seq(Tags) /\ b.id \in Seq(Tags) /\ gen + 1 \in Nat
  BY <1>1 DEF GenomeIds
<1>. QED BY <1>4, <1>5, TagsTell DEF ChildId

\* What a breeding step keeps.
LEMMA BreedPopulation ==
  ASSUME PopulationInv, pc \in {"mutate", "restart"}, Undisturbed, IdsTellApart,
         UNCHANGED <<files, crashes, st, keep>>, SoundNext(nxt', keep, st.generation),
         \/ pc' = "mutate" /\ Parented(nxt', keep, st.generation, at')
         \/ pc' = "restart" /\ NoRestart(nxt', keep, st.generation)
         \/ pc' = "save" /\ at' = 1
  PROVE  PopulationInv'
<1>1. SoundKeep(keep', st'.generation) /\ ToSet(keep') \subseteq files'
  BY DEF PopulationInv, Chosen, Breeding
<1>2. SoundNext(nxt', keep', st'.generation) /\ crashes' \in Nat
  BY DEF PopulationInv
<1>3. 1..(1 - 1) = {}
  OBVIOUS
<1>. QED BY <1>1, <1>2, <1>3 DEF PopulationInv, Working

LEMMA MutatePopulation ==
  ASSUME ResumeInv, GenerationInv, PopulationInv, Mutate
  PROVE  PopulationInv'
<1>1. /\ pc = "mutate" /\ pc' = "mutate" /\ at <= Len(keep) /\ Len(nxt) < Population - 2
      /\ at' = at + 1 /\ UNCHANGED <<files, crashes, st, keep>>
  BY DEF Mutate, disk
<1>2. SUFFICES ASSUME Undisturbed, IdsTellApart PROVE PopulationInv'
  BY <1>1 DEF PopulationInv, Undisturbed, IdsTellApart
<1>. DEFINE gen == st.generation
<1>3. /\ gen \in Nat /\ keep \in Seq(Genomes) /\ nxt \in Seq(Genomes) /\ at \in Nat \ {0}
      /\ at \in DOMAIN keep /\ keep[at] \in Genomes /\ DOMAIN keep = 1..Len(keep)
  BY <1>1, MemoryFacts, ItemFacts DEF GenerationInv, PlaceInv
<1>4. SoundKeep(keep, gen) /\ SoundNext(nxt, keep, gen) /\ Parented(nxt, keep, gen, at)
  BY <1>1, <1>2 DEF PopulationInv, Chosen, Breeding
<1>. HIDE DEF gen
<1>5. \A i \in DOMAIN nxt : i > Len(keep) =>
        \E j \in DOMAIN keep : j < at + 1 /\ nxt[i].id = ChildId(gen + 1, keep[j])
  BY <1>3, <1>4 DEF Parented
<1>6. SoundNext(nxt', keep, gen) /\ Parented(nxt', keep, gen, at')
  <2>1. CASE nxt' = nxt
    BY <1>1, <1>4, <1>5, <2>1 DEF Parented
  <2>2. CASE nxt' # nxt
    <3>1. PICK g \in Genomes : /\ g.id = ChildId(gen + 1, keep[at])
                               /\ g.genes \notin Fingerprints(nxt) /\ nxt' = Append(nxt, g)
      BY <2>2, MutateFacts DEF gen
    <3>2. Dated(keep[at].id, gen)
      BY <1>3, <1>4 DEF SoundKeep, AllDated
    <3>3. g.id[1] = <<"g", gen + 1>> /\ (gen <= 2 => Len(g.id) <= gen + 2)
      BY <1>3, <3>1, <3>2, BredIds
    <3>4. ASSUME gen <= 2, NEW i \in DOMAIN nxt, i > Len(keep) PROVE nxt[i].id # g.id
      <4>1. PICK j \in DOMAIN keep : j < at /\ nxt[i].id = ChildId(gen + 1, keep[j])
        BY <1>4, <3>4 DEF Parented
      <4>2. Dated(keep[j].id, gen) /\ keep[j] \in Genomes
        BY <1>3, <1>4 DEF SoundKeep, AllDated
      <4>3. keep[j].id # keep[at].id
        BY <1>3, <1>4, <4>1 DEF SoundKeep, OneId
      <4>. QED BY <1>3, <3>1, <3>2, <3>4, <4>1, <4>2, <4>3, ChildIdsTell
    <3>5. Len(nxt) < Population
      BY <1>1, <1>3, EvolutionAssumption
    <3>6. SoundNext(Append(nxt, g), keep, gen)
      BY <1>3, <1>4, <3>1, <3>3, <3>4, <3>5, AppendNext
    <3>7. Parented(nxt', keep, gen, at + 1)
      <4>. DEFINE new == Append(nxt, g)
      <4>1. \A i \in DOMAIN new : new[i] = g \/ (i \in DOMAIN nxt /\ new[i] = nxt[i])
        BY <1>3
      <4>2. at < at + 1
        BY <1>3
      <4>3. Parented(new, keep, gen, at + 1)
        <5>. HIDE DEF new
        <5>. QED BY <1>3, <1>5, <3>1, <4>1, <4>2 DEF Parented
      <4>. QED BY <3>1, <4>3
    <3>. QED BY <1>1, <3>1, <3>6, <3>7
  <2>. QED BY <2>1, <2>2
<1>. QED BY <1>1, <1>2, <1>6, BreedPopulation DEF gen

LEMMA CrossPopulation ==
  ASSUME ResumeInv, GenerationInv, PopulationInv, Cross
  PROVE  PopulationInv'
<1>1. pc = "mutate" /\ pc' = "restart" /\ UNCHANGED <<files, crashes, st, keep>>
  BY DEF Cross, disk
<1>2. SUFFICES ASSUME Undisturbed, IdsTellApart PROVE PopulationInv'
  BY <1>1 DEF PopulationInv, Undisturbed, IdsTellApart
<1>. DEFINE gen == st.generation
            old(i) == i \in DOMAIN nxt /\ i > Len(keep)
<1>3. gen \in Nat /\ gen + 1 \in Nat /\ keep \in Seq(Genomes) /\ nxt \in Seq(Genomes)
  BY MemoryFacts
<1>4. SoundKeep(keep, gen) /\ SoundNext(nxt, keep, gen) /\ Parented(nxt, keep, gen, at)
  BY <1>1, <1>2 DEF PopulationInv, Chosen, Breeding
<1>. HIDE DEF gen
<1>5. ASSUME NEW i, old(i)
      PROVE  nxt[i].id # CrossoverId(gen + 1) /\ nxt[i].id # RestartId(gen + 1)
  <2>1. PICK j \in DOMAIN keep : nxt[i].id = ChildId(gen + 1, keep[j])
    BY <1>4, <1>5 DEF Parented
  <2>2. keep[j] \in Genomes /\ Dated(keep[j].id, gen)
    BY <1>3, <1>4 DEF SoundKeep, AllDated
  <2>. QED BY <1>3, <2>1, <2>2, BredIds
<1>6. SoundNext(nxt', keep, gen) /\ NoRestart(nxt', keep, gen)
  <2>1. CASE nxt' = nxt
    BY <1>4, <1>5, <2>1 DEF NoRestart
  <2>2. CASE nxt' # nxt
    <3>1. PICK g \in Genomes : /\ g.id = CrossoverId(gen + 1)
                               /\ g.genes \notin Fingerprints(nxt) /\ nxt' = Append(nxt, g)
                               /\ Len(nxt) < Population - 1
      BY <2>2, CrossFacts DEF gen
    <3>2. /\ g.id[1] = <<"g", gen + 1>> /\ Len(g.id) <= gen + 2 /\ g.id # RestartId(gen + 1)
      <4>1. /\ Len(g.id) = 2 /\ g.id[1] = <<"g", gen + 1>> /\ g.id[2][1] = "xover"
            /\ RestartId(gen + 1)[2][1] = "restart"
        BY <1>3, <3>1, SpecialIds
      <4>. QED BY <1>3, <4>1
    <3>3. Len(nxt) < Population
      BY <1>3, <3>1, EvolutionAssumption
    <3>4. SoundNext(Append(nxt, g), keep, gen)
      BY <1>3, <1>4, <1>5, <3>1, <3>2, <3>3, AppendNext
    <3>5. NoRestart(Append(nxt, g), keep, gen)
      <4>. DEFINE new == Append(nxt, g)
      <4>1. \A i \in DOMAIN new : new[i] = g \/ (i \in DOMAIN nxt /\ new[i] = nxt[i])
        BY <1>3
      <4>2. NoRestart(new, keep, gen)
        <5>. HIDE DEF new
        <5>. QED BY <1>5, <3>2, <4>1 DEF NoRestart
      <4>. QED BY <4>2
    <3>. QED BY <3>1, <3>4, <3>5
  <2>. QED BY <2>1, <2>2
<1>. QED BY <1>1, <1>2, <1>6, BreedPopulation DEF gen

LEMMA RestartPopulation ==
  ASSUME ResumeInv, GenerationInv, PopulationInv, Restart
  PROVE  PopulationInv'
<1>1. pc = "restart" /\ pc' = "save" /\ at' = 1 /\ UNCHANGED <<files, crashes, st, keep>>
  <2>1. pc = "restart" /\ pc' = "save" /\ at' = 1 /\ UNCHANGED <<disk, crashes, st, keep>>
    BY Zenon DEF Restart
  <2>. QED BY <2>1 DEF disk
<1>2. SUFFICES ASSUME Undisturbed, IdsTellApart PROVE PopulationInv'
  BY <1>1 DEF PopulationInv, Undisturbed, IdsTellApart
<1>. DEFINE gen == st.generation
<1>3. gen \in Nat /\ gen + 1 \in Nat /\ keep \in Seq(Genomes) /\ nxt \in Seq(Genomes)
  BY MemoryFacts
<1>4. SoundKeep(keep, gen) /\ SoundNext(nxt, keep, gen) /\ NoRestart(nxt, keep, gen)
  BY <1>1, <1>2 DEF PopulationInv, Chosen, Breeding
<1>. HIDE DEF gen
<1>5. SoundNext(nxt', keep, gen)
  <2>1. CASE nxt' = nxt
    BY <1>4, <2>1
  <2>2. CASE nxt' # nxt
    <3>1. PICK g \in Genomes : /\ g.id = RestartId(gen + 1)
                               /\ g.genes \notin Fingerprints(nxt) /\ nxt' = Append(nxt, g)
                               /\ Len(nxt) < Population
      BY <2>2, RestartStepFacts DEF gen
    <3>2. g.id[1] = <<"g", gen + 1>> /\ Len(g.id) <= gen + 2
      <4>1. Len(g.id) = 2 /\ g.id[1] = <<"g", gen + 1>>
        BY <1>3, <3>1, SpecialIds
      <4>. QED BY <1>3, <4>1
    <3>3. \A i \in DOMAIN nxt : i > Len(keep) => nxt[i].id # g.id
      BY <1>4, <3>1 DEF NoRestart
    <3>4. SoundNext(Append(nxt, g), keep, gen)
      BY <1>3, <1>4, <3>1, <3>2, <3>3, AppendNext
    <3>. QED BY <3>1, <3>4
  <2>. QED BY <2>1, <2>2
<1>. QED BY <1>1, <1>2, <1>5, BreedPopulation DEF gen

LEMMA SavePopulation ==
  ASSUME ResumeInv, GenerationInv, PopulationInv, SaveGenome
  PROVE  PopulationInv'
<1>1. /\ pc = "save" /\ files' = Save(files, nxt[at]) /\ UNCHANGED <<crashes, st, keep, nxt>>
      /\ IF at < Len(nxt) THEN at' = at + 1 /\ pc' = "save" ELSE at' = 1 /\ pc' = "unlink"
  BY DEF SaveGenome
<1>2. SUFFICES ASSUME Undisturbed, IdsTellApart PROVE PopulationInv'
  BY <1>1 DEF PopulationInv, Undisturbed, IdsTellApart
<1>. DEFINE gen == st.generation
            saved == nxt[at]
<1>3. /\ gen \in Nat /\ keep \in Seq(Genomes) /\ nxt \in Seq(Genomes)
      /\ at \in Nat \ {0} /\ at <= Len(nxt) /\ Len(nxt) \in Nat
      /\ at \in DOMAIN nxt /\ DOMAIN nxt = 1..Len(nxt) /\ DOMAIN keep = 1..Len(keep)
  BY <1>1, MemoryFacts DEF GenerationInv, PlaceInv
<1>4. /\ SoundKeep(keep, gen) /\ SoundNext(nxt, keep, gen) /\ ToSet(keep) \subseteq files
      /\ gen <= 2 => \A k \in 1..(at - 1) : nxt[k] \in files
  BY <1>1, <1>2 DEF PopulationInv, Chosen, Breeding
<1>. HIDE DEF gen, saved
<1>5. saved \in files' /\ \A f \in files : (f.id = saved.id => f = saved) => f \in files'
  BY <1>1 DEF Save, saved
<1>6. ToSet(keep) \subseteq files'
  <2>1. ASSUME NEW i \in DOMAIN keep PROVE keep[i].id = saved.id => keep[i] = saved
    <3>1. CASE at <= Len(keep)
      <4>1. at \in DOMAIN keep /\ saved = keep[at]
        BY <1>3, <1>4, <3>1 DEF SoundNext, saved
      <4>. QED BY <1>4, <4>1 DEF SoundKeep, OneId
    <3>2. CASE ~(at <= Len(keep))
      <4>1. saved.id[1] = <<"g", gen + 1>>
        BY <1>3, <1>4, <3>2 DEF SoundNext, saved
      <4>2. Dated(keep[i].id, gen)
        BY <1>4 DEF SoundKeep, AllDated
      <4>. QED BY <1>3, <4>1, <4>2, IdsDiffer
    <3>. QED BY <3>1, <3>2
  <2>. QED BY <1>4, <1>5, <2>1 DEF ToSet
<1>7. ASSUME gen <= 2 PROVE \A k \in 1..at : nxt[k] \in files'
  <2>1. ASSUME NEW k \in 1..(at - 1) PROVE nxt[k] \in files'
    <3>1. nxt[k].id # saved.id /\ nxt[k] \in files
      BY <1>3, <1>4, <1>7 DEF SoundNext, OneId, saved
    <3>. QED BY <1>5, <3>1
  <2>2. \A k \in 1..at : k = at \/ k \in 1..(at - 1)
    BY <1>3
  <2>. QED BY <1>5, <2>1, <2>2 DEF saved
<1>8. crashes' \in Nat
  BY <1>1 DEF PopulationInv
<1>9. CASE at < Len(nxt)
  <2>1. at' = at + 1 /\ pc' = "save" /\ (at + 1) - 1 = at
    BY <1>1, <1>3, <1>9
  <2>. QED BY <1>1, <1>4, <1>6, <1>7, <1>8, <2>1 DEF PopulationInv, Working, gen
<1>10. CASE ~(at < Len(nxt))
  <2>1. at = Len(nxt)
    <3>1. at \in Nat /\ Len(nxt) \in Nat /\ at <= Len(nxt)
      BY <1>3
    <3>2. \A m, n \in Nat : m <= n /\ ~(m < n) => m = n
      OBVIOUS
    <3>. QED BY <1>10, <3>1, <3>2
  <2>2. pc' = "unlink"
    BY <1>1, <1>10
  <2>3. gen <= 2 => ToSet(nxt) \subseteq files'
    BY <1>3, <1>7, <2>1 DEF ToSet
  <2>. QED BY <1>1, <1>4, <1>6, <1>8, <2>2, <2>3 DEF PopulationInv, Working, gen
<1>. QED BY <1>9, <1>10

LEMMA UnlinkPopulation ==
  ASSUME ResumeInv, GenerationInv, PopulationInv, UnlinkStale
  PROVE  PopulationInv'
<1>. DEFINE stale == {f \in files : f.id \notin Ids(nxt)}
            gen == st.generation
<1>1. /\ pc = "unlink" /\ UNCHANGED <<crashes, st, keep, nxt>>
      /\ \/ stale = {} /\ pc' = "tally" /\ pop' = FirstOf(nxt, Population) /\ files' = files
         \/ (\E f \in stale : files' = files \ {f}) /\ pc' = "unlink"
  BY DEF UnlinkStale
<1>2. SUFFICES ASSUME Undisturbed, IdsTellApart PROVE PopulationInv'
  BY <1>1 DEF PopulationInv, Undisturbed, IdsTellApart
<1>3. /\ gen \in Nat /\ keep \in Seq(Genomes) /\ nxt \in Seq(Genomes) /\ Len(nxt) \in Nat
      /\ DOMAIN nxt = 1..Len(nxt) /\ DOMAIN keep = 1..Len(keep) /\ Len(keep) \in Nat
      /\ \A f, g \in files : f.id = g.id => f = g
  BY MemoryFacts
<1>4. /\ SoundKeep(keep, gen) /\ SoundNext(nxt, keep, gen) /\ ToSet(keep) \subseteq files
      /\ gen <= 2 => ToSet(nxt) \subseteq files
  BY <1>1, <1>2 DEF PopulationInv, Chosen, Breeding
<1>5. crashes' \in Nat
  BY <1>1 DEF PopulationInv
<1>6. CASE stale = {} /\ pc' = "tally" /\ pop' = FirstOf(nxt, Population) /\ files' = files
  <2>1. ASSUME gen <= 2 PROVE SoundPop(pop', files', gen + 1)
    <3>1. pop' = nxt
      <4>1. Len(nxt) <= Population
        BY <1>4 DEF SoundNext
      <4>. QED BY <1>3, <1>6, <4>1, FirstOfFacts, EvolutionAssumption
    <3>2. files = ToSet(nxt)
      <4>1. ASSUME NEW f \in files PROVE f \in ToSet(nxt)
        <5>1. PICK i \in DOMAIN nxt : f.id = nxt[i].id
          BY <1>6 DEF Ids
        <5>2. nxt[i] \in files /\ nxt[i] \in ToSet(nxt)
          BY <1>4, <2>1 DEF ToSet
        <5>. QED BY <1>3, <5>1, <5>2
      <4>. QED BY <1>4, <2>1, <4>1
    <3>3. /\ OneId(nxt) /\ OneGenome(nxt) /\ AllDated(nxt, gen + 1) /\ Len(nxt) <= Population
      BY <1>4, <2>1 DEF SoundNext
    <3>. QED BY <1>6, <3>1, <3>2, <3>3 DEF SoundPop
  <2>. HIDE DEF stale
  <2>. QED BY <1>1, <1>4, <1>5, <1>6, <2>1 DEF PopulationInv, Working, Chosen, Breeding
<1>7. CASE (\E f \in stale : files' = files \ {f}) /\ pc' = "unlink"
  <2>1. PICK f \in stale : files' = files \ {f}
    BY <1>7
  <2>2. \A i \in DOMAIN nxt : nxt[i] # f
    BY <2>1 DEF Ids
  <2>3. gen <= 2 => ToSet(nxt) \subseteq files'
    BY <1>4, <2>1, <2>2 DEF ToSet
  <2>4. \A i \in DOMAIN keep : i \in DOMAIN nxt /\ nxt[i] = keep[i]
    BY <1>3, <1>4 DEF SoundNext
  <2>5. ToSet(keep) \subseteq files'
    BY <1>4, <2>1, <2>2, <2>4 DEF ToSet
  <2>. HIDE DEF stale
  <2>. QED BY <1>1, <1>4, <1>5, <1>7, <2>3, <2>5 DEF PopulationInv, Working
<1>. QED BY <1>1, <1>6, <1>7

LEMMA TallyPopulation ==
  ASSUME ResumeInv, GenerationInv, PopulationInv, Tally
  PROVE  PopulationInv'
<1>1. /\ pc = "tally" /\ pc' \in {"done", "evaluate"} /\ UNCHANGED <<crashes, files, pop>>
  BY DEF Tally, Tallied
<1>2. st.generation \in Nat /\ st'.generation = st.generation + 1
  BY MemoryFacts, TallyChampion
<1>3. ASSUME Undisturbed', IdsTellApart' PROVE SoundPop(pop', files', st'.generation)
  <2>1. Undisturbed /\ IdsTellApart /\ st.generation <= 2
    BY <1>1, <1>2, <1>3 DEF Undisturbed, IdsTellApart
  <2>. QED BY <1>1, <1>2, <2>1 DEF PopulationInv
<1>. QED BY <1>1, <1>3 DEF PopulationInv, Chosen, Breeding

LEMMA StepPopulation ==
  ASSUME ResumeInv, GenerationInv, PopulationInv, [Next]_vars, Survivors <= Population
  PROVE  PopulationInv'
<1>1. CASE Crash
  <2>1. crashes' = crashes + 1
    BY <1>1 DEF Crash
  <2>. QED BY <2>1 DEF PopulationInv, Undisturbed
<1>2. CASE UNCHANGED vars
  BY <1>2 DEF vars, disk, memory, PopulationInv, Undisturbed, IdsTellApart
<1>. QED BY <1>1, <1>2, StartPopulation, SeedPopulation, WorkingPopulation, CrownPopulation,
            RecordPopulation, MutatePopulation, CrossPopulation, RestartPopulation,
            SavePopulation, UnlinkPopulation, TallyPopulation DEF Next

\* Without a crash, and while the ids tell genomes apart, a generation starts from
\* distinct genomes, a bred one within its size, and the directory holds exactly
\* them: fingerprints are compared before each child is added, children of two
\* parents have two ids, the files of the others are removed.  (evolve.py:209-244)
THEOREM PopulationsAreSound ==
  ~IsState(NoFile) /\ Survivors <= Population /\ Spec => [](PopulationInv /\ PopulationSound)
<1>. SUFFICES ASSUME ~IsState(NoFile), Survivors <= Population
              PROVE  Spec => [](PopulationInv /\ PopulationSound)
  OBVIOUS
<1>1. Init => PopulationInv
  BY DEF Init, PopulationInv, Working, Chosen, Breeding
<1>2. ResumeInv /\ GenerationInv /\ PopulationInv /\ [Next]_vars => PopulationInv'
  BY StepPopulation
<1>3. PopulationInv => PopulationSound
  BY DEF PopulationInv, PopulationSound, SoundPop, OneId, OneGenome, Working
<1>4. Spec => [](ResumeInv /\ GenerationInv /\ LedgerInv)
  BY GenerationsAreSound
<1>. QED BY <1>1, <1>2, <1>3, <1>4, PTL DEF Spec

\* Without a crash, and while the ids tell genomes apart, the survivors' files are
\* there with the survivors' genes from the breeding to the next generation: no
\* child is saved under a survivor's name, and no survivor is stale.
\* (evolve.py:207, 239-243)
THEOREM SurvivorsReachDisk ==
  ~IsState(NoFile) /\ Survivors <= Population /\ Spec => []SurvivorsOnDisk
<1>1. PopulationInv => SurvivorsOnDisk
  BY DEF PopulationInv, SurvivorsOnDisk, Breeding
<1>. QED BY <1>1, PopulationsAreSound, PTL
=============================================================================
