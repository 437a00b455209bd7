------------------------------- MODULE Grading -------------------------------
(***************************************************************************)
(* From a model's replies to one fitness number.                           *)
(*                                                                         *)
(* src/evolution/runner.py asks every probe of a suite once in every       *)
(* repetition, grader.py decides for each reply whether it passes and      *)
(* which gates it trips, and fitness.py folds the whole run into four      *)
(* components, cut into bands, and one integer.  A reply is what those     *)
(* decisions read of it.  Rates are kept as fractions of integers; a band  *)
(* is the integer part of twenty times the rate.  (The code divides floats *)
(* and may land one band lower where the quotient is an exact multiple.)   *)
(***************************************************************************)
EXTENDS Integers, Sequences, FiniteSets, FiniteSetsExt

CONSTANTS
  Probes,         \* the dev suite
  SmokeProbes,    \* its smoke subset
  HoldoutProbes,  \* the held-out suite
  Judged,         \* probes of either suite with a criterion for the judge
  Baits           \* confab_probe: probes that bait an invention

ASSUME GradingAssumption ==
  /\ IsFiniteSet(Probes) /\ IsFiniteSet(HoldoutProbes) /\ HoldoutProbes # {}
  /\ SmokeProbes \subseteq Probes /\ SmokeProbes # {}

\* One answer to one probe: none (cortex.think raised), or an action that is
\* allowed or not, words that hold a required phrase or not and a forbidden
\* one (another person's name, or any other) or not, cortexd's fallback level,
\* what the judge would say, and the sizes the density and latency are made of
Reply == [answered : BOOLEAN, allowed : BOOLEAN, phrase : BOOLEAN,
          forbidden : {"none", "word", "name"}, fallback : 0..2,
          judge : {"pass", "fail", "unavailable"},
          relevant : Nat, tokens : Nat \ {0}, ms : Nat]

-----------------------------------------------------------------------------
(* One reply                                                               *)

Forbidden(p, r) ==
  CASE r.forbidden = "name" -> {"cross_contamination"}
    [] r.forbidden = "word" /\ p \in Baits -> {"confabulation"}
    [] OTHER -> {}

Gates(p, r) ==
  IF ~r.answered THEN {"transport_error"}
  ELSE Forbidden(p, r) \cup (IF r.fallback >= 2 THEN {"schema_invalid"} ELSE {})

ProgramPass(r) == r.answered /\ r.allowed /\ r.phrase /\ r.forbidden = "none"

\* The judge is asked about a programmatic pass only; an outage keeps it
Passed(p, r) == ProgramPass(r) /\ ~(p \in Judged /\ r.judge = "fail")

\* A reply that never came counts no relevant line and no time
Relevant(r) == IF r.answered THEN r.relevant ELSE 0
Millis(r) == IF r.answered THEN r.ms ELSE 0

-----------------------------------------------------------------------------
(* A run: one reply per probe in every repetition                          *)

IsRun(run, probes) == run \in Seq([probes -> Reply]) /\ run # <<>>

\* The sum of a function's values, counted one by one
Total(f) == Cardinality(UNION {{x} \X (1..f[x]) : x \in DOMAIN f})

AskedIn(run) == DOMAIN run[CHOOSE k \in DOMAIN run : TRUE]
Asked(run) == (DOMAIN run) \X AskedIn(run)
Passes(run, p) == Cardinality({k \in DOMAIN run : Passed(p, run[k][p])})
RunGates(run) == UNION {Gates(a[2], run[a[1]][a[2]]) : a \in Asked(run)}
FactsUsed(run) == Total([a \in Asked(run) |-> Relevant(run[a[1]][a[2]])])
BriefingTokens(run) == Total([a \in Asked(run) |-> run[a[1]][a[2]].tokens])

\* Twice the median latency
TwiceMedian(run) ==
  LET Upto(v) == {a \in Asked(run) : Millis(run[a[1]][a[2]]) <= v}
      n == Cardinality(Asked(run))
      seen == {Millis(run[a[1]][a[2]]) : a \in Asked(run)}
  IN  Min({v \in seen : 2 * Cardinality(Upto(v)) >= n})
        + Min({v \in seen : 2 * Cardinality(Upto(v)) > n})

-----------------------------------------------------------------------------
(* Bands and tiers                                                         *)

Bands == 20
LatencyFloor == 2000
LatencyCeiling == 8000
TierA == 1000000
TierR == 10000
TierD == 100
TierL == 1

\* The band of num / den clamped to [0, 1]
Band(num, den) ==
  IF num <= 0 THEN 0 ELSE IF num >= den THEN Bands ELSE (Bands * num) \div den

Accuracy(run) ==
  Band(Total([p \in AskedIn(run) |-> Passes(run, p)]), Cardinality(Asked(run)))

\* One minus the mean of 4 p (1 - p)
Reliability(run) ==
  LET n == Cardinality(DOMAIN run)
      whole == n * n * Cardinality(AskedIn(run))
      flaky == Total([p \in AskedIn(run) |-> 4 * Passes(run, p) * (n - Passes(run, p))])
  IN  Band(whole - flaky, whole)

\* Facts per briefing token, a fraction; NoRate before the control has run
NoRate == [facts |-> 0, tokens |-> 0]
Rate(run) == [facts |-> FactsUsed(run), tokens |-> BriefingTokens(run)]

\* Zero against a reference that is missing, or that is zero
Density(rate, ref) ==
  IF ref.facts = 0 THEN 0
  ELSE Band(rate.facts * ref.tokens, rate.tokens * ref.facts)

Latency(run) == Band(2 * LatencyCeiling - TwiceMedian(run),
                     2 * (LatencyCeiling - LatencyFloor))

Fitness(c) ==
  IF c.gates # {} THEN 0
  ELSE TierA * c.A + TierR * c.R + TierD * c.D + TierL * c.L

\* What run_genome returns: the components and the fitness they give
Scored(run, ref) ==
  LET c == [gates |-> RunGates(run), A |-> Accuracy(run), R |-> Reliability(run),
            D |-> Density(Rate(run), ref), L |-> Latency(run), rate |-> Rate(run)]
  IN  [c |-> c, fitness |-> Fitness(c)]

\* The same run measured against another reference
Rescore(result, ref) ==
  IF ref.facts = 0 THEN result
  ELSE LET c == [result.c EXCEPT !.D = Density(result.c.rate, ref)]
       IN  [c |-> c, fitness |-> Fitness(c)]
=============================================================================
