------------------------------ MODULE Evolution ------------------------------
(***************************************************************************)
(* The evolution of memory prompts: evolve.py over its directory.          *)
(*                                                                         *)
(* A generation evaluates its genomes, resolves the predictions of the     *)
(* generation before in the ledger, crowns a champion, writes a record per *)
(* genome, breeds the next population, replaces the genome files one by    *)
(* one, checks the champion on held-out probes and saves state.json.  The  *)
(* process may die between any two of these writes; the next one resumes   *)
(* from what is on disk.                                                   *)
(***************************************************************************)
EXTENDS Grading, SequencesExt

CONSTANTS
  Genes,            \* "briefing_header", "fact_format": the genes that vary
  Texts,            \* the values a gene takes
  SeedGenes,        \* the genes of the seed genomes, control first
  Runs,             \* for genes: the runs the subject model may produce
  HoldoutRuns,      \* for genes: the runs over the held-out probes
  Predictions,      \* genes a postmortem names; NoGene when reflection failed
  Population,       \* genomes per generation
  Survivors,        \* genomes kept
  HoldoutEvery,     \* generations between two holdout checks
  Patience,         \* stagnant generations before the run stops
  Generations,      \* generations one process runs
  MaxCrashes,       \* bound: processes that die
  NoGene, NoFile

GeneSpace == [Genes -> Texts]

ASSUME EvolutionAssumption ==
  /\ {"briefing_header", "fact_format"} \subseteq Genes
  /\ IsFiniteSet(Genes) /\ IsFiniteSet(Texts)
  /\ SeedGenes \in Seq(GeneSpace) /\ SeedGenes # <<>> /\ IsInjective(SeedGenes)
  /\ \A genes \in GeneSpace : \A run \in Runs[genes] : IsRun(run, Probes)
  /\ \A genes \in GeneSpace : \A run \in HoldoutRuns[genes] : IsRun(run, HoldoutProbes)
  /\ Predictions \subseteq Genes \cup {NoGene} /\ NoGene \notin Genes
  /\ Population \in Nat \ {0} /\ Survivors \in Nat \ {0}
  /\ HoldoutEvery \in Nat \ {0} /\ Patience \in Nat \ {0}
  /\ Generations \in Nat \ {0} /\ MaxCrashes \in Nat

VARIABLES
  files,       \* genomes/*.yaml: the genomes on disk, one per id
  stateFile,   \* state.json
  crown,       \* champion.yaml, and the fitness it was crowned with
  ledger,      \* ledger.jsonl
  pc,          \* what the process does next
  st,          \* Evolver.state
  pop,         \* the population, a list
  results,     \* run results by genome id
  keep,        \* the survivors, best first
  nxt,         \* the population being bred
  rows,        \* ledger rows read to be written back
  at,          \* position in the list a loop is working through
  done,        \* generations this process has run
  stagnant,    \* generations in a row that did not beat the champion
  crashes

disk == <<files, stateFile, crown, ledger>>
memory == <<st, pop, results, keep, nxt, rows, at, done, stagnant>>
vars == <<disk, pc, memory, crashes>>

-----------------------------------------------------------------------------
(* Genome ids: "s01-control", "g1-s01-contro", "g2-xover", "g2-restart".   *)
(* An id is the list of its tags.                                          *)

SeedId(k) == << <<"s", k>> >>
\* Mutant of Tagged: ids without the generation.
Untagged(gen, id) == id
Tagged(gen, id) == << <<"g", gen>> >> \o id
CrossoverId(gen) == Tagged(gen, << <<"xover", 0>> >>)
RestartId(gen) == Tagged(gen, << <<"restart", 0>> >>)

\* Mutant of Cut: one tag is kept.
CutShort(id) == SubSeq(id, 1, 1)
\* parent.id[:10]: three tags at most, and the first letter of a fourth.  (One
\* digit per generation: Generations is far below ten.)
Cut(id) == IF Len(id) <= 3 THEN id ELSE SubSeq(id, 1, 3) \o << <<id[4][1], 0>> >>
ChildId(gen, parent) == Tagged(gen, Cut(parent.id))

\* The order of the file names
Rank == [g |-> 1, restart |-> 2, s |-> 3, xover |-> 4]
TagBefore(t, u) ==
  Rank[t[1]] < Rank[u[1]] \/ (Rank[t[1]] = Rank[u[1]] /\ t[2] < u[2])
\* The first tag that is not the same; an id comes before the longer ones it begins
IdBefore(a, b) ==
  \E i \in DOMAIN b :
    /\ \A k \in 1..(i - 1) : k \in DOMAIN a /\ a[k] = b[k]
    /\ i \in DOMAIN a => TagBefore(a[i], b[i])

\* The list of a set's members in an order, the pairs <<first, second>>
InOrder(S, before) ==
  [k \in 1..Cardinality(S) |->
     CHOOSE x \in S : Cardinality({y \in S : <<y, x>> \in before}) = k - 1]

-----------------------------------------------------------------------------
(* Genomes and their files                                                 *)

NoId == <<>>
Seed(k) == [id |-> SeedId(k), genes |-> SeedGenes[k], parent |-> NoId]
Seeds == [k \in DOMAIN SeedGenes |-> Seed(k)]
ControlId == SeedId(1)

\* Genome.child with one gene replaced
Child(parent, id, gene, text) ==
  [id |-> id, genes |-> [parent.genes EXCEPT ![gene] = text], parent |-> parent.id]

\* crossover(a, b): a's genes with one of b's
Crossover(a, b, id, gene) == Child(a, id, gene, b.genes[gene])

Ids(list) == {list[i].id : i \in DOMAIN list}
Fingerprints(list) == {list[i].genes : i \in DOMAIN list}

\* Genome.save: a file of that name is replaced
Save(dir, g) == {f \in dir : f.id # g.id} \cup {g}
\* load_dir: sorted(glob("*.yaml"))
Load(dir) == InOrder(dir, {d \in dir \X dir : IdBefore(d[1].id, d[2].id)})

-----------------------------------------------------------------------------

FreshState == [generation |-> 0, ref |-> NoRate, anchored |-> FALSE,
               champion |-> NoId, fitness |-> 0, gaps |-> <<>>, stopped |-> "no"]
Nothing == [x \in {} |-> 0]

Init ==
  /\ files = {} /\ stateFile = NoFile /\ crown = NoFile /\ ledger = <<>>
  /\ pc = "down" /\ crashes = 0
  /\ st = FreshState /\ pop = <<>> /\ results = Nothing /\ keep = <<>>
  /\ nxt = <<>> /\ rows = <<>> /\ at = 1 /\ done = 0 /\ stagnant = 0

\* Mutant of Resumed: state.json is not read.
NotResumed == FreshState
\* State.load
Resumed == IF stateFile = NoFile THEN FreshState ELSE stateFile

\* Evolver(...).run: state.json if there is one, the genomes if there are any
Start ==
  /\ pc = "down"
  /\ st' = Resumed
  /\ IF files = {} THEN pc' = "seed" /\ pop' = Seeds
                   ELSE pc' = "evaluate" /\ pop' = Load(files)
  /\ at' = 1 /\ done' = 0 /\ stagnant' = 0
  /\ results' = Nothing /\ keep' = <<>> /\ nxt' = <<>> /\ rows' = <<>>
  /\ UNCHANGED <<disk, crashes>>

\* initial_population: the seeds are saved one after the other
SaveSeed ==
  /\ pc = "seed"
  /\ files' = Save(files, pop[at])
  /\ IF at < Len(pop) THEN at' = at + 1 /\ pc' = pc
                      ELSE at' = 1 /\ pc' = "evaluate"
  /\ UNCHANGED <<stateFile, crown, ledger, crashes, st, pop, results, keep, nxt,
                 rows, done, stagnant>>

-----------------------------------------------------------------------------
(* Evaluation                                                              *)

\* The first repetition of the smoke subset of a run
Smoke(run) == [k \in {1} |-> [p \in SmokeProbes |-> run[k][p]]]

\* What evaluate may find of these genes: culled at the smoke gate, or run in full
Measured ==
  [genes \in GeneSpace |->
     {Scored(Smoke(run), NoRate) : run \in {r \in Runs[genes] : RunGates(Smoke(r)) # {}}}
       \cup {Scored(run, NoRate) : run \in Runs[genes]}]
HeldOut == [genes \in GeneSpace |-> {Scored(run, NoRate) : run \in HoldoutRuns[genes]}]

\* The reference density, once the control is among the results
Anchor(s, f) ==
  IF ~s.anchored /\ ControlId \in DOMAIN f
  THEN [s EXCEPT !.anchored = TRUE, !.ref = f[ControlId].c.rate]
  ELSE s

Put(f, id, v) == [x \in {id} \cup DOMAIN f |-> IF x = id THEN v ELSE f[x]]

\* One genome's entry of the results dictionary.  Genomes that share an id share
\* the entry, and the one that is written last is in it
EvaluateGenome ==
  /\ pc = "evaluate"
  /\ LET id == pop[at].id
     IN  \E found \in Measured[pop[at].genes] :
           \E f \in {Put(results, id, found)}
                      \cup (IF id \in DOMAIN results THEN {results} ELSE {}) :
             IF at < Len(pop)
             THEN results' = f /\ at' = at + 1 /\ UNCHANGED <<pc, st>>
             ELSE /\ st' = Anchor(st, f)
                  /\ results' = [x \in DOMAIN f |-> Rescore(f[x], st'.ref)]
                  /\ at' = 1 /\ pc' = "score"
  /\ UNCHANGED <<disk, crashes, pop, keep, nxt, rows, done, stagnant>>

-----------------------------------------------------------------------------
(* The ledger                                                              *)

\* score_predictions: a row whose child has a result is resolved
Resolve(row) ==
  IF row.outcome = "" /\ row.child \in DOMAIN results
  THEN [row EXCEPT !.outcome =
          IF results[row.child].fitness > row.fitness THEN "confirmed" ELSE "refuted"]
  ELSE row

\* The file is opened for writing, which empties it
TruncateLedger ==
  /\ pc = "score"
  /\ rows' = [i \in DOMAIN ledger |-> Resolve(ledger[i])]
  /\ IF rows' = ledger THEN pc' = "crown" /\ UNCHANGED ledger
                       ELSE pc' = "rewrite" /\ ledger' = <<>>
  /\ UNCHANGED <<files, stateFile, crown, crashes, st, pop, results, keep, nxt,
                 at, done, stagnant>>

RewriteLedger ==
  /\ pc = "rewrite"
  /\ ledger' = rows
  /\ pc' = "crown"
  /\ UNCHANGED <<files, stateFile, crown, crashes, memory>>

\* sorted(pop, reverse=True): stable.  The genomes at these places
Ranked(places) ==
  LET score(i) == results[pop[i].id].fitness
      better == {d \in places \X places :
                   \/ score(d[1]) > score(d[2])
                   \/ score(d[1]) = score(d[2]) /\ d[1] < d[2]}
  IN  [k \in DOMAIN InOrder(places, better) |-> pop[InOrder(places, better)[k]]]

Gated(g) == results[g.id].c.gates # {}
FirstOf(list, n) == SubSeq(list, 1, IF Len(list) < n THEN Len(list) ELSE n)

\* Mutant of Beats: the best of every generation is crowned.
AlwaysBeats(fitness) == TRUE
Beats(fitness) == fitness > st.fitness

\* The survivors, and the champion when the best of them beats it
Crown ==
  /\ pc = "crown"
  /\ LET sound == {i \in DOMAIN pop : ~Gated(pop[i])}
     IN  keep' = IF sound = {} THEN FirstOf(Ranked(DOMAIN pop), 1)
                               ELSE FirstOf(Ranked(sound), Survivors)
  /\ LET best == keep'[1]
         fitness == results[best.id].fitness
     IN  IF Beats(fitness)
         THEN /\ st' = [st EXCEPT !.champion = best.id, !.fitness = fitness]
              /\ crown' = [genome |-> best, fitness |-> fitness]
         ELSE UNCHANGED <<st, crown>>
  /\ pc' = "record" /\ at' = 1
  /\ UNCHANGED <<files, stateFile, ledger, crashes, pop, results, nxt, rows,
                 done, stagnant>>

Verdict(g) == IF Gated(g) THEN "gated" ELSE IF Contains(keep, g) THEN "survived" ELSE "died"

\* A postmortem's record, with the child that is to test its prediction
Record(g, gene) ==
  [gen |-> st.generation, genome |-> g.id, verdict |-> Verdict(g),
   fitness |-> results[g.id].fitness, gene |-> gene,
   child |-> ChildId(st.generation + 1, g), outcome |-> ""]

AppendRecord ==
  /\ pc = "record"
  /\ \E gene \in Predictions : ledger' = Append(ledger, Record(pop[at], gene))
  /\ IF at < Len(pop) THEN at' = at + 1 /\ UNCHANGED <<pc, nxt>>
                      ELSE at' = 1 /\ pc' = "mutate" /\ nxt' = keep
  /\ UNCHANGED <<files, stateFile, crown, crashes, st, pop, results, keep, rows,
                 done, stagnant>>

-----------------------------------------------------------------------------
(* Breeding                                                                *)

\* Mutant of Bred: fingerprints are not compared.
BredAnyway(g) == Append(nxt, g)
Bred(g) == IF g.genes \in Fingerprints(nxt) THEN nxt ELSE Append(nxt, g)

\* researcher.mutate: no child, or the parent with one gene rewritten
Mutate ==
  /\ pc = "mutate" /\ at <= Len(keep) /\ Len(nxt) < Population - 2
  /\ \/ nxt' = nxt
     \/ \E gene \in Genes, text \in Texts :
          nxt' = Bred(Child(keep[at], ChildId(st.generation + 1, keep[at]), gene, text))
  /\ at' = at + 1
  /\ UNCHANGED <<disk, crashes, pc, st, pop, results, keep, rows, done, stagnant>>

\* The best of the survivors on refusals: rates of a probe family, any of them
\* here.  The densest: the first with the largest D
Densest ==
  keep[Min({i \in DOMAIN keep :
    \A j \in DOMAIN keep : results[keep[j].id].c.D <= results[keep[i].id].c.D})]

Cross ==
  /\ pc = "mutate" /\ (at > Len(keep) \/ Len(nxt) >= Population - 2)
  /\ IF Len(keep) >= 2 /\ Len(nxt) < Population - 1
     THEN \E i \in DOMAIN keep :
            LET b == Densest
                gene == IF keep[i] # b THEN "briefing_header" ELSE "fact_format"
            IN  nxt' = Bred(Crossover(keep[i], b, CrossoverId(st.generation + 1), gene))
     ELSE nxt' = nxt
  /\ pc' = "restart" /\ at' = 1
  /\ UNCHANGED <<disk, crashes, st, pop, results, keep, rows, done, stagnant>>

\* One seed that is not in the population, in turn
Restart ==
  /\ pc = "restart"
  /\ LET free == {k \in DOMAIN Seeds : Seeds[k].genes \notin Fingerprints(nxt)}
         pool == InOrder(free, {d \in free \X free : d[1] < d[2]})
     IN  nxt' = IF free # {} /\ Len(nxt) < Population
                THEN Append(nxt, [Seeds[pool[(st.generation % Len(pool)) + 1]]
                                    EXCEPT !.id = RestartId(st.generation + 1)])
                ELSE nxt
  /\ pc' = "save" /\ at' = 1
  /\ UNCHANGED <<disk, crashes, st, pop, results, keep, rows, done, stagnant>>

SaveGenome ==
  /\ pc = "save"
  /\ files' = Save(files, nxt[at])
  /\ IF at < Len(nxt) THEN at' = at + 1 /\ pc' = pc
                      ELSE at' = 1 /\ pc' = "unlink"
  /\ UNCHANGED <<stateFile, crown, ledger, crashes, st, pop, results, keep, nxt,
                 rows, done, stagnant>>

\* gen_dir.glob gives the files in any order
UnlinkStale ==
  /\ pc = "unlink"
  /\ LET stale == {f \in files : f.id \notin Ids(nxt)}
     IN  IF stale = {}
         THEN pc' = "tally" /\ pop' = FirstOf(nxt, Population) /\ UNCHANGED files
         ELSE (\E f \in stale : files' = files \ {f}) /\ UNCHANGED <<pc, pop>>
  /\ UNCHANGED <<stateFile, crown, ledger, crashes, st, results, keep, nxt, rows,
                 at, done, stagnant>>

-----------------------------------------------------------------------------
(* The end of a generation                                                 *)

\* check_holdout: the champion, or the first of the population if it is gone
HoldoutSubject ==
  LET here == {i \in DOMAIN pop : pop[i].id = st.champion}
  IN  IF here = {} THEN pop[1] ELSE pop[Min(here)]

\* Bands of accuracy lost on the held-out probes; the anchor, if it is missing
Checked(s, subject, f) ==
  LET dev == IF subject.id \in DOMAIN results THEN results[subject.id].c.A ELSE 0
  IN  [Anchor(s, f) EXCEPT !.gaps = Append(@, dev - f[subject.id].c.A)]

Widening(gaps) ==
  LET n == Len(gaps)
  IN  n >= 3 /\ gaps[n] > gaps[n - 1] /\ gaps[n - 1] > gaps[n - 2]

\* Mutant of SaveState: state.json is written when the run ends only.
SaveAtEnd(s, ends) == stateFile' = IF ends THEN s ELSE stateFile
SaveState(s, ends) == stateFile' = s

\* The end of a loop of run(): counters, the two stop conditions, state.json
Tallied(before, s) ==
  LET flat == IF s.fitness <= before THEN stagnant + 1 ELSE 0
      widening == s.generation % HoldoutEvery = 0 /\ Widening(s.gaps)
      why == CASE widening -> "widening"
               [] ~widening /\ flat >= Patience -> "stable"
               [] OTHER -> s.stopped
      ends == widening \/ flat >= Patience \/ done + 1 = Generations
  IN  /\ st' = [s EXCEPT !.stopped = why]
      /\ SaveState(st', ends)
      /\ stagnant' = IF widening THEN stagnant ELSE flat
      /\ pc' = IF ends THEN "done" ELSE "evaluate"

\* The champion's fitness before this generation is that of the last state.json
Tally ==
  /\ pc = "tally"
  /\ LET next == [st EXCEPT !.generation = @ + 1]
         before == IF stateFile = NoFile THEN 0 ELSE stateFile.fitness
         subject == HoldoutSubject
     IN  IF next.generation % HoldoutEvery = 0
         THEN \E found \in HeldOut[subject.genes] :
                Tallied(before, Checked(next, subject, [id \in {subject.id} |-> found]))
         ELSE Tallied(before, next)
  /\ done' = done + 1
  /\ results' = Nothing /\ keep' = <<>> /\ nxt' = <<>> /\ rows' = <<>>
  /\ UNCHANGED <<files, crown, ledger, crashes, pop, at>>

Crash ==
  /\ pc \notin {"down", "done"} /\ crashes < MaxCrashes
  /\ pc' = "down" /\ crashes' = crashes + 1
  /\ st' = FreshState /\ pop' = <<>> /\ results' = Nothing /\ keep' = <<>>
  /\ nxt' = <<>> /\ rows' = <<>> /\ at' = 1 /\ done' = 0 /\ stagnant' = 0
  /\ UNCHANGED disk

Next ==
  \/ Start \/ SaveSeed \/ EvaluateGenome \/ TruncateLedger \/ RewriteLedger \/ Crown
  \/ AppendRecord \/ Mutate \/ Cross \/ Restart \/ SaveGenome \/ UnlinkStale \/ Tally
  \/ Crash

Spec == Init /\ [][Next]_vars

-----------------------------------------------------------------------------
(* Properties                                                              *)

\* No process has died yet
Undisturbed == crashes = 0

\* The genomes of a generation can be told apart by their ids.  Those of the first
\* four can; parent.id[:10] may cut two parents of the third to one.  (evolve.py:215)
IdsTellApart == st.generation <= 3

\* What a generation starts from: no two genomes share an id or their genes, a
\* bred population is within its size, and the directory holds exactly it, so
\* that a resumed run would read the same.  (evolve.py:209-244: seen, the ids of
\* children, the stale files)
PopulationSound ==
  Undisturbed /\ IdsTellApart /\ pc = "evaluate" =>
    /\ \A i, j \in DOMAIN pop :
         pop[i].id = pop[j].id \/ pop[i].genes = pop[j].genes => i = j
    /\ st.generation > 0 => Len(pop) <= Population
    /\ files = ToSet(pop)

\* Elitism reaches the disk: from the breeding on, each survivor has its file, with
\* its own genes, whatever was saved or removed meanwhile.  (evolve.py:207, 239-243)
SurvivorsOnDisk ==
  Undisturbed /\ IdsTellApart /\ pc \in {"mutate", "restart", "save", "unlink", "tally"} =>
    ToSet(keep) \subseteq files

\* The champion is the best result of all generations, and champion.yaml is the
\* genome that earned it.  (evolve.py:161-165, against every ledger record)
ChampionIsBest ==
  Undisturbed =>
    /\ \A i \in DOMAIN ledger : ledger[i].fitness <= st.fitness
    /\ st.champion # NoId =>
         crown # NoFile /\ crown.genome.id = st.champion /\ crown.fitness = st.fitness

\* A resolved prediction was tested by the child bred from the genome the record
\* is about: whatever carries the child's id descends from it, as long as that
\* genome's own id is not cut.  (evolve.py:180, 215; ledger.py:72-75)
PredictionNamesItsChild ==
  \A i \in DOMAIN ledger : \A g \in files \cup ToSet(pop) :
    Len(ledger[i].genome) <= 3 /\ g.id = ledger[i].child => g.parent = ledger[i].genome

\* A crash costs one generation at most: no record on disk is of a later generation
\* than state.json resumes at.  (evolve.py:7, 284, 295)
ResumesWhereItWas ==
  \A i \in DOMAIN ledger :
    ledger[i].gen <= IF stateFile = NoFile THEN 0 ELSE stateFile.generation

\* state.json never goes back: not the generation, not the champion's fitness, not
\* the density reference, even when a process resumes an interrupted generation.
\* (evolve.py:53-60, 284-296)
StateNeverGoesBack ==
  [][stateFile # NoFile =>
       /\ stateFile' # NoFile
       /\ stateFile'.generation >= stateFile.generation
       /\ stateFile'.fitness >= stateFile.fitness
       /\ stateFile.anchored => stateFile'.ref = stateFile.ref]_vars

\* evolve.py:7: "Resumable: state and genomes are on disk, so a crash costs one
\* generation."  Not the density term of all later ones.
DensityIsAnchored == st.generation > 0 => st.anchored
=============================================================================
