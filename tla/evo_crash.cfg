\* A crash between the genomes and state.json of the first generation.
SPECIFICATION Spec
CONSTANTS
  q1 = q1  q2 = q2
  Probes = {q1, q2}
  HoldoutProbes = {q1, q2}
  SmokeProbes = {q1}
  Judged = {q1}
  Baits = {q2}
  Genes = {"briefing_header", "fact_format"}
  Texts = {1, 2}
  SeedGenes <- MCSeedGenes
  Runs <- MCUnsteady
  HoldoutRuns <- MCHoldoutRuns
  Predictions = {"fact_format"}
  Population = 4  Survivors = 2  HoldoutEvery = 1  Patience = 3
  Generations = 2  MaxCrashes = 1
  NoGene = NoGene  NoFile = NoFile
CHECK_DEADLOCK FALSE
INVARIANT DensityIsAnchored
