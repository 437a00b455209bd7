-------------------------------- MODULE Mind --------------------------------
(***************************************************************************)
(* cortexd as the orchestrator meets it: the generation queue and the      *)
(* semantic mirror are one process, so a crash of it fails both kinds of   *)
(* call at once, while the facts and the calls under way go on.            *)
(***************************************************************************)
EXTENDS Memory

mindVars == <<cortexVars, memoryVars>>

Init == CortexInit /\ MemoryInit

Next ==
  \/ CortexNext /\ UNCHANGED memoryVars
  \/ MemoryNext /\ UNCHANGED cortexVars

Spec == Init /\ [][Next]_mindVars

FairSpec == Spec /\ CortexFairness
=============================================================================
