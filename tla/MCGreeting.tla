---- MODULE MCGreeting ----
(* Greeting for TLC: people who may be enrolled or not, on two tracks. *)
EXTENDS Greeting, TLC

CONSTANTS p, x1, x2, t1, t2

MCSymmetry == Permutations(Entities) \cup Permutations(Tracks)
=============================
