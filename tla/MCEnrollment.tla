---- MODULE MCEnrollment ----
(* Enrollment for TLC: one enrolled person, strangers, and the looks of both. *)
EXTENDS Enrollment, TLC

CONSTANTS p, x1, x2, t1, t2, lp, lz, np, nx

MCCos == [ab \in Looks \X Looks |-> IF ab[1] = ab[2] THEN 100 ELSE 10]
MCGallery == [e \in Entities \cap {p} |-> <<np, lp>>]
MCSymmetry == Permutations({x1, x2}) \cup Permutations(Tracks) \cup Permutations(Names \ {np})
=============================
