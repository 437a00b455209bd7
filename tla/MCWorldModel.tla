---- MODULE MCWorldModel ----
(* WorldModel for TLC: two enrolled people, two ids for strangers, two tracks. *)
EXTENDS WorldModelPresence, TLC

CONSTANTS p, q, x1, x2, t1, t2, lp, lq, lz, ly, lu, np, nq, nx

\* lp and lq are the enrolled faces, lz and ly two strangers alike enough to
\* average but not to agree, lu a bad shot of lp.
Similarity(a, b) ==
  CASE a = b -> 100
    [] {a, b} = {lp, lu} -> 45
    [] {a, b} = {lz, ly} -> 52
    [] OTHER -> 10

MCCos == [ab \in Looks \X Looks |-> Similarity(ab[1], ab[2])]
MCGallery ==
  [e \in Entities \cap {p, q} |-> IF e = p THEN <<np, lp>> ELSE <<nq, lq>>]
MCStrangers == Permutations({x1, x2})
MCSymmetry == MCStrangers \cup Permutations(Tracks)
=============================
