---- MODULE MCPerception ----
(* Perception for TLC. *)
EXTENDS Perception

MCPlaces == 1..2
MCTracks == 1..3

\* What a subscriber that missed a birth or a loss goes through is not followed.
Followed == ~torn
=============================
