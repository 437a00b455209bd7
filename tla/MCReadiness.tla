---------------------------- MODULE MCReadiness ----------------------------
(* The instance of the readiness verifier that TLC checks. *)
EXTENDS Readiness

\* earsd runs on another node, whose clock is further ahead than is tolerated.
MCAhead == [s \in Required |-> IF s = "earsd" THEN 2 ELSE 0]
=============================================================================
