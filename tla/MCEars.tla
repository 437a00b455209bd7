------------------------------- MODULE MCEars -------------------------------
(* The instance of earsd that TLC checks. *)
EXTENDS Ears
=============================================================================
