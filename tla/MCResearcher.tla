---- MODULE MCResearcher ----
(* Researcher for TLC: the constants are given in the configuration. *)
EXTENDS Researcher
=============================
