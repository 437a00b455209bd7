----------------------------- MODULE MCEvolution -----------------------------
(* Evolution for TLC: two genes of two texts, two probes. *)
EXTENDS Evolution

CONSTANTS q1, q2

G(header, format) == ("briefing_header" :> header) @@ ("fact_format" :> format)
MCSeedGenes == << G(1, 1), G(2, 1), G(1, 2) >>

Good == [answered |-> TRUE, allowed |-> TRUE, phrase |-> TRUE, forbidden |-> "none",
         fallback |-> 0, judge |-> "pass", relevant |-> 1, tokens |-> 4, ms |-> 5000]
Dense == [Good EXCEPT !.tokens = 2]
Wrong == [Good EXCEPT !.phrase = FALSE, !.judge = "fail"]
Invented == [Good EXCEPT !.forbidden = "word"]
Broken == [Good EXCEPT !.fallback = 2]

Twice(a, b) == [k \in 1..2 |-> (q1 :> a) @@ (q2 :> b)]
Flaky(a, b) == [k \in 1..2 |-> (q1 :> a) @@ (q2 :> IF k = 1 THEN a ELSE b)]

MCRuns ==
  (G(1, 1) :> {Flaky(Good, Wrong)}) @@
  (G(2, 1) :> {Flaky(Wrong, Good)}) @@
  (G(1, 2) :> {Twice(Dense, Dense), Twice(Dense, Invented)}) @@
  (G(2, 2) :> {Twice(Broken, Good)})
\* A control that may invent something
MCUnsteady == [MCRuns EXCEPT ![G(1, 1)] = @ \cup {Twice(Good, Invented)}]
MCHoldoutRuns ==
  (G(1, 1) :> {Twice(Good, Good)}) @@
  (G(2, 1) :> {Twice(Wrong, Good)}) @@
  (G(1, 2) :> {Twice(Good, Good), Twice(Wrong, Good), Twice(Wrong, Wrong)}) @@
  (G(2, 2) :> {Twice(Wrong, Wrong)})
=============================================================================
