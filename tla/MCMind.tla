------------------------------- MODULE MCMind -------------------------------
(* Mind for TLC: a handful of texts, and two statements that are near. *)
EXTENDS Mind

CONSTANTS r1, r2

\* A good text, indices that collide or are out of range, a malformed option
\* before the chosen one, and texts without a list of options.
MCTexts ==
  { [options |-> <<"say", "wait">>, choice |-> 0, backup |-> 1],
    [options |-> <<"say">>, choice |-> 7, backup |-> 0],
    [options |-> <<"malformed", "say">>, choice |-> 1, backup |-> 1],
    NoJson, BadList }

MCNear == {<<s, t>> \in Statements \X Statements : s = t \/ {s, t} = {"tea", "chai"}}

\* The queue and the facts share nothing but the process, so one of the two is
\* explored at a time: requests while no fact was told, facts while none waits.
OneAtATime ==
  \/ facts = << >> /\ \A t \in Threads : step[t] = "idle"
  \/ pool = << >> /\ running = Nothing /\ \A r \in Requests : pc[r] = "idle"
=============================================================================
