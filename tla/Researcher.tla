----------------------------- MODULE Researcher -----------------------------
(***************************************************************************)
(* The language models that reflect on a generation: evolution/llm.py      *)
(* under evolution/researcher.py.                                          *)
(*                                                                         *)
(* Every generation asks for one postmortem per genome, several at a time, *)
(* over one client whose threads share what it has learned of the server;  *)
(* then for new lessons, then for a mutated gene per parent, one call      *)
(* after the other over a second client.  A server may reject a way of     *)
(* constraining its output, fail, or answer with something that is not     *)
(* what was asked for, and none of it may end the run.                     *)
(***************************************************************************)
EXTENDS Integers, FiniteSets, Sequences

CONSTANTS
  Jobs,               \* postmortems of a generation
  Parents,            \* genomes to mutate
  MaxConcurrency,     \* threads of a batch
  MaxRetries,         \* attempts of a call
  FreeTurns,          \* renegotiations that cost no attempt: 3
  MutateAttempts,     \* calls per mutation: 3
  Nobody

ASSUME ResearcherAssumption ==
  /\ Jobs \in Nat \ {0} /\ Parents \in Nat /\ MaxConcurrency \in Nat \ {0}
  /\ MaxRetries \in Nat \ {0} /\ FreeTurns \in Nat /\ MutateAttempts \in Nat \ {0}
  /\ Nobody \notin Nat

Formats == {"json_schema", "json_object", "text"}
Clients == {"postmortem", "synthesis"}
Main == 0
Callers == {Main} \cup 1..Jobs
Client(c) == IF c = Main THEN "synthesis" ELSE "postmortem"

VARIABLES
  accepted,    \* what each client's server accepts
  mode,        \* per client: schema_mode, json_object_mode, json_mode
  call,        \* per caller: where it is in complete_json
  out,         \* LLMClient.map: per job how its call ended, or Nobody
  phase,       \* where the generation's reflection is
  trial,       \* attempts of the running mutation
  parent,      \* the parent that is mutated
  lessons,     \* the generation the lessons on disk are of: 0 old, 1 new
  children     \* per parent: a child, or Nobody

vars == <<accepted, mode, call, out, phase, trial, parent, lessons, children>>

-----------------------------------------------------------------------------

\* A caller at rest, and one with its payload made up
Idle == [at |-> "idle", format |-> "text", attempt |-> 0, turns |-> 0, errors |-> 0]

\* apply_format, for a call that wants JSON of a schema
Offer(m) ==
  CASE m.json /\ m.schema             -> "json_schema"
    [] m.json /\ ~m.schema /\ m.object -> "json_object"
    [] OTHER                           -> "text"

Asking(client) == [Idle EXCEPT !.at = "send", !.format = Offer(mode[client])]

Init ==
  /\ \E s \in SUBSET Formats : accepted = [k \in Clients |-> s]
  /\ mode = [k \in Clients |-> [schema |-> TRUE, object |-> TRUE, json |-> TRUE]]
  /\ call = [c \in Callers |-> Idle]
  /\ out = [i \in 1..Jobs |-> Nobody]
  /\ phase = "batch" /\ trial = 1 /\ parent = 1 /\ lessons = 0
  /\ children = [k \in 1..Parents |-> Nobody]

Finished(c) == call[c].at \in {"done", "failed"}
Underway(c) == call[c].at \in {"send", "rejected"}

-----------------------------------------------------------------------------
(* complete: one POST, and what follows from the answer.  c is the caller  *)

rest == <<accepted, out, phase, trial, parent, lessons, children>>

\* extract_json finds an object in the text, or complete_json raises
Parsed == {"done", "failed"}

\* The server answers with choices.
Answer(c) ==
  /\ call[c].at = "send" /\ call[c].format \in accepted[Client(c)]
  /\ \E at \in Parsed : call' = [call EXCEPT ![c].at = at]
  /\ UNCHANGED <<mode, rest>>

\* Mutant of Switched: the fixed ladder of the comment, which gives up both.
Ladder(m, format) == [m EXCEPT !.schema = FALSE, !.object = FALSE]
\* 400 "response_format": the rejected mode is switched off for all threads
Switched(m, format) ==
  CASE format = "json_schema" -> [m EXCEPT !.schema = FALSE]
    [] format = "json_object" -> [m EXCEPT !.object = FALSE]
    [] OTHER                  -> m

Reject(c) ==
  /\ call[c].at = "send" /\ call[c].format \notin accepted[Client(c)]
  /\ mode' = [mode EXCEPT ![Client(c)] = Switched(@, call[c].format)]
  /\ call' = [call EXCEPT ![c].at = "rejected"]
  /\ UNCHANGED rest

\* A failed attempt; the last one ends the call
Failed(c, more) ==
  [call[c] EXCEPT !.attempt = @ + 1, !.errors = @ + more,
                  !.at = IF call[c].attempt + 1 >= MaxRetries THEN "failed" ELSE "send"]

\* Mutant of Turned: every renegotiation is an attempt.
Spent(c) == [Failed(c, 0) EXCEPT !.turns = @ + 1]
\* Mutant of Turned: renegotiations are not counted.
Endless(c) == [call[c] EXCEPT !.at = "send"]
\* Renegotiations are free up to FreeTurns, then each is an attempt
Turned(c) ==
  IF call[c].turns < FreeTurns
  THEN [call[c] EXCEPT !.at = "send", !.turns = @ + 1]
  ELSE [Failed(c, 0) EXCEPT !.turns = @ + 1]

\* Another thread may have changed the modes meanwhile.  When the same payload
\* comes out again, there is nothing left to try
Renegotiate(c) ==
  /\ call[c].at = "rejected"
  /\ LET k == Client(c)
         again == Offer(mode[k]) = call[c].format
         m == IF again THEN [mode[k] EXCEPT !.json = FALSE] ELSE mode[k]
     IN  /\ mode' = [mode EXCEPT ![k] = m]
         /\ call' = [call EXCEPT ![c] = [Turned(c) EXCEPT !.format = Offer(m)]]
  /\ UNCHANGED rest

\* A status to retry, a timeout, a lost connection, an error body; the payload stays
Fault(c) ==
  /\ call[c].at = "send"
  /\ call' = [call EXCEPT ![c] = Failed(c, 1)]
  /\ UNCHANGED <<mode, rest>>

-----------------------------------------------------------------------------
(* postmortem_batch: LLMClient.map over the genomes                        *)

Workers == IF MaxConcurrency < Jobs THEN MaxConcurrency ELSE Jobs

\* The executor's queue is first in, first out
StartJob(i) ==
  /\ phase = "batch" /\ call[i].at = "idle" /\ out[i] = Nobody
  /\ \A j \in 1..(i - 1) : call[j].at # "idle" \/ out[j] # Nobody
  /\ Cardinality({j \in 1..Jobs : Underway(j)}) < Workers
  /\ call' = [call EXCEPT ![i] = Asking("postmortem")]
  /\ UNCHANGED <<mode, rest>>

\* as_completed: a job is over, in any order, and its result goes where futs says its
\* future belongs.  A postmortem that failed is an empty one: no hypothesis, no gene
Collect(i) ==
  /\ phase = "batch" /\ Finished(i)
  /\ out' = [out EXCEPT ![i] = call[i].at]
  /\ call' = [call EXCEPT ![i] = Idle]
  /\ UNCHANGED <<accepted, mode, phase, trial, parent, lessons, children>>

\* The batch is complete: the synthesis asks for new lessons
StartSynthesis ==
  /\ phase = "batch" /\ \A i \in 1..Jobs : out[i] # Nobody
  /\ phase' = "synthesis"
  /\ call' = [call EXCEPT ![Main] = Asking("synthesis")]
  /\ UNCHANGED <<accepted, mode, out, trial, parent, lessons, children>>

\* Breeding begins, or is over
NextPhase(k) == IF k > Parents THEN "end" ELSE "mutate"
Ask(k) == IF k > Parents THEN Idle ELSE Asking("synthesis")

\* synthesize returns the lessons it was given when the call failed
EndSynthesis ==
  /\ phase = "synthesis" /\ Finished(Main)
  /\ lessons' = IF call[Main].at = "done" THEN 1 ELSE lessons
  /\ phase' = NextPhase(1)
  /\ call' = [call EXCEPT ![Main] = Ask(1)]
  /\ UNCHANGED <<accepted, mode, out, trial, parent, children>>

-----------------------------------------------------------------------------
(* mutate                                                                  *)

Bear(child) ==
  /\ children' = [children EXCEPT ![parent] = child]
  /\ parent' = parent + 1 /\ trial' = 1
  /\ phase' = NextPhase(parent + 1)
  /\ call' = [call EXCEPT ![Main] = Ask(parent + 1)]

\* An edit that Genome.child validates
AcceptEdit ==
  /\ phase = "mutate" /\ call[Main].at = "done"
  /\ Bear(parent)
  /\ UNCHANGED <<accepted, mode, out, lessons>>

\* A gene that is frozen, a value of the wrong type or that breaks the genome, or no
\* answer at all: the reason goes into the next prompt
RejectEdit ==
  /\ phase = "mutate" /\ Finished(Main)
  /\ IF trial < MutateAttempts
     THEN /\ trial' = trial + 1
          /\ call' = [call EXCEPT ![Main] = Asking("synthesis")]
          /\ UNCHANGED <<children, parent, phase>>
     ELSE Bear(Nobody)
  /\ UNCHANGED <<accepted, mode, out, lessons>>

Next ==
  \/ \E c \in Callers : Answer(c) \/ Reject(c) \/ Renegotiate(c) \/ Fault(c)
  \/ \E i \in 1..Jobs : StartJob(i) \/ Collect(i)
  \/ StartSynthesis \/ EndSynthesis \/ AcceptEdit \/ RejectEdit

Spec == Init /\ [][Next]_vars

\* Every thread runs, and every request ends, if by its timeout
FairSpec == Spec /\ WF_vars(Next)

-----------------------------------------------------------------------------
(* Properties                                                              *)

\* Negotiating with a server that takes plain text never costs an attempt, however
\* many threads switch modes at once: all attempts spent are failures of the
\* server.  (llm.py:158-161: a client with max_retries=1 must recover)
NegotiationIsFree ==
  \A c \in Callers : "text" \in accepted[Client(c)] => call[c].attempt = call[c].errors

\* No thread switches off a mode the server accepts, so whatever is asked is asked
\* under the strongest constraint that may still work.  (llm.py:76-82, 123-128)
OnlyRejectedModesGo ==
  \A k \in Clients :
    /\ "json_schema" \in accepted[k] => mode[k].schema
    /\ "json_object" \in accepted[k] => mode[k].object
    /\ "text" \in accepted[k] => mode[k].json

\* A reflection outage does not stop the generation: whatever the servers accept
\* and however they fail, breeding is reached and ends.  (researcher.py:223, 263)
ReflectionEnds == <>(phase = "end")
=============================================================================
