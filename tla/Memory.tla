------------------------------- MODULE Memory -------------------------------
(***************************************************************************)
(* The facts of SPARC: Node A's table (world_model.py commit_fact), which  *)
(* is canonical, and cortexd's semantic mirror of it (memory.py), which    *)
(* the orchestrator's two threads keep (orchestrator.py _commit_fact):     *)
(* look up the nearest mirrored fact, reinforce it or the exact statement  *)
(* or insert a new fact, then mirror the fact.  The mirror is served by    *)
(* the process of Cortex, and answers while that is serving.               *)
(*                                                                         *)
(* Confidence is left out: reinforcing a fact changes nothing else.  Facts *)
(* are numbered in the order of their insertion.                           *)
(***************************************************************************)
EXTENDS Cortex

CONSTANTS
  Threads,     \* "mqtt" (on_transcript) and "main" (execute)
  Statements,
  Near,        \* pairs of statements with a score of dup_threshold or more
  MaxFacts,    \* bound: rows of the table
  MaxDeaths,   \* bound: crashes of the orchestrator
  NoFact,      \* no id
  NoStatement  \* a thread that commits nothing

ASSUME MemoryAssumption ==
  /\ IsFiniteSet(Threads) /\ NoFact \notin Nat
  /\ MaxFacts \in Nat /\ MaxDeaths \in Nat
  /\ \A s \in Statements : <<s, s>> \in Near

FactIds == 1..MaxFacts

VARIABLES
  facts,     \* the table: the statement of each id
  mirror,    \* fact_text and fact_vec: the statement of each mirrored id
  step,      \* per thread: "idle", "recall", "select", "write", "mirror"
  stmt,      \* per thread: the statement it commits
  similar,   \* per thread: the mirrored fact at dup_threshold or nearer
  target,    \* per thread: the row its SELECTs found
  deaths,    \* crashes of the orchestrator so far
  missed     \* history: facts whose upsert failed, or that a crash overtook

commitVars == <<step, stmt, similar, target>>
memoryVars == <<facts, mirror, commitVars, deaths, missed>>

MemoryInit ==
  /\ facts = << >>
  /\ mirror = << >>
  /\ step = [t \in Threads |-> "idle"]
  /\ stmt = [t \in Threads |-> NoStatement]
  /\ similar = [t \in Threads |-> NoFact]
  /\ target = [t \in Threads |-> NoFact]
  /\ deaths = 0
  /\ missed = {}

\* _commit_fact returns.
Finish(t) ==
  /\ step' = [step EXCEPT ![t] = "idle"]
  /\ stmt' = [stmt EXCEPT ![t] = NoStatement]
  /\ similar' = [similar EXCEPT ![t] = NoFact]
  /\ target' = [target EXCEPT ![t] = NoFact]

-----------------------------------------------------------------------------
\* "remember ..." in a transcript, or an action of the deliberation: the
\* statement is given.
Tell(t) ==
  /\ step[t] = "idle"
  /\ \E s \in Statements : stmt' = [stmt EXCEPT ![t] = s]
  /\ step' = [step EXCEPT ![t] = "recall"]
  /\ UNCHANGED <<facts, mirror, similar, target, deaths, missed>>

\* The mirrored facts /memory/retrieve may put first: the same statement
\* before one that is only near.
Nearest(s) ==
  LET same == {f \in DOMAIN mirror : mirror[f] = s}
  IN IF same # {} THEN same ELSE {f \in DOMAIN mirror : <<mirror[f], s>> \in Near}

\* /memory/retrieve with k = 1: a fact near enough; or one that is not, none at
\* all, or no answer within four seconds.
Recall(t) ==
  /\ step[t] = "recall"
  /\ \/ /\ serving /\ Nearest(stmt[t]) # {}
        /\ \E f \in Nearest(stmt[t]) : similar' = [similar EXCEPT ![t] = f]
     \/ UNCHANGED similar
  /\ step' = [step EXCEPT ![t] = "select"]
  /\ UNCHANGED <<facts, mirror, stmt, target, deaths, missed>>

\* Mutant: the exact statement is not looked for.
SimilarOnly(t) ==
  IF similar[t] \in DOMAIN facts THEN similar[t] ELSE NoFact

\* The SELECTs of commit_fact: the similar fact when its row is there, else the
\* first row with the statement.
Found(t) ==
  LET same == {f \in DOMAIN facts : facts[f] = stmt[t]}
  IN IF similar[t] \in DOMAIN facts THEN similar[t]
     ELSE IF same = {} THEN NoFact
     ELSE CHOOSE f \in same : \A g \in same : f <= g

Select(t) ==
  /\ step[t] = "select"
  /\ target' = [target EXCEPT ![t] = Found(t)]
  /\ step' = [step EXCEPT ![t] = "write"]
  /\ UNCHANGED <<facts, mirror, stmt, similar, deaths, missed>>

\* Mutant: a reinforced fact is mirrored under the words of the moment.
AlwaysMirror(t, f) == TRUE

\* Mutant: nothing is mirrored while cortexd seems to be down.
MirrorIfServed(t, f) == similar[t] # f /\ serving

\* A fact the vector lookup found is in the mirror already.
NeedsMirror(t, f) == similar[t] # f

\* The UPDATE or INSERT of commit_fact and its commit.
Write(t) ==
  LET isNew == target[t] = NoFact
      f == IF isNew THEN Cardinality(DOMAIN facts) + 1 ELSE target[t]
  IN
  /\ step[t] = "write"
  /\ f \in FactIds
  /\ facts' = IF isNew THEN [g \in DOMAIN facts \cup {f} |->
                               IF g = f THEN stmt[t] ELSE facts[g]]
              ELSE facts
  /\ IF NeedsMirror(t, f)
       THEN /\ step' = [step EXCEPT ![t] = "mirror"]
            /\ target' = [target EXCEPT ![t] = f]
            /\ UNCHANGED <<stmt, similar>>
       ELSE Finish(t)
  /\ UNCHANGED <<mirror, deaths, missed>>

\* /memory/upsert, which replaces; it may be lost, and that is only logged.
Mirror(t) ==
  /\ step[t] = "mirror"
  /\ \/ /\ serving
        /\ mirror' = [g \in DOMAIN mirror \cup {target[t]} |->
                        IF g = target[t] THEN stmt[t] ELSE mirror[g]]
        /\ missed' = missed \ {target[t]}
     \/ /\ UNCHANGED mirror
        /\ missed' = missed \cup ({target[t]} \ DOMAIN mirror)
  /\ Finish(t)
  /\ UNCHANGED <<facts, deaths>>

\* The orchestrator dies: the table and the mirror stay.
Die ==
  /\ deaths < MaxDeaths
  /\ deaths' = deaths + 1
  /\ step' = [t \in Threads |-> "idle"]
  /\ stmt' = [t \in Threads |-> NoStatement]
  /\ similar' = [t \in Threads |-> NoFact]
  /\ target' = [t \in Threads |-> NoFact]
  /\ missed' = missed \cup {f \in DOMAIN facts \ DOMAIN mirror :
                              \E t \in Threads : step[t] = "mirror" /\ target[t] = f}
  /\ UNCHANGED <<facts, mirror>>

MemoryNext ==
  \/ \E t \in Threads : Tell(t) \/ Recall(t) \/ Select(t) \/ Write(t) \/ Mirror(t)
  \/ Die

-----------------------------------------------------------------------------
(* Properties                                                              *)

\* "Canonical facts live in Node A's SQLite" (memory.py): the mirror holds no
\* fact that Node A has not, nor another statement for one.
MirrorAgrees ==
  \A f \in DOMAIN mirror : f \in DOMAIN facts /\ mirror[f] = facts[f]

\* A fact is inserted a second time only by threads that had looked for it
\* before it was there: a statement has at most one row per thread, however
\* often it is told and whether or not cortexd answers.
DuplicatesBounded ==
  \A s \in Statements :
    Cardinality({f \in DOMAIN facts : facts[f] = s}) <= Cardinality(Threads)

\* A fact that semantic recall cannot find is about to be mirrored, or its
\* upsert was lost: reinforcing, deduplicating and racing lose none.
OnlyLostUpsertsMissing ==
  \A f \in DOMAIN facts \ DOMAIN mirror :
    \/ f \in missed
    \/ \E t \in Threads : step[t] = "mirror" /\ target[t] = f
=============================================================================
