----------------------------- MODULE MindProofs -----------------------------
(***************************************************************************)
(* Theorems about Mind, for any number of request threads, any depth of    *)
(* the queue, whatever the model returns, any similarity of statements and *)
(* any number of facts and crashes.                                        *)
(***************************************************************************)
EXTENDS Mind, FiniteSetTheorems, WellFoundedInduction, TLAPS

-----------------------------------------------------------------------------
(* The count of generations                                                *)

Waiting == {r \in Requests : pc[r] = "waiting"}

CountInv ==
  /\ pc \in [Requests -> {"idle", "admitted", "waiting", "answered"}]
  /\ InflightIsHonest

LEMMA WaitingIsFinite == IsFiniteSet(Waiting) /\ Cardinality(Waiting) \in Nat
<1>1. IsFiniteSet(Waiting)
  BY CortexAssumption, FS_Subset DEF Waiting
<1>. QED BY <1>1, FS_CardinalityType

\* The shapes of the steps: a thread begins to wait, or stops, or neither.
LEMMA BeginsToWait ==
  ASSUME CountInv, NEW r \in Requests, pc[r] # "waiting",
         pc' = [pc EXCEPT ![r] = "waiting"], inflight' = inflight + 1
  PROVE  CountInv'
<1>1. Waiting' = Waiting \cup {r} /\ r \notin Waiting
  BY DEF CountInv, Waiting
<1>2. Cardinality(Waiting') = Cardinality(Waiting) + 1
  BY <1>1, WaitingIsFinite, FS_AddElement
<1>. QED BY <1>2 DEF CountInv, InflightIsHonest, Waiting

LEMMA StopsWaiting ==
  ASSUME CountInv, NEW r \in Requests, pc[r] = "waiting",
         NEW p \in {"admitted", "answered"},
         pc' = [pc EXCEPT ![r] = p], inflight' = inflight - 1
  PROVE  CountInv'
<1>1. Waiting' = Waiting \ {r} /\ r \in Waiting
  BY DEF CountInv, Waiting
<1>2. Cardinality(Waiting') = Cardinality(Waiting) - 1
  BY <1>1, WaitingIsFinite, FS_RemoveElement
<1>. QED BY <1>2 DEF CountInv, InflightIsHonest, Waiting

LEMMA NobodyStarts ==
  ASSUME CountInv, NEW r \in Requests, pc[r] # "waiting",
         NEW p \in {"idle", "admitted", "answered"},
         pc' = [pc EXCEPT ![r] = p], UNCHANGED inflight
  PROVE  CountInv'
<1>1. Waiting' = Waiting
  BY DEF CountInv, Waiting
<1>. QED BY <1>1 DEF CountInv, InflightIsHonest, Waiting

LEMMA ThinkGoesOn ==
  ASSUME NEW r \in Requests, NEW text, Think(r, text)
  PROVE  \E p \in {"admitted", "answered"} : pc' = [pc EXCEPT ![r] = p]
<1>1. CASE text = BadList
  BY <1>1 DEF Think, Respond
<1>2. CASE text # BadList /\ Parses(text)
  BY <1>2 DEF Think, Respond
<1>3. CASE text # BadList /\ ~Parses(text) /\ attempt[r] = 1
  BY <1>3 DEF Think, Respond
<1>4. CASE text # BadList /\ ~Parses(text) /\ attempt[r] # 1
  BY <1>4 DEF Think, Respond
<1>. QED BY <1>1, <1>2, <1>3, <1>4

LEMMA CortexCounts == ASSUME CountInv, CortexNext PROVE CountInv'
<1>1. ASSUME NEW r \in Requests, Arrive(r) PROVE CountInv'
  BY <1>1, NobodyStarts DEF Arrive, Respond, poolVars
<1>2. ASSUME NEW r \in Requests, Submit(r) PROVE CountInv'
  BY <1>2, BeginsToWait DEF Submit
<1>3. ASSUME NEW r \in Requests, Collect(r) PROVE CountInv'
  <2>1. pc[r] = "waiting" /\ inflight' = inflight - 1
    BY <1>3 DEF Collect, Done
  <2>2. \E p \in {"admitted", "answered"} : pc' = [pc EXCEPT ![r] = p]
    BY <1>3, ThinkGoesOn DEF Collect, Extract, Respond
  <2>. QED BY <2>1, <2>2, StopsWaiting
<1>4. ASSUME NEW r \in Requests, TimeOut(r) PROVE CountInv'
  BY <1>4, StopsWaiting DEF TimeOut, Done, Respond
<1>5. ASSUME NEW r \in Requests, Return(r) PROVE CountInv'
  BY <1>5, NobodyStarts DEF Return, poolVars
<1>6. CASE CrashCortex
  <2>1. Waiting' = {}
    BY <1>6 DEF CrashCortex, CountInv, Waiting
  <2>. QED BY <1>6, <2>1, FS_EmptySet DEF CrashCortex, CountInv, InflightIsHonest, Waiting
<1>7. CASE StartJob \/ EndJob \/ BootCortex
  <2>1. UNCHANGED <<pc, inflight>>
    BY <1>7 DEF StartJob, EndJob, BootCortex, threadVars, poolVars
  <2>. QED BY <2>1 DEF CountInv, InflightIsHonest
<1>. QED BY <1>1, <1>2, <1>3, <1>4, <1>5, <1>6, <1>7 DEF CortexNext

LEMMA InitCounts == Init => CountInv
<1>1. Init => Waiting = {}
  BY DEF Init, CortexInit, Waiting
<1>. QED BY <1>1, FS_EmptySet DEF Init, CortexInit, CountInv, InflightIsHonest, Waiting

\* However requests time out, raise, retry or lose their server, the guard counts
\* the generations somebody waits for.  (cortexd.py:65-79)
THEOREM InflightStaysHonest == Spec => []InflightIsHonest
<1>1. CountInv /\ [Next]_mindVars => CountInv'
  <2>. SUFFICES ASSUME CountInv, [Next]_mindVars PROVE CountInv'
    OBVIOUS
  <2>1. CASE CortexNext
    BY <2>1, CortexCounts
  <2>2. CASE UNCHANGED cortexVars
    BY <2>2 DEF cortexVars, threadVars, poolVars, CountInv, InflightIsHonest
  <2>. QED BY <2>1, <2>2 DEF Next, mindVars
<1>2. CountInv => InflightIsHonest
  BY DEF CountInv
<1>. QED BY InitCounts, <1>1, <1>2, PTL DEF Spec

-----------------------------------------------------------------------------
(* Facts and their mirror                                                  *)

Steps == {"idle", "recall", "select", "write", "mirror"}

MemoryTypeOK ==
  /\ \E n \in Nat : DOMAIN facts = 1..n
  /\ step \in [Threads -> Steps]
  /\ stmt \in [Threads -> Statements \cup {NoStatement}]
  /\ similar \in [Threads -> Nat \cup {NoFact}]
  /\ target \in [Threads -> Nat \cup {NoFact}]

\* What thread t holds in hand is true of the table, which only grows, and of the
\* mirror, which forgets nothing.
HoldsTrue(t) ==
  /\ similar[t] # NoFact => similar[t] \in DOMAIN mirror
  /\ step[t] = "write" /\ target[t] # NoFact =>
       /\ target[t] \in DOMAIN facts
       /\ target[t] = similar[t] \/ facts[target[t]] = stmt[t]
  /\ step[t] = "mirror" =>
       target[t] \in DOMAIN facts /\ facts[target[t]] = stmt[t]

MirrorInv ==
  /\ MemoryTypeOK
  /\ MirrorAgrees
  /\ \A t \in Threads : HoldsTrue(t)
  /\ OnlyLostUpsertsMissing

LEMMA NumberedFacts ==
  ASSUME MemoryTypeOK
  PROVE  /\ IsFiniteSet(DOMAIN facts) /\ DOMAIN facts \subseteq Nat
         /\ Cardinality(DOMAIN facts) \in Nat
         /\ DOMAIN facts = 1..Cardinality(DOMAIN facts)
         /\ Cardinality(DOMAIN facts) + 1 \notin DOMAIN facts
<1>1. PICK n \in Nat : DOMAIN facts = 1..n
  BY DEF MemoryTypeOK
<1>2. IsFiniteSet(1..n) /\ Cardinality(1..n) = n
  BY FS_Interval
<1>. QED BY <1>1, <1>2

\* A nonempty set of numbers has a least one.
LEMMA LeastNumber ==
  ASSUME NEW S \in SUBSET Nat, S # {}
  PROVE  \E f \in S : \A g \in S : f <= g
<1>. DEFINE Below(f) == {g \in S : g <= f}
            T == {Below(f) : f \in S}
            R == StrictSubsetOrdering(S)
<1>1. T \subseteq FiniteSubsetsOf(S) /\ T # {}
  <2>1. ASSUME NEW B \in SUBSET Nat, NEW n \in Nat, \A g \in B : g <= n
        PROVE  IsFiniteSet(B)
    BY <2>1, FS_BoundedSetOfNaturals
  <2>2. ASSUME NEW f \in S PROVE IsFiniteSet(Below(f))
    BY <2>1
  <2>. QED BY <2>2 DEF FiniteSubsetsOf
<1>2. IsWellFoundedOn(R, FiniteSubsetsOf(S))
  BY FS_StrictSubsetOrderingWellFounded
<1>3. PICK A \in T : \A B \in T : ~ (<<B, A>> \in R)
  <2>. HIDE DEF T, R
  <2>. QED BY <1>1, <1>2, WFMin
<1>4. PICK f \in S : A = Below(f)
  BY <1>3
<1>5. ASSUME NEW g \in S, ~(f <= g) PROVE FALSE
  <2>1. g < f /\ g \in Nat /\ f \in Nat
    BY <1>5
  <2>2. Below(g) \subseteq Below(f)
    <3>. SUFFICES ASSUME NEW h \in S, h <= g PROVE h <= f
      OBVIOUS
    <3>. h \in Nat
      OBVIOUS
    <3>. QED BY <2>1
  <2>3. f \in Below(f) /\ f \notin Below(g)
    BY <2>1
  <2>4. <<Below(g), Below(f)>> \in R
    BY <2>2, <2>3 DEF StrictSubsetOrdering
  <2>. QED BY <1>3, <1>4, <2>4
<1>6. \A g \in S : f <= g
  BY <1>5
<1>. QED BY <1>4, <1>6

\* What the SELECT takes exists.
LEMMA LeastFact ==
  ASSUME NEW S \in SUBSET Nat, S # {}
  PROVE  (CHOOSE f \in S : \A g \in S : f <= g) \in S
BY LeastNumber

LEMMA FoundFacts ==
  ASSUME MirrorInv, NEW t \in Threads
  PROVE  /\ Found(t) \in Nat \cup {NoFact}
         /\ Found(t) = NoFact => {f \in DOMAIN facts : facts[f] = stmt[t]} = {}
         /\ Found(t) # NoFact =>
              /\ Found(t) \in DOMAIN facts
              /\ Found(t) = similar[t] \/ facts[Found(t)] = stmt[t]
<1>. DEFINE same == {f \in DOMAIN facts : facts[f] = stmt[t]}
<1>1. DOMAIN facts \subseteq Nat
  BY NumberedFacts DEF MirrorInv
<1>2. CASE similar[t] \in DOMAIN facts
  BY <1>1, <1>2, MemoryAssumption DEF Found
<1>3. CASE similar[t] \notin DOMAIN facts /\ same = {}
  BY <1>3 DEF Found
<1>4. CASE similar[t] \notin DOMAIN facts /\ same # {}
  <2>1. (CHOOSE f \in same : \A g \in same : f <= g) \in same
    BY <1>1, <1>4, LeastFact
  <2>2. Found(t) = CHOOSE f \in same : \A g \in same : f <= g
    BY <1>4 DEF Found
  <2>. QED BY <1>1, <2>1, <2>2, MemoryAssumption
<1>. QED BY <1>2, <1>3, <1>4

-----------------------------------------------------------------------------
(* One lemma per action                                                    *)

\* Most actions leave table and mirror alone.
LEMMA OnlyHands ==
  ASSUME MirrorInv, UNCHANGED <<facts, mirror>>, MemoryTypeOK',
         \A t \in Threads : HoldsTrue(t)',
         missed \subseteq missed',
         \A t \in Threads : step[t] = "mirror" =>
           \/ step'[t] = "mirror" /\ target'[t] = target[t]
           \/ target[t] \in missed'
           \/ target[t] \in DOMAIN mirror
  PROVE  MirrorInv'
<1>1. MirrorAgrees'
  BY DEF MirrorInv, MirrorAgrees
<1>2. OnlyLostUpsertsMissing'
  BY DEF MirrorInv, OnlyLostUpsertsMissing
<1>. QED BY <1>1, <1>2 DEF MirrorInv

LEMMA TellMirrors ==
  ASSUME MirrorInv, NEW t \in Threads, Tell(t) PROVE MirrorInv'
<1>1. MemoryTypeOK'
  BY DEF Tell, MirrorInv, MemoryTypeOK, Steps
<1>2. \A u \in Threads : HoldsTrue(u)'
  BY DEF Tell, MirrorInv, MemoryTypeOK, HoldsTrue
<1>3. \A u \in Threads : step[u] = "mirror" => step'[u] = "mirror" /\ target'[u] = target[u]
  BY DEF Tell, MirrorInv, MemoryTypeOK
<1>. QED BY <1>1, <1>2, <1>3, OnlyHands DEF Tell

LEMMA RecallMirrors ==
  ASSUME MirrorInv, NEW t \in Threads, Recall(t) PROVE MirrorInv'
<1>1. PICK f \in (DOMAIN mirror) \cup {similar[t]} : similar' = [similar EXCEPT ![t] = f]
  <2>1. Nearest(stmt[t]) \subseteq DOMAIN mirror
    BY DEF Nearest
  <2>2. similar = [similar EXCEPT ![t] = similar[t]]
    BY DEF MirrorInv, MemoryTypeOK
  <2>. QED BY <2>1, <2>2 DEF Recall
<1>2. DOMAIN mirror \subseteq Nat
  BY NumberedFacts DEF MirrorInv, MirrorAgrees
<1>3. MemoryTypeOK'
  BY <1>1, <1>2 DEF Recall, MirrorInv, MemoryTypeOK, Steps
<1>4. \A u \in Threads : HoldsTrue(u)'
  BY <1>1 DEF Recall, MirrorInv, MemoryTypeOK, HoldsTrue
<1>5. \A u \in Threads : step[u] = "mirror" => step'[u] = "mirror" /\ target'[u] = target[u]
  BY DEF Recall, MirrorInv, MemoryTypeOK
<1>. QED BY <1>3, <1>4, <1>5, OnlyHands DEF Recall

LEMMA SelectMirrors ==
  ASSUME MirrorInv, NEW t \in Threads, Select(t) PROVE MirrorInv'
<1>. DEFINE x == Found(t)
<1>1. /\ x \in Nat \cup {NoFact}
      /\ x # NoFact => x \in DOMAIN facts /\ (x = similar[t] \/ facts[x] = stmt[t])
  BY FoundFacts
<1>2. target' = [target EXCEPT ![t] = x] /\ step[t] = "select"
      /\ step' = [step EXCEPT ![t] = "write"]
      /\ UNCHANGED <<facts, mirror, stmt, similar, missed>>
  BY DEF Select
<1>. HIDE DEF x
<1>3. MemoryTypeOK'
  BY <1>1, <1>2 DEF MirrorInv, MemoryTypeOK, Steps
<1>4. \A u \in Threads : HoldsTrue(u)'
  BY <1>1, <1>2 DEF MirrorInv, MemoryTypeOK, HoldsTrue
<1>5. \A u \in Threads : step[u] = "mirror" => step'[u] = "mirror" /\ target'[u] = target[u]
  BY <1>2 DEF MirrorInv, MemoryTypeOK
<1>. QED BY <1>2, <1>3, <1>4, <1>5, OnlyHands

\* What thread t does next, when nothing is left to be mirrored.
LEMMA FinishFacts ==
  ASSUME MemoryTypeOK, NEW t \in Threads, Finish(t)
  PROVE  /\ step' \in [Threads -> Steps]
         /\ stmt' \in [Threads -> Statements \cup {NoStatement}]
         /\ similar' \in [Threads -> Nat \cup {NoFact}]
         /\ target' \in [Threads -> Nat \cup {NoFact}]
         /\ step'[t] = "idle" /\ similar'[t] = NoFact
         /\ \A u \in Threads \ {t} :
              /\ step'[u] = step[u] /\ stmt'[u] = stmt[u]
              /\ similar'[u] = similar[u] /\ target'[u] = target[u]
BY DEF Finish, MemoryTypeOK, Steps

\* A new fact: it is not in the mirror, so it is mirrored next.
LEMMA InsertMirrors ==
  ASSUME MirrorInv, NEW t \in Threads, Write(t), target[t] = NoFact
  PROVE  MirrorInv'
<1>. DEFINE f == Cardinality(DOMAIN facts) + 1
<1>1. /\ f \in Nat /\ f \notin DOMAIN facts
      /\ \E n \in Nat : (DOMAIN facts) \cup {f} = 1..n
  <2>1. Cardinality(DOMAIN facts) \in Nat /\ DOMAIN facts = 1..Cardinality(DOMAIN facts)
    BY NumberedFacts DEF MirrorInv
  <2>2. (DOMAIN facts) \cup {f} = 1..f
    BY <2>1
  <2>. QED BY <2>1, <2>2
<1>2. similar[t] # f
  BY <1>1, MemoryAssumption DEF MirrorInv, HoldsTrue, MirrorAgrees
<1>3. /\ step[t] = "write" /\ step' = [step EXCEPT ![t] = "mirror"]
      /\ target' = [target EXCEPT ![t] = f]
      /\ facts' = [g \in (DOMAIN facts) \cup {f} |-> IF g = f THEN stmt[t] ELSE facts[g]]
      /\ UNCHANGED <<mirror, stmt, similar, missed>>
  BY <1>2 DEF Write, NeedsMirror
<1>. HIDE DEF f
<1>4. MemoryTypeOK'
  BY <1>1, <1>3 DEF MirrorInv, MemoryTypeOK, Steps
<1>5. \A g \in DOMAIN facts : g \in DOMAIN facts' /\ facts'[g] = facts[g]
  BY <1>1, <1>3
<1>6. MirrorAgrees'
  BY <1>3, <1>5 DEF MirrorInv, MirrorAgrees
<1>7. \A u \in Threads : HoldsTrue(u)'
  BY <1>1, <1>3, <1>5 DEF MirrorInv, MemoryTypeOK, HoldsTrue
<1>8. OnlyLostUpsertsMissing'
  <2>. SUFFICES ASSUME NEW g \in (DOMAIN facts') \ DOMAIN mirror', g \notin missed'
                PROVE  \E u \in Threads : step'[u] = "mirror" /\ target'[u] = g
    BY DEF OnlyLostUpsertsMissing
  <2>1. CASE g = f
    BY <1>3, <2>1 DEF MirrorInv, MemoryTypeOK
  <2>2. CASE g # f
    <3>1. PICK u \in Threads : step[u] = "mirror" /\ target[u] = g
      BY <1>3, <2>2 DEF MirrorInv, OnlyLostUpsertsMissing
    <3>. QED BY <1>3, <3>1 DEF MirrorInv, MemoryTypeOK
  <2>. QED BY <2>1, <2>2
<1>. QED BY <1>4, <1>6, <1>7, <1>8 DEF MirrorInv

\* A fact that is there already is mirrored, unless the mirror led to it.
LEMMA ReinforceMirrors ==
  ASSUME MirrorInv, NEW t \in Threads, Write(t), target[t] # NoFact
  PROVE  MirrorInv'
<1>. DEFINE f == target[t]
<1>1. /\ step[t] = "write" /\ UNCHANGED <<facts, mirror, missed>>
      /\ f \in DOMAIN facts /\ (f = similar[t] \/ facts[f] = stmt[t])
  BY DEF Write, MirrorInv, HoldsTrue
<1>2. CASE similar[t] # f
  <2>1. /\ step' = [step EXCEPT ![t] = "mirror"] /\ target' = [target EXCEPT ![t] = f]
        /\ UNCHANGED <<stmt, similar>>
    BY <1>2 DEF Write, NeedsMirror
  <2>2. MemoryTypeOK'
    BY <1>1, <2>1 DEF MirrorInv, MemoryTypeOK, Steps
  <2>3. \A u \in Threads : HoldsTrue(u)'
    BY <1>1, <1>2, <2>1 DEF MirrorInv, MemoryTypeOK, HoldsTrue
  <2>4. \A u \in Threads : step[u] = "mirror" => step'[u] = "mirror" /\ target'[u] = target[u]
    BY <1>1, <2>1 DEF MirrorInv, MemoryTypeOK
  <2>. QED BY <1>1, <2>2, <2>3, <2>4, OnlyHands
<1>3. CASE similar[t] = f
  <2>1. Finish(t)
    BY <1>3 DEF Write, NeedsMirror
  <2>2. MemoryTypeOK'
    BY <1>1, <2>1, FinishFacts DEF MirrorInv, MemoryTypeOK
  <2>3. ASSUME NEW u \in Threads PROVE HoldsTrue(u)'
    BY <1>1, <2>1, FinishFacts DEF MirrorInv, HoldsTrue
  <2>4. \A u \in Threads : step[u] = "mirror" => step'[u] = "mirror" /\ target'[u] = target[u]
    BY <1>1, <2>1, FinishFacts DEF MirrorInv
  <2>. QED BY <1>1, <2>2, <2>3, <2>4, OnlyHands
<1>. QED BY <1>2, <1>3

LEMMA MirrorMirrors ==
  ASSUME MirrorInv, NEW t \in Threads, Mirror(t) PROVE MirrorInv'
<1>. DEFINE f == target[t]
<1>1. /\ step[t] = "mirror" /\ Finish(t) /\ UNCHANGED facts
      /\ f \in DOMAIN facts /\ facts[f] = stmt[t]
  BY DEF Mirror, MirrorInv, HoldsTrue
<1>2. MemoryTypeOK'
  BY <1>1, FinishFacts DEF MirrorInv, MemoryTypeOK
<1>3. CASE /\ mirror' = [g \in (DOMAIN mirror) \cup {f} |->
                           IF g = f THEN stmt[t] ELSE mirror[g]]
           /\ missed' = missed \ {f}
  <2>1. MirrorAgrees'
    BY <1>1, <1>3 DEF MirrorInv, MirrorAgrees
  <2>2. ASSUME NEW u \in Threads PROVE HoldsTrue(u)'
    BY <1>1, <1>3, FinishFacts DEF MirrorInv, HoldsTrue
  <2>3. OnlyLostUpsertsMissing'
    <3>. SUFFICES ASSUME NEW g \in (DOMAIN facts) \ DOMAIN mirror', g \notin missed'
                  PROVE  \E u \in Threads : step'[u] = "mirror" /\ target'[u] = g
      BY <1>1 DEF OnlyLostUpsertsMissing
    <3>1. g # f /\ g \notin DOMAIN mirror /\ g \notin missed
      BY <1>3
    <3>2. PICK u \in Threads : step[u] = "mirror" /\ target[u] = g
      BY <3>1 DEF MirrorInv, OnlyLostUpsertsMissing
    <3>. QED BY <1>1, <3>1, <3>2, FinishFacts DEF MirrorInv
  <2>. QED BY <1>2, <2>1, <2>2, <2>3 DEF MirrorInv
<1>4. CASE UNCHANGED mirror /\ missed' = missed \cup ({f} \ DOMAIN mirror)
  <2>1. ASSUME NEW u \in Threads PROVE HoldsTrue(u)'
    BY <1>1, <1>4, FinishFacts DEF MirrorInv, HoldsTrue
  <2>2. \A u \in Threads : step[u] = "mirror" =>
          \/ step'[u] = "mirror" /\ target'[u] = target[u]
          \/ target[u] \in missed'
          \/ target[u] \in DOMAIN mirror
    BY <1>1, <1>4, FinishFacts DEF MirrorInv
  <2>. QED BY <1>1, <1>2, <1>4, <2>1, <2>2, OnlyHands
<1>. QED BY <1>3, <1>4 DEF Mirror

LEMMA DieMirrors == ASSUME MirrorInv, Die PROVE MirrorInv'
<1>1. MemoryTypeOK'
  BY DEF Die, MirrorInv, MemoryTypeOK, Steps
<1>2. \A u \in Threads : HoldsTrue(u)'
  BY DEF Die, HoldsTrue
<1>3. \A u \in Threads : step[u] = "mirror" =>
        target[u] \in missed' \/ target[u] \in DOMAIN mirror
  BY DEF Die, MirrorInv, HoldsTrue
<1>. QED BY <1>1, <1>2, <1>3, OnlyHands DEF Die

LEMMA InitMirrors == Init => MirrorInv
<1>. SUFFICES ASSUME Init PROVE MirrorInv
  OBVIOUS
<1>1. DOMAIN facts = 1..0 /\ DOMAIN mirror = {}
  BY DEF Init, MemoryInit
<1>2. MemoryTypeOK
  BY <1>1 DEF Init, MemoryInit, MemoryTypeOK, Steps
<1>. QED BY <1>1, <1>2 DEF Init, MemoryInit, MirrorInv, MirrorAgrees, HoldsTrue,
                        OnlyLostUpsertsMissing

LEMMA NextMirrors == ASSUME MirrorInv, [Next]_mindVars PROVE MirrorInv'
<1>1. ASSUME NEW t \in Threads, Tell(t) \/ Recall(t) \/ Select(t) \/ Write(t) \/ Mirror(t)
      PROVE  MirrorInv'
  BY <1>1, TellMirrors, RecallMirrors, SelectMirrors, InsertMirrors, ReinforceMirrors,
     MirrorMirrors
<1>2. CASE UNCHANGED memoryVars
  BY <1>2 DEF memoryVars, commitVars, MirrorInv, MemoryTypeOK, MirrorAgrees, HoldsTrue,
              OnlyLostUpsertsMissing
<1>. QED BY <1>1, <1>2, DieMirrors DEF Next, MemoryNext, mindVars

\* Whatever two writers, lost calls and crashes of either process do, the mirror
\* says nothing the table does not.  (orchestrator.py:205-224, memory.py:47-58)
THEOREM MirrorKeepsAgreeing == Spec => []MirrorAgrees
<1>1. MirrorInv => MirrorAgrees
  BY DEF MirrorInv
<1>. QED BY InitMirrors, NextMirrors, <1>1, PTL DEF Spec

\* A fact semantic recall does not know is on its way or its upsert was lost.
\* (orchestrator.py:218-223)
THEOREM NothingElseIsMissing == Spec => []OnlyLostUpsertsMissing
<1>1. MirrorInv => OnlyLostUpsertsMissing
  BY DEF MirrorInv
<1>. QED BY InitMirrors, NextMirrors, <1>1, PTL DEF Spec

-----------------------------------------------------------------------------
(* Duplicates                                                              *)

\* The rows of a statement, and the threads that are about to add one.
Rows(s) == {f \in DOMAIN facts : facts[f] = s}
Armed(s) == {t \in Threads : step[t] = "write" /\ target[t] = NoFact /\ stmt[t] = s}

\* A thread arms itself only while there is no row, and a new row disarms it.
DuplicateInv ==
  \A s \in Statements :
    Cardinality(Rows(s)) + Cardinality(Armed(s)) <= Cardinality(Threads)

LEMMA CountedRows ==
  ASSUME MirrorInv, NEW s
  PROVE  /\ IsFiniteSet(Rows(s)) /\ Cardinality(Rows(s)) \in Nat
         /\ IsFiniteSet(Armed(s)) /\ Cardinality(Armed(s)) \in Nat
         /\ Cardinality(Threads) \in Nat
         /\ Cardinality(Armed(s)) <= Cardinality(Threads)
<1>1. IsFiniteSet(Rows(s))
  <2>1. IsFiniteSet(DOMAIN facts) /\ Rows(s) \subseteq DOMAIN facts
    BY NumberedFacts DEF MirrorInv, Rows
  <2>. QED BY <2>1, FS_Subset
<1>2. Armed(s) \subseteq Threads
  BY DEF Armed
<1>3. IsFiniteSet(Armed(s)) /\ Cardinality(Armed(s)) <= Cardinality(Threads)
  BY <1>2, MemoryAssumption, FS_Subset
<1>. QED BY <1>1, <1>3, MemoryAssumption, FS_CardinalityType

\* Steps that add no row and arm nobody.
LEMMA NobodyArms ==
  ASSUME MirrorInv, MirrorInv', DuplicateInv, UNCHANGED facts,
         \A s \in Statements : Armed(s)' \subseteq Armed(s)
  PROVE  DuplicateInv'
<1>. SUFFICES ASSUME NEW s \in Statements
              PROVE  Cardinality(Rows(s)') + Cardinality(Armed(s)') <= Cardinality(Threads)
  BY DEF DuplicateInv
<1>1. Rows(s)' = Rows(s)
  BY DEF Rows
<1>2. Cardinality(Armed(s)') <= Cardinality(Armed(s)) /\ Cardinality(Armed(s)') \in Nat
  BY CountedRows, FS_Subset, FS_CardinalityType
<1>3. Cardinality(Rows(s)) + Cardinality(Armed(s)) <= Cardinality(Threads)
  BY DEF DuplicateInv
<1>. QED BY <1>1, <1>2, <1>3, CountedRows

LEMMA SelectDuplicates ==
  ASSUME MirrorInv, MirrorInv', DuplicateInv, NEW t \in Threads, Select(t)
  PROVE  DuplicateInv'
<1>. SUFFICES ASSUME NEW s \in Statements
              PROVE  Cardinality(Rows(s)') + Cardinality(Armed(s)') <= Cardinality(Threads)
  BY DEF DuplicateInv
<1>. DEFINE x == Found(t)
<1>1. target' = [target EXCEPT ![t] = x] /\ step[t] = "select"
      /\ step' = [step EXCEPT ![t] = "write"] /\ UNCHANGED <<facts, stmt>>
  BY DEF Select
<1>2. x = NoFact => Rows(stmt[t]) = {}
  BY FoundFacts DEF Rows
<1>. HIDE DEF x
<1>3. Rows(s)' = Rows(s)
  BY <1>1 DEF Rows
<1>4. CASE x = NoFact /\ stmt[t] = s
  <2>1. Cardinality(Rows(s)') = 0
    BY <1>2, <1>3, <1>4, FS_EmptySet
  <2>2. Cardinality(Armed(s)') <= Cardinality(Threads) /\ Cardinality(Armed(s)') \in Nat
        /\ Cardinality(Threads) \in Nat
    <3>1. Armed(s)' \subseteq Threads
      BY DEF Armed
    <3>. QED BY <3>1, MemoryAssumption, FS_Subset, FS_CardinalityType
  <2>. QED BY <2>1, <2>2
<1>5. CASE x # NoFact \/ stmt[t] # s
  <2>1. Armed(s)' = Armed(s)
    BY <1>1, <1>5 DEF Armed, MirrorInv, MemoryTypeOK
  <2>. QED BY <1>3, <2>1 DEF DuplicateInv
<1>. QED BY <1>4, <1>5

LEMMA InsertDuplicates ==
  ASSUME MirrorInv, MirrorInv', DuplicateInv, NEW t \in Threads, Write(t),
         target[t] = NoFact
  PROVE  DuplicateInv'
<1>. SUFFICES ASSUME NEW s \in Statements
              PROVE  Cardinality(Rows(s)') + Cardinality(Armed(s)') <= Cardinality(Threads)
  BY DEF DuplicateInv
<1>. DEFINE f == Cardinality(DOMAIN facts) + 1
<1>1. f \notin DOMAIN facts /\ similar[t] # f
  BY NumberedFacts, MemoryAssumption DEF MirrorInv, HoldsTrue, MirrorAgrees
<1>2. /\ step[t] = "write" /\ step' = [step EXCEPT ![t] = "mirror"]
      /\ target' = [target EXCEPT ![t] = f]
      /\ facts' = [g \in (DOMAIN facts) \cup {f} |-> IF g = f THEN stmt[t] ELSE facts[g]]
      /\ UNCHANGED stmt
  BY <1>1 DEF Write, NeedsMirror
<1>. HIDE DEF f
<1>3. Cardinality(Rows(s)) + Cardinality(Armed(s)) <= Cardinality(Threads)
  BY DEF DuplicateInv
<1>4. CASE stmt[t] = s
  <2>1. Rows(s)' = Rows(s) \cup {f} /\ f \notin Rows(s)
    BY <1>1, <1>2, <1>4 DEF Rows
  <2>2. Armed(s)' = Armed(s) \ {t} /\ t \in Armed(s)
    BY <1>2, <1>4 DEF Armed, MirrorInv, MemoryTypeOK
  <2>3. Cardinality(Rows(s)') = Cardinality(Rows(s)) + 1
    BY <2>1, CountedRows, FS_AddElement
  <2>4. Cardinality(Armed(s)') = Cardinality(Armed(s)) - 1
    BY <2>2, CountedRows, FS_RemoveElement
  <2>. QED BY <1>3, <2>3, <2>4, CountedRows
<1>5. CASE stmt[t] # s
  <2>1. Rows(s)' = Rows(s)
    BY <1>1, <1>2, <1>5 DEF Rows
  <2>2. Armed(s)' = Armed(s)
    BY <1>2, <1>5 DEF Armed, MirrorInv, MemoryTypeOK
  <2>. QED BY <1>3, <2>1, <2>2
<1>. QED BY <1>4, <1>5

LEMMA NextDuplicates ==
  ASSUME MirrorInv, MirrorInv', DuplicateInv, [Next]_mindVars PROVE DuplicateInv'
<1>1. ASSUME NEW t \in Threads, Tell(t) \/ Recall(t) \/ Mirror(t) PROVE DuplicateInv'
  <2>1. UNCHANGED facts
    BY <1>1 DEF Tell, Recall, Mirror
  <2>2. step[t] # "write" /\ step'[t] # "write"
    BY <1>1 DEF Tell, Recall, Mirror, Finish, MirrorInv, MemoryTypeOK
  <2>3. \A u \in Threads \ {t} :
          step'[u] = step[u] /\ target'[u] = target[u] /\ stmt'[u] = stmt[u]
    BY <1>1 DEF Tell, Recall, Mirror, Finish, MirrorInv, MemoryTypeOK
  <2>4. \A s \in Statements : Armed(s)' \subseteq Armed(s)
    BY <2>2, <2>3 DEF Armed
  <2>. QED BY <2>1, <2>4, NobodyArms
<1>2. ASSUME NEW t \in Threads, Write(t), target[t] # NoFact PROVE DuplicateInv'
  <2>1. UNCHANGED facts /\ step'[t] # "write"
    BY <1>2 DEF Write, Finish, MirrorInv, MemoryTypeOK
  <2>2. \A u \in Threads \ {t} :
          step'[u] = step[u] /\ target'[u] = target[u] /\ stmt'[u] = stmt[u]
    BY <1>2 DEF Write, Finish, MirrorInv, MemoryTypeOK
  <2>3. \A s \in Statements : Armed(s)' \subseteq Armed(s)
    BY <2>1, <2>2 DEF Armed
  <2>. QED BY <2>1, <2>3, NobodyArms
<1>3. CASE Die
  <2>1. \A s \in Statements : Armed(s)' \subseteq Armed(s)
    BY <1>3 DEF Die, Armed
  <2>. QED BY <1>3, <2>1, NobodyArms DEF Die
<1>4. CASE UNCHANGED memoryVars
  <2>1. \A s \in Statements : Armed(s)' \subseteq Armed(s)
    BY <1>4 DEF memoryVars, commitVars, Armed
  <2>. QED BY <1>4, <2>1, NobodyArms DEF memoryVars
<1>. QED BY <1>1, <1>2, <1>3, <1>4, SelectDuplicates, InsertDuplicates
         DEF Next, MemoryNext, mindVars

LEMMA InitDuplicates == Init => DuplicateInv
<1>. SUFFICES ASSUME Init, NEW s \in Statements
              PROVE  Cardinality(Rows(s)) + Cardinality(Armed(s)) <= Cardinality(Threads)
  BY DEF DuplicateInv
<1>1. Rows(s) = {} /\ Armed(s) = {}
  BY DEF Init, MemoryInit, Rows, Armed
<1>2. Cardinality(Threads) \in Nat
  BY MemoryAssumption, FS_CardinalityType
<1>. QED BY <1>1, <1>2, FS_EmptySet

\* However often a statement is told, to however many threads, with cortexd or
\* without it, it has at most one row per thread.  (world_model.py:525-560)
THEOREM DuplicatesStayBounded == Spec => []DuplicatesBounded
<1>1. MirrorInv /\ DuplicateInv => DuplicatesBounded
  <2>. SUFFICES ASSUME MirrorInv, DuplicateInv, NEW s \in Statements
                PROVE  Cardinality(Rows(s)) <= Cardinality(Threads)
    BY DEF DuplicatesBounded, Rows
  <2>1. Cardinality(Rows(s)) + Cardinality(Armed(s)) <= Cardinality(Threads)
    BY DEF DuplicateInv
  <2>. QED BY <2>1, CountedRows
<1>. QED BY InitMirrors, NextMirrors, InitDuplicates, NextDuplicates, <1>1, PTL DEF Spec

-----------------------------------------------------------------------------
(* What a thought offers *)

Option == [idx : Nat, action : STRING \cup {"wait", "ask_user"}]

\* The k-th of the well-formed options exists: the places up to a place are
\* counted one by one.
LEMMA PlaceOfOption ==
  ASSUME NEW n \in Nat, NEW places \in SUBSET (1..n), NEW k \in 1..Cardinality(places)
  PROVE  \E i \in places : Cardinality(places \cap (1..i)) = k
<1>. DEFINE upto(i) == places \cap (1..i)
            S == {i \in Nat : Cardinality(upto(i)) >= k}
<1>1. ASSUME NEW i \in Nat PROVE IsFiniteSet(upto(i)) /\ Cardinality(upto(i)) \in Nat
  <2>1. IsFiniteSet(1..i)
    BY FS_Interval
  <2>2. IsFiniteSet(upto(i))
    BY <2>1, FS_Subset
  <2>. QED BY <2>2, FS_CardinalityType
<1>2. upto(n) = places /\ upto(0) = {}
  <2>1. places \cap (1..n) = places
    BY Zenon
  <2>2. 1..0 = {}
    OBVIOUS
  <2>. QED BY <2>1, <2>2
<1>3. k \in Nat \ {0} /\ n \in S
  BY <1>1, <1>2
<1>4. PICK i \in S : \A j \in S : i <= j
  <2>1. S \in SUBSET Nat /\ S # {}
    BY <1>3
  <2>. HIDE DEF S
  <2>. QED BY <2>1, LeastNumber
<1>5. i # 0
  BY <1>2, <1>3, FS_EmptySet
<1>6. i - 1 \in Nat /\ i - 1 \notin S
  BY <1>4, <1>5
<1>7. CASE i \notin places
  <2>1. upto(i) = upto(i - 1)
    BY <1>6, <1>7
  <2>. QED BY <1>6, <2>1
<1>8. CASE i \in places
  <2>1. upto(i) = upto(i - 1) \cup {i} /\ i \notin upto(i - 1)
    BY <1>6, <1>8
  <2>2. Cardinality(upto(i)) = Cardinality(upto(i - 1)) + 1
    BY <1>1, <1>6, <2>1, FS_AddElement
  <2>3. Cardinality(upto(i)) >= k /\ ~(Cardinality(upto(i - 1)) >= k)
    BY <1>6
  <2>4. Cardinality(upto(i - 1)) \in Nat
    BY <1>1, <1>6
  <2>5. Cardinality(upto(i)) = k
    <3>. HIDE DEF upto
    <3>. QED BY <1>3, <2>2, <2>3, <2>4
  <2>. QED BY <1>8, <2>5
<1>. QED BY <1>7, <1>8

LEMMA KeptFacts ==
  ASSUME NEW options \in Seq(STRING)
  PROVE  Kept(options) \in Seq(Option)
<1>. DEFINE places == WellFormed(options)
            n == Len(options)
            Place(k) == CHOOSE i \in places : Cardinality(places \cap (1..i)) = k
<1>1. n \in Nat /\ places \in SUBSET (1..n)
  BY DEF WellFormed
<1>2. IsFiniteSet(places) /\ Cardinality(places) \in Nat
  <2>1. IsFiniteSet(1..n)
    BY <1>1, FS_Interval
  <2>2. IsFiniteSet(places)
    BY <1>1, <2>1, FS_Subset
  <2>. QED BY <2>2, FS_CardinalityType
<1>3. ASSUME NEW k \in 1..Cardinality(places)
      PROVE  [idx |-> Place(k) - 1, action |-> options[Place(k)]] \in Option
  <2>1. Place(k) \in places
    <3>. HIDE DEF places, n
    <3>. QED BY <1>1, PlaceOfOption
  <2>. HIDE DEF Place
  <2>2. Place(k) \in 1..n
    BY <1>1, <2>1
  <2>. QED BY <2>2 DEF Option
<1>4. Kept(options) = [k \in 1..Cardinality(places) |->
                         [idx |-> Place(k) - 1, action |-> options[Place(k)]]]
  BY DEF Kept
<1>. HIDE DEF Place, places
<1>5. Kept(options) \in [1..Cardinality(places) -> Option]
  BY <1>3, <1>4
<1>. QED BY <1>2, <1>5

\* An action that is added is there, and nothing is lost by adding it.
LEMMA WithFacts ==
  ASSUME NEW options \in Seq(Option), NEW action \in {"wait", "ask_user"}
  PROVE  /\ With(options, action) \in Seq(Option)
         /\ action \in Actions(With(options, action))
         /\ Actions(options) \subseteq Actions(With(options, action))
<1>1. CASE action \in Actions(options)
  BY <1>1 DEF With
<1>2. CASE action \notin Actions(options)
  <2>. DEFINE n == Len(options)
              o == [idx |-> n, action |-> action]
              longer == Append(options, o)
  <2>1. n \in Nat /\ o \in Option /\ o.action = action
    <3>1. n \in Nat
      OBVIOUS
    <3>. HIDE DEF n
    <3>. QED BY <3>1 DEF Option
  <2>. HIDE DEF o
  <2>2. /\ longer \in Seq(Option) /\ Len(longer) = n + 1 /\ longer[n + 1] = o
        /\ \A i \in 1..n : longer[i] = options[i]
    BY <2>1
  <2>3. With(options, action) = longer
    BY <1>2 DEF With, o
  <2>. HIDE DEF longer
  <2>4. action \in Actions(longer)
    BY <2>1, <2>2 DEF Actions
  <2>5. Actions(options) \subseteq Actions(longer)
    BY <2>1, <2>2 DEF Actions
  <2>. QED BY <2>2, <2>3, <2>4, <2>5
<1>. QED BY <1>1, <1>2

\* What ThoughtIsExecutable asks of one response.
Executable(t) ==
  LET n == Len(t.options) IN
  /\ {"wait", "ask_user"} \subseteq Actions(t.options)
  /\ t.choice \in 0..(n - 1) /\ t.backup \in 0..(n - 1) /\ t.choice # t.backup
  /\ t.action = t.options[t.choice + 1].action
  /\ t.level = 2 => t.action = "wait"

LEMMA ThoughtFacts ==
  ASSUME NEW text, text.options \in Seq(STRING), NEW level, level # 2
  PROVE  Executable(Thought(text, level))
<1>. DEFINE options == OptionsOf(text)
            n == Len(options)
            choice == Choice(text, n)
            backup == Backup(text, n)
            t == Thought(text, level)
<1>1. /\ options \in Seq(Option)
      /\ {"wait", "ask_user"} \subseteq Actions(options)
  <2>. DEFINE kept == Kept(text.options)
  <2>1. kept \in Seq(Option)
    BY KeptFacts
  <2>. HIDE DEF kept
  <2>2. "wait" \in {"wait", "ask_user"} /\ "ask_user" \in {"wait", "ask_user"}
    OBVIOUS
  <2>. DEFINE some == With(kept, "wait")
  <2>3. some \in Seq(Option) /\ "wait" \in Actions(some)
    BY <2>1, <2>2, WithFacts, Zenon
  <2>. HIDE DEF some
  <2>4. /\ With(some, "ask_user") \in Seq(Option)
        /\ "ask_user" \in Actions(With(some, "ask_user"))
        /\ Actions(some) \subseteq Actions(With(some, "ask_user"))
    BY <2>2, <2>3, WithFacts, Zenon
  <2>5. options = With(some, "ask_user")
    BY DEF OptionsOf, kept, some
  <2>. QED BY <2>3, <2>4, <2>5
<1>. HIDE DEF options
<1>2. n \in Nat /\ n >= 2
  <2>1. n \in Nat
    BY <1>1
  <2>2. PICK i \in 1..n, j \in 1..n : options[i].action = "wait" /\ options[j].action = "ask_user"
    BY <1>1 DEF Actions
  <2>3. i # j
    BY <2>2
  <2>. QED BY <2>1, <2>3
<1>. HIDE DEF n
<1>3. choice \in 0..(n - 1)
  BY <1>2 DEF Choice
<1>4. backup \in 0..(n - 1) /\ backup # choice
  <2>1. (choice + 1) % n \in 0..(n - 1) /\ (choice + 1) % n # choice
    <3>. HIDE DEF choice
    <3>. QED BY <1>2, <1>3
  <2>. QED BY <2>1 DEF Backup
<1>5. t = [status |-> "ok", level |-> level, options |-> options, choice |-> choice,
           backup |-> backup, action |-> options[choice + 1].action]
  BY DEF Thought, options, n
<1>. HIDE DEF t, choice, backup
<1>6. /\ t.options = options /\ t.choice = choice /\ t.backup = backup
      /\ t.level # 2 /\ t.action = options[choice + 1].action
  BY <1>5
<1>7. Executable(t)
  BY <1>1, <1>3, <1>4, <1>6 DEF Executable, n
<1>. QED BY <1>7 DEF t

LEMMA SafePartialFacts == Executable(SafePartial)
<1>. DEFINE w == [idx |-> 0, action |-> "ask_user"]
            a == [idx |-> 1, action |-> "wait"]
            o == << w, a >>
<1>1. Len(o) = 2 /\ o[1].action = "ask_user" /\ o[2].action = "wait"
  OBVIOUS
<1>. HIDE DEF o
<1>2. {"wait", "ask_user"} \subseteq Actions(o)
  BY <1>1 DEF Actions
<1>. DEFINE t == SafePartial
<1>3. /\ t.options = o /\ t.choice = 1 /\ t.backup = 0 /\ t.action = "wait"
  BY DEF SafePartial, o
<1>4. 0 \in 0..(2 - 1) /\ 1 \in 0..(2 - 1) /\ 1 + 1 = 2
  OBVIOUS
<1>. HIDE DEF t
<1>5. Executable(t)
  BY <1>1, <1>2, <1>3, <1>4 DEF Executable
<1>. QED BY <1>5 DEF t

ThoughtInv ==
  /\ pc \in [Requests -> {"idle", "admitted", "waiting", "answered"}]
  /\ kind \in [Requests -> {"think", "text"}]
  /\ attempt \in [Requests -> {1, 2}]
  /\ future \in [Requests -> Texts \cup {Raised, NoText}]
  /\ reply = [r \in Requests |-> reply[r]]
  /\ ThoughtIsExecutable

\* A response that is no thought, or one that can be executed.
Answer(r, t) == t = NoReply \/ t.status # "ok" \/ kind[r] = "text" \/ Executable(t)

LEMMA Responds ==
  ASSUME ThoughtInv, NEW r \in Requests, NEW t, Answer(r, t),
         UNCHANGED <<kind, attempt, future>>, Respond(r, t)
  PROVE  ThoughtInv'
<1>1. /\ pc' \in [Requests -> {"idle", "admitted", "waiting", "answered"}]
      /\ reply' = [q \in Requests |-> reply'[q]]
      /\ reply'[r] = t /\ \A q \in Requests \ {r} : reply'[q] = reply[q] /\ pc'[q] = pc[q]
  BY DEF ThoughtInv, Respond
<1>2. ThoughtIsExecutable'
  <2>. SUFFICES ASSUME NEW q \in Requests, pc'[q] = "answered", reply'[q] # NoReply,
                       reply'[q].status = "ok", kind'[q] = "think"
                PROVE  Executable(reply'[q])
    BY DEF ThoughtIsExecutable, Executable
  <2>1. CASE q = r
    BY <1>1, <2>1 DEF Answer
  <2>2. CASE q # r
    BY <1>1, <2>2 DEF ThoughtInv, ThoughtIsExecutable, Executable
  <2>. QED BY <2>1, <2>2
<1>. QED BY <1>1, <1>2 DEF ThoughtInv

\* A thread that moves to any other place has no response to look at.
LEMMA MovesOn ==
  ASSUME ThoughtInv, NEW r \in Requests, NEW p \in {"idle", "admitted", "waiting"},
         pc' = [pc EXCEPT ![r] = p],
         kind' \in [Requests -> {"think", "text"}],
         attempt' \in [Requests -> {1, 2}],
         future' \in [Requests -> Texts \cup {Raised, NoText}],
         reply' = [q \in Requests |-> reply'[q]],
         \A q \in Requests \ {r} : reply'[q] = reply[q] /\ kind'[q] = kind[q]
  PROVE  ThoughtInv'
<1>1. pc' \in [Requests -> {"idle", "admitted", "waiting", "answered"}]
  BY DEF ThoughtInv
<1>2. ThoughtIsExecutable'
  <2>. SUFFICES ASSUME NEW q \in Requests, pc'[q] = "answered", reply'[q] # NoReply,
                       reply'[q].status = "ok", kind'[q] = "think"
                PROVE  Executable(reply'[q])
    BY DEF ThoughtIsExecutable, Executable
  <2>1. q # r /\ pc[q] = "answered"
    BY DEF ThoughtInv
  <2>. QED BY <2>1 DEF ThoughtInv, ThoughtIsExecutable, Executable
<1>. QED BY <1>1, <1>2 DEF ThoughtInv

LEMMA FailureIsNoThought ==
  ASSUME NEW status \in {"error", "saturated"}
  PROVE  Failure(status).status # "ok"
BY DEF Failure

\* What the thread makes of the text that its generation returned.
LEMMA ThinksSoundly ==
  ASSUME ThoughtInv, NEW r \in Requests, NEW text \in Texts, Think(r, text),
         UNCHANGED <<kind, future>>
  PROVE  ThoughtInv'
<1>1. CASE text = BadList
  <2>1. Respond(r, Failure("error")) /\ UNCHANGED <<kind, attempt, future>>
    BY <1>1 DEF Think
  <2>2. Answer(r, Failure("error"))
    BY FailureIsNoThought DEF Answer
  <2>. QED BY <2>1, <2>2, Responds
<1>2. CASE text # BadList /\ Parses(text)
  <2>1. /\ Respond(r, Thought(text, attempt[r] - 1))
        /\ UNCHANGED <<kind, attempt, future>>
    BY <1>2 DEF Think
  <2>2. text.options \in Seq(STRING) /\ attempt[r] - 1 # 2
    BY <1>2, CortexAssumption DEF Parses, ThoughtInv
  <2>3. Answer(r, Thought(text, attempt[r] - 1))
    <3>. DEFINE level == attempt[r] - 1
    <3>. HIDE DEF level
    <3>1. Executable(Thought(text, level))
      BY <2>2, ThoughtFacts DEF level
    <3>. QED BY <3>1 DEF Answer, level
  <2>. QED BY <2>1, <2>3, Responds
<1>3. CASE text # BadList /\ ~Parses(text) /\ attempt[r] = 1
  <2>1. /\ pc' = [pc EXCEPT ![r] = "admitted"]
        /\ attempt' = [attempt EXCEPT ![r] = 2]
        /\ UNCHANGED <<kind, future, reply>>
    BY <1>3 DEF Think
  <2>2. attempt' \in [Requests -> {1, 2}]
    BY <2>1 DEF ThoughtInv
  <2>3. /\ kind' \in [Requests -> {"think", "text"}]
        /\ future' \in [Requests -> Texts \cup {Raised, NoText}]
        /\ reply' = [q \in Requests |-> reply'[q]]
        /\ \A q \in Requests \ {r} : reply'[q] = reply[q] /\ kind'[q] = kind[q]
    BY <2>1 DEF ThoughtInv
  <2>. QED BY <2>1, <2>2, <2>3, MovesOn
<1>4. CASE text # BadList /\ ~Parses(text) /\ attempt[r] # 1
  <2>1. Respond(r, SafePartial) /\ UNCHANGED <<kind, attempt, future>>
    BY <1>4 DEF Think
  <2>2. Answer(r, SafePartial)
    BY SafePartialFacts DEF Answer
  <2>. QED BY <2>1, <2>2, Responds
<1>. QED BY <1>1, <1>2, <1>3, <1>4

LEMMA CortexThinks == ASSUME ThoughtInv, CortexNext PROVE ThoughtInv'
<1>1. ASSUME NEW r \in Requests, Arrive(r) PROVE ThoughtInv'
  <2>1. /\ pc[r] = "idle" /\ UNCHANGED <<attempt, future>>
        /\ \E k \in {"think", "text"} : kind' = [kind EXCEPT ![r] = k]
    BY <1>1 DEF Arrive
  <2>2. /\ kind' \in [Requests -> {"think", "text"}]
        /\ \A q \in Requests \ {r} : kind'[q] = kind[q]
    BY <2>1 DEF ThoughtInv
  <2>3. CASE inflight >= QueueDepth
    <3>1. Respond(r, Failure("saturated"))
      BY <1>1, <2>3 DEF Arrive
    <3>2. /\ pc' \in [Requests -> {"idle", "admitted", "waiting", "answered"}]
          /\ reply' = [q \in Requests |-> reply'[q]]
          /\ reply'[r] = Failure("saturated")
          /\ \A q \in Requests \ {r} : reply'[q] = reply[q] /\ pc'[q] = pc[q]
      BY <3>1 DEF ThoughtInv, Respond
    <3>3. ThoughtIsExecutable'
      <4>. SUFFICES ASSUME NEW q \in Requests, pc'[q] = "answered", reply'[q] # NoReply,
                           reply'[q].status = "ok", kind'[q] = "think"
                    PROVE  Executable(reply'[q])
        BY DEF ThoughtIsExecutable, Executable
      <4>1. q # r
        BY <3>2, FailureIsNoThought
      <4>. QED BY <2>2, <3>2, <4>1 DEF ThoughtInv, ThoughtIsExecutable, Executable
    <3>. QED BY <2>1, <2>2, <3>2, <3>3 DEF ThoughtInv
  <2>4. CASE ~(inflight >= QueueDepth)
    <3>1. pc' = [pc EXCEPT ![r] = "admitted"] /\ UNCHANGED reply
      BY <1>1, <2>4 DEF Arrive
    <3>. QED BY <2>1, <2>2, <3>1, MovesOn DEF ThoughtInv
  <2>. QED BY <2>3, <2>4
<1>2. ASSUME NEW r \in Requests, Submit(r) PROVE ThoughtInv'
  <2>1. /\ pc' = [pc EXCEPT ![r] = "waiting"] /\ UNCHANGED <<kind, attempt, reply>>
        /\ future' = [future EXCEPT ![r] = NoText]
    BY <1>2 DEF Submit
  <2>2. future' \in [Requests -> Texts \cup {Raised, NoText}]
    BY <2>1 DEF ThoughtInv
  <2>. QED BY <2>1, <2>2, MovesOn DEF ThoughtInv
<1>3. ASSUME NEW r \in Requests, Collect(r) PROVE ThoughtInv'
  <2>1. future[r] # NoText /\ UNCHANGED <<kind, future>>
    BY <1>3 DEF Collect
  <2>2. CASE future[r] = Raised
    <3>1. Respond(r, Failure("error")) /\ UNCHANGED attempt
      BY <1>3, <2>2 DEF Collect
    <3>2. Answer(r, Failure("error"))
      BY FailureIsNoThought DEF Answer
    <3>. QED BY <2>1, <3>1, <3>2, Responds
  <2>3. CASE future[r] # Raised /\ kind[r] = "think"
    <3>1. Think(r, future[r])
      BY <1>3, <2>3 DEF Collect
    <3>2. future[r] \in Texts
      BY <2>1, <2>3 DEF ThoughtInv
    <3>. QED BY <2>1, <3>1, <3>2, ThinksSoundly
  <2>4. CASE future[r] # Raised /\ kind[r] # "think"
    <3>1. /\ Respond(r, [status |-> "ok", level |-> 0]) \/ Respond(r, Failure("error"))
          /\ UNCHANGED attempt
      BY <1>3, <2>4 DEF Collect, Extract
    <3>2. Answer(r, [status |-> "ok", level |-> 0])
      BY <2>4 DEF Answer, ThoughtInv
    <3>3. Answer(r, Failure("error"))
      BY FailureIsNoThought DEF Answer
    <3>. QED BY <2>1, <3>1, <3>2, <3>3, Responds
  <2>. QED BY <2>2, <2>3, <2>4
<1>4. ASSUME NEW r \in Requests, TimeOut(r) PROVE ThoughtInv'
  <2>1. Respond(r, Failure("error")) /\ UNCHANGED <<kind, attempt, future>>
    BY <1>4 DEF TimeOut
  <2>2. Answer(r, Failure("error"))
    BY FailureIsNoThought DEF Answer
  <2>. QED BY <2>1, <2>2, Responds
<1>5. ASSUME NEW r \in Requests, Return(r) PROVE ThoughtInv'
  <2>1. /\ pc' = [pc EXCEPT ![r] = "idle"]
        /\ reply' = [reply EXCEPT ![r] = NoReply]
        /\ future' = [future EXCEPT ![r] = NoText]
        /\ kind' = [kind EXCEPT ![r] = "think"]
        /\ attempt' = [attempt EXCEPT ![r] = 1]
    BY <1>5 DEF Return
  <2>2. /\ future' \in [Requests -> Texts \cup {Raised, NoText}]
        /\ kind' \in [Requests -> {"think", "text"}]
        /\ attempt' \in [Requests -> {1, 2}]
        /\ reply' = [q \in Requests |-> reply'[q]]
        /\ \A q \in Requests \ {r} : reply'[q] = reply[q] /\ kind'[q] = kind[q]
    BY <2>1 DEF ThoughtInv
  <2>. QED BY <2>1, <2>2, MovesOn
<1>6. CASE StartJob \/ BootCortex
  <2>1. UNCHANGED <<pc, kind, attempt, future, reply>>
    BY <1>6 DEF StartJob, BootCortex, threadVars
  <2>. QED BY <2>1 DEF ThoughtInv, ThoughtIsExecutable
<1>7. CASE EndJob
  <2>1. UNCHANGED <<pc, kind, attempt, reply>>
    BY <1>7 DEF EndJob
  <2>2. future' \in [Requests -> Texts \cup {Raised, NoText}]
    BY <1>7 DEF EndJob, ThoughtInv
  <2>. QED BY <2>1, <2>2 DEF ThoughtInv, ThoughtIsExecutable
<1>8. CASE CrashCortex
  <2>1. /\ UNCHANGED <<kind, attempt, future>>
        /\ pc' = [r \in Requests |-> IF pc[r] \in {"admitted", "waiting"}
                                     THEN "answered" ELSE pc[r]]
        /\ reply' = [r \in Requests |-> IF pc[r] \in {"admitted", "waiting"}
                                        THEN Failure("error") ELSE reply[r]]
    BY <1>8 DEF CrashCortex
  <2>2. /\ pc' \in [Requests -> {"idle", "admitted", "waiting", "answered"}]
        /\ reply' = [r \in Requests |-> reply'[r]]
    BY <2>1 DEF ThoughtInv
  <2>3. ThoughtIsExecutable'
    <3>. SUFFICES ASSUME NEW q \in Requests, pc'[q] = "answered", reply'[q] # NoReply,
                         reply'[q].status = "ok", kind'[q] = "think"
                  PROVE  Executable(reply'[q])
      BY DEF ThoughtIsExecutable, Executable
    <3>1. pc[q] \notin {"admitted", "waiting"}
      BY <2>1, FailureIsNoThought
    <3>. QED BY <2>1, <3>1 DEF ThoughtInv, ThoughtIsExecutable, Executable
  <2>. QED BY <2>1, <2>2, <2>3 DEF ThoughtInv
<1>. QED BY <1>1, <1>2, <1>3, <1>4, <1>5, <1>6, <1>7, <1>8 DEF CortexNext

\* Whatever the model returns, and however a request is retried, times out or
\* loses its server, a thought that is returned can be executed: it can wait and
\* ask, and its choice and its backup are two of its options.
\* (prompts.py:131-164, cortexd.py think)
THEOREM ThoughtsAreExecutable == Spec => []ThoughtIsExecutable
<1>1. Init => ThoughtInv
  BY DEF Init, CortexInit, ThoughtInv, ThoughtIsExecutable
<1>2. ThoughtInv /\ [Next]_mindVars => ThoughtInv'
  <2>. SUFFICES ASSUME ThoughtInv, [Next]_mindVars PROVE ThoughtInv'
    OBVIOUS
  <2>1. CASE CortexNext
    BY <2>1, CortexThinks
  <2>2. CASE UNCHANGED cortexVars
    <3>1. UNCHANGED <<pc, kind, attempt, future, reply>>
      BY <2>2 DEF cortexVars, threadVars
    <3>. QED BY <3>1 DEF ThoughtInv, ThoughtIsExecutable
  <2>. QED BY <2>1, <2>2 DEF Next, mindVars
<1>3. ThoughtInv => ThoughtIsExecutable
  BY DEF ThoughtInv
<1>. QED BY <1>1, <1>2, <1>3, PTL DEF Spec
=============================================================================
