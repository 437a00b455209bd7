------------------------------ MODULE Greeting ------------------------------
(***************************************************************************)
(* From a person's arrival to a spoken greeting.                           *)
(*                                                                         *)
(* packages/node_a/sparc_node_a/orchestrator.py runs two threads over the  *)
(* world model: the MQTT client's thread calls on_tier0, on_rich and       *)
(* on_transcript, one message at a time, and the main thread drains the    *)
(* pending births, pops the highest deliberation off the heap and works it *)
(* through think, ground, validate and execute.  No lock orders the two;   *)
(* an action below is what one thread does between two points at which the *)
(* other may matter to it.                                                 *)
(*                                                                         *)
(* The world model is Presence, which WorldModel implements.  Everything   *)
(* that outranks an arrival in the heap (speech, alarms, the doorbell) is  *)
(* counted as speech; what it leads to is left out, except for enroll_face.*)
(***************************************************************************)
EXTENDS Presence, Integers, Sequences

CONSTANTS
  MaxParked,      \* bound: arrivals pending or parked when one more comes, and
                  \* arrivals parked when an identity changes
  MaxSpeech,      \* bound: transcripts parked when one more comes
  BusMayDrop,     \* TRUE: the connection to the broker may be lost
  Stranger,       \* GENERIC_GREETING
  Prose,          \* what a language model would say
  Anyone,         \* the "greet:*" key of the cooldown ledger
  NoOne

ASSUME GreetingAssumption ==
  /\ MaxParked \in Nat \ {0} /\ MaxSpeech \in Nat
  /\ BusMayDrop \in BOOLEAN
  /\ {Stranger, Prose, Anyone, NoOne} \cap Entities = {}
  /\ Stranger # Prose

VARIABLES
  pending,    \* _pending_births: "none", or "waiting" for or "due" by its deadline
  handler,    \* where the client's thread is in on_rich
  main,       \* where the main thread is, with the arrival it works on and its text
  scan,       \* what is left of list(_pending_births.items()), deadline passed or not
  queue,      \* parked person_enters deliberations, oldest first: their entity
  speech,     \* number of parked deliberations that outrank an arrival
  cooling,    \* keys of last_action_ts younger than their cooldown
  connected,  \* the bus is connected
  outbox,     \* greetings the MQTT client keeps until it is connected again
  burst       \* history: greetings spoken by this process in the last
              \* greet_anyone_s, up to 2

threads == <<handler, main, scan>>
bus == <<connected, outbox>>
vars == <<presence, pending, threads, queue, speech, cooling, bus, burst>>

-----------------------------------------------------------------------------

Idle == [at |-> "idle", from |-> NoOne, to |-> NoOne, split |-> FALSE]
Rest(place) == [at |-> place, target |-> NoOne, text |-> Prose]
Working == {"thinking", "validating", "speaking"}

\* grounded_greeting_text, for a target that is present
GreetingFor(e) == IF e \in shown THEN e ELSE Stranger

Births == {e \in Entities : pending[e] # "none"}
Room == Len(queue) + Cardinality(Births) < MaxParked
AtMost2(n) == IF n > 2 THEN 2 ELSE n

-----------------------------------------------------------------------------
(* The client's thread *)

\* on_tier0, new_track: a reappearance (an id the database knows) is not greeted.
OnNewTrack(t, e) ==
  /\ connected /\ handler = Idle
  /\ Room
  /\ Appear(t, e)
  /\ pending' = IF e \in ids THEN pending ELSE [pending EXCEPT ![e] = "waiting"]
  /\ UNCHANGED <<threads, queue, speech, cooling, bus, burst>>

\* Mutant of DropBirth: the birth of somebody who left stays.
KeepBirth(e) == UNCHANGED pending

DropBirth(e) == pending' = [pending EXCEPT ![e] = "none"]

\* on_tier0, lost_track
OnLostTrack(e) ==
  /\ connected /\ handler = Idle
  /\ Leave(e)
  /\ DropBirth(e)
  /\ UNCHANGED <<threads, queue, speech, cooling, bus, burst>>

\* on_rich, when update_identity leaves the track with its entity
OnFace(e) ==
  /\ connected /\ handler = Idle
  /\ Show(e) \/ Hide(e)
  /\ UNCHANGED <<pending, threads, queue, speech, cooling, bus, burst>>

\* on_rich, up to the return of update_identity with another entity
OnIdentity(e, k) ==
  /\ connected /\ handler = Idle
  /\ Len(queue) < MaxParked
  /\ \/ Recognize(e, k) /\ handler' = [at |-> "identified", from |-> e, to |-> k, split |-> FALSE]
     \/ Room /\ Split(e, k) /\ handler' = [at |-> "identified", from |-> e, to |-> k, split |-> TRUE]
  /\ UNCHANGED <<pending, main, scan, queue, speech, cooling, bus, burst>>

\* ... then "eid in _pending_births": no, and a corrected arrival gets a birth
SettleNoBirth ==
  /\ handler.at = "identified"
  /\ pending[handler.from] = "none"
  /\ pending' = IF handler.split THEN [pending EXCEPT ![handler.to] = "waiting"] ELSE pending
  /\ handler' = Idle
  /\ UNCHANGED <<presence, main, scan, queue, speech, cooling, bus, burst>>

\* ... yes, and _pending_births.pop(eid) comes next
SettleBirth ==
  /\ handler.at = "identified"
  /\ pending[handler.from] # "none"
  /\ handler' = [handler EXCEPT !.at = "moving"]
  /\ UNCHANGED <<presence, pending, main, scan, queue, speech, cooling, bus, burst>>

\* ... which raises KeyError, logged by the bus, if the main thread was faster.
MoveBirth ==
  /\ handler.at = "moving"
  /\ pending' = IF pending[handler.from] = "none" THEN pending
                ELSE [pending EXCEPT ![handler.to] = pending[handler.from],
                                     ![handler.from] = "none"]
  /\ handler' = Idle
  /\ UNCHANGED <<presence, main, scan, queue, speech, cooling, bus, burst>>

\* on_transcript (and on_sound, for what outranks an arrival)
OnTranscript ==
  /\ connected /\ handler = Idle
  /\ speech < MaxSpeech
  /\ speech' = speech + 1
  /\ UNCHANGED <<presence, pending, threads, queue, cooling, bus, burst>>

-----------------------------------------------------------------------------
(* The main thread: _drain_births *)

BeginScan ==
  /\ main.at = "loop"
  /\ main' = Rest("draining")
  /\ scan' = {<<e, pending[e] = "due">> : e \in Births}
  /\ UNCHANGED <<presence, pending, handler, queue, speech, cooling, bus, burst>>

\* Mutant of Ripe: only a name makes a birth ready.
RipeByName(e, due) == e \in shown

Ripe(e, due) == e \in shown \/ due

\* One round of the loop over the snapshot: the world may have moved on.
DrainOne(e, due) ==
  /\ main.at = "draining"
  /\ <<e, due>> \in scan
  /\ scan' = scan \ {<<e, due>>}
  /\ \/ ~Here(e) /\ DropBirth(e) /\ UNCHANGED queue
     \/ Here(e) /\ ~Ripe(e, due) /\ UNCHANGED <<pending, queue>>
     \/ Here(e) /\ Ripe(e, due) /\ DropBirth(e) /\ queue' = Append(queue, e)
  /\ UNCHANGED <<presence, handler, main, speech, cooling, bus, burst>>

-----------------------------------------------------------------------------
(* The main thread: the scheduler *)

ReadyToPop == main.at = "draining" /\ scan = {}

\* Mutant of SpeechFirst: the heap is popped without "if self._queue".
SpeechUnchecked == TRUE

\* Mutant of SpeechFirst: the heap's order is turned round.
SpeechLast == speech > 0 /\ queue = << >>

SpeechFirst == speech > 0

PopSpeech ==
  /\ ReadyToPop
  /\ SpeechFirst
  /\ speech' = speech - 1
  /\ main' = Rest("answering")
  /\ UNCHANGED <<presence, pending, handler, scan, queue, cooling, bus, burst>>

PopNothing ==
  /\ ReadyToPop
  /\ speech = 0 /\ queue = << >>
  /\ main' = Rest("loop")
  /\ UNCHANGED <<presence, pending, handler, scan, queue, speech, cooling, bus, burst>>

\* The oldest arrival: stale and abandoned, or worked on.
PopArrival ==
  /\ ReadyToPop
  /\ ~SpeechFirst /\ queue # << >>
  /\ queue' = Tail(queue)
  /\ main' = IF Here(Head(queue)) THEN [Rest("thinking") EXCEPT !.target = Head(queue)]
             ELSE Rest("loop")
  /\ UNCHANGED <<presence, pending, handler, scan, speech, cooling, bus, burst>>

-----------------------------------------------------------------------------
(* The main thread: the pipeline *)

\* The pipeline for speech: the answer, and perhaps an executed enroll_face.
Answer ==
  /\ main.at = "answering"
  /\ main' = Rest("loop")
  /\ UNCHANGED presence \/ \E e \in Entities : Enroll(e)
  /\ UNCHANGED <<pending, handler, scan, queue, speech, cooling, bus, burst>>

\* What ground_greeting makes of prose for e.
Grounded(e) == IF Here(e) THEN GreetingFor(e) ELSE Prose

\* The cortex, or the reflex without it, wants to say something to an arrival,
\* which is grounded at once; or it wants something else.
Think ==
  /\ main.at = "thinking"
  /\ \/ /\ main' = [main EXCEPT !.at = "validating", !.text = Grounded(main.target)]
        /\ UNCHANGED presence
     \/ main' = Rest("loop") /\ (UNCHANGED presence \/ \E e \in Entities : Enroll(e))
  /\ UNCHANGED <<pending, handler, scan, queue, speech, cooling, bus, burst>>

\* Mutant of Authorized: the text is not compared with the live target's.
AuthorizedByTarget(e, text) == Here(e)

Authorized(e, text) == Here(e) /\ text = GreetingFor(e)

\* validate; a veto executes the safe wait
Validate ==
  /\ main.at = "validating"
  /\ main' = IF Authorized(main.target, main.text) /\ {main.target, Anyone} \cap cooling = {}
             THEN [main EXCEPT !.at = "speaking"] ELSE Rest("loop")
  /\ UNCHANGED <<presence, pending, handler, scan, queue, speech, cooling, bus, burst>>

\* Mutant of MarkExecuted: only the greeted person cools down.
MarkPerson(e) == cooling' = cooling \cup {e}

\* mark_executed
MarkExecuted(e) == cooling' = cooling \cup {e, Anyone}

\* execute.  Without a connection publish raises after the client has taken the
\* message (QoS 1), and mark_executed is not reached.
Speak ==
  /\ main.at = "speaking"
  /\ main' = Rest("loop")
  /\ \/ connected /\ MarkExecuted(main.target) /\ burst' = AtMost2(burst + 1) /\ UNCHANGED outbox
     \/ ~connected /\ outbox' = AtMost2(outbox + 1) /\ UNCHANGED <<cooling, burst>>
  /\ UNCHANGED <<presence, pending, handler, scan, queue, speech, connected>>

-----------------------------------------------------------------------------
(* Time, the bus and the process *)

Expire(e) ==
  /\ pending[e] = "waiting"
  /\ pending' = [pending EXCEPT ![e] = "due"]
  /\ UNCHANGED <<presence, threads, queue, speech, cooling, bus, burst>>

\* greet_anyone_s without a greeting
CoolAnyone ==
  /\ burst > 0
  /\ cooling' = cooling \ {Anyone}
  /\ burst' = 0
  /\ UNCHANGED <<presence, pending, threads, queue, speech, bus>>

\* greet_same_person_s without a greeting of e
CoolSame(e) ==
  /\ e \in cooling
  /\ cooling' = cooling \ {e}
  /\ UNCHANGED <<presence, pending, threads, queue, speech, bus, burst>>

\* e is outside the reappearance window and nothing speaks of it any more.
OnRetire(e) ==
  /\ Retire(e)
  /\ pending[e] = "none" /\ e \notin cooling
  /\ e \notin {handler.from, main.target}
  /\ \A i \in 1..Len(queue) : queue[i] # e
  /\ \A item \in scan : item[1] # e
  /\ UNCHANGED <<pending, threads, queue, speech, cooling, bus, burst>>

Disconnect ==
  /\ BusMayDrop
  /\ connected
  /\ connected' = FALSE
  /\ UNCHANGED <<presence, pending, threads, queue, speech, cooling, outbox, burst>>

\* The client sends what it kept.
Reconnect ==
  /\ ~connected
  /\ connected' = TRUE
  /\ outbox' = 0
  /\ burst' = AtMost2(burst + outbox)
  /\ UNCHANGED <<presence, pending, threads, queue, speech, cooling>>

\* The process dies and is started again; all of this module is memory.
Restart ==
  /\ Forget
  /\ pending' = [e \in Entities |-> "none"]
  /\ handler' = Idle /\ main' = Rest("loop") /\ scan' = {}
  /\ queue' = << >> /\ speech' = 0
  /\ cooling' = {} /\ burst' = 0
  /\ connected' = TRUE /\ outbox' = 0

-----------------------------------------------------------------------------

Init ==
  /\ PresenceInit
  /\ pending = [e \in Entities |-> "none"]
  /\ handler = Idle /\ main = Rest("loop") /\ scan = {}
  /\ queue = << >> /\ speech = 0
  /\ cooling = {} /\ burst = 0
  /\ connected = TRUE /\ outbox = 0

Settle == SettleNoBirth \/ SettleBirth \/ MoveBirth

MainStep ==
  \/ BeginScan
  \/ \E e \in Entities, due \in BOOLEAN : DrainOne(e, due)
  \/ PopSpeech \/ PopNothing \/ PopArrival
  \/ Answer \/ Think \/ Validate \/ Speak

Next ==
  \/ \E t \in Tracks, e \in Entities : OnNewTrack(t, e)
  \/ \E e \in Entities : OnLostTrack(e) \/ OnFace(e)
  \/ \E e, k \in Entities : OnIdentity(e, k)
  \/ Settle
  \/ OnTranscript
  \/ MainStep
  \/ \E e \in Entities : Expire(e) \/ CoolSame(e) \/ OnRetire(e)
  \/ CoolAnyone
  \/ Disconnect
  \/ Reconnect
  \/ Restart

Spec == Init /\ [][Next]_vars

\* Both threads keep running: handlers return, and every call of the main
\* thread has a timeout (think_timeout_s, memory and frame requests).  Clocks
\* advance.  Nothing obliges anybody to come, to go or to speak.
FairSpec ==
  /\ Spec
  /\ WF_vars(MainStep)
  /\ WF_vars(Settle)
  /\ \A e \in Entities : WF_vars(Expire(e))

-----------------------------------------------------------------------------
(* What must always hold *)

GreetingTypeOK ==
  /\ PresenceTypeOK
  /\ pending \in [Entities -> {"none", "waiting", "due"}]
  /\ handler \in [at : {"idle", "identified", "moving"}, from : Entities \cup {NoOne},
                  to : Entities \cup {NoOne}, split : BOOLEAN]
  /\ main \in [at : {"loop", "draining", "answering"} \cup Working,
               target : Entities \cup {NoOne}, text : Entities \cup {Stranger, Prose}]
  /\ scan \subseteq Entities \X BOOLEAN
  /\ queue \in Seq(Entities)
  /\ speech \in 0..MaxSpeech
  /\ cooling \subseteq Entities \cup {Anyone}
  /\ connected \in BOOLEAN /\ outbox \in 0..2 /\ burst \in 0..2

\* What is about to be said to an arrival is the generic greeting or the
\* target's own name, never the model's prose and never somebody else's name,
\* although the target may leave, come back, be renamed or lose its name
\* between thinking, grounding and validating (deliberation.py:125-156).
GreetingIsGrounded ==
  main.at = "speaking" =>
    /\ main.text \in {Stranger, main.target}
    /\ main.text # Stranger => main.target \in enrolled

\* A pending birth is that of somebody present, or of the entity on_rich has
\* just taken off its track and not yet settled.
PendingIsPresent ==
  \A e \in Births : Here(e) \/ (handler.at # "idle" /\ handler.from = e)

\* "identity churn must never cause rapid re-greeting" (deliberation.py:161):
\* one process never speaks two greetings within greet_anyone_s, whoever the
\* people in view turn out to be.
NoRapidGreeting == burst <= 1

(* What must eventually happen *)

WorksOn(e) == main.at \in Working /\ main.target = e

\* Unless speech keeps the queue busy for ever, an arrival that stays itself is
\* deliberated: identity or its deadline releases it from the pending births,
\* and the queue does not pass it over.
ArrivalIsDeliberated ==
  []<><<PopArrival \/ PopNothing>>_vars =>
    \A e \in Entities : pending[e] # "none" ~> WorksOn(e) \/ ~Here(e)

\* Whatever comes and goes, speech is answered.
SpeechIsAnswered == speech > 0 ~> main.at = "answering" \/ speech = 0
=============================================================================
