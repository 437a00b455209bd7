---------------------------- MODULE GreetingProofs ----------------------------
(***************************************************************************)
(* Theorems about Presence and Greeting, for any number of people, tracks  *)
(* and parked deliberations.                                               *)
(***************************************************************************)
EXTENDS Greeting, TLAPS, FiniteSetTheorems, SequenceTheorems

-----------------------------------------------------------------------------
(* Presence *)

PresenceInv == PresenceTypeOK /\ PresenceIsSound

LEMMA PresenceInitSound == PresenceInit => PresenceInv
BY TrackAssumption DEF PresenceInit, PresenceInv, PresenceTypeOK, PresenceIsSound, Here

\* Where a presentation comes or goes.
LEMMA MovesKeepPresence ==
  ASSUME PresenceInv,
         \/ \E t \in Tracks, e \in Entities : Appear(t, e)
         \/ \E e \in Entities : Leave(e)
         \/ \E e, k \in Entities : Recognize(e, k) \/ Split(e, k)
         \/ Forget
  PROVE  PresenceInv'
<1>. USE TrackAssumption
<1>1. ASSUME NEW t \in Tracks, NEW e \in Entities, Appear(t, e)
      PROVE  PresenceInv'
  BY <1>1 DEF Appear, Free, Here, PresenceInv, PresenceTypeOK, PresenceIsSound
<1>2. ASSUME NEW e \in Entities, Leave(e)
      PROVE  PresenceInv'
  BY <1>2 DEF Leave, Here, PresenceInv, PresenceTypeOK, PresenceIsSound
<1>3. ASSUME NEW e \in Entities, NEW k \in Entities, Recognize(e, k)
      PROVE  PresenceInv'
  BY <1>3 DEF Recognize, PassOn, Here, PresenceInv, PresenceTypeOK, PresenceIsSound
<1>4. ASSUME NEW e \in Entities, NEW k \in Entities, Split(e, k)
      PROVE  PresenceInv'
  BY <1>4 DEF Split, PassOn, Here, PresenceInv, PresenceTypeOK, PresenceIsSound
<1>5. CASE Forget
  BY <1>5 DEF Forget, Here, PresenceInv, PresenceTypeOK, PresenceIsSound
<1>. QED BY <1>1, <1>2, <1>3, <1>4, <1>5

\* Where everybody stays.
LEMMA NamesKeepPresence ==
  ASSUME PresenceInv,
         \/ \E e \in Entities : Show(e) \/ Hide(e) \/ Enroll(e) \/ EnrollAbsent(e) \/ Retire(e)
         \/ UNCHANGED presence
  PROVE  PresenceInv'
BY TrackAssumption
   DEF Show, Hide, Enroll, EnrollAbsent, Retire, presence, Here,
       PresenceInv, PresenceTypeOK, PresenceIsSound

\* What Presence gives its users: nobody shares a track, only enrolled people
\* who are present are named, and everybody present has a row.
THEOREM PresenceStaysSound == PresenceSpec => []PresenceIsSound
<1>1. PresenceInv /\ [PresenceNext]_presence => PresenceInv'
  BY MovesKeepPresence, NamesKeepPresence DEF PresenceNext
<1>2. PresenceInv => PresenceIsSound
  BY DEF PresenceInv
<1>. QED BY PresenceInitSound, <1>1, <1>2, PTL DEF PresenceSpec

-----------------------------------------------------------------------------
(* Greeting: the inductive invariant *)

\* While on_rich settles an identity, the entity it moved to is present, for no
\* other message is handled.
SettlingIsPresent ==
  handler.at # "idle" =>
    /\ handler.from \in Entities /\ handler.to \in Entities
    /\ Here(handler.to)

\* Whoever is worked on is somebody.
TargetIsSomebody == main.at \in Working => main.target \in Entities

\* A greeting in the last greet_anyone_s is in the ledger, and none is about to
\* be spoken on top of it.
LedgerIsTrue ==
  /\ burst > 0 => Anyone \in cooling
  /\ main.at = "speaking" => Anyone \notin cooling

\* The connection holds.
BusIsUp == connected /\ outbox = 0

GreetingInv ==
  /\ GreetingTypeOK
  /\ PresenceIsSound
  /\ SettlingIsPresent
  /\ TargetIsSomebody
  /\ PendingIsPresent
  /\ GreetingIsGrounded

Phases == {"loop", "draining", "answering"} \cup Working
MainStates == [at : Phases, target : Entities \cup {NoOne}, text : Entities \cup {Stranger, Prose}]
HandlerStates == [at : {"idle", "identified", "moving"}, from : Entities \cup {NoOne},
                  to : Entities \cup {NoOne}, split : BOOLEAN]

\* The states a thread rests in.
LEMMA RestFacts ==
  /\ Idle \in HandlerStates /\ Idle.at = "idle"
  /\ \A place \in {"loop", "draining", "answering"} :
       /\ Rest(place) \in MainStates
       /\ Rest(place).at = place
       /\ place \notin Working
BY DEF Idle, Rest, HandlerStates, MainStates, Phases, Working

LEMMA GreetingForFacts ==
  ASSUME GreetingInv, NEW e \in Entities
  PROVE  /\ GreetingFor(e) \in Entities \cup {Stranger, Prose}
         /\ Grounded(e) \in Entities \cup {Stranger, Prose}
         /\ GreetingFor(e) \in {Stranger, e}
         /\ GreetingFor(e) # Stranger => e \in enrolled
BY DEF GreetingFor, Grounded, GreetingInv, PresenceIsSound

LEMMA InitGreeting == Init => GreetingInv
<1>. SUFFICES ASSUME Init PROVE GreetingInv
  OBVIOUS
<1>1. PresenceTypeOK /\ PresenceIsSound
  BY PresenceInitSound DEF Init, PresenceInv
<1>2. GreetingTypeOK
  BY <1>1, RestFacts, GreetingAssumption
     DEF Init, GreetingTypeOK, HandlerStates, MainStates, Phases
<1>. QED BY <1>1, <1>2, RestFacts
         DEF Init, GreetingInv, SettlingIsPresent, TargetIsSomebody, PendingIsPresent, Births,
             GreetingIsGrounded, Working

\* The handlers of the client's thread.
LEMMA HandlersKeepGreeting ==
  ASSUME GreetingInv,
         \/ \E t \in Tracks, e \in Entities : OnNewTrack(t, e)
         \/ \E e \in Entities : OnLostTrack(e) \/ OnFace(e)
         \/ \E e, k \in Entities : OnIdentity(e, k)
         \/ Settle
         \/ OnTranscript
  PROVE  GreetingInv'
<1>. USE GreetingAssumption, TrackAssumption
<1>0. PresenceInv
  BY DEF GreetingInv, GreetingTypeOK, PresenceInv
<1>1. ASSUME NEW t \in Tracks, NEW e \in Entities, OnNewTrack(t, e)
      PROVE  GreetingInv'
  <2>1. PresenceInv'
    BY <1>0, <1>1, MovesKeepPresence DEF OnNewTrack
  <2>2. /\ pending' \in {pending, [pending EXCEPT ![e] = "waiting"]}
        /\ UNCHANGED <<handler, main, scan, queue, speech, cooling, connected, outbox, burst>>
        /\ handler.at = "idle" /\ enrolled' = enrolled
        /\ \A f \in Entities : Here(f) \/ f = e => Here(f)'
    BY <1>0, <1>1 DEF OnNewTrack, threads, bus, Idle, Appear, Here, PresenceInv, PresenceTypeOK
  <2>3. GreetingTypeOK'
    BY <2>1, <2>2 DEF GreetingInv, GreetingTypeOK, PresenceInv
  <2>4. PendingIsPresent'
    BY <2>2 DEF GreetingInv, GreetingTypeOK, PendingIsPresent, Births
  <2>. QED BY <2>1, <2>2, <2>3, <2>4
           DEF GreetingInv, PresenceInv, SettlingIsPresent, TargetIsSomebody, GreetingIsGrounded
<1>2. ASSUME NEW e \in Entities, OnLostTrack(e)
      PROVE  GreetingInv'
  <2>1. PresenceInv'
    BY <1>0, <1>2, MovesKeepPresence DEF OnLostTrack
  <2>2. /\ pending' = [pending EXCEPT ![e] = "none"]
        /\ UNCHANGED <<handler, main, scan, queue, speech, cooling, connected, outbox, burst>>
        /\ handler.at = "idle" /\ enrolled' = enrolled
        /\ \A f \in Entities \ {e} : Here(f) => Here(f)'
    BY <1>0, <1>2 DEF OnLostTrack, DropBirth, threads, bus, Idle, Leave, Here, PresenceInv, PresenceTypeOK
  <2>3. GreetingTypeOK'
    BY <2>1, <2>2 DEF GreetingInv, GreetingTypeOK, PresenceInv
  <2>4. PendingIsPresent'
    BY <2>2 DEF GreetingInv, GreetingTypeOK, PendingIsPresent, Births
  <2>. QED BY <2>1, <2>2, <2>3, <2>4
           DEF GreetingInv, PresenceInv, SettlingIsPresent, TargetIsSomebody, GreetingIsGrounded
<1>3. CASE (\E e \in Entities : OnFace(e)) \/ OnTranscript
  <2>1. PresenceInv'
    BY <1>0, <1>3, NamesKeepPresence DEF OnFace, OnTranscript
  <2>2. /\ UNCHANGED <<pending, handler, main, scan, queue, cooling, connected, outbox, burst>>
        /\ speech' \in 0..MaxSpeech /\ enrolled' = enrolled /\ where' = where
    BY <1>3 DEF OnFace, OnTranscript, threads, bus, Show, Hide, presence, GreetingInv, GreetingTypeOK
  <2>3. GreetingTypeOK'
    BY <2>1, <2>2 DEF GreetingInv, GreetingTypeOK, PresenceInv
  <2>. QED BY <2>1, <2>2, <2>3
           DEF GreetingInv, PresenceInv, SettlingIsPresent, TargetIsSomebody, PendingIsPresent,
               Births, GreetingIsGrounded, Here
<1>4. ASSUME NEW e \in Entities, NEW k \in Entities, OnIdentity(e, k)
      PROVE  GreetingInv'
  <2>1. PresenceInv'
    BY <1>0, <1>4, MovesKeepPresence DEF OnIdentity
  <2>2. /\ UNCHANGED <<pending, main, scan, queue, speech, cooling, connected, outbox, burst>>
        /\ \E b \in BOOLEAN : handler' = [at |-> "identified", from |-> e, to |-> k, split |-> b]
        /\ handler.at = "idle" /\ enrolled' = enrolled /\ where' = [where EXCEPT ![e] = NoTrack, ![k] = where[e]]
        /\ Here(e)
    BY <1>4 DEF OnIdentity, bus, Idle, Recognize, Split, PassOn
  <2>3. GreetingTypeOK'
    BY <2>1, <2>2 DEF GreetingInv, GreetingTypeOK, PresenceInv
  <2>4. SettlingIsPresent'
    BY <1>0, <2>2 DEF SettlingIsPresent, Here, PresenceInv, PresenceTypeOK
  <2>5. PendingIsPresent'
    BY <1>0, <2>2 DEF GreetingInv, PendingIsPresent, Births, Here, PresenceInv, PresenceTypeOK
  <2>. QED BY <2>1, <2>2, <2>3, <2>4, <2>5
           DEF GreetingInv, PresenceInv, TargetIsSomebody, GreetingIsGrounded
<1>5. CASE Settle
  <2>1. PresenceInv' /\ UNCHANGED <<where, shown, enrolled, ids>>
    BY <1>0, <1>5, NamesKeepPresence
       DEF Settle, SettleNoBirth, SettleBirth, MoveBirth, presence
  <2>2. /\ UNCHANGED <<main, scan, queue, speech, cooling, connected, outbox, burst>>
        /\ handler.at # "idle"
        /\ \/ handler' = [handler EXCEPT !.at = "moving"] /\ pending' = pending
           \/ /\ handler' = Idle
              /\ \/ pending[handler.from] = "none" /\ pending' = pending
                 \/ pending[handler.from] = "none" /\ pending' = [pending EXCEPT ![handler.to] = "waiting"]
                 \/ pending' = [pending EXCEPT ![handler.to] = pending[handler.from],
                                               ![handler.from] = "none"]
    BY <1>5 DEF Settle, SettleNoBirth, SettleBirth, MoveBirth, bus
  <2>3. /\ handler.from \in Entities /\ handler.to \in Entities /\ Here(handler.to)
        /\ handler \in HandlerStates
    BY <2>2 DEF GreetingInv, GreetingTypeOK, SettlingIsPresent, HandlerStates
  <2>4. GreetingTypeOK'
    <3>1. handler' \in HandlerStates
      BY <2>2, <2>3, RestFacts DEF HandlerStates
    <3>2. pending' \in [Entities -> {"none", "waiting", "due"}]
      BY <2>2, <2>3 DEF GreetingInv, GreetingTypeOK
    <3>. QED BY <2>1, <2>2, <3>1, <3>2 DEF GreetingInv, GreetingTypeOK, PresenceInv, HandlerStates
  <2>5. SettlingIsPresent'
    BY <2>1, <2>2, <2>3, RestFacts DEF SettlingIsPresent, Here, HandlerStates
  <2>6. PendingIsPresent'
    <3>. SUFFICES ASSUME NEW f \in Entities, pending'[f] # "none"
                  PROVE  Here(f) \/ (handler'.at # "idle" /\ handler'.from = f)
      BY <2>1 DEF PendingIsPresent, Births, Here
    <3>1. CASE handler' = [handler EXCEPT !.at = "moving"] /\ pending' = pending
      BY <2>2, <2>3, <3>1 DEF GreetingInv, PendingIsPresent, Births, HandlerStates
    <3>2. CASE f = handler.to
      BY <2>3, <3>2
    <3>3. CASE f # handler.to /\ handler' = Idle
      BY <2>2, <2>3, <3>3 DEF GreetingInv, GreetingTypeOK, PendingIsPresent, Births
    <3>. QED BY <2>2, <3>1, <3>2, <3>3
  <2>. QED BY <2>1, <2>2, <2>4, <2>5, <2>6
           DEF GreetingInv, PresenceInv, TargetIsSomebody, GreetingIsGrounded
<1>. QED BY <1>1, <1>2, <1>3, <1>4, <1>5

\* The main thread's steps that change no name.
LEMMA MainKeepsGreeting ==
  ASSUME GreetingInv, MainStep
  PROVE  GreetingInv'
<1>. USE GreetingAssumption, TrackAssumption
<1>0. PresenceInv
  BY DEF GreetingInv, GreetingTypeOK, PresenceInv
<1>1. PresenceInv' /\ where' = where /\ enrolled \subseteq enrolled' /\ handler' = handler
  <2>1. CASE UNCHANGED presence /\ UNCHANGED handler
    BY <1>0, <2>1, NamesKeepPresence DEF presence
  <2>2. CASE (\E e \in Entities : Enroll(e)) /\ UNCHANGED handler
    <3>1. PresenceInv'
      BY <1>0, <2>2, NamesKeepPresence
    <3>. QED BY <2>2, <3>1 DEF Enroll
  <2>. QED BY <2>1, <2>2
           DEF MainStep, BeginScan, DrainOne, PopSpeech, PopNothing, PopArrival, Answer, Think,
               Validate, Speak
<1>2. /\ main \in MainStates
      /\ main.at \in Working => main.target \in Entities
      /\ queue \in Seq(Entities) /\ pending \in [Entities -> {"none", "waiting", "due"}]
  BY DEF GreetingInv, GreetingTypeOK, MainStates, Phases, TargetIsSomebody
<1>3. /\ main' \in MainStates
      /\ main'.at \in Working => main'.target \in Entities
      /\ main'.at = "speaking" =>
           /\ main'.text \in {Stranger, main'.target}
           /\ main'.text # Stranger => main'.target \in enrolled'
  <2>1. CASE \E place \in {"loop", "draining", "answering"} : main' = Rest(place)
    BY <2>1, RestFacts DEF Working
  <2>2. CASE main' = main
    BY <1>1, <1>2, <2>2 DEF GreetingInv, GreetingIsGrounded
  <2>3. CASE /\ queue # << >> /\ main' = [Rest("thinking") EXCEPT !.target = Head(queue)]
    <3>1. Head(queue) \in Entities
      BY <1>2, <2>3
    <3>2. main' = [at |-> "thinking", target |-> Head(queue), text |-> Prose]
      BY <2>3 DEF Rest
    <3>. QED BY <3>1, <3>2 DEF MainStates, Phases, Working
  <2>4. CASE /\ main.at = "thinking"
             /\ main' = [main EXCEPT !.at = "validating", !.text = Grounded(main.target)]
    <3>1. main.target \in Entities
      BY <1>2, <2>4 DEF Working
    <3>. QED BY <1>2, <2>4, <3>1, GreetingForFacts DEF MainStates, Phases, Working
  <2>5. CASE /\ main.at = "validating" /\ enrolled' = enrolled
             /\ Authorized(main.target, main.text)
             /\ main' = [main EXCEPT !.at = "speaking"]
    <3>1. main.target \in Entities
      BY <1>2, <2>5 DEF Working
    <3>2. main.text \in {Stranger, main.target} /\ (main.text # Stranger => main.target \in enrolled)
      BY <2>5, <3>1, GreetingForFacts DEF Authorized
    <3>. QED BY <1>2, <2>5, <3>1, <3>2 DEF MainStates, Phases, Working
  <2>. QED BY <2>1, <2>2, <2>3, <2>4, <2>5
           DEF MainStep, BeginScan, DrainOne, PopSpeech, PopNothing, PopArrival, Answer, Think,
               Validate, Speak, presence
<1>4. /\ pending' \in {pending} \cup {[pending EXCEPT ![e] = "none"] : e \in Entities}
      /\ scan' \subseteq Entities \X BOOLEAN
      /\ queue' \in Seq(Entities)
      /\ speech' \in 0..MaxSpeech
      /\ cooling' \subseteq Entities \cup {Anyone}
      /\ connected' \in BOOLEAN /\ outbox' \in 0..2 /\ burst' \in 0..2
  <2>0. /\ scan \subseteq Entities \X BOOLEAN /\ speech \in 0..MaxSpeech
        /\ cooling \subseteq Entities \cup {Anyone}
        /\ connected \in BOOLEAN /\ outbox \in 0..2 /\ burst \in 0..2
    BY DEF GreetingInv, GreetingTypeOK
  <2>1. CASE BeginScan
    <3>1. \A e \in Births : <<e, pending[e] = "due">> \in Entities \X BOOLEAN
      BY DEF Births
    <3>2. scan' \subseteq Entities \X BOOLEAN
      BY <2>1, <3>1 DEF BeginScan
    <3>3. UNCHANGED <<pending, queue, speech, cooling, connected, outbox, burst>>
      BY <2>1 DEF BeginScan, bus
    <3>. QED BY <1>2, <2>0, <3>2, <3>3
  <2>2. ASSUME NEW e \in Entities, NEW due \in BOOLEAN, DrainOne(e, due)
        PROVE  <1>4
    <3>1. queue' \in Seq(Entities)
      BY <1>2, <2>2 DEF DrainOne
    <3>2. /\ pending' \in {pending, [pending EXCEPT ![e] = "none"]} /\ scan' \subseteq scan
          /\ UNCHANGED <<speech, cooling, connected, outbox, burst>>
      BY <2>2 DEF DrainOne, DropBirth, bus
    <3>3. pending' \in {pending} \cup {[pending EXCEPT ![f] = "none"] : f \in Entities}
      BY <3>2
    <3>4. scan' \subseteq Entities \X BOOLEAN
      BY <2>0, <3>2
    <3>5. /\ speech' \in 0..MaxSpeech /\ cooling' \subseteq Entities \cup {Anyone}
          /\ connected' \in BOOLEAN /\ outbox' \in 0..2 /\ burst' \in 0..2
      BY <2>0, <3>2
    <3>. QED BY <3>1, <3>3, <3>4, <3>5
  <2>3. CASE PopSpeech \/ PopNothing \/ PopArrival
    <3>1. /\ UNCHANGED <<pending, scan, cooling, connected, outbox, burst>>
          /\ speech' \in 0..MaxSpeech
          /\ queue' = queue \/ (queue # << >> /\ queue' = Tail(queue))
      BY <2>0, <2>3 DEF PopSpeech, PopNothing, PopArrival, SpeechFirst, bus
    <3>2. queue' \in Seq(Entities)
      BY <1>2, <3>1
    <3>3. pending' \in {pending}
      BY <3>1
    <3>. QED BY <2>0, <3>1, <3>2, <3>3
  <2>4. CASE Answer \/ Think \/ Validate
    BY <1>2, <2>0, <2>4 DEF Answer, Think, Validate, bus
  <2>5. CASE Speak
    <3>1. main.target \in Entities
      BY <1>2, <2>5 DEF Speak, Working
    <3>. QED BY <1>2, <2>0, <2>5, <3>1 DEF Speak, MarkExecuted, AtMost2
  <2>. QED BY <2>1, <2>2, <2>3, <2>4, <2>5 DEF MainStep
<1>5. GreetingTypeOK'
  <2>1. pending' \in [Entities -> {"none", "waiting", "due"}]
    BY <1>2, <1>4
  <2>. QED BY <1>1, <1>3, <1>4, <2>1
           DEF GreetingInv, GreetingTypeOK, PresenceInv, MainStates, Phases
<1>6. SettlingIsPresent'
  BY <1>1 DEF GreetingInv, SettlingIsPresent, Here
<1>7. PendingIsPresent'
  BY <1>1, <1>2, <1>4 DEF GreetingInv, PendingIsPresent, Births, Here
<1>. QED BY <1>1, <1>3, <1>5, <1>6, <1>7
         DEF GreetingInv, PresenceInv, TargetIsSomebody, GreetingIsGrounded

\* Time, the bus, and a restart.
LEMMA RestKeepsGreeting ==
  ASSUME GreetingInv,
         \/ \E e \in Entities : Expire(e) \/ CoolSame(e) \/ OnRetire(e)
         \/ CoolAnyone \/ Disconnect \/ Reconnect \/ Restart
         \/ UNCHANGED vars
  PROVE  GreetingInv'
<1>. USE GreetingAssumption, TrackAssumption
<1>0. PresenceInv
  BY DEF GreetingInv, GreetingTypeOK, PresenceInv
<1>1. CASE Restart
  <2>1. PresenceInv'
    BY <1>0, <1>1, MovesKeepPresence DEF Restart
  <2>2. /\ pending' = [e \in Entities |-> "none"] /\ handler' = Idle /\ main' = Rest("loop")
        /\ scan' = {} /\ queue' = << >> /\ speech' = 0 /\ cooling' = {} /\ burst' = 0
        /\ connected' = TRUE /\ outbox' = 0
    BY <1>1 DEF Restart
  <2>3. GreetingTypeOK'
    BY <2>1, <2>2, RestFacts DEF GreetingTypeOK, PresenceInv, HandlerStates, MainStates, Phases
  <2>. QED BY <2>1, <2>2, <2>3, RestFacts
           DEF GreetingInv, PresenceInv, SettlingIsPresent, TargetIsSomebody, PendingIsPresent,
               Births, GreetingIsGrounded, Working
<1>2. CASE \/ \E e \in Entities : Expire(e) \/ CoolSame(e) \/ OnRetire(e)
           \/ CoolAnyone \/ Disconnect \/ Reconnect \/ UNCHANGED vars
  <2>1. PresenceInv' /\ where' = where /\ enrolled' = enrolled
    <3>1. UNCHANGED presence \/ \E e \in Entities : Retire(e)
      BY <1>2 DEF Expire, CoolSame, OnRetire, CoolAnyone, Disconnect, Reconnect, vars
    <3>2. where' = where /\ enrolled' = enrolled
      BY <3>1 DEF presence, Retire
    <3>. QED BY <1>0, <3>1, <3>2, NamesKeepPresence
  <2>2. /\ UNCHANGED <<handler, main, scan, queue, speech>>
        /\ pending' \in [Entities -> {"none", "waiting", "due"}]
        /\ \A e \in Entities : pending'[e] = "none" <=> pending[e] = "none"
        /\ cooling' \subseteq cooling
        /\ connected' \in BOOLEAN /\ outbox' \in 0..2 /\ burst' \in 0..2
    <3>0. /\ pending \in [Entities -> {"none", "waiting", "due"}]
          /\ connected \in BOOLEAN /\ outbox \in 0..2 /\ burst \in 0..2
      BY DEF GreetingInv, GreetingTypeOK
    <3>1. ASSUME NEW e \in Entities, Expire(e) PROVE <2>2
      BY <3>0, <3>1 DEF Expire, threads, bus
    <3>2. ASSUME NEW e \in Entities, CoolSame(e) \/ OnRetire(e) PROVE <2>2
      BY <3>0, <3>2 DEF CoolSame, OnRetire, threads, bus
    <3>3. CASE CoolAnyone
      BY <3>0, <3>3 DEF CoolAnyone, threads, bus
    <3>6. CASE Disconnect
      BY <3>0, <3>6 DEF Disconnect, threads
    <3>4. CASE Reconnect
      BY <3>0, <3>4 DEF Reconnect, threads, AtMost2
    <3>5. CASE UNCHANGED vars
      BY <3>0, <3>5 DEF vars, threads, bus
    <3>. QED BY <1>2, <3>1, <3>2, <3>3, <3>4, <3>5, <3>6
  <2>3. GreetingTypeOK'
    BY <2>1, <2>2 DEF GreetingInv, GreetingTypeOK, PresenceInv
  <2>. QED BY <2>1, <2>2, <2>3
           DEF GreetingInv, PresenceInv, SettlingIsPresent, TargetIsSomebody, PendingIsPresent,
               Births, GreetingIsGrounded, Here
<1>. QED BY <1>1, <1>2

LEMMA GreetingIsConsistent == Spec => []GreetingInv
<1>1. GreetingInv /\ [Next]_vars => GreetingInv'
  BY HandlersKeepGreeting, MainKeepsGreeting, RestKeepsGreeting DEF Next
<1>. QED BY InitGreeting, <1>1, PTL DEF Spec

-----------------------------------------------------------------------------
(* The theorems *)

\* Types, for any bounds.
THEOREM GreetingTypeCorrect == Spec => []GreetingTypeOK
<1>1. GreetingInv => GreetingTypeOK
  BY DEF GreetingInv
<1>. QED BY <1>1, GreetingIsConsistent, PTL

\* An arrival is greeted generically or by its own name, however the handlers
\* interleave with the main thread.
THEOREM GreetingsAreGrounded == Spec => []GreetingIsGrounded
<1>1. GreetingInv => GreetingIsGrounded
  BY DEF GreetingInv
<1>. QED BY <1>1, GreetingIsConsistent, PTL

\* No birth outlives its entity's presence, but for the moment on_rich needs.
THEOREM PendingStaysPresent == Spec => []PendingIsPresent
<1>1. GreetingInv => PendingIsPresent
  BY DEF GreetingInv
<1>. QED BY <1>1, GreetingIsConsistent, PTL

\* While the connection holds, identity churn never causes rapid re-greeting.
THEOREM GreetingsAreSpaced == ~BusMayDrop /\ Spec => []NoRapidGreeting
<1>. SUFFICES ASSUME ~BusMayDrop PROVE Spec => []NoRapidGreeting
  OBVIOUS
<1>. DEFINE LInv == BusIsUp /\ LedgerIsTrue /\ NoRapidGreeting
<1>1. Init => LInv
  BY DEF Init, BusIsUp, LedgerIsTrue, NoRapidGreeting, Rest
<1>2. GreetingInv /\ LInv /\ [Next]_vars => LInv'
  <2>. SUFFICES ASSUME GreetingInv, LInv, [Next]_vars PROVE LInv'
    OBVIOUS
  <2>. USE GreetingAssumption
  <2>0. burst \in 0..2 /\ main \in MainStates
    BY DEF GreetingInv, GreetingTypeOK, MainStates, Phases
  <2>1. CASE Speak
    <3>1. /\ burst = 0 /\ connected
      BY <2>0, <2>1 DEF Speak, LedgerIsTrue, BusIsUp
    <3>2. /\ burst' = 1 /\ Anyone \in cooling' /\ UNCHANGED <<connected, outbox>> /\ main' = Rest("loop")
      BY <2>1, <3>1 DEF Speak, MarkExecuted, AtMost2
    <3>. QED BY <3>1, <3>2 DEF BusIsUp, LedgerIsTrue, NoRapidGreeting, Rest
  <2>2. CASE Validate
    <3>1. UNCHANGED <<burst, cooling, connected, outbox>>
      BY <2>2 DEF Validate, bus
    <3>2. main' = Rest("loop") \/ Anyone \notin cooling
      BY <2>2 DEF Validate
    <3>. QED BY <3>1, <3>2 DEF BusIsUp, LedgerIsTrue, NoRapidGreeting, Rest
  <2>3. CASE CoolAnyone \/ Restart
    <3>1. /\ burst' = 0 /\ connected' /\ outbox' = 0
          /\ main' = Rest("loop") \/ (main' = main /\ cooling' \subseteq cooling)
      BY <2>3 DEF CoolAnyone, Restart, threads, bus, BusIsUp
    <3>. QED BY <3>1 DEF BusIsUp, LedgerIsTrue, NoRapidGreeting, Rest
  <2>4. ASSUME NEW e \in Entities, CoolSame(e) \/ Expire(e) \/ OnRetire(e)
        PROVE  LInv'
    BY <2>4 DEF CoolSame, Expire, OnRetire, threads, bus, BusIsUp, LedgerIsTrue, NoRapidGreeting
  <2>5. CASE Disconnect \/ Reconnect
    BY <2>5 DEF Disconnect, Reconnect, BusIsUp
  <2>6. CASE \/ \E t \in Tracks, e \in Entities : OnNewTrack(t, e)
             \/ \E e \in Entities : OnLostTrack(e) \/ OnFace(e)
             \/ \E e, k \in Entities : OnIdentity(e, k)
             \/ Settle \/ OnTranscript \/ UNCHANGED vars
    <3>1. UNCHANGED <<burst, cooling, connected, outbox, main>>
      BY <2>6 DEF OnNewTrack, OnLostTrack, OnFace, OnIdentity, Settle, SettleNoBirth, SettleBirth,
                  MoveBirth, OnTranscript, threads, bus, vars
    <3>. QED BY <3>1 DEF BusIsUp, LedgerIsTrue, NoRapidGreeting
  <2>7. CASE \/ BeginScan \/ \E e \in Entities, due \in BOOLEAN : DrainOne(e, due)
             \/ PopSpeech \/ PopNothing \/ PopArrival \/ Answer \/ Think
    <3>1. UNCHANGED <<burst, cooling, connected, outbox>>
      BY <2>7 DEF BeginScan, DrainOne, PopSpeech, PopNothing, PopArrival, Answer, Think, bus
    <3>2. main' = main \/ main'.at # "speaking"
      <4>1. main' = main \/ (\E place \in {"loop", "draining", "answering"} : main' = Rest(place))
            \/ main' = [Rest("thinking") EXCEPT !.target = Head(queue)]
            \/ main' = [main EXCEPT !.at = "validating", !.text = Grounded(main.target)]
        BY <2>7 DEF BeginScan, DrainOne, PopSpeech, PopNothing, PopArrival, Answer, Think
      <4>2. \A place \in {"loop", "draining", "answering"} : Rest(place).at # "speaking"
        BY DEF Rest
      <4>3. [Rest("thinking") EXCEPT !.target = Head(queue)].at = "thinking"
        BY DEF Rest
      <4>4. [main EXCEPT !.at = "validating", !.text = Grounded(main.target)].at = "validating"
        BY <2>0 DEF MainStates
      <4>. QED BY <4>1, <4>2, <4>3, <4>4
    <3>. QED BY <3>1, <3>2 DEF BusIsUp, LedgerIsTrue, NoRapidGreeting
  <2>. QED BY <2>1, <2>2, <2>3, <2>4, <2>5, <2>6, <2>7 DEF Next, MainStep
<1>3. LInv => NoRapidGreeting
  OBVIOUS
<1>. QED BY <1>1, <1>2, <1>3, GreetingIsConsistent, PTL DEF Spec
=============================================================================
