----------------------------- MODULE Enrollment -----------------------------
(***************************************************************************)
(* WorldModel at the grain of the orchestrator's two threads.  The main    *)
(* thread runs enroll_present while the MQTT thread runs on_tier0 and      *)
(* on_rich, and no lock is held: enroll_present reads the presentation and *)
(* its samples, commits the enrollment, and then writes the name into the  *)
(* dict it read; on_rich reads the identity and the evidence, writes, asks *)
(* for the name and buffers the sample.  WorldModel takes each of the two  *)
(* as one step; here the other thread may run wherever it matters.         *)
(***************************************************************************)
EXTENDS WorldModel

CONSTANT Nothing     \* a thread that holds nothing

\* A face update_identity has read, with what it read of the presentation.
Face == [entity : Entities, look : Looks, confident : BOOLEAN, named : BOOLEAN,
         evidence : [who : Entities \cup {Nobody}, name : Names \cup {NoName},
                     quality : {"known", "uncertain", "negative"}]]

\* A sample on its way to the buffer.
InHand == [entity : Entities, look : Looks]

\* An enrollment: its entity, name and mean, whether it is committed, and whether
\* the dict it was read from is still the entity's presentation.
Begun == [entity : Entities, name : Names, look : Looks,
          committed : BOOLEAN, held : BOOLEAN]

ASSUME NothingHeldAssumption == Nothing \notin Face \cup InHand \cup Begun

VARIABLES
  judged,      \* on_rich: the face update_identity has read and not yet applied
  unbuffered,  \* on_rich: the sample it has not yet buffered, or decided not to
  enrolling,   \* enroll_present: what it read, and how far it is
  stray        \* history: people whose enrollment was committed after the
               \* presentation it was read from had been replaced

threads == <<judged, unbuffered, enrolling, stray>>
allVars == <<vars, threads>>

EnrollmentInit ==
  /\ Init
  /\ judged = Nothing /\ unbuffered = Nothing /\ enrolling = Nothing
  /\ stray = {}

-----------------------------------------------------------------------------
(* The MQTT thread: one handler at a time                                  *)

HandlerRests == judged = Nothing /\ unbuffered = Nothing

\* enroll_present still has the dict it read: whoever replaces the presentations
\* of S in the world model leaves it with one that is no longer part of it.
LetGo(S) ==
  enrolling' = IF enrolling # Nothing /\ enrolling.entity \in S
               THEN [enrolling EXCEPT !.held = FALSE] ELSE enrolling

\* Who appeared, in a new dict, or is gone.
Replaced == (dbPresent' \ dbPresent) \cup {e \in Entities : present'[e] = Absent}

\* on_tier0
OnTier0(t) ==
  /\ HandlerRests
  /\ NewTrack(t) \/ LostTrack(t)
  /\ LetGo(Replaced)
  /\ UNCHANGED <<judged, unbuffered, stray>>

\* update_identity, up to its first write
ReadFace(t, q, confident) ==
  /\ up /\ t \in live
  /\ HandlerRests
  /\ \E e \in EntitiesOn(t), ev \in FaceEvidence(q) :
       judged' = [entity |-> e, look |-> q, confident |-> confident, evidence |-> ev,
                  named |-> present[e].name # NoName]
  /\ UNCHANGED <<vars, unbuffered, enrolling, stray>>

\* ... the rest of it, for a presentation that was unnamed when it was read
JudgeUnnamed(e, q, ev) ==
  \/ /\ StayAnonymous(e, ev)
     /\ unbuffered' = [entity |-> e, look |-> q]
     /\ UNCHANGED <<faceBuffer, enrolling>>
  \/ /\ Bind(e, ev)
     /\ LetGo({e, ev.who})
     /\ UNCHANGED unbuffered

\* ... and for one that was named
JudgeNamed(e, q, confident, ev) ==
  /\ \/ Confirm(e, ev) /\ LetGo({})
     \/ DifferentKnown(e, q, confident, ev) /\ LetGo({})
     \/ RebindKnown(e, q, confident, ev) /\ LetGo({e, ev.who})
     \/ UncertainFace(e, ev) /\ LetGo({})
     \/ StrongNegative(e, q, confident, ev) /\ LetGo({})
     \/ SplitKnown(e, q, confident, ev) /\ LetGo({e})
  /\ UNCHANGED unbuffered

JudgeFace ==
  /\ judged # Nothing
  /\ LET e == judged.entity
         ev == judged.evidence IN
     /\ support' = [support EXCEPT
                      ![present[e].track] = IF ev.quality = "known" THEN ev.who ELSE Nobody]
     /\ IF judged.named THEN JudgeNamed(e, judged.look, judged.confident, ev)
        ELSE JudgeUnnamed(e, judged.look, ev)
  /\ judged' = Nothing
  /\ UNCHANGED <<faceName, faceLook, env, stray>>

\* buffer_face, after a name test that may be older than the name
BufferSample ==
  /\ unbuffered # Nothing
  /\ BufferFace(unbuffered.entity, unbuffered.look)
  /\ unbuffered' = Nothing
  /\ UNCHANGED <<durable, present, contradiction, env, support, judged, enrolling, stray>>

\* The name test finds a name.
SkipSample ==
  /\ unbuffered # Nothing
  /\ present[unbuffered.entity].name # NoName
  /\ unbuffered' = Nothing
  /\ UNCHANGED <<vars, judged, enrolling, stray>>

-----------------------------------------------------------------------------
(* The main thread: enroll_present                                         *)

\* The checks of EnrollPresent, on what is there when they are made.
BeginEnroll(e, n, g) ==
  /\ up /\ enrolling = Nothing
  /\ Present(e) /\ present[e].name = NoName /\ present[e].state = "unknown"
  /\ \A k \in Entities : faceName[k] # n
  /\ Len(faceBuffer[e]) >= EnrollSamples
  /\ g \in MeanLook(faceBuffer[e]) /\ Coherent(faceBuffer[e], g)
  /\ enrolling' = [entity |-> e, name |-> n, look |-> g, committed |-> FALSE, held |-> TRUE]
  /\ UNCHANGED <<vars, judged, unbuffered, stray>>

\* The transaction: entities.name, known_faces.
CommitEnroll ==
  /\ enrolling # Nothing /\ ~enrolling.committed
  /\ faceName' = [faceName EXCEPT ![enrolling.entity] = enrolling.name]
  /\ faceLook' = [faceLook EXCEPT ![enrolling.entity] = enrolling.look]
  /\ enrolling' = [enrolling EXCEPT !.committed = TRUE]
  /\ stray' = IF ~enrolling.held /\ Present(enrolling.entity)
              THEN stray \cup {enrolling.entity} ELSE stray
  /\ UNCHANGED <<rows, dbPresent, age, hot, env, support, judged, unbuffered>>

\* The name goes into the dict, wherever that is; the evidence is dropped.
FinishEnroll ==
  /\ enrolling # Nothing /\ enrolling.committed
  /\ LET e == enrolling.entity IN
     /\ IF enrolling.held
        THEN /\ present' = [present EXCEPT ![e].name = enrolling.name,
                                           ![e].state = "known", ![e].prov = "face"]
             /\ support' = [support EXCEPT ![present[e].track] = e]
        ELSE UNCHANGED <<present, support>>
     /\ contradiction' = [contradiction EXCEPT ![e] = << >>]
  /\ enrolling' = Nothing
  /\ UNCHANGED <<durable, faceBuffer, env, judged, unbuffered, stray>>

-----------------------------------------------------------------------------

\* The process ends with both threads.
CrashBoth ==
  /\ Crash
  /\ judged' = Nothing /\ unbuffered' = Nothing /\ enrolling' = Nothing
  /\ UNCHANGED stray

\* What goes on beside the two threads.
Beside ==
  /\ \/ \E e \in Entities, n \in Names, g \in Looks : EnrollScript(e, n, g)
     \/ \E t \in Tracks : TrackWhileDown(t)
     \/ Tick
     \/ Boot
  /\ UNCHANGED threads

EnrollmentNext ==
  \/ \E t \in Tracks : OnTier0(t)
  \/ \E t \in Tracks, q \in Looks, confident \in BOOLEAN : ReadFace(t, q, confident)
  \/ JudgeFace \/ BufferSample \/ SkipSample
  \/ \E e \in Entities, n \in Names, g \in Looks : BeginEnroll(e, n, g)
  \/ CommitEnroll \/ FinishEnroll
  \/ CrashBoth \/ Beside

EnrollmentSpec == EnrollmentInit /\ [][EnrollmentNext]_allVars

-----------------------------------------------------------------------------
(* Properties                                                              *)

\* Between the commit and the name, for a dict that is still in place.
Committing(e) ==
  enrolling # Nothing /\ enrolling.entity = e /\ enrolling.committed /\ enrolling.held

\* A presentation has the name its entity is enrolled under, and an enrolled
\* person is on camera by face only, however the handlers of the MQTT thread fall
\* between the steps of an enrollment; but for the moment between commit and name,
\* and for a person whose presentation was replaced in the midst of an enrollment
\* and was there again before the commit.  (enroll_present; person_appeared;
\* _bind_anonymous, which may bind a presentation to itself)
NameFollowsEnrollment ==
  \A e \in Entities \ stray : Present(e) /\ ~Committing(e) =>
    /\ present[e].name = faceName[e]
    /\ Enrolled(e) => present[e].prov = "face"

\* With the same exception an enrollment is settled: no enrollment that was begun
\* earlier, and no sample, bind, rebind, split or reappearance, changes the enrolled
\* face and name, and only a sample that on_rich has in hand joins its samples.
EnrollmentStands ==
  [][\A e \in Entities \ stray : Enrolled(e) =>
       /\ faceName'[e] = faceName[e] /\ faceLook'[e] = faceLook[e]
       /\ \/ faceBuffer'[e] \in {faceBuffer[e], << >>}
          \/ unbuffered # Nothing /\ unbuffered.entity = e]_allVars
=============================================================================
