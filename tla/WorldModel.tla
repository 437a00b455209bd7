----------------------------- MODULE WorldModel -----------------------------
(***************************************************************************)
(* Who is in front of the robot, and under which name.                     *)
(*                                                                         *)
(* packages/node_a/sparc_node_a/world_model.py keeps the authoritative     *)
(* identity state: one presentation per live camera track, the durable     *)
(* face enrollments, and the contradiction evidence between the two.  Its  *)
(* methods are called by the MQTT handlers of orchestrator.py; an action   *)
(* below is one such handler, run to its end (the client's thread runs one *)
(* handler at a time).  Tracks are born and lost by the camera process.    *)
(*                                                                         *)
(* Data: an embedding is a "look" and Cos is the cosine (in percent) of    *)
(* two looks.  Time is the age of entities.last_seen in ticks, cut off     *)
(* once it is outside the reappearance window.                             *)
(***************************************************************************)
EXTENDS Integers, Sequences, FiniteSets

CONSTANTS
  Entities,                \* ids new_id() may return
  Tracks,                  \* track ids of the camera process
  Looks,                   \* face embeddings, up to what Cos tells apart
  Names,                   \* names a person may be enrolled under
  Cos,                     \* Cos[q, g]: similarity of two looks, in percent
  KnownT, UncertainT,      \* node_a.identity.known_threshold / uncertain_threshold
  AgreeT,                  \* node_a.identity.evidence_agreement_threshold
  CoherentT,               \* enroll_present refuses samples below this of their mean
  DifferentKnownSamples,   \* node_a.identity.different_known_samples
  StrongNegativeSamples,   \* node_a.identity.strong_negative_samples
  FaceCap,                 \* buffer_face's cap
  EnrollSamples,           \* samples enroll_present asks for
  Window,                  \* REAPPEAR_WINDOW_S, in ticks
  Gallery,                 \* entity -> <<name, look>> enrolled before the first boot
  Redelivery,              \* TRUE: the broker may deliver a new_track twice (QoS 1)
  LiveEnrollment,          \* TRUE: scripts/enroll.py may run beside the orchestrator
  NoTrack, NoName, NoLook, Nobody

ASSUME CosAssumption ==
  /\ Cos \in [Looks \X Looks -> 0..100]
  /\ {KnownT, UncertainT, AgreeT, CoherentT} \subseteq 0..100

ASSUME SampleAssumption ==
  /\ {DifferentKnownSamples, StrongNegativeSamples, FaceCap, EnrollSamples} \subseteq Nat \ {0}
  /\ Window \in Nat

ASSUME NothingAssumption ==
  /\ NoTrack \notin Tracks
  /\ NoName \notin Names
  /\ NoLook \notin Looks
  /\ Nobody \notin Entities

ASSUME GalleryAssumption ==
  /\ DOMAIN Gallery \subseteq Entities
  /\ \A e \in DOMAIN Gallery : Gallery[e] \in Names \X Looks

ASSUME DeploymentAssumption == {Redelivery, LiveEnrollment} \subseteq BOOLEAN

VARIABLES
  rows,           \* ids in the entities table
  faceName,       \* known_faces.name (and entities.name): NoName when not enrolled
  faceLook,       \* known_faces.embedding
  dbPresent,      \* entities.present = 1
  age,            \* ticks since entities.last_seen
  present,        \* WorldModel.present, Absent for an id that is not a key
  faceBuffer,     \* WorldModel.face_buffer
  contradiction,  \* WorldModel.contradiction_buffer
  live,           \* tracks the camera process holds
  up,             \* the orchestrator process is running
  announced,      \* live tracks whose new_track this process has handled
  support         \* the entity the newest identity input on a track speaks for

durable == <<rows, faceName, faceLook, dbPresent, age>>
hot == <<present, faceBuffer, contradiction>>
env == <<live, up, announced>>
vars == <<durable, hot, env, support>>

-----------------------------------------------------------------------------
(* Data *)

States == {"unknown", "uncertain", "known"}
Info == [track : Tracks \cup {NoTrack}, name : Names \cup {NoName},
         state : States, prov : {"none", "timestamp", "face"}]
Absent == [track |-> NoTrack, name |-> NoName, state |-> "unknown", prov |-> "none"]

Presented(t, n, s, p) == [track |-> t, name |-> n, state |-> s, prov |-> p]

\* One element of contradiction_buffer.  Its class is "strong_negative" when
\* candidate is Nobody and "different_known" otherwise.
Sample == [candidate : Entities \cup {Nobody}, look : Looks]

Present(e) == present[e].track # NoTrack
EntitiesOn(t) == {e \in Entities : present[e].track = t}
Enrolled(e) == faceName[e] # NoName
Enrollments == {e \in Entities : Enrolled(e)}

\* A name that scene text and greetings may use.
LiveName(e) ==
  IF present[e].state = "known" /\ present[e].prov = "face"
  THEN present[e].name ELSE NoName

KeepLast(s, cap) == IF Len(s) > cap THEN SubSeq(s, Len(s) - cap + 1, Len(s)) ELSE s
EvidenceCap ==
  IF DifferentKnownSamples > StrongNegativeSamples
  THEN DifferentKnownSamples ELSE StrongNegativeSamples

-----------------------------------------------------------------------------
(* Face evidence *)

Nearest(q) ==
  {e \in Enrollments :
     \A f \in Enrollments : Cos[q, faceLook[f]] <= Cos[q, faceLook[e]]}

Quality(q, e) ==
  IF Cos[q, faceLook[e]] >= KnownT THEN "known"
  ELSE IF Cos[q, faceLook[e]] >= UncertainT THEN "uncertain"
  ELSE "negative"

\* _face_evidence: the closest enrollment, its name and its class; without
\* enrollments every caller treats the sample as negative.
FaceEvidence(q) ==
  IF Enrollments = {} THEN {[who |-> Nobody, name |-> NoName, quality |-> "negative"]}
  ELSE {[who |-> e, name |-> faceName[e], quality |-> Quality(q, e)] : e \in Nearest(q)}

\* Mutant of Consistent: the looks are not compared.
ConsistentByClass(e, c, q) ==
  contradiction[e] # << >> /\ contradiction[e][1].candidate = c

\* _append_consistent_evidence: the buffer of e after one more sample.
Consistent(e, c, q) ==
  /\ contradiction[e] # << >>
  /\ contradiction[e][1].candidate = c
  /\ \A i \in 1..Len(contradiction[e]) : Cos[q, contradiction[e][i].look] >= AgreeT

\* Mutant of AppendEvidence: a sample that disagrees does not start over.
AppendAnyEvidence(e, c, q, confident) ==
  IF ~confident THEN << >>
  ELSE KeepLast(Append(contradiction[e], [candidate |-> c, look |-> q]), EvidenceCap)

AppendEvidence(e, c, q, confident) ==
  LET s == [candidate |-> c, look |-> q] IN
  IF ~confident THEN << >>
  ELSE IF Consistent(e, c, q) THEN KeepLast(Append(contradiction[e], s), EvidenceCap)
  ELSE << s >>

\* Mutant of ClaimedElsewhere: no look at the incumbent.
NeverClaimed(k, t) == FALSE

\* The candidate is on camera under another track.
ClaimedElsewhere(k, t) == Present(k) /\ present[k].track # t

-----------------------------------------------------------------------------
(* person_appeared, as on_tier0 calls it: without an embedding *)

\* Mutant of Reusable: without "name IS NULL".
ReusableByAnyone == {e \in rows : e \notin dbPresent /\ age[e] <= Window}

Reusable ==
  {e \in rows : e \notin dbPresent /\ ~Enrolled(e) /\ age[e] <= Window}

MostRecent == {e \in Reusable : \A f \in Reusable : age[e] <= age[f]}

Reappear(t, e) ==
  /\ e \in MostRecent
  /\ present' = [present EXCEPT ![e] = Presented(t, NoName, "unknown", "timestamp")]
  /\ UNCHANGED rows

\* Mutant of Arrive: the row is not inserted.
ArriveUnsaved(t, e) ==
  /\ Reusable = {}
  /\ e \in Entities \ rows
  /\ present' = [present EXCEPT ![e] = Presented(t, NoName, "unknown", "none")]
  /\ UNCHANGED rows

Arrive(t, e) ==
  /\ Reusable = {}
  /\ e \in Entities \ rows
  /\ rows' = rows \cup {e}
  /\ present' = [present EXCEPT ![e] = Presented(t, NoName, "unknown", "none")]

PersonAppeared(t, e) ==
  /\ Reappear(t, e) \/ Arrive(t, e)
  /\ dbPresent' = dbPresent \cup {e}
  /\ age' = [age EXCEPT ![e] = 0]
  /\ support' = [support EXCEPT ![t] = Nobody]
  /\ UNCHANGED <<faceName, faceLook, faceBuffer, contradiction, up>>

\* A new_track message, or the same one once more: the handler cannot tell.
NewTrack(t) ==
  /\ up
  /\ t \notin live \/ (Redelivery /\ t \in announced)
  /\ live' = live \cup {t}
  /\ announced' = announced \cup {t}
  /\ \E e \in Entities : PersonAppeared(t, e)

\* person_left
PersonLeft(e) ==
  /\ present' = [present EXCEPT ![e] = Absent]
  /\ dbPresent' = dbPresent \ {e}
  /\ age' = [age EXCEPT ![e] = 0]
  /\ contradiction' = [contradiction EXCEPT ![e] = << >>]

LostTrack(t) ==
  /\ up
  /\ t \in live
  /\ live' = live \ {t}
  /\ announced' = announced \ {t}
  /\ \/ \E e \in EntitiesOn(t) : PersonLeft(e)
     \/ EntitiesOn(t) = {} /\ UNCHANGED <<present, dbPresent, age, contradiction>>
  /\ support' = [support EXCEPT ![t] = Nobody]
  /\ UNCHANGED <<rows, faceName, faceLook, faceBuffer, up>>

-----------------------------------------------------------------------------
(* update_identity, and the sample that on_rich then buffers *)

BufferFace(e, q) ==
  faceBuffer' = [faceBuffer EXCEPT ![e] = KeepLast(Append(faceBuffer[e], q), FaceCap)]

\* Mutant of SetState: a known identity survives a contradicting sample.
SetStateSticky(e, s) ==
  present' = [present EXCEPT ![e].state = IF @ = "known" THEN @ ELSE s, ![e].prov = "face"]

SetState(e, s) ==
  present' = [present EXCEPT ![e].state = s, ![e].prov = "face"]

\* Mutant of MoveTo: the source is not popped.
MoveToCopy(e, ev) ==
  present' = [present EXCEPT
                ![ev.who] = Presented(present[e].track, ev.name, "known", "face")]

\* The presentation of e goes over to the enrolled entity of the evidence.
MoveTo(e, ev) ==
  present' = [present EXCEPT ![e] = Absent,
                             ![ev.who] = Presented(present[e].track, ev.name, "known", "face")]

\* An unnamed presentation and a sample that matches nobody, or matches badly.
StayAnonymous(e, ev) ==
  /\ \/ ev.quality = "negative" /\ SetState(e, "unknown")
     \/ ev.quality = "uncertain" /\ SetState(e, "uncertain")
     \/ /\ ev.quality = "known"                    \* _bind_anonymous, conflict
        /\ ClaimedElsewhere(ev.who, present[e].track)
        /\ SetState(e, "uncertain")
  /\ contradiction' = [contradiction EXCEPT ![e] = << >>]
  /\ UNCHANGED <<dbPresent, age, rows>>

AnonymousSample(e, q, ev) ==
  /\ present[e].name = NoName
  /\ StayAnonymous(e, ev)
  /\ BufferFace(e, q)

\* ... or that matches an enrolled person, who takes the presentation over.
Bind(e, ev) ==
  /\ ev.quality = "known"
  /\ ~ClaimedElsewhere(ev.who, present[e].track)
  /\ MoveTo(e, ev)
  /\ dbPresent' = (dbPresent \ {e}) \cup {ev.who}
  /\ age' = [age EXCEPT ![ev.who] = 0]
  /\ contradiction' = [contradiction EXCEPT ![e] = << >>]
  /\ UNCHANGED <<rows, faceBuffer>>

BindAnonymous(e, ev) == present[e].name = NoName /\ Bind(e, ev)

Confirm(e, ev) ==
  /\ present[e].name # NoName
  /\ ev.quality = "known"
  /\ ev.who = e
  /\ SetState(e, "known")
  /\ contradiction' = [contradiction EXCEPT ![e] = << >>]
  /\ UNCHANGED <<dbPresent, age, rows, faceBuffer>>

\* A named presentation and a sample of another enrolled person: pending, or
\* decided while that person is live on another track.
DifferentKnown(e, q, confident, ev) ==
  LET samples == AppendEvidence(e, ev.who, q, confident) IN
  /\ present[e].name # NoName
  /\ ev.quality = "known"
  /\ ev.who # e
  /\ \/ Len(samples) < DifferentKnownSamples
     \/ ClaimedElsewhere(ev.who, present[e].track)
  /\ SetState(e, "uncertain")
  /\ contradiction' = [contradiction EXCEPT ![e] = samples]
  /\ UNCHANGED <<dbPresent, age, rows, faceBuffer>>

RebindKnown(e, q, confident, ev) ==
  LET samples == AppendEvidence(e, ev.who, q, confident) IN
  /\ present[e].name # NoName
  /\ ev.quality = "known"
  /\ ev.who # e
  /\ Len(samples) >= DifferentKnownSamples
  /\ ~ClaimedElsewhere(ev.who, present[e].track)
  /\ MoveTo(e, ev)
  /\ dbPresent' = (dbPresent \ {e}) \cup {ev.who}
  /\ age' = [age EXCEPT ![e] = 0, ![ev.who] = 0]
  /\ contradiction' = [contradiction EXCEPT ![e] = << >>, ![ev.who] = << >>]
  /\ UNCHANGED <<rows, faceBuffer>>

UncertainFace(e, ev) ==
  /\ present[e].name # NoName
  /\ ev.quality = "uncertain"
  /\ SetState(e, "uncertain")
  /\ contradiction' = [contradiction EXCEPT ![e] = << >>]
  /\ UNCHANGED <<dbPresent, age, rows, faceBuffer>>

StrongNegative(e, q, confident, ev) ==
  LET samples == AppendEvidence(e, Nobody, q, confident) IN
  /\ present[e].name # NoName
  /\ ev.quality = "negative"
  /\ Len(samples) < StrongNegativeSamples
  /\ SetState(e, "uncertain")
  /\ contradiction' = [contradiction EXCEPT ![e] = samples]
  /\ UNCHANGED <<dbPresent, age, rows, faceBuffer>>

\* Mutant of FollowTheTrack: the samples stay with the enrolled entity.
StayBehind(e, n, samples) ==
  faceBuffer' = [faceBuffer EXCEPT ![e] = [i \in 1..Len(samples) |-> samples[i].look]]

\* The samples that established the correction go with the live track.
FollowTheTrack(e, n, samples) ==
  faceBuffer' = [faceBuffer EXCEPT ![n] = [i \in 1..Len(samples) |-> samples[i].look]]

SplitKnown(e, q, confident, ev) ==
  LET samples == AppendEvidence(e, Nobody, q, confident) IN
  /\ present[e].name # NoName
  /\ ev.quality = "negative"
  /\ Len(samples) >= StrongNegativeSamples
  /\ \E n \in Entities \ rows :
       /\ rows' = rows \cup {n}
       /\ present' = [present EXCEPT ![e] = Absent,
                                     ![n] = Presented(present[e].track, NoName, "unknown", "face")]
       /\ dbPresent' = (dbPresent \ {e}) \cup {n}
       /\ age' = [age EXCEPT ![e] = 0, ![n] = 0]
       /\ FollowTheTrack(e, n, samples)
       /\ contradiction' = [contradiction EXCEPT ![e] = << >>]

\* on_rich for one face on track t: update_identity, then buffer_face.  A face
\* on a track without an entity is dropped (orchestrator.py:133): a stutter.
FaceSample(t, q, confident) ==
  /\ up
  /\ t \in live
  /\ \E e \in EntitiesOn(t), ev \in FaceEvidence(q) :
       /\ support' = [support EXCEPT ![t] = IF ev.quality = "known" THEN ev.who ELSE Nobody]
       /\ \/ AnonymousSample(e, q, ev)
          \/ BindAnonymous(e, ev)
          \/ Confirm(e, ev)
          \/ DifferentKnown(e, q, confident, ev)
          \/ RebindKnown(e, q, confident, ev)
          \/ UncertainFace(e, ev)
          \/ StrongNegative(e, q, confident, ev)
          \/ SplitKnown(e, q, confident, ev)
  /\ UNCHANGED <<faceName, faceLook, env>>

-----------------------------------------------------------------------------
(* Enrollment *)

\* The mean of the buffered samples: the sample itself when they are all
\* alike, otherwise any look.
MeanLook(s) ==
  LET seen == {s[i] : i \in 1..Len(s)} IN IF Cardinality(seen) = 1 THEN seen ELSE Looks

Coherent(s, g) == \A i \in 1..Len(s) : Cos[s[i], g] >= CoherentT

\* enroll_present, for a validated enroll_face action: the name is not in
\* known_faces and e is unnamed and "unknown" (orchestrator.py:450-454).  It runs
\* on the main thread and holds no lock; here it is one step, as if no handler of
\* the MQTT thread fell inside it.  Enrollment takes it, and on_rich, apart.
EnrollPresent(e, n, g) ==
  /\ up
  /\ Present(e)
  /\ present[e].name = NoName
  /\ present[e].state = "unknown"
  /\ \A k \in Entities : faceName[k] # n
  /\ Len(faceBuffer[e]) >= EnrollSamples
  /\ g \in MeanLook(faceBuffer[e])
  /\ Coherent(faceBuffer[e], g)
  /\ faceName' = [faceName EXCEPT ![e] = n]
  /\ faceLook' = [faceLook EXCEPT ![e] = g]
  /\ present' = [present EXCEPT ![e].name = n, ![e].state = "known", ![e].prov = "face"]
  /\ contradiction' = [contradiction EXCEPT ![e] = << >>]
  /\ support' = [support EXCEPT ![present[e].track] = e]
  /\ UNCHANGED <<rows, dbPresent, age, faceBuffer, env>>

\* scripts/enroll.py: it opens the same database with WorldModel(), whose
\* _rebuild_hot clears every present flag, and inserts an enrollment that no
\* timestamp can reuse (last_seen = 0).
EnrollScript(e, n, g) ==
  /\ LiveEnrollment \/ ~up
  /\ e \in Entities \ rows
  /\ rows' = rows \cup {e}
  /\ faceName' = [faceName EXCEPT ![e] = n]
  /\ faceLook' = [faceLook EXCEPT ![e] = g]
  /\ dbPresent' = {}
  /\ UNCHANGED <<age, hot, env, support>>

-----------------------------------------------------------------------------
(* Time, and the end and the start of the process *)

Tick ==
  /\ \E e \in Entities : age[e] <= Window
  /\ age' = [e \in Entities |-> IF age[e] > Window THEN age[e] ELSE age[e] + 1]
  /\ UNCHANGED <<rows, faceName, faceLook, dbPresent, hot, env, support>>

\* Memory is gone; what was committed stays.  (A crash inside a handler leaves
\* the database as it was before or after the handler's only transaction.)
Crash ==
  /\ up
  /\ up' = FALSE
  /\ present' = [e \in Entities |-> Absent]
  /\ faceBuffer' = [e \in Entities |-> << >>]
  /\ contradiction' = [e \in Entities |-> << >>]
  /\ announced' = {}
  /\ support' = [t \in Tracks |-> Nobody]
  /\ UNCHANGED <<durable, live>>

\* Mutant of Boot: last run's presence is kept.
BootKeepingPresence ==
  /\ ~up
  /\ up' = TRUE
  /\ UNCHANGED <<durable, hot, live, announced, support>>

\* __init__ and _rebuild_hot
Boot ==
  /\ ~up
  /\ up' = TRUE
  /\ dbPresent' = {}
  /\ UNCHANGED <<rows, faceName, faceLook, age, hot, live, announced, support>>

\* The bus keeps nothing for a subscriber that is down (clean session).
TrackWhileDown(t) ==
  /\ ~up
  /\ live' = IF t \in live THEN live \ {t} ELSE live \cup {t}
  /\ UNCHANGED <<durable, hot, up, announced, support>>

-----------------------------------------------------------------------------

Init ==
  /\ rows = DOMAIN Gallery
  /\ faceName = [e \in Entities |-> IF e \in DOMAIN Gallery THEN Gallery[e][1] ELSE NoName]
  /\ faceLook = [e \in Entities |-> IF e \in DOMAIN Gallery THEN Gallery[e][2] ELSE NoLook]
  /\ dbPresent = {}
  /\ age = [e \in Entities |-> Window + 1]
  /\ present = [e \in Entities |-> Absent]
  /\ faceBuffer = [e \in Entities |-> << >>]
  /\ contradiction = [e \in Entities |-> << >>]
  /\ live = {}
  /\ up = TRUE
  /\ announced = {}
  /\ support = [t \in Tracks |-> Nobody]

Next ==
  \/ \E t \in Tracks : NewTrack(t) \/ LostTrack(t) \/ TrackWhileDown(t)
  \/ \E t \in Tracks, q \in Looks, confident \in BOOLEAN : FaceSample(t, q, confident)
  \/ \E e \in Entities, n \in Names, g \in Looks : EnrollPresent(e, n, g) \/ EnrollScript(e, n, g)
  \/ Tick
  \/ Crash
  \/ Boot

Spec == Init /\ [][Next]_vars

-----------------------------------------------------------------------------
(* What must always hold *)

TypeOK ==
  /\ rows \subseteq Entities
  /\ faceName \in [Entities -> Names \cup {NoName}]
  /\ faceLook \in [Entities -> Looks \cup {NoLook}]
  /\ dbPresent \subseteq rows
  /\ age \in [Entities -> 0..Window + 1]
  /\ present \in [Entities -> Info]
  /\ faceBuffer \in [Entities -> Seq(Looks)]
  /\ contradiction \in [Entities -> Seq(Sample)]
  /\ live \subseteq Tracks
  /\ up \in BOOLEAN
  /\ announced \subseteq live
  /\ support \in [Tracks -> Entities \cup {Nobody}]

\* A track the process was told about has exactly one presentation, and no
\* presentation outlives its track, whatever binds, rebinds, splits and
\* reappearances happened on it.  (person_appeared .. person_left)
OnePresentationPerTrack ==
  /\ \A t \in announced : \E e \in Entities : EntitiesOn(t) = {e}
  /\ \A e \in Entities : Present(e) => present[e].track \in announced

\* The hot dict and the database name the same people: a live presentation has
\* a name exactly when the database enrolls its entity, and it is that name.
\* An enrolled person is live on face evidence only, never by timestamp.
NameIsOwn ==
  \A e \in Entities : Present(e) =>
    /\ present[e].name = faceName[e]
    /\ Enrolled(e) => present[e].prov = "face"

\* A name safe for scene text and greetings belongs to the person the newest
\* face sample on that track, or the enrollment after it, speaks for.
NameSupported ==
  \A e \in Entities :
    Present(e) /\ LiveName(e) # NoName => support[present[e].track] = e

\* Samples of one class and one candidate other than e, agreeing pairwise.
OneStory(e, s) ==
  \A i, j \in 1..Len(s) :
    /\ s[i].candidate = s[j].candidate
    /\ s[i].candidate # e
    /\ i < j => Cos[s[j].look, s[i].look] >= AgreeT

\* While contradicting evidence is open its entity is live, enrolled and not
\* named in the scene, and the evidence tells one story: buffers of different
\* candidates, classes or faces never mix on the way to a rebind or a split.
ContradictionOpen ==
  \A e \in Entities : contradiction[e] # << >> =>
    /\ Present(e) /\ Enrolled(e) /\ present[e].state = "uncertain"
    /\ OneStory(e, contradiction[e])

\* entities.present is the set of live presentations of the running process.
DatabaseAgrees == up => dbPresent = {e \in Entities : Present(e)}

(* What a step may never do *)

\* Evidence on one track never takes a person off another live track.
EntityKeepsItsTrack ==
  [][\A e \in Entities :
       Present(e) /\ Present(e)' => present'[e].track = present[e].track]_vars

\* A named presentation is given to somebody else only after the configured
\* number of agreeing samples, all but the newest of which were buffered for
\* exactly that outcome.
CorrectionIsEarned ==
  [][\A e, n \in Entities :
       /\ Present(e) /\ Enrolled(e) /\ e # n
       /\ present'[n].track = present[e].track
       => LET c == IF Enrolled(n) THEN n ELSE Nobody
              required == IF Enrolled(n) THEN DifferentKnownSamples
                          ELSE StrongNegativeSamples
          IN /\ Len(contradiction[e]) + 1 >= required
             /\ \A i \in 1..Len(contradiction[e]) :
                  contradiction[e][i].candidate = c]_vars
=============================================================================
