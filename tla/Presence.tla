------------------------------ MODULE Presence ------------------------------
(***************************************************************************)
(* What the world model promises to the rest of the orchestrator: who is   *)
(* on which camera track and who may be called by name, without the face   *)
(* evidence, the buffers and the database behind it.  WorldModel is shown  *)
(* to implement this specification (WorldModelPresence), and Greeting      *)
(* builds on it in place of WorldModel.                                    *)
(***************************************************************************)
EXTENDS FiniteSets

CONSTANTS Entities, Tracks, NoTrack

ASSUME TrackAssumption == NoTrack \notin Tracks

VARIABLES
  where,      \* the track an entity is presented on, NoTrack when it is absent
  shown,      \* present entities whose name scene text and greetings may use
  enrolled,   \* entities with a face in known_faces
  ids         \* entities the database knows

presence == <<where, shown, enrolled, ids>>

Here(e) == where[e] # NoTrack
Free(t) == \A e \in Entities : where[e] # t

PresenceInit ==
  /\ enrolled \in SUBSET Entities
  /\ ids = enrolled
  /\ where = [e \in Entities |-> NoTrack]
  /\ shown = {}

-----------------------------------------------------------------------------

\* person_appeared: an unenrolled entity, known (a reappearance) or new.
Appear(t, e) ==
  /\ Free(t)
  /\ ~Here(e)
  /\ e \notin enrolled
  /\ where' = [where EXCEPT ![e] = t]
  /\ ids' = ids \cup {e}
  /\ UNCHANGED <<shown, enrolled>>

\* person_left
Leave(e) ==
  /\ Here(e)
  /\ where' = [where EXCEPT ![e] = NoTrack]
  /\ shown' = shown \ {e}
  /\ UNCHANGED <<enrolled, ids>>

\* update_identity: a sample confirms the enrolled person ...
Show(e) ==
  /\ Here(e)
  /\ e \in enrolled
  /\ shown' = shown \cup {e}
  /\ UNCHANGED <<where, enrolled, ids>>

\* ... or contradicts them ...
Hide(e) ==
  /\ Here(e)
  /\ shown' = shown \ {e}
  /\ UNCHANGED <<where, enrolled, ids>>

\* Mutant of PassOn: the source is not popped.
PassOnCopy(e, k) == where' = [where EXCEPT ![k] = where[e]]

PassOn(e, k) == where' = [where EXCEPT ![e] = NoTrack, ![k] = where[e]]

\* ... or binds or rebinds the track of e to the enrolled k ...
Recognize(e, k) ==
  /\ Here(e)
  /\ ~Here(k)
  /\ k \in enrolled
  /\ PassOn(e, k)
  /\ shown' = (shown \ {e}) \cup {k}
  /\ UNCHANGED <<enrolled, ids>>

\* ... or splits the track off the enrolled e to a new entity.
Split(e, n) ==
  /\ Here(e)
  /\ e \in enrolled
  /\ n \notin ids
  /\ PassOn(e, n)
  /\ shown' = shown \ {e}
  /\ ids' = ids \cup {n}
  /\ UNCHANGED enrolled

\* enroll_present
Enroll(e) ==
  /\ Here(e)
  /\ e \notin enrolled
  /\ enrolled' = enrolled \cup {e}
  /\ shown' = shown \cup {e}
  /\ UNCHANGED <<where, ids>>

\* scripts/enroll.py
EnrollAbsent(n) ==
  /\ n \notin ids
  /\ ids' = ids \cup {n}
  /\ enrolled' = enrolled \cup {n}
  /\ UNCHANGED <<where, shown>>

\* An anonymous row outside the reappearance window is never looked up again:
\* its id may as well be handed out for the first time.
Retire(e) ==
  /\ ~Here(e)
  /\ e \in ids \ enrolled
  /\ ids' = ids \ {e}
  /\ UNCHANGED <<where, shown, enrolled>>

\* The process ends: what it held in memory is gone.
Forget ==
  /\ where' = [e \in Entities |-> NoTrack]
  /\ shown' = {}
  /\ UNCHANGED <<enrolled, ids>>

PresenceNext ==
  \/ \E t \in Tracks, e \in Entities : Appear(t, e)
  \/ \E e \in Entities :
       Leave(e) \/ Show(e) \/ Hide(e) \/ Enroll(e) \/ EnrollAbsent(e) \/ Retire(e)
  \/ \E e, k \in Entities : Recognize(e, k) \/ Split(e, k)
  \/ Forget

PresenceSpec == PresenceInit /\ [][PresenceNext]_presence

-----------------------------------------------------------------------------

PresenceTypeOK ==
  /\ where \in [Entities -> Tracks \cup {NoTrack}]
  /\ shown \subseteq Entities
  /\ enrolled \subseteq ids
  /\ ids \subseteq Entities

\* Nobody shares a track, only enrolled people who are present are named, and
\* everybody present has a row: what the callers of the world model rely on.
PresenceIsSound ==
  /\ \A e, f \in Entities : Here(e) /\ where[e] = where[f] => e = f
  /\ \A e \in shown : Here(e) /\ e \in enrolled
  /\ \A e \in Entities : Here(e) => e \in ids
=============================================================================
