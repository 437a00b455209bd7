-------------------------- MODULE WorldModelPresence --------------------------
(* WorldModel implements Presence: the mapping and the property TLC checks.   *)
EXTENDS WorldModel

Abstract == INSTANCE Presence WITH
  where <- [e \in Entities |-> present[e].track],
  shown <- {e \in Entities : Present(e) /\ LiveName(e) # NoName},
  enrolled <- Enrollments,
  ids <- rows

\* Every handler of the orchestrator, the enrollment script, a crash and a boot
\* change presence the way Presence says, or not at all: evidence, buffers and
\* the database never show through in any other way.
ImplementsPresence == Abstract!PresenceSpec
=============================================================================
