----------------------------- MODULE Perception -----------------------------
(***************************************************************************)
(* Who is in view, from the camera to those who act on it.                 *)
(*                                                                         *)
(* node_a/perception/imx500_tripwire.py tracks people from frame to frame  *)
(* and publishes the births and losses of its tracks and, about once a     *)
(* second, their boxes.  The orchestrator keeps an entity per announced    *)
(* track, face_enrich.py a box per track (BoxMirror).  Three processes and *)
(* a broker: a step of one is between any two of another.                  *)
(*                                                                         *)
(* Data: a box is the place of its centre, so that people in one place are *)
(* one box (IoU above DUP_IOU); whom the detector misses is open.  Time is *)
(* counted in frames.                                                      *)
(***************************************************************************)
EXTENDS Integers, Sequences, SequencesExt

CONSTANTS
  Places,        \* centres of boxes, on a line
  Tracks,        \* ids new_id() may return
  MinHits,       \* MIN_HITS
  MaxJump,       \* MAX_JUMP, in the unit of Places
  LostAfter,     \* frames a track outlives its last box (person_lost_s)
  MaxInFlight,   \* bound: messages on their way to one subscriber
  Away           \* no place

ASSUME PerceptionAssumption ==
  /\ Places \subseteq Nat /\ Tracks \subseteq Nat
  /\ IsFiniteSet(Tracks)          \* twelve hexadecimal digits (types.py:19)
  /\ {MinHits, MaxJump, MaxInFlight} \subseteq Nat \ {0}
  /\ LostAfter \in Nat
  /\ Away \notin Places

Subscribers == {"orchestrator", "enrich"}

VARIABLES
  scene,      \* places where somebody is
  camera,     \* the camera process runs
  tracks,     \* CentroidTracker.tracks; hits = 0 for an id that is not a key
  outgoing,   \* what this round of the camera's loop has still to publish
  broker,     \* the broker can be reached
  inbox,      \* per subscriber, messages of sparc/vision/tier0 on their way
  present,    \* tracks the orchestrator has an entity on
  boxes,      \* BoxMirror.boxes, Away for an id that is not a key
  torn        \* history: a subscriber will never learn of a birth or a loss

process == <<camera, tracks, outgoing>>
consumers == <<present, boxes>>
vars == <<scene, process, broker, inbox, consumers, torn>>

-----------------------------------------------------------------------------
(* The tracker *)

NoTrack == [at |-> Away, hits |-> 0, unseen |-> 0]
Held == {t \in Tracks : tracks[t].hits > 0}
Born == {t \in Tracks : tracks[t].hits = MinHits}

Distance(x, y) == IF x > y THEN x - y ELSE y - x

\* The unassigned tracks a box may belong to, and the nearest of them; the order
\* of the dictionary settles a tie.
InReach(x, taken) ==
  {t \in Held \ taken : Distance(tracks[t].at, x) < MaxJump}

Nearest(x, taken) ==
  {t \in InReach(x, taken) :
     \A u \in InReach(x, taken) :
       Distance(tracks[t].at, x) <= Distance(tracks[u].at, x)}

\* Ids nobody has heard of, or nobody remembers.
Mentions(m, t) == t \in DOMAIN m.dets
Unused ==
  {t \in Tracks \ (Held \cup present) :
     /\ boxes[t] = Away
     /\ \A i \in 1..Len(outgoing) : ~Mentions(outgoing[i], t)
     /\ \A s \in Subscribers : \A i \in 1..Len(inbox[s]) : ~Mentions(inbox[s][i], t)}

Fresh(taken) == CHOOSE t \in Unused \ taken : \A u \in Unused \ taken : t <= u

\* Boxes, largest first, choose their tracks one after the other.
Assigns(f, order) ==
  \A i \in 1..Len(order) :
    LET taken == {f[order[j]] : j \in 1..i - 1}
        near == Nearest(order[i], taken)
    IN IF near # {} THEN f[order[i]] \in near
       ELSE Unused \ taken # {} /\ f[order[i]] = Fresh(taken)

\* Mutant of Aged: last_seen is that of the last frame, not of the last box.
NeverAged(t) == tracks[t]

Aged(t) ==
  IF tracks[t].unseen = LostAfter THEN NoTrack ELSE [tracks[t] EXCEPT !.unseen = @ + 1]

Updated(f) ==
  [t \in Tracks |->
     IF t \in Range(f)
     THEN LET n == tracks[t].hits
          IN [at |-> CHOOSE x \in DOMAIN f : f[x] = t,
              hits |-> IF n < MinHits THEN n + 1 ELSE n, unseen |-> 0]
     ELSE IF t \in Held THEN Aged(t) ELSE NoTrack]

-----------------------------------------------------------------------------
(* What a subscriber makes of the messages *)

\* The tracks a subscriber holds after a message: on_tier0 and _on_frame.
Hear(s, held, m) ==
  CASE m.delta = "lost_track" -> held \ DOMAIN m.dets
    [] m.delta = "new_track" -> held \cup DOMAIN m.dets
    [] m.delta = "periodic" -> IF s = "enrich" THEN held \cup DOMAIN m.dets ELSE held

Mirrored == {t \in Tracks : boxes[t] # Away}

Holds(s) == IF s = "enrich" THEN Mirrored ELSE present

\* The same for several messages: what it held or was told of since, unless a
\* later one was of its loss.
Gains(s, m, t) ==
  Mentions(m, t) /\ (m.delta = "new_track" \/ (m.delta = "periodic" /\ s = "enrich"))

Loses(m, t) == Mentions(m, t) /\ m.delta = "lost_track"

After(s, held, msgs) ==
  {t \in Tracks :
     \E i \in 0..Len(msgs) :
       /\ IF i = 0 THEN t \in held ELSE Gains(s, msgs[i], t)
       /\ \A j \in i + 1..Len(msgs) : ~Loses(msgs[j], t)}

HoldsAfter(s, msgs) == After(s, Holds(s), msgs)

-----------------------------------------------------------------------------
(* The camera's loop *)

Message(delta, ts, new) == [delta |-> delta, dets |-> [t \in ts |-> new[t].at]]

\* What a round publishes: the boxes when a second has passed, all births in one
\* message, each loss in its own.
Messages(new, seen, due, losses) ==
  LET current == {t \in seen : new[t].hits = MinHits}
      births == current \ Born
  IN (IF due /\ current # {} THEN << Message("periodic", current, new) >> ELSE << >>)
     \o (IF births # {} THEN << Message("new_track", births, new) >> ELSE << >>)
     \o [i \in 1..Len(losses) |-> Message("lost_track", {losses[i]}, new)]

Lost(new) == {t \in Born : new[t].hits = 0}

\* Mutant of Losses: the message is built after the loop over the lost ids.
LastLossOnly(new) ==
  {IF s = << >> THEN s ELSE << Last(s) >> : s \in SetToSeqs(Lost(new))}

Losses(new) == SetToSeqs(Lost(new))

\* The boxes one frame may yield: the detector finds nobody who is not there, and
\* may score anybody below person_conf.
Detections == SUBSET scene

\* One frame, in which the boxes seen are detected.
Frame(seen, due) ==
  /\ camera /\ outgoing = << >>
  /\ \E order \in SetToSeqs(seen), f \in [seen -> Held \cup Unused] :
       /\ Assigns(f, order)
       /\ tracks' = Updated(f)
       /\ \E losses \in Losses(Updated(f)) :
            outgoing' = Messages(Updated(f), Range(f), due, losses)
  /\ UNCHANGED <<scene, camera, broker, inbox, consumers, torn>>

Publish ==
  /\ outgoing # << >> /\ broker
  /\ \A s \in Subscribers : Len(inbox[s]) < MaxInFlight
  /\ inbox' = [s \in Subscribers |-> Append(inbox[s], Head(outgoing))]
  /\ outgoing' = Tail(outgoing)
  /\ UNCHANGED <<scene, camera, tracks, broker, consumers, torn>>

\* bus.publish raises once the client knows that the broker is gone (before, the
\* message waits for the connection: Publish is late).  Nothing catches it, and the
\* process and its tracks are gone.
PublishFails ==
  /\ outgoing # << >> /\ ~broker
  /\ camera' = FALSE
  /\ tracks' = [t \in Tracks |-> NoTrack]
  /\ outgoing' = << >>
  /\ torn' = (torn \/ \E s \in Subscribers : Holds(s) # {})
  /\ UNCHANGED <<scene, broker, inbox, consumers>>

\* systemd starts it again, as often as bus.start() fails.
CameraStarts ==
  /\ ~camera /\ broker
  /\ camera' = TRUE
  /\ UNCHANGED <<scene, tracks, outgoing, broker, inbox, consumers, torn>>

-----------------------------------------------------------------------------
(* The subscribers *)

\* on_tier0: an entity appears or leaves; periodic boxes are not looked at.
OnTier0 ==
  LET m == Head(inbox["orchestrator"]) IN
  /\ inbox["orchestrator"] # << >>
  /\ present' = Hear("orchestrator", present, m)
  /\ inbox' = [inbox EXCEPT !["orchestrator"] = Tail(@)]
  /\ UNCHANGED <<scene, process, broker, boxes, torn>>

\* BoxMirror._on_frame
OnFrame ==
  LET m == Head(inbox["enrich"]) IN
  /\ inbox["enrich"] # << >>
  /\ boxes' = [t \in Tracks |->
                 IF t \notin DOMAIN m.dets THEN boxes[t]
                 ELSE IF m.delta = "lost_track" THEN Away ELSE m.dets[t]]
  /\ inbox' = [inbox EXCEPT !["enrich"] = Tail(@)]
  /\ UNCHANGED <<scene, process, broker, present, torn>>

-----------------------------------------------------------------------------
(* The world and the broker *)

Move ==
  /\ \E places \in SUBSET Places : places # scene /\ scene' = places
  /\ UNCHANGED <<process, broker, inbox, consumers, torn>>

\* Clean sessions: what was on its way is gone.
BrokerFails ==
  /\ broker
  /\ broker' = FALSE
  /\ inbox' = [s \in Subscribers |-> << >>]
  /\ torn' = (torn \/ \E s \in Subscribers : HoldsAfter(s, inbox[s]) # Holds(s))
  /\ UNCHANGED <<scene, process, consumers>>

BrokerReturns ==
  /\ ~broker
  /\ broker' = TRUE
  /\ UNCHANGED <<scene, process, inbox, consumers, torn>>

-----------------------------------------------------------------------------

Init ==
  /\ scene \in SUBSET Places
  /\ camera = TRUE /\ broker = TRUE
  /\ tracks = [t \in Tracks |-> NoTrack]
  /\ outgoing = << >>
  /\ inbox = [s \in Subscribers |-> << >>]
  /\ present = {}
  /\ boxes = [t \in Tracks |-> Away]
  /\ torn = FALSE

Next ==
  \/ \E seen \in Detections, due \in BOOLEAN : Frame(seen, due)
  \/ Publish \/ PublishFails \/ CameraStarts
  \/ OnTier0 \/ OnFrame
  \/ Move \/ BrokerFails \/ BrokerReturns

Spec == Init /\ [][Next]_vars

\* The camera delivers frames, and again and again one more than a second after
\* the last boxes; a broker and a camera process that are gone are started
\* again; clients handle what they are sent.  Nobody has to come, go or stay.
FairSpec ==
  /\ Spec
  /\ SF_vars(\E seen \in Detections : Frame(seen, TRUE))
  /\ WF_vars(Publish) /\ WF_vars(CameraStarts) /\ WF_vars(BrokerReturns)
  /\ WF_vars(OnTier0) /\ WF_vars(OnFrame)

-----------------------------------------------------------------------------
(* What must always hold *)

\* As long as nothing was lost, each subscriber holds exactly the born tracks
\* once it has handled what is on its way: births, boxes and losses of several
\* tracks, of several frames and at two readers' own pace add up to the tracker's
\* state (imx500_tripwire.py:256-282, orchestrator.py:101, face_enrich.py:145).
StreamAgrees ==
  ~torn => \A s \in Subscribers :
    HoldsAfter(s, inbox[s] \o outgoing) = Born

(* What must eventually happen *)

\* Nobody moves and nobody is missed.
Still ==
  /\ scene' = scene
  /\ \A seen \in Detections, due \in BOOLEAN : Frame(seen, due) => seen = scene

\* Both subscribers know one track per occupied place, and no other.
Settled ==
  /\ present = Mirrored
  /\ \A x \in Places :
       LET there == {t \in Mirrored : boxes[t] = x} IN
       IF x \in scene THEN \E t \in Tracks : there = {t} ELSE there = {}

\* Once the scene is still, coasting tracks run out, everybody in view gets a
\* track and everybody who left loses theirs, at both subscribers, whatever
\* passed before, if the broker stays and dropped no birth or loss.
SceneSettles == []~torn /\ <>[]broker /\ <>[][Still]_vars => <>[]Settled
=============================================================================
