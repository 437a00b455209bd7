-------------------------- MODULE WorldModelProofs --------------------------
(***************************************************************************)
(* Theorems about WorldModel, for every set of entities, tracks and looks, *)
(* every similarity function and every threshold: what its records hold    *)
(* whatever is delivered and whatever runs beside it, identity, presence,  *)
(* corrections, that it implements Presence, and, at the grain of the      *)
(* orchestrator's two threads, names and enrollments.                      *)
(***************************************************************************)
EXTENDS WorldModelPresence, Enrollment, TLAPS, SequenceTheorems

\* An id that new_id() has not returned yet is used nowhere.
FreshIsBlank ==
  \A e \in Entities : e \notin rows => ~Present(e) /\ ~Enrolled(e)

\* The memory of a process that does not run.
DownIsEmpty ==
  ~up => /\ announced = {}
         /\ \A e \in Entities : ~Present(e) /\ contradiction[e] = << >>

\* No two presentations share a track, and all are of handled tracks.
TracksAreExclusive ==
  /\ \A e \in Entities : Present(e) => present[e].track \in announced
  /\ \A e, f \in Entities :
       Present(e) /\ present[e].track = present[f].track => e = f

\* What holds whatever the broker delivers and whatever runs beside the process.
RecordInv ==
  /\ TypeOK
  /\ FreshIsBlank
  /\ DownIsEmpty
  /\ NameIsOwn

\* The inductive invariant behind the identity properties.
IdentityInv ==
  /\ RecordInv
  /\ TracksAreExclusive
  /\ NameSupported
  /\ ContradictionOpen

-----------------------------------------------------------------------------
(* The operators *)

\* How many elements KeepLast drops.
Dropped(s, cap) == IF Len(s) > cap THEN Len(s) - cap ELSE 0

LEMMA KeepLastFacts ==
  ASSUME NEW S, NEW s \in Seq(S), NEW cap \in Nat \ {0}
  PROVE  /\ KeepLast(s, cap) \in Seq(S)
         /\ Dropped(s, cap) \in 0..Len(s)
         /\ Len(KeepLast(s, cap)) = Len(s) - Dropped(s, cap)
         /\ \A i \in 1..Len(s) - Dropped(s, cap) :
              KeepLast(s, cap)[i] = s[i + Dropped(s, cap)]
<1>1. CASE Len(s) > cap
  <2>. DEFINE d == Len(s) - cap
  <2>1. d \in 0..Len(s) /\ d + 1 \in 1..Len(s) + 1 /\ Len(s) \in 0..Len(s)
    BY <1>1
  <2>2. KeepLast(s, cap) = SubSeq(s, d + 1, Len(s)) /\ Dropped(s, cap) = d
    BY <1>1 DEF KeepLast, Dropped
  <2>3. /\ SubSeq(s, d + 1, Len(s)) \in Seq(S)
        /\ Len(SubSeq(s, d + 1, Len(s))) = Len(s) - d
        /\ \A i \in 1..Len(s) - d : SubSeq(s, d + 1, Len(s))[i] = s[i + d]
    BY <2>1, <1>1
  <2>. HIDE DEF d
  <2>. QED BY <2>1, <2>2, <2>3, Zenon
<1>2. CASE ~(Len(s) > cap)
  <2>1. KeepLast(s, cap) = s /\ Dropped(s, cap) = 0
    BY <1>2 DEF KeepLast, Dropped
  <2>. QED BY <2>1
<1>. QED BY <1>1, <1>2

LEMMA EvidenceCapIsPositive == EvidenceCap \in Nat \ {0}
BY SampleAssumption DEF EvidenceCap

\* What every caller of _face_evidence may assume of its result.
LEMMA EvidenceFacts ==
  ASSUME NEW q \in Looks, NEW ev \in FaceEvidence(q)
  PROVE  /\ ev.quality \in {"known", "uncertain", "negative"}
         /\ ev.quality # "negative" =>
              ev.who \in Entities /\ Enrolled(ev.who) /\ ev.name = faceName[ev.who]
<1>1. CASE Enrollments = {}
  BY <1>1 DEF FaceEvidence
<1>2. CASE Enrollments # {}
  <2>1. PICK e \in Nearest(q) : ev = [who |-> e, name |-> faceName[e], quality |-> Quality(q, e)]
    BY <1>2 DEF FaceEvidence
  <2>2. ev.who = e /\ ev.name = faceName[e] /\ ev.quality = Quality(q, e)
    BY <2>1
  <2>3. Quality(q, e) \in {"known", "uncertain", "negative"}
    BY DEF Quality
  <2>. QED BY <2>2, <2>3 DEF Nearest, Enrollments
<1>. QED BY <1>1, <1>2

\* The presentation of e becomes one of the enrolled k.
HandsOver(e, k) ==
  present' = [present EXCEPT ![e] = Absent,
                             ![k] = Presented(present[e].track, faceName[k], "known", "face")]

\* The evidence buffer after one more sample.
LEMMA AppendEvidenceType ==
  ASSUME TypeOK, NEW e \in Entities, NEW c \in Entities \cup {Nobody},
         NEW q \in Looks, NEW confident \in BOOLEAN
  PROVE  AppendEvidence(e, c, q, confident) \in Seq(Sample)
<1>. DEFINE s == [candidate |-> c, look |-> q]
            new == Append(contradiction[e], s)
<1>1. s \in Sample /\ contradiction[e] \in Seq(Sample)
  BY DEF TypeOK, Sample
<1>2. << >> \in Seq(Sample) /\ << s >> \in Seq(Sample) /\ new \in Seq(Sample)
  BY <1>1
<1>3. KeepLast(new, EvidenceCap) \in Seq(Sample)
  BY <1>2, EvidenceCapIsPositive, KeepLastFacts
<1>. QED BY <1>2, <1>3 DEF AppendEvidence

\* The evidence buffer after one more sample still tells one story.
LEMMA AppendEvidenceFacts ==
  ASSUME TypeOK, NEW e \in Entities, OneStory(e, contradiction[e]),
         NEW c \in Entities \cup {Nobody}, c # e,
         NEW q \in Looks, NEW confident \in BOOLEAN
  PROVE  /\ AppendEvidence(e, c, q, confident) \in Seq(Sample)
         /\ OneStory(e, AppendEvidence(e, c, q, confident))
<1>. DEFINE s == [candidate |-> c, look |-> q]
            old == contradiction[e]
            new == Append(old, s)
<1>0. s \in Sample /\ old \in Seq(Sample)
  BY DEF TypeOK, Sample
<1>1. CASE ~confident
  <2>1. AppendEvidence(e, c, q, confident) = << >>
    BY <1>1 DEF AppendEvidence
  <2>2. << >> \in Seq(Sample) /\ 1..Len(<< >>) = {}
    OBVIOUS
  <2>. QED BY <2>1, <2>2 DEF OneStory
<1>2. CASE confident /\ ~Consistent(e, c, q)
  <2>1. AppendEvidence(e, c, q, confident) = << s >>
    BY <1>2 DEF AppendEvidence
  <2>2. << s >> \in Seq(Sample) /\ Len(<< s >>) = 1 /\ << s >>[1] = s
    BY <1>0
  <2>3. OneStory(e, << s >>)
    <3>. SUFFICES ASSUME NEW i \in 1..1, NEW j \in 1..1
                  PROVE  /\ << s >>[i].candidate = << s >>[j].candidate
                         /\ << s >>[i].candidate # e
                         /\ ~(i < j)
      BY <2>2 DEF OneStory
    <3>1. i = 1 /\ j = 1
      OBVIOUS
    <3>2. << s >>[1].candidate = c
      OBVIOUS
    <3>. QED BY <3>1, <3>2
  <2>. QED BY <2>1, <2>2, <2>3
<1>3. CASE confident /\ Consistent(e, c, q)
  <2>1. /\ old # << >> /\ old[1].candidate = c
        /\ \A i \in 1..Len(old) : Cos[q, old[i].look] >= AgreeT
    BY <1>3 DEF Consistent
  <2>2. 1 \in 1..Len(old)
    <3>. HIDE DEF old
    <3>1. Len(old) \in Nat \ {0}
      BY <1>0, <2>1, EmptySeq
    <3>. QED BY <3>1
  <2>3. \A i \in 1..Len(old) : old[i].candidate = c
    BY <2>1, <2>2 DEF OneStory
  <2>4. /\ new \in Seq(Sample)
        /\ Len(new) = Len(old) + 1
        /\ \A i \in 1..Len(old) : new[i] = old[i]
        /\ new[Len(old) + 1] = s
    BY <1>0
  <2>5. OneStory(e, new)
    <3>. SUFFICES ASSUME NEW i \in 1..Len(new), NEW j \in 1..Len(new)
                  PROVE  /\ new[i].candidate = new[j].candidate
                         /\ new[i].candidate # e
                         /\ i < j => Cos[new[j].look, new[i].look] >= AgreeT
      BY DEF OneStory
    <3>1. \A k \in 1..Len(new) : new[k].candidate = c
      BY <2>3, <2>4, <1>0
    <3>2. ASSUME i < j PROVE Cos[new[j].look, new[i].look] >= AgreeT
      <4>0. i \in 1..Len(old)
        BY <3>2, <2>4, <1>0
      <4>1. CASE j \in 1..Len(old)
        BY <4>0, <4>1, <3>2, <2>4 DEF OneStory
      <4>2. CASE j = Len(old) + 1
        <5>1. new[j].look = q /\ new[i] = old[i]
          BY <4>0, <4>2, <2>4
        <5>. QED BY <5>1, <4>0, <2>1
      <4>3. j \in 1..Len(old) \/ j = Len(old) + 1
        <5>. HIDE DEF old, new
        <5>. QED BY <2>4, <1>0
      <4>. QED BY <4>1, <4>2, <4>3
    <3>. QED BY <3>1, <3>2
  <2>6. AppendEvidence(e, c, q, confident) = KeepLast(new, EvidenceCap)
    BY <1>3 DEF AppendEvidence
  <2>. HIDE DEF new
  <2>. DEFINE d == Dropped(new, EvidenceCap)
  <2>7. /\ KeepLast(new, EvidenceCap) \in Seq(Sample)
        /\ d \in 0..Len(new)
        /\ Len(KeepLast(new, EvidenceCap)) = Len(new) - d
        /\ \A i \in 1..Len(new) - d : KeepLast(new, EvidenceCap)[i] = new[i + d]
    BY <2>4, EvidenceCapIsPositive, KeepLastFacts
  <2>8. KeepLast(new, EvidenceCap) \in Seq(Sample)
    BY <2>7
  <2>. HIDE DEF d
  <2>9. OneStory(e, KeepLast(new, EvidenceCap))
    <3>. DEFINE k == KeepLast(new, EvidenceCap)
    <3>0. Len(new) \in Nat /\ d \in Nat /\ Len(k) = Len(new) - d
      BY <2>4, <2>7
    <3>1. \A i \in 1..Len(k) : k[i] = new[i + d]
      BY <2>7
    <3>. HIDE DEF k
    <3>2. \A i \in 1..Len(k) : i + d \in 1..Len(new)
      BY <3>0
    <3>3. \A i, j \in 1..Len(k) : i < j => i + d < j + d
      BY <3>0
    <3>. SUFFICES ASSUME NEW i \in 1..Len(k), NEW j \in 1..Len(k)
                  PROVE  /\ k[i].candidate = k[j].candidate
                         /\ k[i].candidate # e
                         /\ i < j => Cos[k[j].look, k[i].look] >= AgreeT
      BY DEF OneStory, k
    <3>4. /\ new[i + d].candidate = new[j + d].candidate
          /\ new[i + d].candidate # e
          /\ i + d < j + d => Cos[new[j + d].look, new[i + d].look] >= AgreeT
      BY <2>5, <3>2 DEF OneStory
    <3>. QED BY <3>1, <3>3, <3>4
  <2>. QED BY <2>6, <2>8, <2>9
<1>. QED BY <1>1, <1>2, <1>3

LEMMA BufferFaceType ==
  ASSUME TypeOK, NEW e \in Entities, NEW q \in Looks, BufferFace(e, q)
  PROVE  faceBuffer' \in [Entities -> Seq(Looks)]
<1>1. Append(faceBuffer[e], q) \in Seq(Looks) /\ FaceCap \in Nat \ {0}
  BY SampleAssumption DEF TypeOK
<1>2. KeepLast(Append(faceBuffer[e], q), FaceCap) \in Seq(Looks)
  BY <1>1, KeepLastFacts
<1>. QED BY <1>2 DEF BufferFace, TypeOK

-----------------------------------------------------------------------------
(* Records: every step, new_track delivered twice and live enrollment included *)

LEMMA InitRecord == Init => RecordInv
<1>. SUFFICES ASSUME Init PROVE RecordInv
  OBVIOUS
<1>. USE GalleryAssumption, SampleAssumption, NothingAssumption
<1>1. \A e \in Entities : present[e] = Absent /\ contradiction[e] = << >> /\ ~Present(e)
  BY DEF Init, Absent, Present
<1>2. TypeOK
  BY DEF Init, TypeOK, Info, Absent, States
<1>3. FreshIsBlank
  BY <1>1 DEF Init, FreshIsBlank, Enrolled
<1>. QED BY <1>1, <1>2, <1>3 DEF RecordInv, DownIsEmpty, NameIsOwn, Init

LEMMA AppearRecord ==
  ASSUME RecordInv, NEW t \in Tracks, NewTrack(t)
  PROVE  RecordInv'
<1>. USE NothingAssumption, SampleAssumption
<1>1. PICK e \in Entities : PersonAppeared(t, e)
  BY DEF NewTrack
<1>2. /\ live' \subseteq Tracks /\ announced' \subseteq live' /\ up
      /\ UNCHANGED <<faceName, faceLook, faceBuffer, contradiction, up>>
      /\ dbPresent' = dbPresent \cup {e}
      /\ age' = [age EXCEPT ![e] = 0]
      /\ support' = [support EXCEPT ![t] = Nobody]
  BY <1>1 DEF NewTrack, PersonAppeared, RecordInv, TypeOK
<1>3. /\ ~Enrolled(e)
      /\ rows' = rows \cup {e}
      /\ \E s \in {"none", "timestamp"} :
           present' = [present EXCEPT ![e] = Presented(t, NoName, "unknown", s)]
  BY <1>1 DEF PersonAppeared, Reappear, Arrive, MostRecent, Reusable, RecordInv, FreshIsBlank
<1>4. TypeOK'
  BY <1>2, <1>3 DEF RecordInv, TypeOK, Info, States, Presented
<1>5. /\ present'[e].track = t /\ present'[e].name = NoName
      /\ \A f \in Entities \ {e} : present'[f] = present[f]
  BY <1>3 DEF RecordInv, TypeOK, Presented
<1>6. FreshIsBlank'
  BY <1>2, <1>3, <1>5 DEF RecordInv, FreshIsBlank, Present, Enrolled
<1>7. DownIsEmpty'
  BY <1>2 DEF DownIsEmpty
<1>8. NameIsOwn'
  BY <1>2, <1>3, <1>5 DEF RecordInv, NameIsOwn, Present, Enrolled
<1>. QED BY <1>4, <1>6, <1>7, <1>8 DEF RecordInv

LEMMA LostTrackRecord ==
  ASSUME RecordInv, NEW t \in Tracks, LostTrack(t)
  PROVE  RecordInv'
<1>. USE NothingAssumption, SampleAssumption
<1>1. /\ up /\ live' = live \ {t} /\ announced' = announced \ {t}
      /\ UNCHANGED <<rows, faceName, faceLook, faceBuffer, up>>
      /\ support' = [support EXCEPT ![t] = Nobody]
  BY DEF LostTrack
<1>2. CASE UNCHANGED <<present, dbPresent, age, contradiction>>
  BY <1>1, <1>2 DEF RecordInv, TypeOK, FreshIsBlank, DownIsEmpty, NameIsOwn, Present, Enrolled
<1>3. ASSUME NEW f \in EntitiesOn(t), PersonLeft(f) PROVE RecordInv'
  <2>1. /\ f \in Entities /\ present'[f] = Absent /\ Absent.track = NoTrack
        /\ \A e \in Entities \ {f} : present'[e] = present[e]
    BY <1>3 DEF EntitiesOn, PersonLeft, Absent, RecordInv, TypeOK
  <2>2. TypeOK'
    BY <1>1, <1>3, <2>1 DEF RecordInv, TypeOK, PersonLeft, Info, States, Absent
  <2>3. FreshIsBlank' /\ NameIsOwn'
    BY <1>1, <2>1 DEF RecordInv, FreshIsBlank, NameIsOwn, Present, Enrolled
  <2>. QED BY <1>1, <2>2, <2>3 DEF RecordInv, DownIsEmpty
<1>. QED BY <1>2, <1>3 DEF LostTrack

\* A sample that leaves the entity on its track.
LEMMA StayRecord ==
  ASSUME RecordInv, NEW e \in Entities, Present(e), up,
         NEW s \in States, SetState(e, s),
         contradiction' \in [Entities -> Seq(Sample)],
         faceBuffer' \in [Entities -> Seq(Looks)],
         support' \in [Tracks -> Entities \cup {Nobody}],
         UNCHANGED <<rows, faceName, faceLook, dbPresent, age, env>>
  PROVE  RecordInv'
<1>1. present[e] \in Info /\ present \in [Entities -> Info]
  BY DEF RecordInv, TypeOK
<1>2. present' = [present EXCEPT ![e] = [present[e] EXCEPT !.state = s, !.prov = "face"]]
  BY <1>1 DEF SetState
<1>3. [present[e] EXCEPT !.state = s, !.prov = "face"] \in Info
  BY <1>1 DEF Info
<1>4. /\ \A f \in Entities : present'[f].track = present[f].track
      /\ \A f \in Entities : present'[f].name = present[f].name
      /\ present'[e].prov = "face"
      /\ \A f \in Entities \ {e} : present'[f] = present[f]
  BY <1>1, <1>2 DEF Info
<1>5. TypeOK'
  <2>1. present' \in [Entities -> Info]
    BY <1>1, <1>2, <1>3
  <2>. QED BY <2>1 DEF RecordInv, TypeOK, env
<1>6. FreshIsBlank'
  BY <1>4 DEF RecordInv, FreshIsBlank, Present, Enrolled
<1>7. NameIsOwn'
  BY <1>4 DEF RecordInv, NameIsOwn, Present, Enrolled
<1>. QED BY <1>5, <1>6, <1>7 DEF RecordInv, DownIsEmpty, env

\* A sample that hands the track to k, under the name that is k's own.
LEMMA HandOverRecord ==
  ASSUME RecordInv, NEW t \in Tracks, NEW e \in Entities, up,
         NEW k \in Entities, k # e, NEW s \in {"known", "unknown"},
         present' = [present EXCEPT ![e] = Absent,
                                    ![k] = Presented(t, faceName[k], s, "face")],
         contradiction' \in [Entities -> Seq(Sample)],
         faceBuffer' \in [Entities -> Seq(Looks)],
         support' \in [Tracks -> Entities \cup {Nobody}],
         rows' = rows \cup {k},
         dbPresent' = (dbPresent \ {e}) \cup {k},
         age' \in [Entities -> 0..Window + 1],
         UNCHANGED <<faceName, faceLook, env>>
  PROVE  RecordInv'
<1>. USE NothingAssumption, SampleAssumption
<1>. DEFINE r == Presented(t, faceName[k], s, "face")
<1>1. /\ r.track = t /\ r.name = faceName[k] /\ r.prov = "face"
      /\ r \in Info /\ Absent \in Info /\ Absent.track = NoTrack
  BY DEF Presented, Absent, Info, States, RecordInv, TypeOK
<1>2. /\ present'[e] = Absent /\ present'[k] = r
      /\ \A f \in Entities \ {e, k} : present'[f] = present[f]
  BY DEF RecordInv, TypeOK
<1>. HIDE DEF r
<1>3. TypeOK'
  <2>1. present' \in [Entities -> Info]
    BY <1>1, <1>2 DEF RecordInv, TypeOK, r
  <2>. QED BY <2>1 DEF RecordInv, TypeOK, env
<1>4. present'[k].track = t /\ present'[k].name = faceName[k] /\ present'[k].prov = "face"
  BY <1>1, <1>2, Zenon
<1>5. FreshIsBlank'
  BY <1>1, <1>2, <1>4 DEF RecordInv, FreshIsBlank, Present, Enrolled
<1>6. NameIsOwn'
  <2>. SUFFICES ASSUME NEW f \in Entities, Present(f)'
                PROVE  /\ present'[f].name = faceName'[f]
                       /\ Enrolled(f)' => present'[f].prov = "face"
    BY DEF NameIsOwn
  <2>1. f # e
    BY <1>1, <1>2 DEF Present
  <2>2. CASE f = k
    BY <1>4, <2>2
  <2>3. CASE f # k
    BY <1>2, <2>1, <2>3 DEF RecordInv, NameIsOwn, Present, Enrolled
  <2>. QED BY <2>2, <2>3
<1>. QED BY <1>3, <1>5, <1>6 DEF RecordInv, DownIsEmpty, env

LEMMA FaceSampleRecord ==
  ASSUME RecordInv, NEW t \in Tracks, NEW q \in Looks, NEW confident \in BOOLEAN,
         FaceSample(t, q, confident)
  PROVE  RecordInv'
<1>1. PICK e \in EntitiesOn(t), ev \in FaceEvidence(q) :
        /\ support' = [support EXCEPT ![t] = IF ev.quality = "known" THEN ev.who ELSE Nobody]
        /\ \/ AnonymousSample(e, q, ev)
           \/ BindAnonymous(e, ev)
           \/ Confirm(e, ev)
           \/ DifferentKnown(e, q, confident, ev)
           \/ RebindKnown(e, q, confident, ev)
           \/ UncertainFace(e, ev)
           \/ StrongNegative(e, q, confident, ev)
           \/ SplitKnown(e, q, confident, ev)
  BY DEF FaceSample
<1>2. up /\ UNCHANGED <<faceName, faceLook, env>>
  BY DEF FaceSample
<1>3. /\ ev.quality \in {"known", "uncertain", "negative"}
      /\ ev.quality # "negative" =>
           /\ ev.who \in Entities /\ Enrolled(ev.who) /\ ev.who \in rows
           /\ ev.name = faceName[ev.who]
  BY EvidenceFacts DEF RecordInv, FreshIsBlank
<1>4. support' \in [Tracks -> Entities \cup {Nobody}]
  BY <1>1, <1>3 DEF RecordInv, TypeOK
<1>5. /\ e \in Entities /\ present[e].track = t /\ Present(e) /\ present[e].name = faceName[e]
  BY NothingAssumption DEF EntitiesOn, Present, RecordInv, NameIsOwn
<1>6. << >> \in Seq(Sample)
  OBVIOUS
<1>7. \A c \in Entities \cup {Nobody} : AppendEvidence(e, c, q, confident) \in Seq(Sample)
  BY <1>5, AppendEvidenceType DEF RecordInv
<1>8. CASE \/ AnonymousSample(e, q, ev) \/ Confirm(e, ev) \/ UncertainFace(e, ev)
           \/ DifferentKnown(e, q, confident, ev) \/ StrongNegative(e, q, confident, ev)
  <2>1. /\ \E s \in States : SetState(e, s)
        /\ UNCHANGED <<rows, dbPresent, age>>
        /\ faceBuffer' = faceBuffer \/ BufferFace(e, q)
    BY <1>8 DEF AnonymousSample, StayAnonymous, Confirm, UncertainFace, DifferentKnown, StrongNegative, States
  <2>2. PICK c \in Seq(Sample) : contradiction' = [contradiction EXCEPT ![e] = c]
    <3>1. CASE AnonymousSample(e, q, ev) \/ Confirm(e, ev) \/ UncertainFace(e, ev)
      BY <1>6, <3>1 DEF AnonymousSample, StayAnonymous, Confirm, UncertainFace
    <3>2. CASE DifferentKnown(e, q, confident, ev)
      BY <1>3, <1>7, <3>2 DEF DifferentKnown
    <3>3. CASE StrongNegative(e, q, confident, ev)
      BY <1>7, <3>3 DEF StrongNegative
    <3>. QED BY <1>8, <3>1, <3>2, <3>3
  <2>3. contradiction' \in [Entities -> Seq(Sample)]
    BY <2>2 DEF RecordInv, TypeOK
  <2>4. faceBuffer' \in [Entities -> Seq(Looks)]
    BY <1>5, <2>1, BufferFaceType DEF RecordInv, TypeOK
  <2>. QED BY <1>2, <1>4, <1>5, <2>1, <2>3, <2>4, StayRecord
<1>9. CASE BindAnonymous(e, ev) \/ RebindKnown(e, q, confident, ev)
  <2>. DEFINE k == ev.who
  <2>1. /\ ev.quality = "known" /\ HandsOver(e, k) /\ UNCHANGED <<rows, faceBuffer>>
        /\ dbPresent' = (dbPresent \ {e}) \cup {k}
        /\ age' \in {[age EXCEPT ![k] = 0], [age EXCEPT ![e] = 0, ![k] = 0]}
        /\ contradiction' \in {[contradiction EXCEPT ![e] = << >>],
                               [contradiction EXCEPT ![e] = << >>, ![k] = << >>]}
    BY <1>3, <1>9 DEF BindAnonymous, Bind, RebindKnown, MoveTo, HandsOver
  <2>2. k \in Entities /\ Enrolled(k) /\ k \in rows
    BY <1>3, <2>1
  <2>3. k # e
    BY <1>5, <1>9, <2>2 DEF BindAnonymous, Bind, RebindKnown, Enrolled
  <2>. HIDE DEF k
  <2>4. age' \in [Entities -> 0..Window + 1]
    <3>1. 0 \in 0..Window + 1 /\ age \in [Entities -> 0..Window + 1]
      BY SampleAssumption DEF RecordInv, TypeOK
    <3>2. CASE age' = [age EXCEPT ![k] = 0]
      BY <2>2, <3>1, <3>2
    <3>3. CASE age' = [age EXCEPT ![e] = 0, ![k] = 0]
      BY <1>5, <2>2, <3>1, <3>3
    <3>. QED BY <2>1, <3>2, <3>3
  <2>5. contradiction' \in [Entities -> Seq(Sample)]
    BY <1>5, <1>6, <2>1, <2>2 DEF RecordInv, TypeOK
  <2>6. faceBuffer' \in [Entities -> Seq(Looks)] /\ rows' = rows \cup {k}
    BY <2>1, <2>2 DEF RecordInv, TypeOK
  <2>7. present' = [present EXCEPT ![e] = Absent, ![k] = Presented(t, faceName[k], "known", "face")]
    BY <1>5, <2>1 DEF HandsOver
  <2>. QED BY <1>2, <1>4, <1>5, <2>1, <2>2, <2>3, <2>4, <2>5, <2>6, <2>7, HandOverRecord
<1>10. CASE SplitKnown(e, q, confident, ev)
  <2>. DEFINE samples == AppendEvidence(e, Nobody, q, confident)
  <2>1. PICK n \in Entities \ rows :
          /\ rows' = rows \cup {n}
          /\ present' = [present EXCEPT ![e] = Absent,
                                        ![n] = Presented(present[e].track, NoName, "unknown", "face")]
          /\ dbPresent' = (dbPresent \ {e}) \cup {n}
          /\ age' = [age EXCEPT ![e] = 0, ![n] = 0]
          /\ FollowTheTrack(e, n, samples)
          /\ contradiction' = [contradiction EXCEPT ![e] = << >>]
    BY <1>10 DEF SplitKnown
  <2>2. samples \in Seq(Sample)
    BY <1>7
  <2>. HIDE DEF samples
  <2>3. faceName[n] = NoName /\ n # e
    BY <1>5, <2>1 DEF RecordInv, FreshIsBlank, Enrolled
  <2>4. contradiction' \in [Entities -> Seq(Sample)]
    BY <1>6, <2>1 DEF RecordInv, TypeOK
  <2>5. age' \in [Entities -> 0..Window + 1]
    BY <1>5, <2>1, SampleAssumption, SMTT(30) DEF RecordInv, TypeOK
  <2>6. [i \in 1..Len(samples) |-> samples[i].look] \in Seq(Looks)
    <3>1. Len(samples) \in Nat /\ \A i \in 1..Len(samples) : samples[i] \in Sample
      BY <2>2, LenProperties, ElementOfSeq
    <3>2. \A i \in 1..Len(samples) : samples[i].look \in Looks
      BY <3>1 DEF Sample
    <3>. QED BY <3>1, <3>2
  <2>7. faceBuffer' \in [Entities -> Seq(Looks)]
    BY <2>1, <2>6 DEF FollowTheTrack, RecordInv, TypeOK
  <2>8. present' = [present EXCEPT ![e] = Absent,
                                   ![n] = Presented(t, faceName[n], "unknown", "face")]
    BY <1>5, <2>1, <2>3
  <2>. QED BY <1>2, <1>4, <1>5, <2>1, <2>3, <2>4, <2>5, <2>7, <2>8, HandOverRecord
<1>. QED BY <1>1, <1>8, <1>9, <1>10

LEMMA EnrollPresentRecord ==
  ASSUME RecordInv, NEW e \in Entities, NEW n \in Names, NEW g \in Looks,
         EnrollPresent(e, n, g)
  PROVE  RecordInv'
<1>. USE NothingAssumption
<1>1. /\ up /\ Present(e)
      /\ faceName' = [faceName EXCEPT ![e] = n]
      /\ faceLook' = [faceLook EXCEPT ![e] = g]
      /\ contradiction' = [contradiction EXCEPT ![e] = << >>]
      /\ support' = [support EXCEPT ![present[e].track] = e]
      /\ UNCHANGED <<rows, dbPresent, age, faceBuffer, env>>
  BY DEF EnrollPresent
<1>2. /\ present'[e].track = present[e].track /\ present'[e].name = n /\ present'[e].prov = "face"
      /\ \A f \in Entities \ {e} : present'[f] = present[f]
  BY DEF EnrollPresent, RecordInv, TypeOK, Info
<1>3. TypeOK'
  <2>1. present[e] \in Info /\ present \in [Entities -> Info]
    BY DEF RecordInv, TypeOK
  <2>2. [present[e] EXCEPT !.name = n, !.state = "known", !.prov = "face"] \in Info
    BY <2>1 DEF Info, States
  <2>3. present' = [present EXCEPT ![e] =
                      [present[e] EXCEPT !.name = n, !.state = "known", !.prov = "face"]]
    BY <2>1 DEF EnrollPresent
  <2>4. present' \in [Entities -> Info]
    BY <2>1, <2>2, <2>3
  <2>5. support' \in [Tracks -> Entities \cup {Nobody}]
    BY <1>1 DEF RecordInv, TypeOK
  <2>6. contradiction' \in [Entities -> Seq(Sample)]
    <3>1. << >> \in Seq(Sample)
      OBVIOUS
    <3>. QED BY <1>1, <3>1 DEF RecordInv, TypeOK
  <2>. QED BY <2>4, <2>5, <2>6, <1>1 DEF RecordInv, TypeOK, env
<1>4. FreshIsBlank'
  BY <1>1, <1>2 DEF RecordInv, TypeOK, FreshIsBlank, Present, Enrolled
<1>5. NameIsOwn'
  BY <1>1, <1>2 DEF RecordInv, TypeOK, NameIsOwn, Present, Enrolled
<1>. QED BY <1>1, <1>3, <1>4, <1>5 DEF RecordInv, DownIsEmpty, env

LEMMA EnrollScriptRecord ==
  ASSUME RecordInv, NEW e \in Entities, NEW n \in Names, NEW g \in Looks,
         EnrollScript(e, n, g)
  PROVE  RecordInv'
<1>. USE NothingAssumption
<1>1. /\ e \notin rows /\ rows' = rows \cup {e} /\ dbPresent' = {}
      /\ faceName' = [faceName EXCEPT ![e] = n]
      /\ faceLook' = [faceLook EXCEPT ![e] = g]
      /\ UNCHANGED <<age, present, faceBuffer, contradiction, live, up, announced, support>>
  BY DEF EnrollScript, hot, env
<1>2. ~Present(e)
  BY <1>1 DEF RecordInv, FreshIsBlank
<1>3. TypeOK'
  BY <1>1 DEF RecordInv, TypeOK
<1>4. FreshIsBlank'
  BY <1>1 DEF RecordInv, TypeOK, FreshIsBlank, Present, Enrolled
<1>5. DownIsEmpty'
  BY <1>1 DEF RecordInv, DownIsEmpty, Present
<1>6. NameIsOwn'
  BY <1>1, <1>2 DEF RecordInv, TypeOK, NameIsOwn, Present, Enrolled
<1>. QED BY <1>3, <1>4, <1>5, <1>6 DEF RecordInv

LEMMA CrashRecord == RecordInv /\ Crash => RecordInv'
<1>. SUFFICES ASSUME RecordInv, Crash PROVE RecordInv'
  OBVIOUS
<1>1. /\ up' = FALSE /\ announced' = {} /\ live' = live
      /\ UNCHANGED <<rows, faceName, faceLook, dbPresent, age>>
      /\ support' = [t \in Tracks |-> Nobody]
      /\ present' = [e \in Entities |-> Absent]
      /\ faceBuffer' = [e \in Entities |-> << >>]
      /\ contradiction' = [e \in Entities |-> << >>]
  BY DEF Crash, durable
<1>2. \A e \in Entities : ~Present(e)' /\ contradiction'[e] = << >>
  BY <1>1 DEF Present, Absent
<1>3. TypeOK'
  <2>1. Absent \in Info
    BY DEF Absent, Info, States
  <2>2. << >> \in Seq(Looks) /\ << >> \in Seq(Sample)
    OBVIOUS
  <2>. HIDE DEF Absent, Info, Sample
  <2>. QED BY <1>1, <2>1, <2>2 DEF RecordInv, TypeOK
<1>. QED BY <1>1, <1>2, <1>3 DEF RecordInv, FreshIsBlank, DownIsEmpty, NameIsOwn, Enrolled

\* The steps that change no presentation.
LEMMA QuietFacts ==
  ASSUME RecordInv,
         \/ \E t \in Tracks : TrackWhileDown(t)
         \/ Tick
         \/ Boot
         \/ UNCHANGED vars
  PROVE  /\ UNCHANGED <<rows, faceName, faceLook, present, faceBuffer, contradiction, announced, support>>
         /\ dbPresent' \in {dbPresent, {}}
         /\ age' \in [Entities -> 0..Window + 1]
         /\ up' \in BOOLEAN /\ (up => up')
         /\ live' \subseteq Tracks /\ announced \subseteq live'
<1>. USE NothingAssumption, SampleAssumption
<1>1. CASE \E t \in Tracks : TrackWhileDown(t)
  BY <1>1 DEF TrackWhileDown, durable, hot, RecordInv, TypeOK, DownIsEmpty
<1>2. CASE Tick
  <2>1. age' \in [Entities -> 0..Window + 1]
    <3>1. age \in [Entities -> 0..Window + 1] /\ Window \in Nat
      BY DEF RecordInv, TypeOK
    <3>2. age' = [e \in Entities |-> IF age[e] > Window THEN age[e] ELSE age[e] + 1]
      BY <1>2 DEF Tick
    <3>. QED BY <3>1, <3>2
  <2>2. /\ UNCHANGED <<rows, faceName, faceLook, dbPresent, support>>
        /\ UNCHANGED <<present, faceBuffer, contradiction, live, up, announced>>
    BY <1>2 DEF Tick, hot, env
  <2>. QED BY <2>1, <2>2 DEF RecordInv, TypeOK
<1>3. CASE Boot
  BY <1>3 DEF Boot, hot, RecordInv, TypeOK
<1>4. CASE UNCHANGED vars
  BY <1>4 DEF vars, durable, hot, env, RecordInv, TypeOK
<1>. QED BY <1>1, <1>2, <1>3, <1>4

LEMMA QuietRecord ==
  ASSUME RecordInv,
         \/ \E t \in Tracks : TrackWhileDown(t)
         \/ Tick
         \/ Boot
         \/ UNCHANGED vars
  PROVE  RecordInv'
<1>1. TypeOK'
  BY QuietFacts DEF RecordInv, TypeOK
<1>2. DownIsEmpty'
  BY QuietFacts DEF RecordInv, TypeOK, DownIsEmpty, Present
<1>3. FreshIsBlank' /\ NameIsOwn'
  BY QuietFacts DEF RecordInv, FreshIsBlank, NameIsOwn, Present, Enrolled
<1>. QED BY <1>1, <1>2, <1>3 DEF RecordInv

LEMMA NextRecord ==
  ASSUME RecordInv, [Next]_vars
  PROVE  RecordInv'
<1>1. ASSUME NEW t \in Tracks, NewTrack(t) PROVE RecordInv'
  BY <1>1, AppearRecord
<1>2. ASSUME NEW t \in Tracks, LostTrack(t) PROVE RecordInv'
  BY <1>2, LostTrackRecord
<1>3. ASSUME NEW t \in Tracks, NEW q \in Looks, NEW confident \in BOOLEAN,
             FaceSample(t, q, confident)
      PROVE  RecordInv'
  BY <1>3, FaceSampleRecord
<1>4. ASSUME NEW e \in Entities, NEW n \in Names, NEW g \in Looks, EnrollPresent(e, n, g)
      PROVE  RecordInv'
  BY <1>4, EnrollPresentRecord
<1>5. ASSUME NEW e \in Entities, NEW n \in Names, NEW g \in Looks, EnrollScript(e, n, g)
      PROVE  RecordInv'
  BY <1>5, EnrollScriptRecord
<1>6. CASE Crash
  BY <1>6, CrashRecord
<1>7. CASE (\E t \in Tracks : TrackWhileDown(t)) \/ Tick \/ Boot \/ UNCHANGED vars
  BY <1>7, QuietRecord
<1>. QED BY <1>1, <1>2, <1>3, <1>4, <1>5, <1>6, <1>7 DEF Next

\* Whatever is delivered twice and whatever runs beside the process, ids are
\* fresh, a stopped process holds nothing and hot names are the database's.
THEOREM RecordsAreSound == Spec => []RecordInv
<1>1. Init => RecordInv
  BY InitRecord
<1>2. RecordInv /\ [Next]_vars => RecordInv'
  BY NextRecord
<1>. QED BY <1>1, <1>2, PTL DEF Spec

\* The world model's variables keep their types.
THEOREM TypeCorrect == Spec => []TypeOK
<1>1. RecordInv => TypeOK
  BY DEF RecordInv
<1>. QED BY <1>1, RecordsAreSound, PTL

\* A presentation never carries a name that is not its entity's own.
THEOREM NamesAreOwn == Spec => []NameIsOwn
<1>1. RecordInv => NameIsOwn
  BY DEF RecordInv
<1>. QED BY <1>1, RecordsAreSound, PTL

-----------------------------------------------------------------------------
(* Identity: the steps *)

LEMMA InitIdentity == Init => IdentityInv
<1>. SUFFICES ASSUME Init PROVE IdentityInv
  OBVIOUS
<1>1. \A e \in Entities : contradiction[e] = << >> /\ ~Present(e)
  BY DEF Init, Absent, Present
<1>. QED BY <1>1, InitRecord DEF IdentityInv, TracksAreExclusive, NameSupported, ContradictionOpen

LEMMA NewTrackIdentity ==
  ASSUME ~Redelivery, IdentityInv, RecordInv', NEW t \in Tracks, NewTrack(t)
  PROVE  IdentityInv'
<1>. USE NothingAssumption, SampleAssumption
<1>1. PICK e \in Entities : PersonAppeared(t, e)
  BY DEF NewTrack
<1>2. /\ up /\ t \notin live /\ live' = live \cup {t} /\ announced' = announced \cup {t}
      /\ UNCHANGED <<faceName, faceLook, faceBuffer, contradiction, up>>
      /\ dbPresent' = dbPresent \cup {e}
      /\ age' = [age EXCEPT ![e] = 0]
      /\ support' = [support EXCEPT ![t] = Nobody]
  BY <1>1 DEF NewTrack, PersonAppeared
<1>3. /\ ~Enrolled(e)
      /\ rows' = rows \cup {e}
      /\ \E s \in {"none", "timestamp"} :
           present' = [present EXCEPT ![e] = Presented(t, NoName, "unknown", s)]
  BY <1>1 DEF PersonAppeared, Reappear, Arrive, MostRecent, Reusable, IdentityInv, RecordInv, FreshIsBlank
<1>4. /\ present'[e].track = t /\ present'[e].name = NoName /\ present'[e].state = "unknown"
      /\ \A f \in Entities \ {e} : present'[f] = present[f]
  BY <1>3 DEF IdentityInv, RecordInv, TypeOK, Presented
<1>5. t \notin announced
  BY <1>2 DEF IdentityInv, RecordInv, TypeOK
<1>6. TracksAreExclusive'
  BY <1>2, <1>4, <1>5 DEF IdentityInv, TracksAreExclusive, Present
<1>7. NameSupported'
  <2>. SUFFICES ASSUME NEW f \in Entities, Present(f)', LiveName(f)' # NoName
                PROVE  support'[present'[f].track] = f
    BY DEF NameSupported
  <2>1. f # e
    BY <1>4 DEF LiveName
  <2>2. present'[f] = present[f] /\ Present(f) /\ LiveName(f) # NoName
    BY <1>4, <2>1 DEF Present, LiveName
  <2>3. present[f].track \in Tracks /\ present[f].track # t
    BY <1>2, <2>2 DEF IdentityInv, RecordInv, TypeOK, TracksAreExclusive
  <2>4. support'[present[f].track] = support[present[f].track]
    BY <1>2, <2>3 DEF IdentityInv, RecordInv, TypeOK
  <2>. QED BY <2>2, <2>4 DEF IdentityInv, RecordInv, NameSupported
<1>8. ContradictionOpen'
  BY <1>2, <1>3, <1>4 DEF IdentityInv, RecordInv, ContradictionOpen, Present, Enrolled
<1>. QED BY <1>6, <1>7, <1>8 DEF IdentityInv

LEMMA LostTrackIdentity ==
  ASSUME IdentityInv, RecordInv', NEW t \in Tracks, LostTrack(t)
  PROVE  IdentityInv'
<1>. USE NothingAssumption, SampleAssumption
<1>1. /\ up /\ live' = live \ {t} /\ announced' = announced \ {t}
      /\ UNCHANGED <<rows, faceName, faceLook, faceBuffer, up>>
      /\ support' = [support EXCEPT ![t] = Nobody]
  BY DEF LostTrack
<1>2. \A e \in Entities :
        \/ /\ present'[e] = Absent /\ contradiction'[e] = << >>
        \/ /\ present'[e] = present[e] /\ contradiction'[e] = contradiction[e]
           /\ present[e].track # t
  <2>1. CASE EntitiesOn(t) = {} /\ UNCHANGED <<present, dbPresent, age, contradiction>>
    BY <2>1 DEF EntitiesOn
  <2>2. CASE \E e \in EntitiesOn(t) : PersonLeft(e)
    <3>1. PICK f \in EntitiesOn(t) : PersonLeft(f)
      BY <2>2
    <3>2. f \in Entities /\ present[f].track = t /\ Present(f)
      BY DEF EntitiesOn, Present
    <3>3. /\ present'[f] = Absent /\ contradiction'[f] = << >>
          /\ \A e \in Entities \ {f} :
               present'[e] = present[e] /\ contradiction'[e] = contradiction[e]
      BY <3>1, <3>2 DEF PersonLeft, IdentityInv, RecordInv, TypeOK
    <3>4. \A e \in Entities \ {f} : present[e].track # t
      BY <3>2 DEF IdentityInv, RecordInv, TracksAreExclusive
    <3>. QED BY <3>3, <3>4
  <2>. QED BY <2>1, <2>2 DEF LostTrack
<1>3. Absent.track = NoTrack
  BY DEF Absent
<1>4. TracksAreExclusive'
  BY <1>1, <1>2, <1>3 DEF IdentityInv, RecordInv, TracksAreExclusive, Present
<1>5. NameSupported'
  <2>. SUFFICES ASSUME NEW f \in Entities, Present(f)', LiveName(f)' # NoName
                PROVE  support'[present'[f].track] = f
    BY DEF NameSupported
  <2>1. /\ present'[f] = present[f] /\ present[f].track # t
        /\ Present(f) /\ LiveName(f) # NoName
    BY <1>2, <1>3 DEF Present, LiveName
  <2>2. support'[present[f].track] = support[present[f].track]
    BY <1>1, <2>1 DEF IdentityInv, RecordInv, TypeOK, TracksAreExclusive
  <2>. QED BY <2>1, <2>2 DEF IdentityInv, RecordInv, NameSupported
<1>6. ContradictionOpen'
  BY <1>1, <1>2, <1>3 DEF IdentityInv, RecordInv, ContradictionOpen, Present, Enrolled
<1>. QED BY <1>4, <1>5, <1>6 DEF IdentityInv

\* A sample that leaves the entity on its track.
LEMMA StayIdentity ==
  ASSUME IdentityInv, RecordInv', NEW t \in Tracks, NEW e \in EntitiesOn(t), up,
         NEW s \in States, SetState(e, s),
         NEW who \in Entities \cup {Nobody}, support' = [support EXCEPT ![t] = who],
         s = "known" => who = e,
         NEW new \in Seq(Sample), OneStory(e, new),
         new # << >> => Enrolled(e) /\ s = "uncertain",
         contradiction' = [contradiction EXCEPT ![e] = new],
         UNCHANGED <<rows, faceName, env>>
  PROVE  IdentityInv'
<1>. USE NothingAssumption, SampleAssumption
<1>1. /\ e \in Entities /\ present[e].track = t /\ Present(e)
      /\ \A f \in Entities : present'[f].track = present[f].track
      /\ \A f \in Entities : present'[f].name = present[f].name
      /\ present'[e].state = s /\ present'[e].prov = "face"
      /\ \A f \in Entities \ {e} : present'[f] = present[f]
      /\ contradiction'[e] = new
      /\ \A f \in Entities \ {e} : contradiction'[f] = contradiction[f]
  BY SMTT(30) DEF EntitiesOn, SetState, IdentityInv, RecordInv, TypeOK, Info, Present
<1>2. TracksAreExclusive'
  <2>1. announced' = announced
    BY DEF env
  <2>2. \A f \in Entities : Present(f)' <=> Present(f)
    BY <1>1 DEF Present
  <2>3. \A f \in Entities : Present(f)' => present'[f].track \in announced'
    BY <1>1, <2>1, <2>2 DEF IdentityInv, RecordInv, TracksAreExclusive
  <2>4. \A f, g \in Entities :
          Present(f)' /\ present'[f].track = present'[g].track => f = g
    <3>. SUFFICES ASSUME NEW f \in Entities, NEW g \in Entities, Present(f)',
                         present'[f].track = present'[g].track
                  PROVE  f = g
      OBVIOUS
    <3>1. Present(f) /\ present[f].track = present[g].track
      BY <1>1, <2>2
    <3>. QED BY <3>1 DEF IdentityInv, RecordInv, TracksAreExclusive
  <2>. QED BY <2>3, <2>4 DEF TracksAreExclusive
<1>3. NameSupported'
  <2>. SUFFICES ASSUME NEW f \in Entities, Present(f)', LiveName(f)' # NoName
                PROVE  support'[present'[f].track] = f
    BY DEF NameSupported
  <2>1. CASE f = e
    <3>1. who = e
      BY <2>1, <1>1 DEF LiveName
    <3>. QED BY <2>1, <3>1, <1>1 DEF IdentityInv, RecordInv, TypeOK
  <2>2. CASE f # e
    <3>1. present'[f] = present[f] /\ Present(f) /\ LiveName(f) # NoName
      BY <1>1, <2>2 DEF Present, LiveName
    <3>2. present[f].track # t
      BY <1>1, <2>2 DEF IdentityInv, RecordInv, TracksAreExclusive
    <3>3. support'[present[f].track] = support[present[f].track]
      BY <3>1, <3>2 DEF IdentityInv, RecordInv, TypeOK, TracksAreExclusive
    <3>. QED BY <3>1, <3>3 DEF IdentityInv, RecordInv, NameSupported
  <2>. QED BY <2>1, <2>2
<1>4. ContradictionOpen'
  <2>. SUFFICES ASSUME NEW f \in Entities, contradiction'[f] # << >>
                PROVE  /\ Present(f)' /\ Enrolled(f)' /\ present'[f].state = "uncertain"
                       /\ OneStory(f, contradiction'[f])
    BY DEF ContradictionOpen, OneStory
  <2>1. CASE f = e
    BY <2>1, <1>1 DEF Present, Enrolled
  <2>2. CASE f # e
    BY <2>2, <1>1 DEF IdentityInv, RecordInv, ContradictionOpen, Present, Enrolled
  <2>. QED BY <2>1, <2>2
<1>. QED BY <1>2, <1>3, <1>4 DEF IdentityInv

\* A sample that hands the track to entity k: an enrolled one that is nowhere
\* else (n = its name, s = "known"), or a fresh one (n = NoName, s = "unknown").
LEMMA HandOverIdentity ==
  ASSUME IdentityInv, RecordInv', NEW t \in Tracks, NEW e \in EntitiesOn(t), up,
         NEW k \in Entities, k # e, ~Present(k),
         NEW s \in {"known", "unknown"},
         present' = [present EXCEPT ![e] = Absent,
                                    ![k] = Presented(present[e].track, faceName[k], s, "face")],
         NEW who \in Entities \cup {Nobody}, support' = [support EXCEPT ![t] = who],
         s = "known" => who = k,
         contradiction'[e] = << >>,
         \A f \in Entities \ {e} : contradiction'[f] = contradiction[f],
         UNCHANGED <<faceName, env>>
  PROVE  IdentityInv'
<1>. USE NothingAssumption, SampleAssumption
<1>1. /\ e \in Entities /\ present[e].track = t /\ Present(e)
      /\ present'[e] = Absent /\ Absent.track = NoTrack
      /\ present'[k] = Presented(t, faceName[k], s, "face")
      /\ \A f \in Entities \ {e, k} : present'[f] = present[f]
      /\ contradiction[k] = << >>
  <2>1. e \in Entities /\ present[e].track = t /\ DOMAIN present = Entities
    BY DEF EntitiesOn, IdentityInv, RecordInv, TypeOK
  <2>2. t # NoTrack /\ Absent.track = NoTrack
    BY DEF Absent
  <2>3. contradiction[k] = << >>
    BY DEF IdentityInv, ContradictionOpen
  <2>. QED BY <2>1, <2>2, <2>3 DEF Present
<1>2. /\ present'[k].track = t /\ present'[k].name = faceName[k]
      /\ present'[k].state = s /\ present'[k].prov = "face"
  <2>. DEFINE r == Presented(t, faceName[k], s, "face")
  <2>1. r.track = t /\ r.name = faceName[k] /\ r.state = s /\ r.prov = "face"
    BY DEF Presented
  <2>2. present'[k] = r
    BY <1>1
  <2>. HIDE DEF r
  <2>. QED BY <2>1, <2>2
<1>3. TracksAreExclusive'
  <2>1. announced' = announced
    BY DEF env
  <2>2. \A f \in Entities : Present(f)' <=> (Present(f) /\ f # e) \/ f = k
    BY <1>1, <1>2 DEF Present
  <2>3. \A f \in Entities \ {k} : Present(f)' => present'[f].track # t
    <3>. SUFFICES ASSUME NEW f \in Entities \ {k}, Present(f)'
                  PROVE  present'[f].track # t
      OBVIOUS
    <3>1. f # e /\ Present(f) /\ present'[f] = present[f]
      BY <2>2, <1>1
    <3>2. present[f].track = present[e].track => f = e
      BY <3>1, <1>1 DEF IdentityInv, RecordInv, TracksAreExclusive
    <3>. QED BY <3>1, <3>2, <1>1
  <2>4. t \in announced
    BY <1>1 DEF IdentityInv, RecordInv, TracksAreExclusive
  <2>5. \A f \in Entities : Present(f)' => present'[f].track \in announced
    BY <1>1, <1>2, <2>2, <2>4 DEF IdentityInv, RecordInv, TracksAreExclusive
  <2>6. ASSUME NEW f \in Entities, NEW g \in Entities, Present(f)', 
               present'[f].track = present'[g].track
        PROVE  f = g
    <3>1. Present(g)'
      BY <2>6 DEF Present
    <3>2. CASE f = k \/ g = k
      BY <3>1, <3>2, <2>3, <2>6, <1>2
    <3>3. CASE f # k /\ g # k
      <4>1. /\ present'[f] = present[f] /\ present'[g] = present[g] /\ Present(f)
        BY <3>1, <3>3, <2>2, <2>6, <1>1
      <4>. QED BY <4>1, <2>6 DEF IdentityInv, RecordInv, TracksAreExclusive
    <3>. QED BY <3>2, <3>3
  <2>. QED BY <2>1, <2>5, <2>6 DEF TracksAreExclusive
<1>4. NameSupported'
  <2>. SUFFICES ASSUME NEW f \in Entities, Present(f)', LiveName(f)' # NoName
                PROVE  support'[present'[f].track] = f
    BY DEF NameSupported
  <2>1. CASE f = k
    <3>1. who = k
      BY <2>1, <1>2 DEF LiveName
    <3>. QED BY <2>1, <3>1, <1>2 DEF IdentityInv, RecordInv, TypeOK
  <2>2. CASE f # k
    <3>1. f # e
      BY <1>1 DEF Present
    <3>2. present'[f] = present[f] /\ Present(f) /\ LiveName(f) # NoName
      BY <1>1, <2>2, <3>1 DEF Present, LiveName
    <3>3. present[f].track # t
      BY <1>1, <3>1 DEF IdentityInv, RecordInv, TracksAreExclusive
    <3>4. support'[present[f].track] = support[present[f].track]
      BY <3>2, <3>3 DEF IdentityInv, RecordInv, TypeOK, TracksAreExclusive
    <3>. QED BY <3>2, <3>4 DEF IdentityInv, RecordInv, NameSupported
  <2>. QED BY <2>1, <2>2
<1>5. ContradictionOpen'
  <2>. SUFFICES ASSUME NEW f \in Entities, contradiction'[f] # << >>
                PROVE  /\ Present(f)' /\ Enrolled(f)' /\ present'[f].state = "uncertain"
                       /\ OneStory(f, contradiction'[f])
    BY DEF ContradictionOpen, OneStory
  <2>1. f # e /\ f # k /\ contradiction'[f] = contradiction[f] /\ present'[f] = present[f]
    BY <1>1
  <2>. QED BY <2>1 DEF IdentityInv, RecordInv, ContradictionOpen, Present, Enrolled
<1>. QED BY <1>3, <1>4, <1>5 DEF IdentityInv

LEMMA FaceSampleIdentity ==
  ASSUME IdentityInv, RecordInv', NEW t \in Tracks, NEW q \in Looks, NEW confident \in BOOLEAN,
         FaceSample(t, q, confident)
  PROVE  IdentityInv'
<1>1. PICK e \in EntitiesOn(t), ev \in FaceEvidence(q) :
        /\ support' = [support EXCEPT ![t] = IF ev.quality = "known" THEN ev.who ELSE Nobody]
        /\ \/ AnonymousSample(e, q, ev)
           \/ BindAnonymous(e, ev)
           \/ Confirm(e, ev)
           \/ DifferentKnown(e, q, confident, ev)
           \/ RebindKnown(e, q, confident, ev)
           \/ UncertainFace(e, ev)
           \/ StrongNegative(e, q, confident, ev)
           \/ SplitKnown(e, q, confident, ev)
  BY DEF FaceSample
<1>. DEFINE who == IF ev.quality = "known" THEN ev.who ELSE Nobody
<1>2. up /\ UNCHANGED <<faceName, env>>
  BY DEF FaceSample
<1>3. /\ ev.quality \in {"known", "uncertain", "negative"}
      /\ ev.quality # "negative" =>
           ev.who \in Entities /\ Enrolled(ev.who) /\ ev.name = faceName[ev.who]
  BY EvidenceFacts DEF IdentityInv, RecordInv
<1>4. who \in Entities \cup {Nobody}
  BY <1>3
<1>5. /\ e \in Entities /\ present[e].track = t /\ Present(e)
      /\ contradiction[e] \in Seq(Sample) /\ OneStory(e, contradiction[e])
      /\ contradiction[e] # << >> => Enrolled(e)
      /\ present[e].name = faceName[e]
  <2>1. e \in Entities /\ present[e].track = t /\ Present(e)
    BY NothingAssumption DEF EntitiesOn, Present
  <2>2. OneStory(e, << >>)
    <3>1. 1..Len(<< >>) = {}
      OBVIOUS
    <3>. QED BY <3>1 DEF OneStory
  <2>. QED BY <2>1, <2>2 DEF IdentityInv, RecordInv, TypeOK, ContradictionOpen, NameIsOwn
<1>6. << >> \in Seq(Sample) /\ OneStory(e, << >>)
  <2>1. << >> \in Seq(Sample) /\ 1..Len(<< >>) = {}
    OBVIOUS
  <2>. QED BY <2>1 DEF OneStory
<1>7. \A k \in Entities : Enrolled(k) /\ k # e /\ ~ClaimedElsewhere(k, t) => ~Present(k)
  BY <1>5 DEF IdentityInv, TracksAreExclusive, ClaimedElsewhere
<1>8. CASE AnonymousSample(e, q, ev)
  <2>1. contradiction[e] = << >> /\ contradiction = [contradiction EXCEPT ![e] = << >>]
    BY <1>5, <1>8 DEF AnonymousSample, StayAnonymous, Enrolled, IdentityInv, RecordInv, TypeOK
  <2>2. contradiction' = [contradiction EXCEPT ![e] = << >>]
    BY <2>1, <1>8 DEF AnonymousSample, StayAnonymous
  <2>3. PICK s \in {"unknown", "uncertain"} : SetState(e, s)
    BY <1>8 DEF AnonymousSample, StayAnonymous
  <2>4. s \in States /\ s # "known"
    BY DEF States
  <2>5. rows' = rows
    BY <1>8 DEF AnonymousSample, StayAnonymous
  <2>. QED BY <1>1, <1>2, <1>4, <1>6, <2>2, <2>3, <2>4, <2>5, StayIdentity
<1>9. CASE BindAnonymous(e, ev)
  <2>1. ev.quality = "known" /\ ~Enrolled(e) /\ ~ClaimedElsewhere(ev.who, t)
    BY <1>5, <1>9 DEF BindAnonymous, Bind, Enrolled
  <2>2. ev.who \in Entities /\ Enrolled(ev.who) /\ ev.who # e /\ ~Present(ev.who)
    BY <1>3, <1>7, <2>1
  <2>3. /\ contradiction'[e] = << >>
        /\ \A f \in Entities \ {e} : contradiction'[f] = contradiction[f]
    BY <1>5, <1>6, <1>9 DEF BindAnonymous, Bind, IdentityInv, RecordInv, TypeOK
  <2>4. HandsOver(e, ev.who) /\ support' = [support EXCEPT ![t] = ev.who]
    BY <1>1, <1>3, <1>9, <2>1 DEF BindAnonymous, Bind, MoveTo, HandsOver
  <2>. QED BY <1>2, <2>2, <2>3, <2>4, HandOverIdentity DEF HandsOver
<1>10. CASE Confirm(e, ev)
  <2>1. ev.quality = "known" /\ ev.who = e /\ SetState(e, "known") /\ "known" \in States
    BY <1>10 DEF Confirm, States
  <2>2. contradiction' = [contradiction EXCEPT ![e] = << >>] /\ rows' = rows
    BY <1>10 DEF Confirm
  <2>3. support' = [support EXCEPT ![t] = e] /\ e \in Entities \cup {Nobody}
    BY <1>1, <1>5, <2>1
  <2>. QED BY <1>2, <1>6, <2>1, <2>2, <2>3, StayIdentity
<1>11. CASE DifferentKnown(e, q, confident, ev)
  <2>. DEFINE samples == AppendEvidence(e, ev.who, q, confident)
  <2>1. /\ ev.quality = "known" /\ ev.who # e /\ Enrolled(e)
        /\ SetState(e, "uncertain") /\ "uncertain" \in States
    BY <1>5, <1>11 DEF DifferentKnown, States, Enrolled
  <2>2. samples \in Seq(Sample) /\ OneStory(e, samples)
    BY <1>3, <1>5, <2>1, AppendEvidenceFacts DEF IdentityInv, RecordInv
  <2>3. contradiction' = [contradiction EXCEPT ![e] = samples] /\ rows' = rows
    BY <1>11 DEF DifferentKnown
  <2>. HIDE DEF samples, who
  <2>. QED BY <1>1, <1>2, <1>4, <2>1, <2>2, <2>3, StayIdentity DEF who
<1>12. CASE RebindKnown(e, q, confident, ev)
  <2>1. ev.quality = "known" /\ ev.who # e /\ ~ClaimedElsewhere(ev.who, t)
    BY <1>5, <1>12 DEF RebindKnown
  <2>2. ev.who \in Entities /\ Enrolled(ev.who) /\ ~Present(ev.who)
    BY <1>3, <1>7, <2>1
  <2>3. contradiction[ev.who] = << >>
    BY <2>2 DEF IdentityInv, ContradictionOpen
  <2>4. /\ contradiction'[e] = << >>
        /\ \A f \in Entities \ {e} : contradiction'[f] = contradiction[f]
    BY <1>5, <1>6, <1>12, <2>2, <2>3 DEF RebindKnown, IdentityInv, RecordInv, TypeOK
  <2>5. HandsOver(e, ev.who) /\ support' = [support EXCEPT ![t] = ev.who]
    BY <1>1, <1>3, <1>12, <2>1 DEF RebindKnown, MoveTo, HandsOver
  <2>. QED BY <1>2, <2>1, <2>2, <2>4, <2>5, HandOverIdentity DEF HandsOver
<1>13. CASE UncertainFace(e, ev)
  <2>1. SetState(e, "uncertain") /\ "uncertain" \in States
    BY <1>13 DEF UncertainFace, States
  <2>2. contradiction' = [contradiction EXCEPT ![e] = << >>] /\ rows' = rows
    BY <1>13 DEF UncertainFace
  <2>. QED BY <1>1, <1>2, <1>4, <1>6, <2>1, <2>2, StayIdentity
<1>14. CASE StrongNegative(e, q, confident, ev)
  <2>. DEFINE samples == AppendEvidence(e, Nobody, q, confident)
  <2>1. Enrolled(e) /\ SetState(e, "uncertain") /\ "uncertain" \in States
    BY <1>5, <1>14 DEF StrongNegative, States, Enrolled
  <2>2. samples \in Seq(Sample) /\ OneStory(e, samples)
    BY <1>5, NothingAssumption, AppendEvidenceFacts DEF IdentityInv, RecordInv
  <2>3. contradiction' = [contradiction EXCEPT ![e] = samples] /\ rows' = rows
    BY <1>14 DEF StrongNegative
  <2>. HIDE DEF samples, who
  <2>. QED BY <1>1, <1>2, <1>4, <2>1, <2>2, <2>3, StayIdentity DEF who
<1>15. CASE SplitKnown(e, q, confident, ev)
  <2>1. PICK n \in Entities \ rows :
          /\ present' = [present EXCEPT ![e] = Absent,
                                        ![n] = Presented(present[e].track, NoName, "unknown", "face")]
          /\ contradiction' = [contradiction EXCEPT ![e] = << >>]
    BY <1>15 DEF SplitKnown
  <2>2. ~Present(n) /\ faceName[n] = NoName /\ n # e
    BY <1>5, <2>1 DEF IdentityInv, RecordInv, FreshIsBlank, Enrolled
  <2>3. /\ contradiction'[e] = << >>
        /\ \A f \in Entities \ {e} : contradiction'[f] = contradiction[f]
    BY <1>5, <1>6, <2>1 DEF IdentityInv, RecordInv, TypeOK
  <2>. QED BY <1>1, <1>2, <1>4, <2>1, <2>2, <2>3, HandOverIdentity
<1>. QED BY <1>1, <1>8, <1>9, <1>10, <1>11, <1>12, <1>13, <1>14, <1>15

LEMMA EnrollPresentIdentity ==
  ASSUME IdentityInv, RecordInv', NEW e \in Entities, NEW n \in Names, NEW g \in Looks,
         EnrollPresent(e, n, g)
  PROVE  IdentityInv'
<1>. USE NothingAssumption, SampleAssumption
<1>. DEFINE t == present[e].track
<1>1. /\ up /\ Present(e) /\ ~Enrolled(e)
      /\ faceName' = [faceName EXCEPT ![e] = n]
      /\ faceLook' = [faceLook EXCEPT ![e] = g]
      /\ contradiction' = [contradiction EXCEPT ![e] = << >>]
      /\ support' = [support EXCEPT ![t] = e]
      /\ UNCHANGED <<rows, dbPresent, age, faceBuffer, env>>
  BY DEF EnrollPresent, IdentityInv, RecordInv, NameIsOwn, Enrolled
<1>2. /\ present'[e].track = t /\ present'[e].name = n /\ present'[e].prov = "face"
      /\ \A f \in Entities \ {e} : present'[f] = present[f]
  BY DEF EnrollPresent, IdentityInv, RecordInv, TypeOK, Info
<1>3. t \in announced /\ t \in Tracks
  BY <1>1 DEF IdentityInv, RecordInv, TracksAreExclusive, TypeOK
<1>4. contradiction[e] = << >> /\ contradiction' = contradiction
  BY <1>1 DEF IdentityInv, RecordInv, ContradictionOpen, TypeOK
<1>5. TracksAreExclusive'
  <2>1. announced' = announced
    BY <1>1 DEF env
  <2>2. \A f \in Entities : present'[f].track = present[f].track
    BY <1>2
  <2>3. \A f \in Entities : Present(f)' <=> Present(f)
    BY <2>2 DEF Present
  <2>4. \A f \in Entities : Present(f)' => present'[f].track \in announced'
    BY <2>1, <2>2, <2>3 DEF IdentityInv, RecordInv, TracksAreExclusive
  <2>5. \A f, h \in Entities :
          Present(f)' /\ present'[f].track = present'[h].track => f = h
    <3>. SUFFICES ASSUME NEW f \in Entities, NEW h \in Entities, Present(f)',
                         present'[f].track = present'[h].track
                  PROVE  f = h
      OBVIOUS
    <3>1. Present(f) /\ present[f].track = present[h].track
      BY <2>2, <2>3
    <3>. QED BY <3>1 DEF IdentityInv, RecordInv, TracksAreExclusive
  <2>. QED BY <2>4, <2>5 DEF TracksAreExclusive
<1>6. NameSupported'
  <2>. SUFFICES ASSUME NEW f \in Entities, Present(f)', LiveName(f)' # NoName
                PROVE  support'[present'[f].track] = f
    BY DEF NameSupported
  <2>1. CASE f = e
    BY <2>1, <1>1, <1>2, <1>3 DEF IdentityInv, RecordInv, TypeOK
  <2>2. CASE f # e
    <3>1. present'[f] = present[f] /\ Present(f) /\ LiveName(f) # NoName
      BY <1>2, <2>2 DEF Present, LiveName
    <3>2. present[f].track # t
      BY <3>1, <2>2 DEF IdentityInv, RecordInv, TracksAreExclusive
    <3>3. support'[present[f].track] = support[present[f].track]
      BY <1>1, <3>1, <3>2 DEF IdentityInv, RecordInv, TypeOK, TracksAreExclusive
    <3>. QED BY <3>1, <3>3 DEF IdentityInv, RecordInv, NameSupported
  <2>. QED BY <2>1, <2>2
<1>7. ContradictionOpen'
  <2>. SUFFICES ASSUME NEW f \in Entities, contradiction'[f] # << >>
                PROVE  /\ Present(f)' /\ Enrolled(f)' /\ present'[f].state = "uncertain"
                       /\ OneStory(f, contradiction'[f])
    BY DEF ContradictionOpen, OneStory
  <2>1. f # e /\ contradiction'[f] = contradiction[f] /\ present'[f] = present[f]
    BY <1>2, <1>4
  <2>. QED BY <1>1, <2>1 DEF IdentityInv, RecordInv, TypeOK, ContradictionOpen, Present, Enrolled
<1>. QED BY <1>5, <1>6, <1>7 DEF IdentityInv

LEMMA EnrollScriptIdentity ==
  ASSUME IdentityInv, RecordInv', NEW e \in Entities, NEW n \in Names, NEW g \in Looks,
         EnrollScript(e, n, g)
  PROVE  IdentityInv'
<1>. USE NothingAssumption, SampleAssumption
<1>1. /\ e \notin rows /\ rows' = rows \cup {e} /\ dbPresent' = {}
      /\ faceName' = [faceName EXCEPT ![e] = n]
      /\ faceLook' = [faceLook EXCEPT ![e] = g]
      /\ UNCHANGED <<age, present, faceBuffer, contradiction, live, up, announced, support>>
  BY DEF EnrollScript, hot, env
<1>2. ~Present(e) /\ contradiction[e] = << >>
  BY <1>1 DEF IdentityInv, RecordInv, FreshIsBlank, ContradictionOpen
<1>3. TracksAreExclusive' /\ NameSupported'
  BY <1>1 DEF IdentityInv, TracksAreExclusive, NameSupported, Present, LiveName
<1>4. ContradictionOpen'
  <2>. SUFFICES ASSUME NEW f \in Entities, contradiction'[f] # << >>
                PROVE  /\ Present(f)' /\ Enrolled(f)' /\ present'[f].state = "uncertain"
                       /\ OneStory(f, contradiction'[f])
    BY DEF ContradictionOpen, OneStory
  <2>1. f # e /\ contradiction'[f] = contradiction[f] /\ present'[f] = present[f]
    BY <1>1, <1>2
  <2>. QED BY <1>1, <2>1 DEF IdentityInv, RecordInv, TypeOK, ContradictionOpen, Present, Enrolled
<1>. QED BY <1>3, <1>4 DEF IdentityInv

LEMMA CrashIdentity == IdentityInv /\ RecordInv' /\ Crash => IdentityInv'
<1>1. Crash => \A e \in Entities : ~Present(e)' /\ contradiction'[e] = << >>
  BY DEF Crash, Present, Absent
<1>. QED BY <1>1 DEF IdentityInv, TracksAreExclusive, NameSupported, ContradictionOpen

\* The steps that change no presentation.
LEMMA QuietIdentity ==
  ASSUME IdentityInv, RecordInv',
         \/ \E t \in Tracks : TrackWhileDown(t)
         \/ Tick
         \/ Boot
         \/ UNCHANGED vars
  PROVE  IdentityInv'
<1>1. UNCHANGED <<faceName, present, contradiction, announced, support>>
  BY QuietFacts DEF IdentityInv
<1>2. TracksAreExclusive' /\ NameSupported'
  BY <1>1 DEF IdentityInv, TracksAreExclusive, NameSupported, Present, LiveName
<1>3. ContradictionOpen'
  <2>. SUFFICES ASSUME NEW f \in Entities, contradiction'[f] # << >>
                PROVE  /\ Present(f)' /\ Enrolled(f)' /\ present'[f].state = "uncertain"
                       /\ OneStory(f, contradiction'[f])
    BY DEF ContradictionOpen, OneStory
  <2>. QED BY <1>1 DEF IdentityInv, ContradictionOpen, Present, Enrolled
<1>. QED BY <1>2, <1>3 DEF IdentityInv

LEMMA NextIdentity ==
  ASSUME ~Redelivery, IdentityInv, [Next]_vars
  PROVE  IdentityInv'
<1>0. RecordInv'
  BY NextRecord DEF IdentityInv
<1>1. ASSUME NEW t \in Tracks, NewTrack(t) PROVE IdentityInv'
  BY <1>0, <1>1, NewTrackIdentity
<1>2. ASSUME NEW t \in Tracks, LostTrack(t) PROVE IdentityInv'
  BY <1>0, <1>2, LostTrackIdentity
<1>3. ASSUME NEW t \in Tracks, NEW q \in Looks, NEW confident \in BOOLEAN,
             FaceSample(t, q, confident)
      PROVE  IdentityInv'
  BY <1>0, <1>3, FaceSampleIdentity
<1>4. ASSUME NEW e \in Entities, NEW n \in Names, NEW g \in Looks, EnrollPresent(e, n, g)
      PROVE  IdentityInv'
  BY <1>0, <1>4, EnrollPresentIdentity
<1>5. ASSUME NEW e \in Entities, NEW n \in Names, NEW g \in Looks, EnrollScript(e, n, g)
      PROVE  IdentityInv'
  BY <1>0, <1>5, EnrollScriptIdentity
<1>6. CASE Crash
  BY <1>0, <1>6, CrashIdentity
<1>7. CASE (\E t \in Tracks : TrackWhileDown(t)) \/ Tick \/ Boot \/ UNCHANGED vars
  BY <1>0, <1>7, QuietIdentity
<1>. QED BY <1>1, <1>2, <1>3, <1>4, <1>5, <1>6, <1>7 DEF Next

-----------------------------------------------------------------------------
(* The theorems *)

\* Whatever the tracks do and the faces show, process crashes and scripts run
\* beside it included, identity state stays consistent as long as a new_track
\* is delivered once.
THEOREM IdentityIsConsistent == ~Redelivery /\ Spec => []IdentityInv
<1>. SUFFICES ASSUME ~Redelivery PROVE Spec => []IdentityInv
  OBVIOUS
<1>1. Init => IdentityInv
  BY InitIdentity
<1>2. IdentityInv /\ [Next]_vars => IdentityInv'
  BY NextIdentity
<1>. QED BY <1>1, <1>2, PTL DEF Spec

\* A name is shown only while the newest evidence on the track speaks for it.
THEOREM NamesAreSupported == ~Redelivery /\ Spec => []NameSupported
<1>1. IdentityInv => NameSupported
  BY DEF IdentityInv, RecordInv
<1>. QED BY <1>1, IdentityIsConsistent, PTL

\* Open contradictions suppress the name and never mix evidence.
THEOREM ContradictionsAreOpen == ~Redelivery /\ Spec => []ContradictionOpen
<1>1. IdentityInv => ContradictionOpen
  BY DEF IdentityInv, RecordInv
<1>. QED BY <1>1, IdentityIsConsistent, PTL

-----------------------------------------------------------------------------
(* Corrections *)

\* A buffer that reaches a count of two or more was of one candidate before.
LEMMA AppendEvidenceEarned ==
  ASSUME TypeOK, NEW e \in Entities, OneStory(e, contradiction[e]),
         NEW c \in Entities \cup {Nobody}, NEW q \in Looks, NEW confident \in BOOLEAN,
         NEW k \in Nat, k > 1, Len(AppendEvidence(e, c, q, confident)) >= k
  PROVE  /\ Len(contradiction[e]) + 1 >= k
         /\ \A i \in 1..Len(contradiction[e]) : contradiction[e][i].candidate = c
<1>. DEFINE s == [candidate |-> c, look |-> q]
            old == contradiction[e]
            new == Append(old, s)
<1>1. s \in Sample /\ old \in Seq(Sample)
  BY DEF TypeOK, Sample
<1>2. Len(<< >>) = 0 /\ Len(<< s >>) = 1
  BY <1>1
<1>3. confident /\ Consistent(e, c, q)
  BY <1>2 DEF AppendEvidence
<1>4. AppendEvidence(e, c, q, confident) = KeepLast(new, EvidenceCap)
  BY <1>3 DEF AppendEvidence
<1>5. new \in Seq(Sample) /\ Len(new) = Len(old) + 1 /\ Len(old) \in Nat
  BY <1>1
<1>6. Len(old) + 1 >= k
  <2>1. Len(KeepLast(new, EvidenceCap)) = Len(new) - Dropped(new, EvidenceCap)
        /\ Dropped(new, EvidenceCap) \in 0..Len(new)
    BY <1>5, EvidenceCapIsPositive, KeepLastFacts
  <2>. HIDE DEF new, old
  <2>. QED BY <1>4, <1>5, <2>1
<1>7. old[1].candidate = c
  BY <1>3 DEF Consistent
<1>8. \A i \in 1..Len(old) : 1 \in 1..Len(old) /\ old[i].candidate = old[1].candidate
  <2>1. \A i \in 1..Len(old) : 1 \in 1..Len(old)
    <3>. HIDE DEF old
    <3>. QED BY <1>5
  <2>. QED BY <2>1 DEF OneStory
<1>. QED BY <1>6, <1>7, <1>8

\* Somebody else gets the track of a named presentation.
TakesOver(n, e) ==
  Present(e) /\ Enrolled(e) /\ e # n /\ present'[n].track = present[e].track

LEMMA OnlySamplesTakeOver ==
  ASSUME IdentityInv, NEW e \in Entities, NEW n \in Entities, TakesOver(n, e),
         present'[n].track \in {NoTrack, present[n].track}
  PROVE  FALSE
BY DEF TakesOver, Present, IdentityInv, TracksAreExclusive

Earned(n, e) ==
  LET c == IF Enrolled(n) THEN n ELSE Nobody
      required == IF Enrolled(n) THEN DifferentKnownSamples ELSE StrongNegativeSamples
  IN /\ Len(contradiction[e]) + 1 >= required
     /\ \A i \in 1..Len(contradiction[e]) : contradiction[e][i].candidate = c

LEMMA SampleTakesOver ==
  ASSUME IdentityInv, DifferentKnownSamples > 1, StrongNegativeSamples > 1,
         NEW t \in Tracks, NEW q \in Looks, NEW confident \in BOOLEAN,
         FaceSample(t, q, confident),
         NEW e \in Entities, NEW n \in Entities, TakesOver(n, e)
  PROVE  Earned(n, e)
<1>1. PICK f \in EntitiesOn(t), ev \in FaceEvidence(q) :
        \/ AnonymousSample(f, q, ev)
        \/ BindAnonymous(f, ev)
        \/ Confirm(f, ev)
        \/ DifferentKnown(f, q, confident, ev)
        \/ RebindKnown(f, q, confident, ev)
        \/ UncertainFace(f, ev)
        \/ StrongNegative(f, q, confident, ev)
        \/ SplitKnown(f, q, confident, ev)
  BY DEF FaceSample
<1>2. /\ f \in Entities /\ present[f].track = t /\ Present(f)
      /\ present \in [Entities -> Info] /\ present[f].name = faceName[f]
  BY NothingAssumption DEF EntitiesOn, Present, IdentityInv, RecordInv, TypeOK, NameIsOwn
<1>3. /\ ev.quality \in {"known", "uncertain", "negative"}
      /\ ev.quality # "negative" =>
           ev.who \in Entities /\ Enrolled(ev.who) /\ ev.name = faceName[ev.who]
  BY EvidenceFacts DEF IdentityInv, RecordInv
<1>4. TypeOK /\ {DifferentKnownSamples, StrongNegativeSamples} \subseteq Nat
  BY SampleAssumption DEF IdentityInv, RecordInv
<1>5. OneStory(e, contradiction[e])
  <2>1. 1..Len(<< >>) = {}
    OBVIOUS
  <2>. QED BY <2>1 DEF IdentityInv, ContradictionOpen, OneStory
\* Whoever gets the track of f gets it from e.
<1>6. ASSUME NEW k \in Entities \ {f}, present'[f] = Absent,
             \A g \in Entities \ {f, k} : present'[g] = present[g]
      PROVE  n = k /\ (present'[k].track = t => e = f)
  <2>1. Absent.track = NoTrack
    BY DEF Absent
  <2>2. n = k
    BY <1>6, <2>1, OnlySamplesTakeOver
  <2>3. present'[k].track = t => e = f
    BY <1>2, <2>2 DEF TakesOver, IdentityInv, TracksAreExclusive
  <2>. QED BY <2>2, <2>3
<1>7. CASE \/ AnonymousSample(f, q, ev) \/ Confirm(f, ev)
           \/ DifferentKnown(f, q, confident, ev) \/ UncertainFace(f, ev)
           \/ StrongNegative(f, q, confident, ev)
  <2>1. PICK s \in States : SetState(f, s)
    BY <1>7 DEF AnonymousSample, StayAnonymous, Confirm, DifferentKnown, UncertainFace, StrongNegative, States
  <2>2. present'[n].track = present[n].track
    BY <1>2, <2>1 DEF SetState, Info
  <2>. QED BY <2>2, OnlySamplesTakeOver
<1>8. CASE BindAnonymous(f, ev) \/ RebindKnown(f, q, confident, ev)
  <2>. DEFINE k == ev.who
  <2>1. /\ ev.quality = "known" /\ HandsOver(f, k)
        /\ k \in Entities /\ Enrolled(k)
    BY <1>3, <1>8 DEF BindAnonymous, Bind, RebindKnown, MoveTo, HandsOver
  <2>2. k # f
    BY <1>2, <1>8, <2>1 DEF BindAnonymous, Bind, RebindKnown, Enrolled
  <2>. HIDE DEF k
  <2>3. /\ present'[f] = Absent /\ present'[k].track = t
        /\ \A g \in Entities \ {f, k} : present'[g] = present[g]
    BY <1>2, <2>1, <2>2 DEF HandsOver, Presented
  <2>4. n = k /\ e = f
    BY <1>6, <2>1, <2>2, <2>3
  <2>5. RebindKnown(e, q, confident, ev)
    BY <1>2, <1>8, <2>4 DEF BindAnonymous, Bind, TakesOver, Enrolled
  <2>6. Len(AppendEvidence(e, n, q, confident)) >= DifferentKnownSamples
    BY <2>4, <2>5 DEF RebindKnown, k
  <2>7. /\ Len(contradiction[e]) + 1 >= DifferentKnownSamples
        /\ \A i \in 1..Len(contradiction[e]) : contradiction[e][i].candidate = n
    BY <1>4, <1>5, <2>6, AppendEvidenceEarned
  <2>. QED BY <2>1, <2>4, <2>7 DEF Earned
<1>9. CASE SplitKnown(f, q, confident, ev)
  <2>1. PICK k \in Entities \ rows :
          present' = [present EXCEPT ![f] = Absent,
                                     ![k] = Presented(present[f].track, NoName, "unknown", "face")]
    BY <1>9 DEF SplitKnown
  <2>2. k \in Entities \ {f} /\ ~Enrolled(k)
    BY <1>2, <2>1 DEF IdentityInv, RecordInv, FreshIsBlank
  <2>3. /\ present'[f] = Absent /\ present'[k].track = t
        /\ \A g \in Entities \ {f, k} : present'[g] = present[g]
    BY <1>2, <2>1, <2>2 DEF Presented
  <2>4. n = k /\ e = f
    BY <1>6, <2>2, <2>3
  <2>5. Len(AppendEvidence(e, Nobody, q, confident)) >= StrongNegativeSamples
    BY <1>9, <2>4 DEF SplitKnown
  <2>6. /\ Len(contradiction[e]) + 1 >= StrongNegativeSamples
        /\ \A i \in 1..Len(contradiction[e]) : contradiction[e][i].candidate = Nobody
    BY <1>4, <1>5, <2>5, AppendEvidenceEarned
  <2>. QED BY <2>2, <2>4, <2>6 DEF Earned
<1>. QED BY <1>1, <1>7, <1>8, <1>9

LEMMA NextTakesOver ==
  ASSUME ~Redelivery, IdentityInv, DifferentKnownSamples > 1, StrongNegativeSamples > 1,
         [Next]_vars, NEW e \in Entities, NEW n \in Entities, TakesOver(n, e)
  PROVE  Earned(n, e)
<1>. DEFINE Same == present'[n].track \in {NoTrack, present[n].track}
<1>1. ASSUME NEW t \in Tracks, NewTrack(t) PROVE Same
  <2>1. PICK f \in Entities : PersonAppeared(t, f)
    BY <1>1 DEF NewTrack
  <2>2. /\ present'[f].track = t /\ \A g \in Entities \ {f} : present'[g] = present[g]
    BY <2>1 DEF PersonAppeared, Reappear, Arrive, Presented, IdentityInv, RecordInv, TypeOK
  <2>3. present[e].track # t
    BY <1>1 DEF NewTrack, TakesOver, IdentityInv, RecordInv, TypeOK, TracksAreExclusive
  <2>. QED BY <2>2, <2>3 DEF TakesOver
<1>2. ASSUME NEW t \in Tracks, LostTrack(t) PROVE Same
  <2>1. CASE present' = present
    BY <2>1
  <2>2. ASSUME NEW f \in EntitiesOn(t), PersonLeft(f) PROVE Same
    <3>1. f \in Entities /\ present' = [present EXCEPT ![f] = Absent] /\ Absent.track = NoTrack
      BY <2>2 DEF EntitiesOn, PersonLeft, Absent
    <3>2. present'[n] \in {present[n], Absent}
      BY <3>1 DEF IdentityInv, RecordInv, TypeOK
    <3>. QED BY <3>1, <3>2
  <2>. QED BY <1>2, <2>1, <2>2 DEF LostTrack
<1>3. ASSUME NEW t \in Tracks, NEW q \in Looks, NEW confident \in BOOLEAN,
             FaceSample(t, q, confident)
      PROVE  Earned(n, e)
  BY <1>3, SampleTakesOver
<1>4. ASSUME NEW f \in Entities, NEW a \in Names, NEW g \in Looks, EnrollPresent(f, a, g)
      PROVE  Same
  BY <1>4 DEF EnrollPresent, IdentityInv, RecordInv, TypeOK, Info
<1>5. ASSUME NEW f \in Entities, NEW a \in Names, NEW g \in Looks, EnrollScript(f, a, g)
      PROVE  Same
  BY <1>5 DEF EnrollScript, hot
<1>6. ASSUME Crash PROVE Same
  BY <1>6 DEF Crash, Absent
<1>7. ASSUME (\E t \in Tracks : TrackWhileDown(t)) \/ Tick \/ Boot \/ UNCHANGED vars
      PROVE  Same
  BY <1>7 DEF TrackWhileDown, Tick, Boot, vars, hot
<1>8. Same => Earned(n, e)
  BY OnlySamplesTakeOver
<1>. HIDE DEF Same
<1>. QED BY <1>1, <1>2, <1>3, <1>4, <1>5, <1>6, <1>7, <1>8 DEF Next

\* A named presentation passes to somebody else only on the configured number of
\* agreeing samples.  With a count of one there is nothing to agree with: the one
\* sample may follow a buffer of another candidate.
THEOREM CorrectionsAreEarned ==
  ~Redelivery /\ DifferentKnownSamples > 1 /\ StrongNegativeSamples > 1 /\ Spec
    => CorrectionIsEarned
<1>. SUFFICES ASSUME ~Redelivery, DifferentKnownSamples > 1, StrongNegativeSamples > 1
              PROVE  Spec => CorrectionIsEarned
  OBVIOUS
<1>1. IdentityInv /\ [Next]_vars
        => [\A e, n \in Entities :
              /\ Present(e) /\ Enrolled(e) /\ e # n
              /\ present'[n].track = present[e].track
              => LET c == IF Enrolled(n) THEN n ELSE Nobody
                     required == IF Enrolled(n) THEN DifferentKnownSamples
                                 ELSE StrongNegativeSamples
                 IN /\ Len(contradiction[e]) + 1 >= required
                    /\ \A i \in 1..Len(contradiction[e]) :
                         contradiction[e][i].candidate = c]_vars
  BY NextTakesOver DEF TakesOver, Earned
<1>. QED BY <1>1, IdentityIsConsistent, PTL DEF Spec, CorrectionIsEarned

-----------------------------------------------------------------------------
(* Presence: the hot dict, the database and the tracks of the camera *)

\* Every handled track still has a presentation.
TracksAreCovered == \A t \in announced : \E e \in Entities : present[e].track = t

PresenceInv ==
  /\ IdentityInv
  /\ TracksAreCovered
  /\ DatabaseAgrees

\* Track t stays with e, or goes over to k, which was nowhere; nobody else moves.
PassedOn(t, e, k) ==
  /\ present[e].track = t /\ present'[k].track = t
  /\ \A f \in Entities \ {e, k} : present'[f] = present[f]
  /\ \/ k = e /\ dbPresent' = dbPresent
     \/ /\ k # e /\ ~Present(k) /\ ~Present(e)'
        /\ dbPresent' = (dbPresent \ {e}) \cup {k}

LEMMA FaceSamplePassesOn ==
  ASSUME IdentityInv, NEW t \in Tracks, NEW q \in Looks, NEW confident \in BOOLEAN,
         FaceSample(t, q, confident)
  PROVE  \E e, k \in Entities : PassedOn(t, e, k)
<1>1. PICK e \in EntitiesOn(t), ev \in FaceEvidence(q) :
        \/ AnonymousSample(e, q, ev)
        \/ BindAnonymous(e, ev)
        \/ Confirm(e, ev)
        \/ DifferentKnown(e, q, confident, ev)
        \/ RebindKnown(e, q, confident, ev)
        \/ UncertainFace(e, ev)
        \/ StrongNegative(e, q, confident, ev)
        \/ SplitKnown(e, q, confident, ev)
  BY DEF FaceSample
<1>2. /\ e \in Entities /\ present[e].track = t /\ Present(e)
      /\ present \in [Entities -> Info] /\ present[e].name = faceName[e]
  BY NothingAssumption DEF EntitiesOn, Present, IdentityInv, RecordInv, TypeOK, NameIsOwn
<1>3. /\ ev.quality \in {"known", "uncertain", "negative"}
      /\ ev.quality # "negative" =>
           ev.who \in Entities /\ Enrolled(ev.who) /\ ev.name = faceName[ev.who]
  BY EvidenceFacts DEF IdentityInv, RecordInv
<1>4. \A s \in States : SetState(e, s) /\ dbPresent' = dbPresent => PassedOn(t, e, e)
  BY <1>2 DEF SetState, PassedOn, Info
<1>5. \A k \in Entities \ {e} :
        /\ ~Present(k) /\ present'[k].track = t /\ present'[e] = Absent
        /\ \A f \in Entities \ {e, k} : present'[f] = present[f]
        /\ dbPresent' = (dbPresent \ {e}) \cup {k}
        => PassedOn(t, e, k)
  BY <1>2 DEF PassedOn, Present, Absent
<1>6. CASE \/ AnonymousSample(e, q, ev) \/ Confirm(e, ev)
           \/ DifferentKnown(e, q, confident, ev) \/ UncertainFace(e, ev)
           \/ StrongNegative(e, q, confident, ev)
  <2>1. dbPresent' = dbPresent /\ \E s \in States : SetState(e, s)
    BY <1>6 DEF AnonymousSample, StayAnonymous, Confirm, DifferentKnown, UncertainFace, StrongNegative, States
  <2>. QED BY <1>2, <1>4, <2>1
<1>7. CASE BindAnonymous(e, ev) \/ RebindKnown(e, q, confident, ev)
  <2>1. /\ ev.quality = "known" /\ ~ClaimedElsewhere(ev.who, t)
        /\ HandsOver(e, ev.who) /\ dbPresent' = (dbPresent \ {e}) \cup {ev.who}
    BY <1>2, <1>3, <1>7 DEF BindAnonymous, Bind, RebindKnown, MoveTo, HandsOver
  <2>2. ev.who \in Entities \ {e}
    BY <1>2, <1>3, <1>7 DEF BindAnonymous, Bind, RebindKnown, Enrolled
  <2>3. ~Present(ev.who)
    BY <1>2, <2>1, <2>2 DEF IdentityInv, RecordInv, TracksAreExclusive, ClaimedElsewhere
  <2>4. /\ present'[ev.who].track = t /\ present'[e] = Absent
        /\ \A f \in Entities \ {e, ev.who} : present'[f] = present[f]
    BY <1>2, <2>1, <2>2 DEF HandsOver, Presented
  <2>. QED BY <1>2, <1>5, <2>1, <2>2, <2>3, <2>4
<1>8. CASE SplitKnown(e, q, confident, ev)
  <2>1. PICK n \in Entities \ rows :
          /\ present' = [present EXCEPT ![e] = Absent,
                                        ![n] = Presented(present[e].track, NoName, "unknown", "face")]
          /\ dbPresent' = (dbPresent \ {e}) \cup {n}
    BY <1>8 DEF SplitKnown
  <2>2. ~Present(n) /\ n \in Entities \ {e}
    BY <1>2, <2>1 DEF IdentityInv, RecordInv, FreshIsBlank
  <2>3. /\ present'[n].track = t /\ present'[e] = Absent
        /\ \A f \in Entities \ {e, n} : present'[f] = present[f]
    BY <1>2, <2>1, <2>2 DEF Presented
  <2>. QED BY <1>2, <1>5, <2>1, <2>2, <2>3
<1>. QED BY <1>1, <1>6, <1>7, <1>8

LEMMA NextPresence ==
  ASSUME ~Redelivery, ~LiveEnrollment, PresenceInv, [Next]_vars
  PROVE  /\ PresenceInv'
         /\ \A e \in Entities :
              Present(e) /\ Present(e)' => present'[e].track = present[e].track
<1>. USE NothingAssumption
<1>. DEFINE Stays == \A e \in Entities :
                       Present(e) /\ Present(e)' => present'[e].track = present[e].track
<1>0. IdentityInv /\ IdentityInv'
  BY NextIdentity DEF PresenceInv
<1>a. SUFFICES TracksAreCovered' /\ DatabaseAgrees' /\ Stays
  BY <1>0 DEF PresenceInv
<1>. HIDE DEF Stays
<1>1. ASSUME NEW t \in Tracks, NewTrack(t)
      PROVE  TracksAreCovered' /\ DatabaseAgrees' /\ Stays
  <2>1. PICK e \in Entities : PersonAppeared(t, e)
    BY <1>1 DEF NewTrack
  <2>2. /\ up /\ up' /\ dbPresent' = dbPresent \cup {e} /\ announced' = announced \cup {t}
        /\ present'[e].track = t /\ \A f \in Entities \ {e} : present'[f] = present[f]
    BY <1>1, <2>1, <1>0 DEF NewTrack, PersonAppeared, Reappear, Arrive, Presented, IdentityInv, RecordInv, TypeOK
  <2>3. ~Present(e)
    BY <2>1, <2>2 DEF PersonAppeared, Reappear, Arrive, MostRecent, Reusable, PresenceInv,
                      DatabaseAgrees, IdentityInv, RecordInv, FreshIsBlank
  <2>4. TracksAreCovered'
    BY <2>2, <2>3, ZenonT(30) DEF PresenceInv, TracksAreCovered, Present, IdentityInv, RecordInv, TypeOK
  <2>5. DatabaseAgrees'
    BY <2>2 DEF PresenceInv, DatabaseAgrees, Present
  <2>. QED BY <2>2, <2>3, <2>4, <2>5 DEF Stays
<1>2. ASSUME NEW t \in Tracks, LostTrack(t)
      PROVE  TracksAreCovered' /\ DatabaseAgrees' /\ Stays
  <2>1. up /\ announced' = announced \ {t} /\ up' = up
    BY <1>2 DEF LostTrack
  <2>2. CASE EntitiesOn(t) = {} /\ UNCHANGED <<present, dbPresent, age, contradiction>>
    BY <2>1, <2>2 DEF PresenceInv, TracksAreCovered, DatabaseAgrees, Present, Stays
  <2>3. ASSUME NEW e \in EntitiesOn(t), PersonLeft(e)
        PROVE  TracksAreCovered' /\ DatabaseAgrees' /\ Stays
    <3>1. /\ e \in Entities /\ present[e].track = t /\ present'[e].track = NoTrack
          /\ \A f \in Entities \ {e} : present'[f] = present[f]
          /\ dbPresent' = dbPresent \ {e}
      BY <2>3, <1>0 DEF EntitiesOn, PersonLeft, Absent, IdentityInv, RecordInv, TypeOK
    <3>2. TracksAreCovered'
      BY <2>1, <3>1 DEF PresenceInv, TracksAreCovered
    <3>3. DatabaseAgrees'
      BY <2>1, <3>1 DEF PresenceInv, DatabaseAgrees, Present
    <3>. QED BY <3>1, <3>2, <3>3 DEF Stays, Present
  <2>. QED BY <1>2, <2>2, <2>3 DEF LostTrack
<1>3. ASSUME NEW t \in Tracks, NEW q \in Looks, NEW confident \in BOOLEAN,
             FaceSample(t, q, confident)
      PROVE  TracksAreCovered' /\ DatabaseAgrees' /\ Stays
  <2>1. PICK e, k \in Entities : PassedOn(t, e, k)
    BY <1>0, <1>3, FaceSamplePassesOn
  <2>2. up' = up /\ announced' = announced
    BY <1>3 DEF FaceSample, env
  <2>3. Present(e) /\ Present(k)'
    BY <2>1 DEF PassedOn, Present
  <2>4. TracksAreCovered'
    BY <2>1, <2>2 DEF PassedOn, PresenceInv, TracksAreCovered, Present
  <2>5. DatabaseAgrees'
    BY <2>1, <2>2, <2>3 DEF PassedOn, PresenceInv, DatabaseAgrees, Present
  <2>. QED BY <2>1, <2>3, <2>4, <2>5 DEF PassedOn, Stays
<1>4. ASSUME NEW e \in Entities, NEW n \in Names, NEW g \in Looks, EnrollPresent(e, n, g)
      PROVE  TracksAreCovered' /\ DatabaseAgrees' /\ Stays
  <2>1. UNCHANGED <<dbPresent, up, announced>>
    BY <1>4 DEF EnrollPresent, env
  <2>2. \A f \in Entities : present'[f].track = present[f].track
    BY <1>4, <1>0 DEF EnrollPresent, IdentityInv, RecordInv, TypeOK, Info
  <2>. QED BY <2>1, <2>2 DEF PresenceInv, TracksAreCovered, DatabaseAgrees, Present, Stays
<1>5. ASSUME NEW e \in Entities, NEW n \in Names, NEW g \in Looks, EnrollScript(e, n, g)
      PROVE  TracksAreCovered' /\ DatabaseAgrees' /\ Stays
  BY <1>5 DEF EnrollScript, hot, env, PresenceInv, TracksAreCovered, DatabaseAgrees, Present, Stays
<1>6. CASE Crash
  <2>1. \A e \in Entities : ~Present(e)'
    BY <1>6 DEF Crash, Present, Absent
  <2>. QED BY <1>6, <2>1 DEF Crash, TracksAreCovered, DatabaseAgrees, Stays
<1>7. CASE Boot
  BY <1>7 DEF Boot, hot, PresenceInv, IdentityInv, RecordInv, DownIsEmpty, TracksAreCovered,
              DatabaseAgrees, Present, Stays
<1>8. CASE (\E t \in Tracks : TrackWhileDown(t)) \/ Tick \/ UNCHANGED vars
  BY <1>8 DEF TrackWhileDown, Tick, vars, durable, hot, env, PresenceInv, TracksAreCovered,
              DatabaseAgrees, Present, Stays
<1>. QED BY <1>1, <1>2, <1>3, <1>4, <1>5, <1>6, <1>7, <1>8 DEF Next

LEMMA PresenceIsConsistent == ~Redelivery /\ ~LiveEnrollment /\ Spec => []PresenceInv
<1>. SUFFICES ASSUME ~Redelivery, ~LiveEnrollment PROVE Spec => []PresenceInv
  OBVIOUS
<1>1. Init => PresenceInv
  BY InitIdentity DEF Init, PresenceInv, TracksAreCovered, DatabaseAgrees, Present, Absent
<1>2. PresenceInv /\ [Next]_vars => PresenceInv'
  BY NextPresence
<1>. QED BY <1>1, <1>2, PTL DEF Spec

\* Every track the process was told about is exactly one entity's.
THEOREM TracksHaveOnePresentation ==
  ~Redelivery /\ ~LiveEnrollment /\ Spec => []OnePresentationPerTrack
<1>1. ASSUME PresenceInv PROVE OnePresentationPerTrack
  <2>1. ASSUME NEW t \in announced PROVE \E e \in Entities : EntitiesOn(t) = {e}
    <3>1. PICK e \in Entities : present[e].track = t
      BY <1>1 DEF PresenceInv, TracksAreCovered
    <3>2. t # NoTrack
      BY <1>1, NothingAssumption DEF PresenceInv, IdentityInv, RecordInv, TypeOK
    <3>3. EntitiesOn(t) = {e}
      BY <1>1, <3>1, <3>2 DEF EntitiesOn, PresenceInv, IdentityInv, TracksAreExclusive, Present
    <3>. QED BY <3>3
  <2>. QED BY <1>1, <2>1 DEF OnePresentationPerTrack, PresenceInv, IdentityInv, TracksAreExclusive
<1>. QED BY <1>1, PresenceIsConsistent, PTL

\* The running process and its database agree on who is there.
THEOREM PresenceAgrees ==
  ~Redelivery /\ ~LiveEnrollment /\ Spec => []DatabaseAgrees
<1>1. PresenceInv => DatabaseAgrees
  BY DEF PresenceInv
<1>. QED BY <1>1, PresenceIsConsistent, PTL

\* Evidence on one track never moves a person who is live on another.
THEOREM EntitiesKeepTheirTrack ==
  ~Redelivery /\ ~LiveEnrollment /\ Spec => EntityKeepsItsTrack
<1>. SUFFICES ASSUME ~Redelivery, ~LiveEnrollment PROVE Spec => EntityKeepsItsTrack
  OBVIOUS
<1>1. PresenceInv /\ [Next]_vars
        => [\A e \in Entities :
              Present(e) /\ Present(e)' => present'[e].track = present[e].track]_vars
  BY NextPresence
<1>2. Spec => []PresenceInv
  BY PresenceIsConsistent
<1>. QED BY <1>1, <1>2, PTL DEF Spec, EntityKeepsItsTrack
-----------------------------------------------------------------------------
(* WorldModel implements Presence *)

\* The abstract variables, in terms of the world model's.
Where == [e \in Entities |-> present[e].track]
Shown == {e \in Entities : Present(e) /\ LiveName(e) # NoName}

-----------------------------------------------------------------------------
(* Refinement: one lemma per shape of a step *)

LEMMA AppearShape ==
  ASSUME PresenceInv, ~Redelivery, NEW t \in Tracks, NewTrack(t)
  PROVE  \E e \in Entities : Abstract!Appear(t, e)
<1>. USE NothingAssumption
<1>1. PICK e \in Entities : PersonAppeared(t, e)
  BY DEF NewTrack
<1>2. /\ UNCHANGED faceName /\ up /\ t \notin live
      /\ present'[e].track = t /\ present'[e].name = NoName
      /\ present' = [present EXCEPT ![e] = present'[e]]
      /\ e \notin dbPresent \/ e \notin rows
      /\ rows' = rows \cup {e} /\ ~Enrolled(e)
  BY <1>1 DEF NewTrack, PersonAppeared, Reappear, Arrive, MostRecent, Reusable, Presented,
              PresenceInv, IdentityInv, RecordInv, TypeOK, FreshIsBlank
<1>3. ~Present(e)
  BY <1>2 DEF PresenceInv, DatabaseAgrees, IdentityInv, RecordInv, FreshIsBlank
<1>4. \A f \in Entities : present[f].track # t
  BY <1>2 DEF PresenceInv, IdentityInv, RecordInv, TypeOK, TracksAreExclusive, Present
<1>5. Where' = [Where EXCEPT ![e] = t]
  BY <1>2 DEF Where, PresenceInv, IdentityInv, RecordInv, TypeOK
<1>6. Shown' = Shown
  BY <1>2, <1>3 DEF Shown, Present, LiveName, PresenceInv, IdentityInv, RecordInv, TypeOK
<1>7. Enrollments' = Enrollments /\ e \notin Enrollments
  BY <1>2 DEF Enrollments, Enrolled
<1>. QED BY <1>2, <1>3, <1>4, <1>5, <1>6, <1>7
         DEF Abstract!Appear, Abstract!Free, Abstract!Here, Where, Shown, Present

LEMMA LeaveShape ==
  ASSUME PresenceInv, NEW t \in Tracks, LostTrack(t)
  PROVE  (\E e \in Entities : Abstract!Leave(e))
         \/ UNCHANGED <<Where, Shown, Enrollments, rows>>
<1>. USE NothingAssumption
<1>1. UNCHANGED <<rows, faceName>>
  BY DEF LostTrack
<1>2. Enrollments' = Enrollments
  BY <1>1 DEF Enrollments, Enrolled
<1>3. CASE present' = present
  BY <1>1, <1>2, <1>3 DEF Where, Shown, Present, LiveName
<1>4. ASSUME NEW e \in EntitiesOn(t), PersonLeft(e)
      PROVE  \E f \in Entities : Abstract!Leave(f)
  <2>1. /\ e \in Entities /\ Present(e)
        /\ present' = [present EXCEPT ![e] = Absent]
    BY <1>4 DEF EntitiesOn, PersonLeft, Present
  <2>2. Where' = [Where EXCEPT ![e] = NoTrack]
    BY <2>1 DEF Where, Absent, PresenceInv, IdentityInv, RecordInv, TypeOK
  <2>3. Shown' = Shown \ {e}
    BY <2>1 DEF Shown, Present, LiveName, Absent, PresenceInv, IdentityInv, RecordInv, TypeOK
  <2>. QED BY <1>1, <1>2, <2>1, <2>2, <2>3
           DEF Abstract!Leave, Abstract!Here, Where, Shown, Present
<1>. QED BY <1>3, <1>4 DEF LostTrack

\* A sample that leaves the presentation where it is shows or hides the name.
LEMMA StateShape ==
  ASSUME PresenceInv, NEW e \in Entities, Present(e), NEW s \in States, SetState(e, s),
         s = "known" => Enrolled(e), UNCHANGED <<rows, faceName>>
  PROVE  Abstract!Show(e) \/ Abstract!Hide(e)
<1>. USE NothingAssumption
<1>1. /\ present' = [present EXCEPT ![e].state = s, ![e].prov = "face"]
      /\ present \in [Entities -> Info] /\ present[e].name = faceName[e]
  BY DEF SetState, PresenceInv, IdentityInv, RecordInv, TypeOK, NameIsOwn
<1>2. /\ \A f \in Entities : present'[f].track = present[f].track /\ present'[f].name = present[f].name
      /\ present'[e].state = s /\ present'[e].prov = "face"
      /\ \A f \in Entities \ {e} : present'[f] = present[f]
  BY <1>1 DEF Info
<1>3. Where' = Where
  BY <1>2 DEF Where
<1>4. Enrollments' = Enrollments
  BY DEF Enrollments, Enrolled
<1>5. CASE s = "known"
  <2>1. Shown' = Shown \cup {e}
    BY <1>1, <1>2, <1>5 DEF Shown, Present, LiveName, Enrolled
  <2>2. e \in Enrollments
    BY <1>5 DEF Enrollments
  <2>. QED BY <1>3, <1>4, <2>1, <2>2 DEF Abstract!Show, Abstract!Here, Where, Shown, Present
<1>6. CASE s # "known"
  <2>1. Shown' = Shown \ {e}
    BY <1>1, <1>2, <1>6 DEF Shown, Present, LiveName
  <2>. QED BY <1>3, <1>4, <2>1 DEF Abstract!Hide, Abstract!Here, Where, Shown, Present
<1>. QED BY <1>5, <1>6

LEMMA FaceShape ==
  ASSUME PresenceInv, NEW t \in Tracks, NEW q \in Looks, NEW confident \in BOOLEAN,
         FaceSample(t, q, confident)
  PROVE  \/ \E e \in Entities : Abstract!Show(e) \/ Abstract!Hide(e)
         \/ \E e, k \in Entities : Abstract!Recognize(e, k) \/ Abstract!Split(e, k)
<1>. USE NothingAssumption
<1>1. PICK e \in EntitiesOn(t), ev \in FaceEvidence(q) :
        \/ AnonymousSample(e, q, ev)
        \/ BindAnonymous(e, ev)
        \/ Confirm(e, ev)
        \/ DifferentKnown(e, q, confident, ev)
        \/ RebindKnown(e, q, confident, ev)
        \/ UncertainFace(e, ev)
        \/ StrongNegative(e, q, confident, ev)
        \/ SplitKnown(e, q, confident, ev)
  BY DEF FaceSample
<1>2. /\ e \in Entities /\ present[e].track = t /\ Present(e)
      /\ present \in [Entities -> Info] /\ present[e].name = faceName[e]
      /\ faceName \in [Entities -> Names \cup {NoName}]
  BY DEF EntitiesOn, Present, PresenceInv, IdentityInv, RecordInv, TypeOK, NameIsOwn
<1>3. /\ ev.quality \in {"known", "uncertain", "negative"}
      /\ ev.quality # "negative" =>
           ev.who \in Entities /\ Enrolled(ev.who) /\ ev.name = faceName[ev.who]
  BY EvidenceFacts DEF PresenceInv, IdentityInv, RecordInv
<1>4. UNCHANGED faceName /\ Enrollments' = Enrollments
  BY DEF FaceSample, Enrollments, Enrolled
<1>5. CASE \/ AnonymousSample(e, q, ev) \/ Confirm(e, ev)
           \/ DifferentKnown(e, q, confident, ev) \/ UncertainFace(e, ev)
           \/ StrongNegative(e, q, confident, ev)
  <2>1. /\ rows' = rows
        /\ \E s \in States : SetState(e, s) /\ (s = "known" => Enrolled(e))
    BY <1>2, <1>5 DEF AnonymousSample, StayAnonymous, Confirm, DifferentKnown, UncertainFace, StrongNegative,
                      States, Enrolled
  <2>. QED BY <1>2, <1>4, <2>1, StateShape
<1>6. CASE BindAnonymous(e, ev) \/ RebindKnown(e, q, confident, ev)
  <2>. DEFINE k == ev.who
  <2>1. /\ ev.quality = "known" /\ ~ClaimedElsewhere(k, t) /\ HandsOver(e, k) /\ rows' = rows
    BY <1>2, <1>3, <1>6 DEF BindAnonymous, Bind, RebindKnown, MoveTo, HandsOver
  <2>2. k \in Entities \ {e} /\ Enrolled(k) /\ faceName[k] # NoName
    BY <1>2, <1>3, <1>6 DEF BindAnonymous, Bind, RebindKnown, Enrolled
  <2>. HIDE DEF k
  <2>3. ~Present(k)
    BY <1>2, <2>1, <2>2 DEF PresenceInv, IdentityInv, RecordInv, TracksAreExclusive, ClaimedElsewhere
  <2>4. present' = [present EXCEPT ![e] = Absent, ![k] = Presented(t, faceName[k], "known", "face")]
    BY <1>2, <2>1 DEF HandsOver
  <2>5. Where' = [Where EXCEPT ![e] = NoTrack, ![k] = Where[e]]
    BY <1>2, <2>2, <2>4 DEF Where, Absent, Presented
  <2>6. Shown' = (Shown \ {e}) \cup {k}
    <3>1. present'[k] = Presented(t, faceName[k], "known", "face") /\ present'[e] = Absent
      BY <1>2, <2>2, <2>4
    <3>2. \A f \in Entities \ {e, k} : present'[f] = present[f]
      BY <1>2, <2>2, <2>4
    <3>3. t # NoTrack
      BY <1>2 DEF Present
    <3>. QED BY <2>2, <3>1, <3>2, <3>3 DEF Shown, Present, LiveName, Absent, Presented
  <2>7. Abstract!Recognize(e, k)
    BY <1>2, <1>4, <2>1, <2>2, <2>3, <2>5, <2>6
       DEF Abstract!Recognize, Abstract!PassOn, Abstract!Here, Where, Shown, Present, Enrollments
  <2>. QED BY <1>2, <2>2, <2>7
<1>7. CASE SplitKnown(e, q, confident, ev)
  <2>1. PICK n \in Entities \ rows :
          /\ rows' = rows \cup {n}
          /\ present' = [present EXCEPT ![e] = Absent,
                                        ![n] = Presented(present[e].track, NoName, "unknown", "face")]
    BY <1>7 DEF SplitKnown
  <2>2. ~Present(n) /\ n \in Entities \ {e} /\ Enrolled(e)
    BY <1>2, <1>7, <2>1 DEF SplitKnown, PresenceInv, IdentityInv, RecordInv, FreshIsBlank, Enrolled
  <2>3. Where' = [Where EXCEPT ![e] = NoTrack, ![n] = Where[e]]
    BY <1>2, <2>1, <2>2 DEF Where, Absent, Presented
  <2>4. Shown' = Shown \ {e}
    BY <1>2, <2>1, <2>2 DEF Shown, Present, LiveName, Absent, Presented
  <2>5. Abstract!Split(e, n)
    BY <1>2, <1>4, <2>1, <2>2, <2>3, <2>4
       DEF Abstract!Split, Abstract!PassOn, Abstract!Here, Where, Shown, Present, Enrollments
  <2>. QED BY <1>2, <2>2, <2>5
<1>. QED BY <1>1, <1>5, <1>6, <1>7

LEMMA EnrollShape ==
  ASSUME PresenceInv, NEW e \in Entities, NEW n \in Names, NEW g \in Looks,
         EnrollPresent(e, n, g)
  PROVE  Abstract!Enroll(e)
<1>. USE NothingAssumption
<1>1. /\ Present(e) /\ present[e].name = NoName
      /\ faceName' = [faceName EXCEPT ![e] = n]
      /\ present' = [present EXCEPT ![e].name = n, ![e].state = "known", ![e].prov = "face"]
      /\ rows' = rows
      /\ present \in [Entities -> Info] /\ present[e].name = faceName[e]
      /\ faceName \in [Entities -> Names \cup {NoName}]
  BY DEF EnrollPresent, PresenceInv, IdentityInv, RecordInv, TypeOK, NameIsOwn
<1>2. /\ \A f \in Entities : present'[f].track = present[f].track
      /\ present'[e].name = n /\ present'[e].state = "known" /\ present'[e].prov = "face"
      /\ \A f \in Entities \ {e} : present'[f] = present[f]
  BY <1>1 DEF Info
<1>3. Where' = Where
  BY <1>2 DEF Where
<1>4. Shown' = Shown \cup {e}
  BY <1>1, <1>2 DEF Shown, Present, LiveName
<1>5. Enrollments' = Enrollments \cup {e} /\ e \notin Enrollments
  BY <1>1 DEF Enrollments, Enrolled
<1>. QED BY <1>1, <1>3, <1>4, <1>5 DEF Abstract!Enroll, Abstract!Here, Where, Shown, Present

LEMMA ScriptShape ==
  ASSUME PresenceInv, NEW n \in Entities, NEW a \in Names, NEW g \in Looks,
         EnrollScript(n, a, g)
  PROVE  Abstract!EnrollAbsent(n)
<1>. USE NothingAssumption
<1>1. /\ n \notin rows /\ rows' = rows \cup {n} /\ present' = present
      /\ faceName' = [faceName EXCEPT ![n] = a]
      /\ faceName \in [Entities -> Names \cup {NoName}]
  BY DEF EnrollScript, hot, PresenceInv, IdentityInv, RecordInv, TypeOK
<1>2. Where' = Where /\ Shown' = Shown
  BY <1>1 DEF Where, Shown, Present, LiveName
<1>3. Enrollments' = Enrollments \cup {n}
  BY <1>1 DEF Enrollments, Enrolled
<1>. QED BY <1>1, <1>2, <1>3 DEF Abstract!EnrollAbsent, Where, Shown

LEMMA CrashShape == Crash => Abstract!Forget
<1>. SUFFICES ASSUME Crash PROVE Abstract!Forget
  OBVIOUS
<1>1. UNCHANGED <<rows, faceName>> /\ present' = [e \in Entities |-> Absent]
  BY DEF Crash, durable
<1>2. Where' = [e \in Entities |-> NoTrack]
  BY <1>1 DEF Where, Absent
<1>3. Shown' = {}
  BY <1>1 DEF Shown, Present, Absent
<1>4. Enrollments' = Enrollments
  BY <1>1 DEF Enrollments, Enrolled
<1>. QED BY <1>1, <1>2, <1>3, <1>4 DEF Abstract!Forget, Where, Shown

LEMMA QuietShape ==
  ASSUME (\E t \in Tracks : TrackWhileDown(t)) \/ Tick \/ Boot \/ UNCHANGED vars
  PROVE  UNCHANGED <<Where, Shown, Enrollments, rows>>
<1>1. UNCHANGED <<present, faceName, rows>>
  BY DEF TrackWhileDown, Tick, Boot, vars, durable, hot
<1>. QED BY <1>1 DEF Where, Shown, Present, LiveName, Enrollments, Enrolled

-----------------------------------------------------------------------------
(* Refinement: the theorem *)

\* Every step of the world model is a step of Presence, or none.
LEMMA StepRefines ==
  ASSUME ~Redelivery, PresenceInv, [Next]_vars
  PROVE  Abstract!PresenceNext \/ UNCHANGED <<Where, Shown, Enrollments, rows>>
<1>1. ASSUME NEW t \in Tracks, NewTrack(t) PROVE Abstract!PresenceNext
  BY <1>1, AppearShape DEF Abstract!PresenceNext
<1>2. ASSUME NEW t \in Tracks, LostTrack(t)
      PROVE  Abstract!PresenceNext \/ UNCHANGED <<Where, Shown, Enrollments, rows>>
  BY <1>2, LeaveShape DEF Abstract!PresenceNext
<1>3. ASSUME NEW t \in Tracks, NEW q \in Looks, NEW confident \in BOOLEAN,
             FaceSample(t, q, confident)
      PROVE  Abstract!PresenceNext
  BY <1>3, FaceShape DEF Abstract!PresenceNext
<1>4. ASSUME NEW e \in Entities, NEW n \in Names, NEW g \in Looks,
             EnrollPresent(e, n, g) \/ EnrollScript(e, n, g)
      PROVE  Abstract!PresenceNext
  BY <1>4, EnrollShape, ScriptShape DEF Abstract!PresenceNext
<1>5. CASE Crash
  BY <1>5, CrashShape DEF Abstract!PresenceNext
<1>6. CASE (\E t \in Tracks : TrackWhileDown(t)) \/ Tick \/ Boot \/ UNCHANGED vars
  BY <1>6, QuietShape
<1>. QED BY <1>1, <1>2, <1>3, <1>4, <1>5, <1>6 DEF Next

LEMMA InitRefines == Init => Abstract!PresenceInit
<1>. SUFFICES ASSUME Init PROVE Abstract!PresenceInit
  OBVIOUS
<1>1. /\ rows = DOMAIN Gallery
      /\ faceName = [e \in Entities |-> IF e \in DOMAIN Gallery THEN Gallery[e][1] ELSE NoName]
      /\ present = [e \in Entities |-> Absent]
  BY DEF Init
<1>2. \A e \in DOMAIN Gallery : Gallery[e][1] # NoName
  BY GalleryAssumption, NothingAssumption
<1>3. Enrollments = DOMAIN Gallery
  BY <1>1, <1>2, GalleryAssumption DEF Enrollments, Enrolled
<1>. QED BY <1>1, <1>3 DEF Abstract!PresenceInit, Present, Absent, Enrollments

\* The orchestrator sees of the world model what Presence says, and no more:
\* whatever evidence it weighs, it only ever lets people appear, leave, be
\* named or unnamed, be recognized, be split off, or be enrolled.
THEOREM WorldModelImplementsPresence ==
  ~Redelivery /\ ~LiveEnrollment /\ Spec => ImplementsPresence
<1>. SUFFICES ASSUME ~Redelivery, ~LiveEnrollment PROVE Spec => ImplementsPresence
  OBVIOUS
<1>1. Init => Abstract!PresenceInit
  BY InitRefines
<1>2. PresenceInv /\ [Next]_vars => [Abstract!PresenceNext]_(Abstract!presence)
  BY StepRefines DEF Abstract!presence, Where, Shown
<1>3. Spec => []PresenceInv
  BY PresenceIsConsistent
<1>. QED BY <1>1, <1>2, <1>3, PTL DEF Spec, ImplementsPresence, Abstract!PresenceSpec

-----------------------------------------------------------------------------
(* Enrollment beside the handlers *)

\* What the steps of both threads keep of the types; the rest matters to none.
ThreadRecords ==
  /\ rows \subseteq Entities /\ dbPresent \subseteq rows /\ stray \subseteq Entities
  /\ present \in [Entities -> Info]
  /\ faceName \in [Entities -> Names \cup {NoName}]
  /\ faceLook \in [Entities -> Looks \cup {NoLook}]
  /\ DOMAIN faceBuffer = Entities

\* The face on_rich has in hand: its entity stays in place until it is judged, and
\* the name that was read with it is still the one enrolled.
JudgedSound ==
  judged # Nothing =>
    /\ judged.entity \in Entities
    /\ judged.named => present[judged.entity].name # NoName
    /\ judged.evidence.quality \in {"known", "uncertain", "negative"}
    /\ judged.evidence.quality # "negative" =>
         /\ judged.evidence.who \in Entities /\ Enrolled(judged.evidence.who)
         /\ judged.evidence.name \in Names
         /\ judged.evidence.who \notin stray =>
              judged.evidence.name = faceName[judged.evidence.who]

\* The enrollment the main thread has in hand.
EnrollingSound ==
  enrolling # Nothing =>
    /\ enrolling \in Begun
    /\ enrolling.entity \in rows
    /\ enrolling.held => Present(enrolling.entity) /\ present[enrolling.entity].name = NoName
    /\ enrolling.committed => faceName[enrolling.entity] = enrolling.name
    /\ ~enrolling.committed /\ enrolling.entity \notin stray => ~Enrolled(enrolling.entity)

\* The inductive invariant of the two threads.
ThreadInv ==
  /\ ThreadRecords
  /\ FreshIsBlank
  /\ JudgedSound
  /\ unbuffered # Nothing => unbuffered.entity \in Entities
  /\ EnrollingSound
  /\ NameFollowsEnrollment

\* What an identity write keeps.
LEMMA SetStateKeepsNames ==
  ASSUME ThreadRecords, NEW e \in Entities, NEW s \in States, SetState(e, s)
  PROVE  /\ present' \in [Entities -> Info]
         /\ \A f \in Entities :
              /\ Present(f)' <=> Present(f)
              /\ present'[f].name = present[f].name
              /\ present'[f].prov \in {present[f].prov, "face"}
<1>. DEFINE new == [present[e] EXCEPT !.state = s, !.prov = "face"]
<1>1. present \in [Entities -> Info] /\ present[e] \in Info
  BY DEF ThreadRecords
<1>2. /\ new \in Info /\ new.track = present[e].track
      /\ new.name = present[e].name /\ new.prov = "face"
  BY <1>1 DEF Info
<1>3. present' = [present EXCEPT ![e] = new]
  BY <1>1 DEF SetState
<1>. HIDE DEF new
<1>. QED BY <1>1, <1>2, <1>3 DEF Present

\* What a bind or a rebind leaves behind.
LEMMA MoveToFacts ==
  ASSUME ThreadRecords, NEW e \in Entities, NEW ev, ev.who \in Entities, ev.name \in Names,
         MoveTo(e, ev)
  PROVE  /\ present' \in [Entities -> Info]
         /\ present'[ev.who].name = ev.name /\ present'[ev.who].prov = "face"
         /\ e # ev.who => ~Present(e)'
         /\ \A f \in Entities \ {e, ev.who} : present'[f] = present[f]
<1>. DEFINE r == Presented(present[e].track, ev.name, "known", "face")
<1>1. r \in Info /\ r.name = ev.name /\ r.prov = "face"
  BY DEF Presented, Info, States, ThreadRecords
<1>2. Absent \in Info /\ Absent.track = NoTrack
  BY DEF Absent, Info, States
<1>3. present' = [present EXCEPT ![e] = Absent, ![ev.who] = r]
  BY DEF MoveTo
<1>. HIDE DEF r
<1>. QED BY <1>1, <1>2, <1>3 DEF ThreadRecords, Present

\* A step of the MQTT thread that ends without a face in hand: whatever it does to
\* the presentations outside S leaves names as they are, and in S it leaves names
\* that are enrolled.
LEMMA HandlerStep ==
  ASSUME ThreadInv, NEW S,
         present' \in [Entities -> Info],
         rows' \subseteq Entities, rows \subseteq rows', dbPresent' \subseteq rows',
         DOMAIN faceBuffer' = Entities,
         \A f \in Entities : Present(f)' => f \in rows',
         \A f \in Entities : Present(f)' =>
           \/ /\ f \notin S /\ Present(f)
              /\ present'[f].name = present[f].name
              /\ present'[f].prov \in {present[f].prov, "face"}
           \/ f \notin stray => /\ present'[f].name = faceName[f]
                                /\ Enrolled(f) => present'[f].prov = "face",
         \A f \in Entities \ S : Present(f) /\ present[f].name = NoName =>
           Present(f)' /\ present'[f].name = NoName,
         LetGo(S),
         judged' = Nothing,
         unbuffered' # Nothing => unbuffered'.entity \in Entities,
         UNCHANGED <<faceName, faceLook, stray>>
  PROVE  ThreadInv'
<1>1. ThreadRecords' /\ FreshIsBlank' /\ JudgedSound'
  BY DEF ThreadInv, ThreadRecords, FreshIsBlank, JudgedSound, Enrolled
<1>2. enrolling # Nothing => enrolling \in Begun
  BY DEF ThreadInv, EnrollingSound
<1>3. EnrollingSound'
  <2>1. CASE enrolling # Nothing /\ enrolling.entity \in S
    <3>. DEFINE new == [enrolling EXCEPT !.held = FALSE]
    <3>1. /\ new \in Begun /\ new.entity = enrolling.entity /\ new.name = enrolling.name
          /\ new.committed = enrolling.committed /\ ~new.held
      BY <1>2, <2>1 DEF Begun
    <3>2. enrolling' = new
      BY <2>1 DEF LetGo
    <3>. HIDE DEF new
    <3>. QED BY <2>1, <3>1, <3>2 DEF ThreadInv, EnrollingSound, Enrolled
  <2>2. CASE ~(enrolling # Nothing /\ enrolling.entity \in S)
    <3>1. enrolling' = enrolling
      BY <2>2 DEF LetGo
    <3>. QED BY <1>2, <2>2, <3>1 DEF ThreadInv, EnrollingSound, Enrolled, Present
  <2>. QED BY <2>1, <2>2
<1>4. NameFollowsEnrollment'
  <2>. SUFFICES ASSUME NEW f \in Entities, f \notin stray, Present(f)', ~Committing(f)'
                PROVE  /\ present'[f].name = faceName[f]
                       /\ Enrolled(f) => present'[f].prov = "face"
    BY DEF NameFollowsEnrollment, Enrolled
  <2>1. CASE f \notin S /\ Present(f) /\ present'[f].name = present[f].name
             /\ present'[f].prov \in {present[f].prov, "face"}
    <3>1. Committing(f) => Committing(f)'
      BY <2>1 DEF Committing, LetGo
    <3>. QED BY <2>1, <3>1 DEF ThreadInv, NameFollowsEnrollment
  <2>. QED BY <2>1
<1>. QED BY <1>1, <1>3, <1>4 DEF ThreadInv

\* Tracks come and go.
LEMMA OnTier0Step ==
  ASSUME ThreadInv, NEW t \in Tracks, OnTier0(t)
  PROVE  ThreadInv'
<1>. DEFINE S == Replaced
<1>1. /\ judged' = Nothing /\ unbuffered' = unbuffered /\ LetGo(S)
      /\ UNCHANGED <<faceName, faceLook, faceBuffer, stray>>
  BY DEF OnTier0, HandlerRests, NewTrack, LostTrack, PersonAppeared
<1>2. /\ \A f \in Entities : f \notin rows => ~Present(f) /\ ~Enrolled(f)
      /\ rows \subseteq Entities /\ dbPresent \subseteq rows
      /\ present \in [Entities -> Info] /\ DOMAIN faceBuffer = Entities
      /\ unbuffered # Nothing => unbuffered.entity \in Entities
  BY DEF ThreadInv, ThreadRecords, FreshIsBlank
<1>3. CASE NewTrack(t)
  <2>1. PICK e \in Entities : PersonAppeared(t, e)
    BY <1>3 DEF NewTrack
  <2>2. /\ e \notin dbPresent /\ ~Enrolled(e) /\ dbPresent' = dbPresent \cup {e}
        /\ rows' = rows \cup {e}
        /\ \E p \in {"timestamp", "none"} :
             present' = [present EXCEPT ![e] = Presented(t, NoName, "unknown", p)]
    BY <2>1, <1>2 DEF PersonAppeared, Reappear, Arrive, MostRecent, Reusable
  <2>3. PICK p \in {"timestamp", "none"} :
          present' = [present EXCEPT ![e] = Presented(t, NoName, "unknown", p)]
    BY <2>2
  <2>4. Presented(t, NoName, "unknown", p) \in Info /\ Presented(t, NoName, "unknown", p).name = NoName
    BY DEF Presented, Info, States
  <2>5. present' \in [Entities -> Info] /\ present'[e].name = NoName /\ e \in S
        /\ \A f \in Entities \ {e} : present'[f] = present[f]
    BY <1>2, <2>2, <2>3, <2>4 DEF Replaced
  <2>6. faceName[e] = NoName
    BY <2>2 DEF Enrolled
  <2>7. \A f \in Entities \ {e} : Present(f)' => f \notin S
    BY <2>2, NothingAssumption DEF Replaced, Present, Absent
  <2>. HIDE DEF S
  <2>8. \A f \in Entities : Present(f)' => f \in rows'
    BY <1>2, <2>2, <2>5 DEF Present
  <2>9. \A f \in Entities : Present(f)' =>
           \/ f \notin S /\ Present(f) /\ present'[f].name = present[f].name
              /\ present'[f].prov \in {present[f].prov, "face"}
           \/ f \notin stray => /\ present'[f].name = faceName[f]
                                /\ Enrolled(f) => present'[f].prov = "face"
    BY <2>2, <2>5, <2>6, <2>7 DEF Present
  <2>10. \A f \in Entities \ S : Present(f) /\ present[f].name = NoName =>
           Present(f)' /\ present'[f].name = NoName
    BY <2>5 DEF Present
  <2>. QED BY <1>1, <1>2, <2>2, <2>5, <2>8, <2>9, <2>10, HandlerStep
<1>4. CASE LostTrack(t)
  <2>1. /\ rows' = rows /\ dbPresent' \subseteq dbPresent
        /\ \/ present' = present
           \/ \E e \in Entities : present' = [present EXCEPT ![e] = Absent]
    BY <1>4 DEF LostTrack, PersonLeft, EntitiesOn
  <2>2. Absent \in Info /\ Absent.track = NoTrack
    BY DEF Absent, Info, States
  <2>3. /\ present' \in [Entities -> Info]
        /\ \A f \in Entities : present'[f] = present[f] \/ present'[f] = Absent
    BY <1>2, <2>1, <2>2
  <2>4. \A f \in Entities : Present(f)' => f \notin S /\ present'[f] = present[f] /\ Present(f)
    BY <2>1, <2>2, <2>3 DEF Replaced, Present
  <2>5. \A f \in Entities \ S : present'[f] = present[f]
    BY <2>3 DEF Replaced
  <2>. HIDE DEF S
  <2>6. \A f \in Entities \ S : Present(f) /\ present[f].name = NoName =>
           Present(f)' /\ present'[f].name = NoName
    BY <2>5 DEF Present
  <2>7. \A f \in Entities : Present(f)' => f \in rows'
    BY <1>2, <2>1, <2>4
  <2>8. \A f \in Entities : Present(f)' =>
           f \notin S /\ Present(f) /\ present'[f].name = present[f].name
           /\ present'[f].prov \in {present[f].prov, "face"}
    BY <2>4
  <2>. QED BY <1>1, <1>2, <2>1, <2>3, <2>6, <2>7, <2>8, HandlerStep
<1>. QED BY <1>3, <1>4 DEF OnTier0

\* The face in hand is judged.
LEMMA JudgeFaceStep ==
  ASSUME ThreadInv, JudgeFace
  PROVE  ThreadInv'
<1>0. PICK e, q, confident, ev :
        /\ e = judged.entity /\ q = judged.look
        /\ confident = judged.confident /\ ev = judged.evidence
  OBVIOUS
<1>. DEFINE k == ev.who
<1>1. /\ judged # Nothing /\ judged' = Nothing
      /\ UNCHANGED <<faceName, faceLook, stray>>
      /\ IF judged.named THEN JudgeNamed(e, q, confident, ev) ELSE JudgeUnnamed(e, q, ev)
  BY <1>0 DEF JudgeFace
<1>2. /\ \A f \in Entities : f \notin rows => ~Present(f) /\ ~Enrolled(f)
      /\ rows \subseteq Entities /\ dbPresent \subseteq rows
      /\ present \in [Entities -> Info] /\ DOMAIN faceBuffer = Entities
      /\ unbuffered # Nothing => unbuffered.entity \in Entities
      /\ ThreadRecords
  BY DEF ThreadInv, ThreadRecords, FreshIsBlank
<1>3. /\ e \in Entities
      /\ ev.quality \in {"known", "uncertain", "negative"}
      /\ ev.quality # "negative" =>
           /\ k \in Entities /\ Enrolled(k) /\ k \in rows /\ ev.name \in Names
           /\ k \notin stray => ev.name = faceName[k]
  BY <1>0, <1>1, <1>2 DEF ThreadInv, JudgedSound
<1>4. CASE /\ \E s \in States : SetState(e, s)
           /\ UNCHANGED <<rows, dbPresent, faceBuffer>>
           /\ LetGo({})
           /\ unbuffered' # Nothing => unbuffered'.entity \in Entities
  <2>1. /\ present' \in [Entities -> Info]
        /\ \A f \in Entities :
             /\ Present(f)' <=> Present(f)
             /\ present'[f].name = present[f].name
             /\ present'[f].prov \in {present[f].prov, "face"}
    BY <1>2, <1>3, <1>4, SetStateKeepsNames
  <2>. QED BY <1>1, <1>2, <1>4, <2>1, HandlerStep
<1>5. CASE /\ ev.quality = "known" /\ MoveTo(e, ev)
           /\ UNCHANGED <<rows, faceBuffer, unbuffered>>
           /\ dbPresent' = (dbPresent \ {e}) \cup {k}
           /\ LetGo({e, k})
  <2>0. PICK S : S = {e, k}
    OBVIOUS
  <2>1. /\ k \in Entities /\ Enrolled(k) /\ k \in rows /\ ev.name \in Names
        /\ k \notin stray => ev.name = faceName[k]
    BY <1>3, <1>5
  <2>2. /\ present' \in [Entities -> Info]
        /\ present'[k].name = ev.name /\ present'[k].prov = "face"
        /\ e # k => ~Present(e)'
        /\ \A f \in Entities \ {e, k} : present'[f] = present[f]
    BY <1>2, <1>3, <1>5, <2>1, MoveToFacts
  <2>. HIDE DEF k
  <2>3. \A f \in Entities : Present(f)' => f \in rows'
    BY <1>2, <1>5, <2>1, <2>2 DEF Present
  <2>4. \A f \in Entities : Present(f)' =>
           \/ /\ f \notin S /\ Present(f)
              /\ present'[f].name = present[f].name
              /\ present'[f].prov \in {present[f].prov, "face"}
           \/ f \notin stray => /\ present'[f].name = faceName[f]
                                /\ Enrolled(f) => present'[f].prov = "face"
    BY <2>0, <2>1, <2>2 DEF Present
  <2>5. \A f \in Entities \ S : Present(f) /\ present[f].name = NoName =>
           Present(f)' /\ present'[f].name = NoName
    BY <2>0, <2>2 DEF Present
  <2>6. /\ LetGo(S) /\ rows' \subseteq Entities /\ dbPresent' \subseteq rows'
        /\ DOMAIN faceBuffer' = Entities
        /\ unbuffered' # Nothing => unbuffered'.entity \in Entities
    BY <1>2, <1>5, <2>0, <2>1
  <2>7. rows \subseteq rows' /\ judged' = Nothing /\ UNCHANGED <<faceName, faceLook, stray>>
    BY <1>1, <1>5
  <2>8. present' \in [Entities -> Info]
    BY <2>2
  <2>. QED BY <2>7, <2>8, <2>3, <2>4, <2>5, <2>6, HandlerStep
<1>6. CASE SplitKnown(e, q, confident, ev) /\ LetGo({e}) /\ UNCHANGED unbuffered
  <2>. DEFINE samples == AppendEvidence(e, Nobody, q, confident)
              S == {e}
  <2>1. PICK n \in Entities \ rows :
          /\ rows' = rows \cup {n}
          /\ present' = [present EXCEPT ![e] = Absent,
                                        ![n] = Presented(present[e].track, NoName, "unknown", "face")]
          /\ dbPresent' = (dbPresent \ {e}) \cup {n}
          /\ FollowTheTrack(e, n, samples)
    BY <1>6 DEF SplitKnown
  <2>. HIDE DEF samples
  <2>2. faceName[n] = NoName /\ ~Present(n)
    BY <1>2, <2>1 DEF Enrolled
  <2>. DEFINE r == Presented(present[e].track, NoName, "unknown", "face")
  <2>3. /\ Absent \in Info /\ Absent.track = NoTrack
        /\ r \in Info /\ r.name = NoName /\ r.prov = "face"
    BY <1>2, <1>3 DEF Absent, Presented, Info, States
  <2>4. present' = [present EXCEPT ![e] = Absent, ![n] = r]
    BY <2>1
  <2>. HIDE DEF r
  <2>5. /\ present' \in [Entities -> Info]
        /\ present'[n].name = NoName /\ present'[n].prov = "face"
        /\ e # n => ~Present(e)'
        /\ \A f \in Entities \ {e, n} : present'[f] = present[f]
    BY <1>2, <1>3, <2>1, <2>3, <2>4 DEF Present
  <2>6. /\ DOMAIN faceBuffer' = Entities /\ rows' \subseteq Entities
        /\ dbPresent' \subseteq rows' /\ rows \subseteq rows'
    BY <1>2, <2>1 DEF FollowTheTrack
  <2>7. \A f \in Entities : Present(f)' => f \in rows'
    BY <1>2, <2>1, <2>5 DEF Present
  <2>8. \A f \in Entities : Present(f)' =>
           \/ /\ f \notin S /\ Present(f)
              /\ present'[f].name = present[f].name
              /\ present'[f].prov \in {present[f].prov, "face"}
           \/ f \notin stray => /\ present'[f].name = faceName[f]
                                /\ Enrolled(f) => present'[f].prov = "face"
    BY <2>2, <2>5 DEF Present
  <2>9. \A f \in Entities \ S : Present(f) /\ present[f].name = NoName =>
           Present(f)' /\ present'[f].name = NoName
    BY <2>2, <2>5 DEF Present
  <2>10. LetGo(S) /\ (unbuffered' # Nothing => unbuffered'.entity \in Entities)
    BY <1>2, <1>6
  <2>. HIDE DEF S
  <2>. QED BY <1>1, <2>5, <2>6, <2>7, <2>8, <2>9, <2>10, HandlerStep
<1>7. CASE ~judged.named
  <2>1. CASE StayAnonymous(e, ev) /\ unbuffered' = [entity |-> e, look |-> q]
             /\ UNCHANGED <<faceBuffer, enrolling>>
    <3>1. LetGo({})
      BY <2>1 DEF LetGo
    <3>2. /\ \E s \in States : SetState(e, s)
          /\ UNCHANGED <<rows, dbPresent>>
      BY <2>1 DEF StayAnonymous, States
    <3>3. unbuffered'.entity \in Entities
      BY <2>1, <1>3
    <3>. QED BY <1>4, <2>1, <3>1, <3>2, <3>3
  <2>2. CASE Bind(e, ev) /\ LetGo({e, ev.who}) /\ UNCHANGED unbuffered
    BY <1>5, <2>2 DEF Bind
  <2>. QED BY <1>1, <1>7, <2>1, <2>2 DEF JudgeUnnamed
<1>8. CASE judged.named
  <2>1. CASE /\ \/ Confirm(e, ev) \/ DifferentKnown(e, q, confident, ev)
                \/ UncertainFace(e, ev) \/ StrongNegative(e, q, confident, ev)
             /\ LetGo({}) /\ UNCHANGED unbuffered
    <3>1. /\ \E s \in States : SetState(e, s)
          /\ UNCHANGED <<rows, dbPresent, faceBuffer>>
      BY <2>1 DEF Confirm, DifferentKnown, UncertainFace, StrongNegative, States
    <3>. QED BY <1>2, <1>4, <2>1, <3>1
  <2>2. CASE RebindKnown(e, q, confident, ev) /\ LetGo({e, ev.who}) /\ UNCHANGED unbuffered
    BY <1>5, <2>2 DEF RebindKnown
  <2>. QED BY <1>1, <1>6, <1>8, <2>1, <2>2 DEF JudgeNamed
<1>. QED BY <1>7, <1>8

\* The steps of the main thread.
LEMMA EnrollSteps ==
  ASSUME ThreadInv,
         \/ \E e \in Entities, n \in Names, g \in Looks : BeginEnroll(e, n, g)
         \/ CommitEnroll \/ FinishEnroll
  PROVE  ThreadInv'
<1>. USE NothingAssumption
<1>1. /\ ThreadRecords
      /\ \A f \in Entities : f \notin rows => ~Present(f) /\ ~Enrolled(f)
      /\ \A f \in Entities \ stray : Present(f) /\ ~Committing(f) =>
           /\ present[f].name = faceName[f]
           /\ Enrolled(f) => present[f].prov = "face"
  BY DEF ThreadInv, FreshIsBlank, NameFollowsEnrollment
<1>2. ASSUME NEW e \in Entities, NEW n \in Names, NEW g \in Looks, BeginEnroll(e, n, g)
      PROVE  ThreadInv'
  <2>. DEFINE new == [entity |-> e, name |-> n, look |-> g, committed |-> FALSE, held |-> TRUE]
  <2>1. /\ Present(e) /\ present[e].name = NoName /\ enrolling = Nothing
        /\ enrolling' = new
        /\ UNCHANGED <<vars, judged, unbuffered, stray>>
    BY <1>2 DEF BeginEnroll
  <2>2. /\ new \in Begun /\ new.entity = e /\ new.name = n /\ ~new.committed /\ new.held
    BY DEF Begun
  <2>. HIDE DEF new
  <2>3. ~Committing(e)
    BY <2>1 DEF Committing
  <2>4. EnrollingSound'
    BY <1>1, <2>1, <2>2, <2>3 DEF EnrollingSound, Enrolled, Present, vars, durable, hot
  <2>5. NameFollowsEnrollment'
    BY <1>1, <2>1 DEF NameFollowsEnrollment, Committing, Enrolled, Present, vars, durable, hot
  <2>. QED BY <2>1, <2>4, <2>5
           DEF ThreadInv, ThreadRecords, FreshIsBlank, JudgedSound, Enrolled, Present,
               vars, durable, hot
<1>3. CASE CommitEnroll
  <2>. DEFINE e == enrolling.entity
              n == enrolling.name
              new == [enrolling EXCEPT !.committed = TRUE]
  <2>1. /\ enrolling # Nothing /\ enrolling \in Begun /\ e \in Entities /\ n \in Names
        /\ e \in rows /\ ~enrolling.committed
        /\ enrolling.held => Present(e) /\ present[e].name = NoName
        /\ e \notin stray => ~Enrolled(e)
    BY <1>3 DEF CommitEnroll, ThreadInv, EnrollingSound, Begun
  <2>2. /\ new \in Begun /\ new.entity = e /\ new.name = n /\ new.committed
        /\ new.held = enrolling.held /\ new # Nothing
    BY <2>1, NothingHeldAssumption DEF Begun
  <2>3. /\ enrolling' = new
        /\ faceName' = [faceName EXCEPT ![e] = n]
        /\ faceLook' = [faceLook EXCEPT ![e] = enrolling.look]
        /\ stray' = IF ~enrolling.held /\ Present(e) THEN stray \cup {e} ELSE stray
        /\ UNCHANGED <<rows, dbPresent, present, faceBuffer, judged, unbuffered>>
    BY <1>3 DEF CommitEnroll, hot
  <2>. HIDE DEF new
  <2>4. /\ faceName'[e] = n /\ n # NoName
        /\ \A f \in Entities \ {e} : faceName'[f] = faceName[f]
    BY <1>1, <2>1, <2>3 DEF ThreadRecords
  <2>5. ThreadRecords' /\ FreshIsBlank'
    BY <1>1, <2>1, <2>3, <2>4 DEF ThreadRecords, FreshIsBlank, Enrolled, Present, Begun
  <2>6. JudgedSound'
    BY <2>1, <2>3, <2>4 DEF ThreadInv, JudgedSound, Enrolled
  <2>7. EnrollingSound'
    BY <2>1, <2>2, <2>3, <2>4 DEF EnrollingSound, Present
  <2>8. NameFollowsEnrollment'
    <3>. SUFFICES ASSUME NEW f \in Entities, f \notin stray', Present(f)', ~Committing(f)'
                  PROVE  /\ present'[f].name = faceName'[f]
                         /\ Enrolled(f)' => present'[f].prov = "face"
      BY DEF NameFollowsEnrollment
    <3>1. Present(f) /\ present'[f] = present[f] /\ f \notin stray
      BY <2>3 DEF Present
    <3>2. f # e
      BY <2>2, <2>3, <3>1 DEF Committing
    <3>3. faceName'[f] = faceName[f] /\ ~Committing(f)
      BY <2>1, <2>4, <3>2 DEF Committing
    <3>. QED BY <1>1, <3>1, <3>3 DEF Enrolled
  <2>. QED BY <2>3, <2>5, <2>6, <2>7, <2>8 DEF ThreadInv
<1>4. CASE FinishEnroll
  <2>. DEFINE e == enrolling.entity
  <2>1. /\ enrolling # Nothing /\ enrolling \in Begun /\ e \in Entities /\ e \in rows
        /\ enrolling.held => Present(e) /\ faceName[e] = enrolling.name
        /\ enrolling.name \in Names /\ enrolling.committed
    BY <1>4 DEF FinishEnroll, ThreadInv, EnrollingSound, Begun
  <2>2. /\ enrolling' = Nothing
        /\ UNCHANGED <<rows, faceName, faceLook, dbPresent, faceBuffer, judged, unbuffered, stray>>
    BY <1>4 DEF FinishEnroll, durable
  <2>3. /\ present' \in [Entities -> Info]
        /\ \A f \in Entities : Present(f)' <=> Present(f)
        /\ \A f \in Entities : ~Committing(f) => present'[f] = present[f]
        /\ \A f \in Entities : Committing(f) =>
             present'[f].name = faceName[f] /\ present'[f].prov = "face"
        /\ \A f \in Entities : present[f].name # NoName => present'[f].name # NoName
    <3>1. CASE enrolling.held
      <4>. DEFINE new == [present[e] EXCEPT !.name = enrolling.name, !.state = "known", !.prov = "face"]
      <4>1. present' = [present EXCEPT ![e] = new]
        BY <1>4, <3>1, <1>1, <2>1 DEF FinishEnroll, ThreadRecords
      <4>2. present[e] \in Info
        BY <1>1, <2>1 DEF ThreadRecords
      <4>3. /\ new \in Info /\ new.track = present[e].track
             /\ new.name = enrolling.name /\ new.prov = "face"
        BY <2>1, <4>2 DEF Info, States
      <4>4. \A f \in Entities : Committing(f) <=> f = e
        BY <2>1, <3>1 DEF Committing
      <4>. HIDE DEF new
      <4>. QED BY <1>1, <2>1, <3>1, <4>1, <4>3, <4>4 DEF ThreadRecords, Present
    <3>2. CASE ~enrolling.held
      <4>1. present' = present
        BY <1>4, <3>2 DEF FinishEnroll
      <4>. QED BY <1>1, <3>2, <4>1 DEF Committing, ThreadRecords, Present
    <3>. QED BY <3>1, <3>2
  <2>4. ThreadRecords' /\ FreshIsBlank' /\ JudgedSound' /\ EnrollingSound'
    BY <1>1, <2>2, <2>3
       DEF ThreadInv, ThreadRecords, FreshIsBlank, JudgedSound, EnrollingSound, Enrolled
  <2>5. NameFollowsEnrollment'
    BY <1>1, <2>2, <2>3 DEF NameFollowsEnrollment, Enrolled
  <2>. QED BY <2>2, <2>4, <2>5 DEF ThreadInv
<1>. QED BY <1>2, <1>3, <1>4

\* A face is read, and a sample buffered or dropped.
LEMMA ReadAndBufferSteps ==
  ASSUME ThreadInv,
         \/ \E t \in Tracks, q \in Looks, confident \in BOOLEAN : ReadFace(t, q, confident)
         \/ BufferSample \/ SkipSample
  PROVE  ThreadInv'
<1>1. ASSUME NEW t \in Tracks, NEW q \in Looks, NEW confident \in BOOLEAN,
             ReadFace(t, q, confident)
      PROVE  ThreadInv'
  <2>1. PICK e \in Entities, ev \in FaceEvidence(q) :
          judged' = [entity |-> e, look |-> q, confident |-> confident, evidence |-> ev,
                     named |-> present[e].name # NoName]
    BY <1>1 DEF ReadFace, EntitiesOn
  <2>2. /\ judged'.entity = e /\ judged'.evidence = ev
        /\ judged'.named => present[e].name # NoName
    BY <2>1
  <2>3. UNCHANGED <<vars, unbuffered, enrolling, stray>>
    BY <1>1 DEF ReadFace
  <2>4. /\ ev.quality \in {"known", "uncertain", "negative"}
        /\ ev.quality # "negative" =>
             /\ ev.who \in Entities /\ Enrolled(ev.who)
             /\ ev.name = faceName[ev.who] /\ ev.name \in Names
    BY EvidenceFacts DEF Enrolled, ThreadInv, ThreadRecords
  <2>5. JudgedSound'
    BY <2>2, <2>3, <2>4 DEF JudgedSound, Enrolled, vars, durable, hot
  <2>. QED BY <2>3, <2>5
           DEF ThreadInv, ThreadRecords, FreshIsBlank, EnrollingSound, NameFollowsEnrollment,
               Committing, Enrolled, Present, vars, durable, hot
<1>2. CASE BufferSample
  BY <1>2 DEF BufferSample, BufferFace, durable,
       ThreadInv, ThreadRecords, FreshIsBlank, JudgedSound, EnrollingSound,
       NameFollowsEnrollment, Committing, Enrolled, Present
<1>3. CASE SkipSample
  BY <1>3 DEF SkipSample, vars, durable, hot,
       ThreadInv, ThreadRecords, FreshIsBlank, JudgedSound, EnrollingSound,
       NameFollowsEnrollment, Committing, Enrolled, Present
<1>. QED BY <1>1, <1>2, <1>3

\* The process ends; what goes on beside it.
LEMMA BesideSteps ==
  ASSUME ThreadInv, CrashBoth \/ Beside \/ UNCHANGED allVars
  PROVE  ThreadInv'
<1>. USE NothingAssumption
     DEF ThreadInv, ThreadRecords, FreshIsBlank, JudgedSound, EnrollingSound,
         NameFollowsEnrollment, Committing, Enrolled, Present
<1>1. CASE CrashBoth
  <2>1. Absent \in Info /\ Absent.track = NoTrack
    BY DEF Absent, Info, States
  <2>. QED BY <1>1, <2>1 DEF CrashBoth, Crash, durable
<1>2. ASSUME NEW e \in Entities, NEW n \in Names, NEW g \in Looks, EnrollScript(e, n, g),
             UNCHANGED threads
      PROVE  ThreadInv'
  <2>1. /\ e \notin rows /\ rows' = rows \cup {e} /\ dbPresent' = {}
        /\ faceName' = [faceName EXCEPT ![e] = n] /\ faceLook' = [faceLook EXCEPT ![e] = g]
        /\ UNCHANGED <<present, faceBuffer, judged, unbuffered, enrolling, stray>>
    BY <1>2 DEF EnrollScript, hot, threads
  <2>2. faceName[e] = NoName /\ present[e].track = NoTrack
    BY <2>1
  <2>. QED BY <2>1, <2>2
<1>3. CASE \/ (\E t \in Tracks : TrackWhileDown(t)) /\ UNCHANGED threads
           \/ Tick /\ UNCHANGED threads
           \/ UNCHANGED allVars
  BY <1>3 DEF TrackWhileDown, Tick, allVars, vars, durable, hot, threads
<1>4. CASE Boot /\ UNCHANGED threads
  BY <1>4 DEF Boot, hot, threads
<1>. QED BY <1>1, <1>2, <1>3, <1>4 DEF Beside

\* Names and enrollments through every interleaving of the two threads.
THEOREM ThreadsKeepNames == EnrollmentSpec => []ThreadInv
<1>1. EnrollmentInit => ThreadInv
  <2>. SUFFICES ASSUME EnrollmentInit PROVE ThreadInv
    OBVIOUS
  <2>1. Absent \in Info /\ Absent.track = NoTrack
    BY DEF Absent, Info, States
  <2>2. /\ ThreadRecords
        /\ \A e \in Entities : ~Present(e) /\ (e \notin rows => ~Enrolled(e))
    BY <2>1, GalleryAssumption DEF EnrollmentInit, Init, ThreadRecords, Present, Enrolled
  <2>. QED BY <2>2 DEF EnrollmentInit, ThreadInv, FreshIsBlank, JudgedSound, EnrollingSound,
                       NameFollowsEnrollment
<1>2. ThreadInv /\ [EnrollmentNext]_allVars => ThreadInv'
  BY OnTier0Step, JudgeFaceStep, EnrollSteps, ReadAndBufferSteps, BesideSteps DEF EnrollmentNext
<1>. QED BY <1>1, <1>2, PTL DEF EnrollmentSpec

\* A presentation has the name its entity is enrolled under.
THEOREM NamesFollowEnrollments == EnrollmentSpec => []NameFollowsEnrollment
<1>1. ThreadInv => NameFollowsEnrollment
  BY DEF ThreadInv
<1>. QED BY <1>1, ThreadsKeepNames, PTL

\* An enrollment stands, and its samples but for one that was in hand.
THEOREM EnrollmentsStand == EnrollmentSpec => EnrollmentStands
<1>. DEFINE Stands(e) == /\ faceName'[e] = faceName[e] /\ faceLook'[e] = faceLook[e]
                         /\ \/ faceBuffer'[e] \in {faceBuffer[e], << >>}
                            \/ unbuffered # Nothing /\ unbuffered.entity = e
<1>1. ASSUME ThreadInv, [EnrollmentNext]_allVars,
             NEW e \in Entities, e \notin stray, Enrolled(e)
      PROVE  Stands(e)
  <2>1. /\ e \in rows /\ faceName[e] # NoName /\ ThreadRecords
    BY <1>1 DEF ThreadInv, FreshIsBlank, Enrolled
  <2>2. CASE UNCHANGED <<faceName, faceLook, faceBuffer>>
    BY <2>2
  <2>3. CASE \E t \in Tracks : OnTier0(t)
    BY <2>2, <2>3 DEF OnTier0, NewTrack, PersonAppeared, LostTrack
  <2>4. CASE JudgeFace
    <3>1. UNCHANGED <<faceName, faceLook>>
      BY <2>4 DEF JudgeFace
    <3>2. ASSUME NEW d, NEW q, NEW confident, NEW ev, SplitKnown(d, q, confident, ev)
          PROVE  faceBuffer'[e] = faceBuffer[e]
      BY <3>2, <2>1 DEF SplitKnown, FollowTheTrack, ThreadRecords
    <3>. QED BY <2>2, <2>4, <3>1, <3>2
             DEF JudgeFace, JudgeNamed, JudgeUnnamed, Bind, Confirm, DifferentKnown,
                 RebindKnown, UncertainFace, StrongNegative
  <2>5. CASE BufferSample
    BY <2>1, <2>5 DEF BufferSample, BufferFace, durable, ThreadRecords
  <2>6. CASE CommitEnroll
    <3>1. enrolling.entity # e
      BY <1>1, <2>6 DEF CommitEnroll, ThreadInv, EnrollingSound
    <3>. QED BY <2>1, <2>6, <3>1 DEF CommitEnroll, hot, ThreadRecords
  <2>7. CASE CrashBoth
    BY <2>7, <2>1 DEF CrashBoth, Crash, durable
  <2>8. ASSUME NEW f \in Entities, NEW n \in Names, NEW g \in Looks, EnrollScript(f, n, g)
        PROVE  Stands(e)
    BY <2>8, <2>1 DEF EnrollScript, hot, ThreadRecords
  <2>. QED BY <1>1, <2>2, <2>3, <2>4, <2>5, <2>6, <2>7, <2>8
           DEF EnrollmentNext, Beside, ReadFace, SkipSample, BeginEnroll, FinishEnroll,
               TrackWhileDown, Tick, Boot, allVars, vars, durable, hot
<1>2. ThreadInv /\ [EnrollmentNext]_allVars
        => [\A e \in Entities \ stray : Enrolled(e) =>
              /\ faceName'[e] = faceName[e] /\ faceLook'[e] = faceLook[e]
              /\ \/ faceBuffer'[e] \in {faceBuffer[e], << >>}
                 \/ unbuffered # Nothing /\ unbuffered.entity = e]_allVars
  BY <1>1
<1>. QED BY <1>2, ThreadsKeepNames, PTL DEF EnrollmentSpec, EnrollmentStands
=============================================================================
