-------------------------- MODULE PerceptionProofs --------------------------
(***************************************************************************)
(* The stream of births, boxes and losses adds up to what the tracker      *)
(* holds, for every number of places, tracks and messages on their way,    *)
(* every detector and every time the broker or the camera process fails.   *)
(***************************************************************************)
EXTENDS Perception, FiniteSetTheorems, SequenceTheorems, TLAPS

Deltas == {"periodic", "new_track", "lost_track"}

\* What the camera may put on the bus: a loss has no place, everything else has.
Reports ==
  {m \in [delta : Deltas, dets : UNION {[ts -> Places \cup {Away}] : ts \in SUBSET Tracks}] :
     m.delta # "lost_track" => \A t \in DOMAIN m.dets : m.dets[t] # Away}

TrackState == [at : Places \cup {Away}, hits : 0..MinHits, unseen : 0..LostAfter]

\* Names for sets that the steps below need not look into.
TrackTables == [Tracks -> TrackState]
TrackSets == SUBSET Tracks

TypeOK ==
  /\ scene \subseteq Places
  /\ camera \in BOOLEAN /\ broker \in BOOLEAN /\ torn \in BOOLEAN
  /\ tracks \in [Tracks -> TrackState]
  /\ outgoing \in Seq(Reports)
  /\ inbox \in [Subscribers -> Seq(Reports)]
  /\ present \subseteq Tracks
  /\ boxes \in [Tracks -> Places \cup {Away}]

\* Clean sessions leave nothing on its way while the broker is down.
NothingOnItsWay == ~broker => \A s \in Subscribers : inbox[s] = << >>

StreamInv == TypeOK /\ NothingOnItsWay /\ StreamAgrees

-----------------------------------------------------------------------------
(* What messages add up to *)

LEMMA ReportFacts ==
  ASSUME NEW m \in Reports
  PROVE  /\ m.delta \in Deltas /\ DOMAIN m.dets \subseteq Tracks
         /\ m.dets \in [DOMAIN m.dets -> Places \cup {Away}]
         /\ m.delta # "lost_track" => \A t \in DOMAIN m.dets : m.dets[t] \in Places
<1>1. /\ m.delta \in Deltas
      /\ m.dets \in UNION {[ts -> Places \cup {Away}] : ts \in SUBSET Tracks}
      /\ m.delta # "lost_track" => \A t \in DOMAIN m.dets : m.dets[t] # Away
  BY DEF Reports
<1>2. PICK ts \in SUBSET Tracks : m.dets \in [ts -> Places \cup {Away}]
  BY <1>1
<1>3. DOMAIN m.dets = ts
  BY <1>2
<1>. QED BY <1>1, <1>2, <1>3

LEMMA AfterNothing ==
  ASSUME NEW s, NEW held \in TrackSets
  PROVE  After(s, held, << >>) = held
<1>1. 0..Len(<< >>) = {0} /\ \A i : i + 1..Len(<< >>) = i + 1..0
  OBVIOUS
<1>2. \A t \in Tracks : t \in After(s, held, << >>) <=> t \in held
  BY <1>1 DEF After
<1>. QED BY <1>2 DEF After, TrackSets

LEMMA AfterOne ==
  ASSUME NEW s, NEW held \in TrackSets, NEW m \in Reports
  PROVE  After(s, held, << m >>) = Hear(s, held, m)
<1>. DEFINE msgs == << m >>
<1>1. Len(msgs) = 1 /\ msgs[1] = m
  OBVIOUS
<1>2. m.delta \in Deltas /\ DOMAIN m.dets \subseteq Tracks
  BY ReportFacts
<1>. HIDE DEF msgs
<1>3. \A t \in Tracks :
        t \in After(s, held, msgs) <=> Gains(s, m, t) \/ (t \in held /\ ~Loses(m, t))
  BY <1>1 DEF After
<1>4. \A t \in Tracks :
        t \in Hear(s, held, m) <=> Gains(s, m, t) \/ (t \in held /\ ~Loses(m, t))
  BY <1>2 DEF Hear, Gains, Loses, Mentions, Deltas
<1>5. Hear(s, held, m) \subseteq Tracks
  BY <1>2 DEF Hear, Deltas, TrackSets
<1>. QED BY <1>3, <1>4, <1>5 DEF After, msgs, TrackSets

\* First these messages, then those.
LEMMA AfterBoth ==
  ASSUME NEW s, NEW held \in TrackSets, NEW a \in Seq(Reports), NEW b \in Seq(Reports)
  PROVE  After(s, held, a \o b) = After(s, After(s, held, a), b)
<1>. DEFINE c == a \o b
            n == Len(a)
            k == Len(b)
<1>1. /\ n \in Nat /\ k \in Nat /\ Len(c) = n + k
      /\ \A i \in 1..n : c[i] = a[i]
      /\ \A i \in 1..k : c[i + n] = b[i]
  OBVIOUS
<1>. HIDE DEF c, n, k
<1>. SUFFICES ASSUME NEW t \in Tracks
              PROVE  t \in After(s, held, c) <=> t \in After(s, After(s, held, a), b)
  BY DEF After, c
<1>2. ASSUME NEW i \in 0..n + k,
             IF i = 0 THEN t \in held ELSE Gains(s, c[i], t),
             \A j \in i + 1..n + k : ~Loses(c[j], t)
      PROVE  t \in After(s, After(s, held, a), b)
  <2>1. CASE i <= n
    <3>1. /\ i \in 0..n /\ IF i = 0 THEN t \in held ELSE Gains(s, a[i], t)
      BY <1>1, <1>2, <2>1
    <3>2. \A j \in i + 1..n : j \in i + 1..n + k /\ j \in 1..n
      BY <1>1, <2>1
    <3>3. t \in After(s, held, a)
      BY <1>1, <1>2, <3>1, <3>2 DEF After, n
    <3>4. \A j \in 1..k : ~Loses(b[j], t)
      <4>1. \A j \in 1..k : j + n \in i + 1..n + k
        BY <1>1, <2>1
      <4>. QED BY <1>1, <1>2, <4>1
    <3>5. 0 \in 0..k /\ 0 + 1 = 1
      BY <1>1
    <3>. QED BY <3>3, <3>4, <3>5 DEF After, k
  <2>2. CASE i > n
    <3>1. i - n \in 1..k /\ c[i] = b[i - n]
      <4>1. i - n \in 1..k /\ (i - n) + n = i
        BY <1>1, <2>2
      <4>. QED BY <1>1, <4>1
    <3>2. \A j \in i - n + 1..k : ~Loses(b[j], t)
      <4>1. \A j \in i - n + 1..k : j \in 1..k /\ j + n \in i + 1..n + k
        BY <1>1, <2>2
      <4>. QED BY <1>1, <1>2, <4>1
    <3>3. i - n \in 0..k /\ i - n # 0 /\ i # 0
      BY <1>1, <2>2
    <3>. QED BY <1>2, <3>1, <3>2, <3>3 DEF After, k
  <2>. QED BY <1>1, <2>1, <2>2
<1>3. ASSUME NEW i \in 0..k,
             IF i = 0 THEN t \in After(s, held, a) ELSE Gains(s, b[i], t),
             \A j \in i + 1..k : ~Loses(b[j], t)
      PROVE  t \in After(s, held, c)
  <2>1. CASE i = 0
    <3>1. PICK h \in 0..n :
            /\ IF h = 0 THEN t \in held ELSE Gains(s, a[h], t)
            /\ \A j \in h + 1..n : ~Loses(a[j], t)
      BY <1>3, <2>1 DEF After, n
    <3>2. ASSUME NEW j \in h + 1..n + k PROVE ~Loses(c[j], t)
      <4>1. CASE j <= n
        BY <1>1, <3>1, <4>1
      <4>2. CASE j > n
        <5>1. j - n \in 1..k /\ j - n \in i + 1..k /\ (j - n) + n = j
          BY <1>1, <2>1, <4>2
        <5>. QED BY <1>1, <1>3, <2>1, <5>1
      <4>. QED BY <1>1, <4>1, <4>2
    <3>3. h \in 0..n + k /\ IF h = 0 THEN t \in held ELSE Gains(s, c[h], t)
      BY <1>1, <3>1
    <3>. QED BY <1>1, <3>2, <3>3 DEF After
  <2>2. CASE i # 0
    <3>1. i + n \in 0..n + k /\ i + n # 0 /\ c[i + n] = b[i]
      BY <1>1, <2>2
    <3>2. ASSUME NEW j \in i + n + 1..n + k PROVE ~Loses(c[j], t)
      <4>1. j - n \in i + 1..k /\ j - n \in 1..k /\ (j - n) + n = j
        BY <1>1
      <4>. QED BY <1>1, <1>3, <4>1
    <3>. QED BY <1>1, <1>3, <2>2, <3>1, <3>2 DEF After
  <2>. QED BY <2>1, <2>2
<1>. QED BY <1>1, <1>2, <1>3 DEF After, k

LEMMA AfterIsTracks ==
  ASSUME NEW s, NEW held, NEW msgs
  PROVE  After(s, held, msgs) \in TrackSets
BY DEF After, TrackSets

\* Handling the first message changes nothing about what will be held.
LEMMA AfterHead ==
  ASSUME NEW s, NEW held \in TrackSets, NEW msgs \in Seq(Reports), msgs # << >>
  PROVE  After(s, held, msgs) = After(s, Hear(s, held, Head(msgs)), Tail(msgs))
<1>1. Head(msgs) \in Reports /\ Tail(msgs) \in Seq(Reports)
  BY HeadTailProperties
<1>2. << Head(msgs) >> \in Seq(Reports) /\ msgs = << Head(msgs) >> \o Tail(msgs)
  BY <1>1
<1>3. After(s, held, << Head(msgs) >> \o Tail(msgs))
        = After(s, After(s, held, << Head(msgs) >>), Tail(msgs))
  BY <1>1, <1>2, AfterBoth, Zenon
<1>4. After(s, held, << Head(msgs) >>) = Hear(s, held, Head(msgs))
  BY <1>1, AfterOne, Zenon
<1>. QED BY <1>2, <1>3, <1>4, Zenon

-----------------------------------------------------------------------------
(* What a round of the camera's loop publishes *)

\* A list of a set's elements names each of them.
LEMMA ListsAreComplete ==
  ASSUME NEW S, IsFiniteSet(S), NEW f \in SetToSeqs(S)
  PROVE  f \in Seq(S) /\ \A x \in S : \E i \in 1..Len(f) : f[i] = x
<1>. DEFINE n == Cardinality(S)
            R == {f[i] : i \in 1..n}
<1>1. n \in Nat
  BY FS_CardinalityType
<1>2. f \in [1..n -> S] /\ \A i, j \in 1..n : i # j => f[i] # f[j]
  BY DEF SetToSeqs
<1>. HIDE DEF n
<1>3. f \in Bijection(1..n, R)
  BY <1>2 DEF Bijection, Injection, Surjection, IsInjective
<1>4. Cardinality(R) = n
  BY <1>1, <1>3, FS_CountingElements DEF ExistsBijection
<1>5. R \in SUBSET S
  BY <1>2
<1>6. R = S
  BY <1>4, <1>5, FS_Subset DEF n
<1>7. f \in Seq(S) /\ Len(f) = n
  BY <1>1, <1>2
<1>. QED BY <1>6, <1>7

\* A message of the boxes of some tracks.
LEMMA MessageFacts ==
  ASSUME NEW delta \in Deltas, NEW ts \in SUBSET Tracks, NEW new \in [Tracks -> TrackState],
         delta # "lost_track" => \A t \in ts : new[t].at # Away
  PROVE  /\ Message(delta, ts, new) \in Reports
         /\ Message(delta, ts, new).delta = delta
         /\ DOMAIN Message(delta, ts, new).dets = ts
<1>. DEFINE dets == [t \in ts |-> new[t].at]
<1>1. dets \in [ts -> Places \cup {Away}] /\ \A t \in ts : dets[t] = new[t].at
  BY DEF TrackState
<1>2. dets \in UNION {[us -> Places \cup {Away}] : us \in SUBSET Tracks}
  BY <1>1
<1>3. DOMAIN dets = ts
  OBVIOUS
<1>. HIDE DEF dets
<1>4. /\ Message(delta, ts, new) = [delta |-> delta, dets |-> dets]
  BY DEF Message, dets
<1>. QED BY <1>1, <1>2, <1>3, <1>4 DEF Reports

\* The two parts of a round's messages.
Said(said, delta, ts, new) == IF said THEN << Message(delta, ts, new) >> ELSE << >>
Farewells(losses, new) == [i \in 1..Len(losses) |-> Message("lost_track", {losses[i]}, new)]

\* Boxes are news to the one who mirrors boxes.
LEMMA AfterBoxes ==
  ASSUME NEW s \in Subscribers, NEW held \in TrackSets,
         NEW ts \in TrackSets, NEW new \in TrackTables,
         \A t \in ts : new[t].at # Away
  PROVE  /\ << Message("periodic", ts, new) >> \in Seq(Reports)
         /\ After(s, held, << Message("periodic", ts, new) >>) = IF s = "enrich" THEN held \cup ts ELSE held
<1>. DEFINE m == Message("periodic", ts, new)
<1>1. m \in Reports /\ m.delta = "periodic" /\ DOMAIN m.dets = ts
  BY MessageFacts DEF Deltas, TrackTables, TrackSets
<1>2. << m >> \in Seq(Reports)
  BY <1>1
<1>3. After(s, held, << m >>) = Hear(s, held, m)
  BY <1>1, AfterOne
<1>4. Hear(s, held, m) = IF s = "enrich" THEN held \cup ts ELSE held
  BY <1>1 DEF Hear
<1>. QED BY <1>2, <1>3, <1>4

\* Births are news to both.
LEMMA AfterBirths ==
  ASSUME NEW s \in Subscribers, NEW held \in TrackSets,
         NEW ts \in TrackSets, NEW new \in TrackTables,
         \A t \in ts : new[t].at # Away
  PROVE  /\ << Message("new_track", ts, new) >> \in Seq(Reports)
         /\ After(s, held, << Message("new_track", ts, new) >>) = held \cup ts
<1>. DEFINE m == Message("new_track", ts, new)
<1>1. m \in Reports /\ m.delta = "new_track" /\ DOMAIN m.dets = ts
  BY MessageFacts DEF Deltas, TrackTables, TrackSets
<1>2. << m >> \in Seq(Reports)
  BY <1>1
<1>3. After(s, held, << m >>) = Hear(s, held, m)
  BY <1>1, AfterOne
<1>4. Hear(s, held, m) = held \cup ts
  BY <1>1 DEF Hear
<1>. QED BY <1>2, <1>3, <1>4

\* Only losses.
LEMMA AfterLosses ==
  ASSUME NEW s \in Subscribers, NEW held \in TrackSets,
         NEW lost \in TrackSets, NEW losses \in SetToSeqs(lost),
         NEW new \in TrackTables
  PROVE  /\ Farewells(losses, new) \in Seq(Reports)
         /\ After(s, held, Farewells(losses, new)) = held \ lost
<1>. DEFINE n == Len(losses)
            msgs == Farewells(losses, new)
<1>1. IsFiniteSet(lost)
  BY PerceptionAssumption, FS_Subset DEF TrackSets
<1>2. losses \in Seq(lost) /\ \A x \in lost : \E i \in 1..Len(losses) : losses[i] = x
  BY <1>1, ListsAreComplete
<1>3. n \in Nat /\ \A i \in 1..n : losses[i] \in lost
  BY <1>2
<1>4. \A i \in 1..n :
        /\ msgs[i] \in Reports /\ msgs[i].delta = "lost_track"
        /\ DOMAIN msgs[i].dets = {losses[i]}
  BY <1>3, MessageFacts DEF Deltas, Farewells, TrackTables, TrackSets
<1>5. msgs \in Seq(Reports) /\ Len(msgs) = n
  BY <1>3, <1>4 DEF Farewells
<1>. HIDE DEF msgs
<1>6. \A i \in 1..n, t \in Tracks :
        ~Gains(s, msgs[i], t) /\ (Loses(msgs[i], t) <=> t = losses[i])
  BY <1>4 DEF Gains, Loses, Mentions
<1>. HIDE DEF n
<1>7. \A t \in Tracks :
        t \in After(s, held, msgs) <=> t \in held /\ \A j \in 1..n : ~Loses(msgs[j], t)
  BY <1>3, <1>5, <1>6 DEF After
<1>8. \A t \in Tracks : t \in lost <=> \E j \in 1..n : Loses(msgs[j], t)
  BY <1>2, <1>3, <1>6 DEF n
<1>9. After(s, held, msgs) = held \ lost
  BY <1>7, <1>8 DEF After, TrackSets
<1>. QED BY <1>5, <1>9 DEF msgs
-----------------------------------------------------------------------------
(* One frame *)

\* The tracks after a frame: a track that was seen has a place, one that was not
\* keeps its hits until it is forgotten.
LEMMA UpdatedFacts ==
  ASSUME TypeOK, NEW seen \in SUBSET scene, NEW f \in [seen -> Held \cup Unused]
  PROVE  /\ Updated(f) \in TrackTables
         /\ Range(f) \subseteq Tracks
         /\ \A t \in Range(f) :
              /\ Updated(f)[t].at # Away
              /\ tracks[t].hits = MinHits => Updated(f)[t].hits = MinHits
         /\ \A t \in Tracks \ Range(f) : Updated(f)[t].hits \in {0, tracks[t].hits}
<1>. DEFINE new == Updated(f)
<1>1. MinHits \in Nat \ {0} /\ LostAfter \in Nat /\ Away \notin Places
  BY PerceptionAssumption
<1>2. Range(f) \subseteq Tracks
  BY DEF Range, Held, Unused
<1>3. seen \subseteq Places
  BY DEF TypeOK
<1>4. \A t \in Tracks : /\ tracks[t] \in TrackState /\ tracks[t].hits \in 0..MinHits
                        /\ tracks[t].unseen \in 0..LostAfter
  BY DEF TypeOK, TrackState
<1>5. NoTrack \in TrackState /\ NoTrack.hits = 0
  BY <1>1 DEF NoTrack, TrackState
<1>6. ASSUME NEW t \in Range(f)
      PROVE  /\ new[t] \in TrackState /\ new[t].at # Away
             /\ tracks[t].hits = MinHits => new[t].hits = MinHits
  <2>. DEFINE x == CHOOSE x \in DOMAIN f : f[x] = t
              n == IF tracks[t].hits < MinHits THEN tracks[t].hits + 1 ELSE tracks[t].hits
  <2>1. x \in seen
    BY DEF Range
  <2>2. n \in 0..MinHits /\ (tracks[t].hits = MinHits => n = MinHits)
    BY <1>1, <1>2, <1>4
  <2>3. new[t] = [at |-> x, hits |-> n, unseen |-> 0]
    BY <1>2 DEF Updated
  <2>. HIDE DEF x, n
  <2>4. 0 \in 0..LostAfter
    BY <1>1
  <2>. HIDE DEF new
  <2>. QED BY <1>1, <1>3, <2>1, <2>2, <2>3, <2>4 DEF TrackState
<1>7. ASSUME NEW t \in Tracks \ Range(f)
      PROVE  new[t] \in TrackState /\ new[t].hits \in {0, tracks[t].hits}
  <2>1. new[t] \in {Aged(t), NoTrack}
    BY DEF Updated
  <2>2. CASE tracks[t].unseen = LostAfter
    BY <1>5, <2>1, <2>2 DEF Aged
  <2>3. CASE tracks[t].unseen # LostAfter
    <3>1. Aged(t) = [tracks[t] EXCEPT !.unseen = tracks[t].unseen + 1]
      BY <2>3 DEF Aged
    <3>2. tracks[t].unseen + 1 \in 0..LostAfter
      BY <1>1, <1>4, <2>3
    <3>3. Aged(t) \in TrackState /\ Aged(t).hits = tracks[t].hits
      BY <1>4, <3>1, <3>2 DEF TrackState
    <3>. QED BY <1>5, <2>1, <3>3
  <2>. QED BY <2>2, <2>3
<1>8. new = [t \in Tracks |-> new[t]]
  BY DEF Updated
<1>. HIDE DEF new
<1>9. new \in TrackTables
  BY <1>2, <1>6, <1>7, <1>8 DEF TrackTables
<1>. QED BY <1>2, <1>6, <1>7, <1>9 DEF new

\* The messages of a round say what the frame changed.
LEMMA RoundIsFaithful ==
  ASSUME TypeOK, NEW seen \in SUBSET scene, NEW f \in [seen -> Held \cup Unused],
         NEW due \in BOOLEAN, NEW losses \in Losses(Updated(f)), NEW s \in Subscribers
  PROVE  LET msgs == Messages(Updated(f), Range(f), due, losses) IN
         /\ msgs \in Seq(Reports)
         /\ After(s, Born, msgs) = {t \in Tracks : Updated(f)[t].hits = MinHits}
<1>. DEFINE new == Updated(f)
            now == {t \in Tracks : new[t].hits = MinHits}
            current == {t \in Range(f) : new[t].hits = MinHits}
            births == current \ Born
            lost == Lost(new)
            say == due /\ current # {}
            bear == births # {}
            a == Said(say, "periodic", current, new)
            b == Said(bear, "new_track", births, new)
            c == Farewells(losses, new)
<1>1. /\ new \in TrackTables /\ Range(f) \subseteq Tracks
      /\ \A t \in Range(f) : /\ new[t].at # Away
                             /\ tracks[t].hits = MinHits => new[t].hits = MinHits
      /\ \A t \in Tracks \ Range(f) : new[t].hits \in {0, tracks[t].hits}
  BY UpdatedFacts
<1>2. Messages(new, Range(f), due, losses) = (a \o b) \o c
  BY DEF Messages, Said, Farewells
<1>3. losses \in SetToSeqs(lost)
  BY DEF Losses
<1>. HIDE DEF new
<1>4. /\ current \in TrackSets /\ births \in TrackSets
      /\ Born \in TrackSets /\ lost \in TrackSets
      /\ \A t \in current : new[t].at # Away
      /\ \A t \in births : new[t].at # Away
  BY <1>1 DEF Born, Lost, TrackSets
<1>5. say \in BOOLEAN /\ bear \in BOOLEAN
  OBVIOUS
<1>6. now = (Born \cup births) \ lost /\ current \subseteq Born \cup births
  <2>1. MinHits # 0
    BY PerceptionAssumption
  <2>. QED BY <1>1, <2>1 DEF Born, Lost
<1>7. Born \cup current \in TrackSets
  BY <1>4 DEF TrackSets
<1>. HIDE DEF now, current, births, lost, say, bear, a, b, c
<1>. DEFINE held == After(s, Born, a)
            born == After(s, held, b)
<1>8. /\ a \in Seq(Reports)
      /\ held = IF say /\ s = "enrich" THEN Born \cup current ELSE Born
  <2>1. CASE ~say
    BY <1>4, <2>1, AfterNothing DEF a, Said, TrackSets
  <2>2. CASE say
    <3>1. a = << Message("periodic", current, new) >>
      BY <2>2 DEF a, Said
    <3>2. new \in TrackTables /\ current \in TrackSets /\ Born \in TrackSets
      BY <1>1, <1>4
    <3>3. \A t \in current : new[t].at # Away
      BY <1>4
    <3>4. << Message("periodic", current, new) >> \in Seq(Reports)
      BY <3>2, <3>3, AfterBoxes
    <3>5. After(s, Born, << Message("periodic", current, new) >>) =
            IF s = "enrich" THEN Born \cup current ELSE Born
      BY <3>2, <3>3, AfterBoxes
    <3>. QED BY <2>2, <3>1, <3>4, <3>5
  <2>. QED BY <2>1, <2>2
<1>9. held \in TrackSets /\ born \in TrackSets
  BY AfterIsTracks DEF TrackSets
<1>. HIDE DEF held
<1>10. /\ b \in Seq(Reports)
       /\ born = IF bear THEN held \cup births ELSE held
  <2>1. CASE ~bear
    BY <1>9, <2>1, AfterNothing DEF b, Said, TrackSets
  <2>2. CASE bear
    <3>1. b = << Message("new_track", births, new) >>
      BY <2>2 DEF b, Said
    <3>2. /\ << Message("new_track", births, new) >> \in Seq(Reports)
          /\ After(s, held, << Message("new_track", births, new) >>) = held \cup births
      BY <1>1, <1>4, <1>9, AfterBirths
    <3>. QED BY <2>2, <3>1, <3>2
  <2>. QED BY <2>1, <2>2
<1>. HIDE DEF born
<1>11. a \o b \in Seq(Reports)
  BY <1>8, <1>10
<1>12. After(s, Born, a \o b) = born
  BY <1>4, <1>8, <1>10, AfterBoth, Zenon DEF held, born
<1>13. c \in Seq(Reports) /\ After(s, born, c) = born \ lost
  <2>1. new \in TrackTables /\ lost \in TrackSets /\ born \in TrackSets
    BY <1>1, <1>4, <1>9
  <2>2. Farewells(losses, new) \in Seq(Reports)
    BY <1>3, <2>1, AfterLosses
  <2>3. After(s, born, Farewells(losses, new)) = born \ lost
    BY <1>3, <2>1, AfterLosses
  <2>. QED BY <2>2, <2>3 DEF c
<1>14. After(s, Born, (a \o b) \o c) = After(s, After(s, Born, a \o b), c)
  <2>1. Born \in TrackSets /\ c \in Seq(Reports)
    BY <1>4, <1>13
  <2>. QED BY <1>11, <2>1, AfterBoth, Zenon
<1>17. (a \o b) \o c \in Seq(Reports)
  BY <1>11, <1>13
<1>15. ~bear => births = {}
  BY DEF bear
<1>16. born \ lost = now
  BY <1>6, <1>8, <1>10, <1>15
<1>18. After(s, Born, (a \o b) \o c) = After(s, born, c)
  BY <1>12, <1>14
<1>19. After(s, Born, (a \o b) \o c) = now
  BY <1>13, <1>16, <1>18
<1>. QED BY <1>2, <1>17, <1>19 DEF new, now

\* A frame and what is published of it agree, at every subscriber.
LEMMA FrameAgrees ==
  ASSUME StreamInv, NEW seen \in Detections, NEW due \in BOOLEAN, Frame(seen, due)
  PROVE  StreamInv'
<1>1. outgoing = << >> /\ camera
  BY DEF Frame
<1>2. UNCHANGED <<scene, camera, broker, inbox, consumers, torn>>
  BY DEF Frame
<1>3. UNCHANGED <<scene, camera, broker, inbox, present, boxes, torn>>
  BY <1>2 DEF consumers
<1>4. TypeOK /\ seen \in SUBSET scene
  BY DEF StreamInv, Detections
<1>5. PICK f \in [seen -> Held \cup Unused] :
        /\ tracks' = Updated(f)
        /\ \E losses \in Losses(Updated(f)) :
             outgoing' = Messages(Updated(f), Range(f), due, losses)
  BY DEF Frame
<1>6. PICK losses \in Losses(Updated(f)) :
        outgoing' = Messages(Updated(f), Range(f), due, losses)
  BY <1>5
<1>7. tracks' \in TrackTables
  BY <1>4, <1>5, UpdatedFacts
<1>8. \A s \in Subscribers :
        /\ outgoing' \in Seq(Reports)
        /\ After(s, Born, outgoing') = Born'
  <2>1. Born' = {t \in Tracks : Updated(f)[t].hits = MinHits}
    BY <1>5 DEF Born
  <2>. QED BY <1>4, <1>6, <2>1, RoundIsFaithful
<1>9. TypeOK'
  <2>1. outgoing' \in Seq(Reports)
    BY <1>8 DEF Subscribers
  <2>. QED BY <1>3, <1>4, <1>7, <2>1 DEF TypeOK, TrackTables
<1>10. NothingOnItsWay'
  BY <1>3 DEF StreamInv, NothingOnItsWay
<1>11. StreamAgrees'
  <2>. SUFFICES ASSUME ~torn', NEW s \in Subscribers
                PROVE  HoldsAfter(s, inbox[s] \o outgoing)' = Born'
    BY DEF StreamAgrees
  <2>. DEFINE held == Holds(s)
              q == inbox[s]
  <2>1. held \in TrackSets /\ q \in Seq(Reports) /\ Born \in TrackSets
    BY <1>4 DEF TypeOK, Holds, Mirrored, TrackSets, Born
  <2>2. q \o << >> = q
    BY <2>1
  <2>3. After(s, held, q) = Born
    BY <1>1, <1>3, <2>2 DEF StreamInv, StreamAgrees, HoldsAfter
  <2>4. Holds(s)' = held /\ inbox'[s] = q
    BY <1>3 DEF Holds, Mirrored
  <2>5. outgoing' \in Seq(Reports) /\ After(s, Born, outgoing') = Born'
    BY <1>8
  <2>6. HoldsAfter(s, inbox[s] \o outgoing)' = After(s, held, q \o outgoing')
    BY <2>4 DEF HoldsAfter
  <2>. HIDE DEF held, q
  <2>7. After(s, held, q \o outgoing') = After(s, After(s, held, q), outgoing')
    BY <2>1, <2>5, AfterBoth, Zenon
  <2>. QED BY <2>3, <2>5, <2>6, <2>7
<1>. QED BY <1>9, <1>10, <1>11 DEF StreamInv

-----------------------------------------------------------------------------
(* The bus and its two readers *)

LEMMA HoldsFacts ==
  ASSUME TypeOK, NEW s \in Subscribers
  PROVE  /\ Holds(s) \in TrackSets
         /\ inbox[s] \in Seq(Reports) /\ outgoing \in Seq(Reports)
         /\ inbox[s] \o outgoing \in Seq(Reports)
<1>1. inbox[s] \in Seq(Reports) /\ outgoing \in Seq(Reports)
  BY DEF TypeOK
<1>. QED BY <1>1 DEF TypeOK, Holds, Mirrored, TrackSets

\* A message that is published is the next one to be told to both.
LEMMA PublishAgrees ==
  ASSUME StreamInv, Publish
  PROVE  StreamInv'
<1>1. /\ outgoing # << >> /\ broker
      /\ inbox' = [s \in Subscribers |-> Append(inbox[s], Head(outgoing))]
      /\ outgoing' = Tail(outgoing)
      /\ UNCHANGED <<scene, camera, tracks, broker, present, boxes, torn>>
  BY DEF Publish, consumers
<1>2. TypeOK
  BY DEF StreamInv
<1>3. Head(outgoing) \in Reports /\ outgoing' \in Seq(Reports)
  BY <1>1, <1>2, HeadTailProperties DEF TypeOK
<1>4. \A s \in Subscribers : inbox'[s] = Append(inbox[s], Head(outgoing))
  BY <1>1
<1>5. inbox' \in [Subscribers -> Seq(Reports)]
  <2>1. \A s \in Subscribers : Append(inbox[s], Head(outgoing)) \in Seq(Reports)
    BY <1>2, <1>3, HoldsFacts
  <2>. QED BY <1>1, <2>1
<1>6. TypeOK'
  BY <1>1, <1>2, <1>3, <1>5 DEF TypeOK
<1>7. NothingOnItsWay'
  BY <1>1 DEF NothingOnItsWay
<1>8. StreamAgrees'
  <2>. SUFFICES ASSUME ~torn', NEW s \in Subscribers
                PROVE  HoldsAfter(s, inbox[s] \o outgoing)' = Born'
    BY DEF StreamAgrees
  <2>1. (inbox[s] \o outgoing)' = inbox[s] \o outgoing
    <3>1. inbox[s] \in Seq(Reports) /\ outgoing \in Seq(Reports)
      BY <1>2, HoldsFacts
    <3>2. Append(inbox[s], Head(outgoing)) \o Tail(outgoing) = inbox[s] \o outgoing
      BY <1>1, <3>1
    <3>. QED BY <1>1, <1>4, <3>2
  <2>2. HoldsAfter(s, inbox[s] \o outgoing) = Born
    BY <1>1 DEF StreamInv, StreamAgrees
  <2>3. Born' = Born /\ Holds(s)' = Holds(s)
    BY <1>1 DEF Born, Holds, Mirrored
  <2>. QED BY <2>1, <2>2, <2>3 DEF HoldsAfter
<1>. QED BY <1>6, <1>7, <1>8 DEF StreamInv

\* The process that cannot publish takes its tracks with it; readers that hold
\* any will not hear of their loss.
LEMMA PublishFailsAgrees ==
  ASSUME StreamInv, PublishFails
  PROVE  StreamInv'
<1>1. /\ ~broker /\ camera' = FALSE
      /\ tracks' = [t \in Tracks |-> NoTrack]
      /\ outgoing' = << >>
      /\ torn' = (torn \/ \E s \in Subscribers : Holds(s) # {})
      /\ UNCHANGED <<scene, broker, inbox, present, boxes>>
  BY DEF PublishFails, consumers
<1>2. TypeOK
  BY DEF StreamInv
<1>3. NoTrack \in TrackState /\ NoTrack.hits # MinHits
  BY PerceptionAssumption DEF NoTrack, TrackState
<1>4. TypeOK'
  <2>1. torn' \in BOOLEAN
    BY <1>1, <1>2 DEF TypeOK
  <2>2. tracks' \in [Tracks -> TrackState]
    BY <1>1, <1>3
  <2>3. outgoing' \in Seq(Reports)
    BY <1>1
  <2>. QED BY <1>1, <1>2, <2>1, <2>2, <2>3 DEF TypeOK
<1>5. NothingOnItsWay'
  BY <1>1 DEF StreamInv, NothingOnItsWay
<1>6. StreamAgrees'
  <2>. SUFFICES ASSUME ~torn', NEW s \in Subscribers
                PROVE  HoldsAfter(s, inbox[s] \o outgoing)' = Born'
    BY DEF StreamAgrees
  <2>1. (inbox[s] \o outgoing)' = << >>
    BY <1>1 DEF StreamInv, NothingOnItsWay
  <2>2. Holds(s)' = {}
    BY <1>1 DEF Holds, Mirrored
  <2>3. Born' = {}
    BY <1>1, <1>3 DEF Born
  <2>4. {} \in TrackSets
    BY DEF TrackSets
  <2>5. After(s, {}, << >>) = {}
    BY <2>4, AfterNothing
  <2>. QED BY <2>1, <2>2, <2>3, <2>5 DEF HoldsAfter
<1>. QED BY <1>4, <1>5, <1>6 DEF StreamInv

LEMMA HeadOfBoth ==
  ASSUME NEW a \in Seq(Reports), NEW b \in Seq(Reports), a # << >>
  PROVE  a \o b # << >> /\ Head(a \o b) = Head(a) /\ Tail(a \o b) = Tail(a) \o b
<1>. DEFINE c == a \o b
            n == Len(a)
            k == Len(b)
<1>1. /\ n \in Nat \ {0} /\ k \in Nat /\ c \in Seq(Reports) /\ Len(c) = n + k
      /\ \A i \in 1..n : c[i] = a[i]
      /\ \A i \in 1..k : c[i + n] = b[i]
  OBVIOUS
<1>2. /\ Tail(a) \in Seq(Reports) /\ Len(Tail(a)) = n - 1
      /\ \A i \in 1..n - 1 : Tail(a)[i] = a[i + 1]
  BY <1>1, HeadTailProperties
<1>. HIDE DEF c, n, k
<1>3. c # << >>
  BY <1>1
<1>4. Head(c) = Head(a)
  BY <1>1 DEF n
<1>5. /\ Tail(c) \in Seq(Reports) /\ Len(Tail(c)) = n + k - 1
      /\ \A i \in 1..n + k - 1 : Tail(c)[i] = c[i + 1]
  BY <1>1, <1>3, HeadTailProperties
<1>. DEFINE d == Tail(a) \o b
<1>6. /\ d \in Seq(Reports) /\ Len(d) = n + k - 1
      /\ \A i \in 1..n - 1 : d[i] = Tail(a)[i]
      /\ \A i \in 1..k : d[i + (n - 1)] = b[i]
  BY <1>1, <1>2 DEF k
<1>. HIDE DEF d
<1>7. ASSUME NEW i \in 1..n + k - 1 PROVE Tail(c)[i] = d[i]
  <2>1. CASE i <= n - 1
    BY <1>1, <1>2, <1>5, <1>6, <2>1
  <2>2. CASE i > n - 1
    <3>1. i - (n - 1) \in 1..k /\ (i - (n - 1)) + (n - 1) = i /\ (i - (n - 1)) + n = i + 1
      BY <1>1, <2>2
    <3>2. d[i] = b[i - (n - 1)] /\ c[i + 1] = b[i - (n - 1)]
      BY <1>1, <1>6, <3>1
    <3>. QED BY <1>5, <3>2
  <2>. QED BY <1>1, <2>1, <2>2
<1>8. Tail(c) = d
  BY <1>1, <1>5, <1>6, <1>7, SeqEqual
<1>. QED BY <1>3, <1>4, <1>8 DEF c, d

\* A reader handles a message: what it will hold stays, and the other does not move.
LEMMA ReadAgrees ==
  ASSUME StreamInv, NEW r \in Subscribers, inbox[r] # << >>,
         inbox' = [inbox EXCEPT ![r] = Tail(inbox[r])],
         UNCHANGED <<scene, process, broker, torn>>,
         present' \subseteq Tracks, boxes' \in [Tracks -> Places \cup {Away}],
         Holds(r)' = Hear(r, Holds(r), Head(inbox[r])),
         \A s \in Subscribers \ {r} : Holds(s)' = Holds(s)
  PROVE  StreamInv'
<1>1. TypeOK
  BY DEF StreamInv
<1>2. UNCHANGED <<scene, camera, tracks, outgoing, broker, torn>>
  BY DEF process
<1>3. /\ inbox'[r] = Tail(inbox[r])
      /\ \A s \in Subscribers \ {r} : inbox'[s] = inbox[s]
  BY <1>1 DEF TypeOK
<1>4. Head(inbox[r]) \in Reports /\ Tail(inbox[r]) \in Seq(Reports)
  BY <1>1, HeadTailProperties DEF TypeOK
<1>5. TypeOK'
  <2>1. inbox' \in [Subscribers -> Seq(Reports)]
    BY <1>1, <1>4 DEF TypeOK
  <2>. QED BY <1>1, <1>2, <2>1 DEF TypeOK
<1>6. NothingOnItsWay'
  BY <1>2, <1>3 DEF StreamInv, NothingOnItsWay
<1>7. StreamAgrees'
  <2>. SUFFICES ASSUME ~torn', NEW s \in Subscribers
                PROVE  HoldsAfter(s, inbox[s] \o outgoing)' = Born'
    BY DEF StreamAgrees
  <2>1. HoldsAfter(s, inbox[s] \o outgoing) = Born
    BY <1>2 DEF StreamInv, StreamAgrees
  <2>2. Born' = Born
    BY <1>2 DEF Born
  <2>3. CASE s # r
    <3>1. Holds(s)' = Holds(s) /\ (inbox[s] \o outgoing)' = inbox[s] \o outgoing
      BY <1>2, <1>3, <2>3
    <3>. QED BY <2>1, <2>2, <3>1 DEF HoldsAfter
  <2>4. CASE s = r
    <3>. DEFINE msgs == inbox[r] \o outgoing
    <3>1. /\ inbox[r] \in Seq(Reports) /\ outgoing \in Seq(Reports)
          /\ msgs \in Seq(Reports) /\ Holds(r) \in TrackSets
      BY <1>1, HoldsFacts
    <3>2. /\ msgs # << >> /\ Head(msgs) = Head(inbox[r])
          /\ Tail(msgs) = Tail(inbox[r]) \o outgoing
      BY <3>1, HeadOfBoth
    <3>. HIDE DEF msgs
    <3>3. After(r, Holds(r), msgs) = After(r, Hear(r, Holds(r), Head(msgs)), Tail(msgs))
      <4>1. Holds(r) \in TrackSets /\ msgs \in Seq(Reports) /\ msgs # << >>
        BY <3>1, <3>2
      <4>. QED BY <4>1, AfterHead, Zenon
    <3>4. After(r, Holds(r), msgs) = Born
      BY <2>1, <2>4 DEF HoldsAfter, msgs
    <3>5. HoldsAfter(s, inbox[s] \o outgoing)' = After(r, Holds(r)', Tail(msgs))
      BY <1>2, <1>3, <2>4, <3>2 DEF HoldsAfter
    <3>. QED BY <2>2, <3>2, <3>3, <3>4, <3>5
  <2>. QED BY <2>3, <2>4
<1>. QED BY <1>5, <1>6, <1>7 DEF StreamInv

LEMMA OnTier0Agrees ==
  ASSUME StreamInv, OnTier0
  PROVE  StreamInv'
<1>. DEFINE r == "orchestrator"
            m == Head(inbox[r])
<1>1. /\ inbox[r] # << >> /\ r \in Subscribers
      /\ inbox' = [inbox EXCEPT ![r] = Tail(inbox[r])]
      /\ UNCHANGED <<scene, process, broker, boxes, torn>>
      /\ present' = Hear(r, present, m)
  BY DEF OnTier0, Subscribers
<1>2. TypeOK
  BY DEF StreamInv
<1>3. m \in Reports
  BY <1>1, <1>2, HeadTailProperties DEF TypeOK
<1>4. m.delta \in Deltas /\ DOMAIN m.dets \subseteq Tracks
  BY <1>3, ReportFacts
<1>5. present' \subseteq Tracks
  BY <1>1, <1>2, <1>4 DEF Hear, Deltas, TypeOK
<1>6. boxes' \in [Tracks -> Places \cup {Away}]
  BY <1>1, <1>2 DEF TypeOK
<1>7. /\ Holds(r)' = Hear(r, Holds(r), m)
      /\ \A s \in Subscribers \ {r} : Holds(s)' = Holds(s)
  BY <1>1 DEF Holds, Mirrored, Subscribers
<1>. HIDE DEF r
<1>. QED BY <1>1, <1>5, <1>6, <1>7, ReadAgrees

LEMMA OnFrameAgrees ==
  ASSUME StreamInv, OnFrame
  PROVE  StreamInv'
<1>. DEFINE r == "enrich"
            m == Head(inbox[r])
<1>1. /\ inbox[r] # << >> /\ r \in Subscribers
      /\ inbox' = [inbox EXCEPT ![r] = Tail(inbox[r])]
      /\ UNCHANGED <<scene, process, broker, present, torn>>
      /\ boxes' = [t \in Tracks |->
                     IF t \notin DOMAIN m.dets THEN boxes[t]
                     ELSE IF m.delta = "lost_track" THEN Away ELSE m.dets[t]]
  BY DEF OnFrame, Subscribers
<1>2. TypeOK
  BY DEF StreamInv
<1>3. m \in Reports
  BY <1>1, <1>2, HeadTailProperties DEF TypeOK
<1>4. /\ m.delta \in Deltas /\ DOMAIN m.dets \subseteq Tracks
      /\ m.delta # "lost_track" => \A t \in DOMAIN m.dets : m.dets[t] \in Places
  BY <1>3, ReportFacts
<1>5. present' \subseteq Tracks
  BY <1>1, <1>2 DEF TypeOK
<1>6. boxes' \in [Tracks -> Places \cup {Away}]
  BY <1>1, <1>2, <1>4 DEF TypeOK
<1>7. Holds(r)' = Hear(r, Holds(r), m)
  <2>. DEFINE held == Hear(r, Mirrored, m)
  <2>1. \A t \in Tracks :
          boxes'[t] # Away <=> IF t \notin DOMAIN m.dets THEN boxes[t] # Away
                               ELSE m.delta # "lost_track"
    BY <1>1, <1>4, PerceptionAssumption
  <2>2. \A t \in Tracks : t \in Mirrored <=> boxes[t] # Away
    BY DEF Mirrored
  <2>3. \A t \in Tracks : t \in held <=> boxes'[t] # Away
    BY <1>4, <2>1, <2>2 DEF Hear, Deltas
  <2>4. held \subseteq Tracks
    BY <1>4 DEF Hear, Deltas, Mirrored
  <2>5. Mirrored' = held
    BY <2>3, <2>4 DEF Mirrored
  <2>. QED BY <2>5 DEF Holds
<1>8. \A s \in Subscribers \ {r} : Holds(s)' = Holds(s)
  BY <1>1 DEF Holds, Subscribers
<1>. HIDE DEF r
<1>. QED BY <1>1, <1>5, <1>6, <1>7, <1>8, ReadAgrees

-----------------------------------------------------------------------------
(* The world, the broker, and the rest *)

\* What the broker drops was of no importance, or the stream is torn.
LEMMA BrokerFailsAgrees ==
  ASSUME StreamInv, BrokerFails
  PROVE  StreamInv'
<1>1. /\ inbox' = [s \in Subscribers |-> << >>]
      /\ broker' = FALSE
      /\ torn' = (torn \/ \E s \in Subscribers : HoldsAfter(s, inbox[s]) # Holds(s))
      /\ UNCHANGED <<scene, camera, tracks, outgoing, present, boxes>>
  BY DEF BrokerFails, process, consumers
<1>2. TypeOK
  BY DEF StreamInv
<1>3. TypeOK'
  <2>1. torn' \in BOOLEAN
    BY <1>1, <1>2 DEF TypeOK
  <2>2. inbox' \in [Subscribers -> Seq(Reports)]
    BY <1>1
  <2>. QED BY <1>1, <1>2, <2>1, <2>2 DEF TypeOK
<1>4. NothingOnItsWay'
  BY <1>1 DEF NothingOnItsWay
<1>5. StreamAgrees'
  <2>. SUFFICES ASSUME ~torn', NEW s \in Subscribers
                PROVE  HoldsAfter(s, inbox[s] \o outgoing)' = Born'
    BY DEF StreamAgrees
  <2>. DEFINE held == Holds(s)
              q == inbox[s]
  <2>1. held \in TrackSets /\ q \in Seq(Reports) /\ outgoing \in Seq(Reports)
    BY <1>2, HoldsFacts
  <2>2. After(s, held, q) = held
    BY <1>1 DEF HoldsAfter
  <2>3. After(s, held, q \o outgoing) = Born
    BY <1>1 DEF StreamInv, StreamAgrees, HoldsAfter
  <2>4. (inbox[s] \o outgoing)' = outgoing
    BY <1>1, <2>1
  <2>5. Holds(s)' = held /\ Born' = Born
    BY <1>1 DEF Holds, Mirrored, Born
  <2>. HIDE DEF held, q
  <2>6. After(s, held, q \o outgoing) = After(s, After(s, held, q), outgoing)
    BY <2>1, AfterBoth, Zenon
  <2>7. HoldsAfter(s, inbox[s] \o outgoing)' = After(s, held, outgoing)
    BY <2>4, <2>5 DEF HoldsAfter
  <2>. QED BY <2>2, <2>3, <2>5, <2>6, <2>7
<1>. QED BY <1>3, <1>4, <1>5 DEF StreamInv

\* Steps that touch neither the stream nor what it is about.
LEMMA RestAgrees ==
  ASSUME StreamInv, UNCHANGED <<tracks, outgoing, inbox, consumers, torn>>,
         scene' \subseteq Places, camera' \in BOOLEAN, broker' \in BOOLEAN,
         broker => broker'
  PROVE  StreamInv'
<1>1. UNCHANGED <<tracks, outgoing, inbox, present, boxes, torn>>
  BY DEF consumers
<1>2. TypeOK'
  BY <1>1 DEF StreamInv, TypeOK
<1>3. NothingOnItsWay'
  BY <1>1 DEF StreamInv, NothingOnItsWay
<1>4. StreamAgrees'
  BY <1>1 DEF StreamInv, StreamAgrees, HoldsAfter, Holds, Mirrored, Born
<1>. QED BY <1>2, <1>3, <1>4 DEF StreamInv

LEMMA StreamInit ==
  ASSUME Init
  PROVE  StreamInv
<1>1. /\ scene \subseteq Places /\ camera = TRUE /\ broker = TRUE /\ torn = FALSE
      /\ tracks = [t \in Tracks |-> NoTrack]
      /\ outgoing = << >> /\ inbox = [s \in Subscribers |-> << >>]
      /\ present = {} /\ boxes = [t \in Tracks |-> Away]
  BY DEF Init
<1>2. NoTrack \in TrackState /\ NoTrack.hits # MinHits
  BY PerceptionAssumption DEF NoTrack, TrackState
<1>3. TypeOK
  <2>1. tracks \in [Tracks -> TrackState]
    BY <1>1, <1>2
  <2>2. outgoing \in Seq(Reports) /\ inbox \in [Subscribers -> Seq(Reports)]
    BY <1>1
  <2>3. boxes \in [Tracks -> Places \cup {Away}]
    BY <1>1
  <2>. QED BY <1>1, <2>1, <2>2, <2>3 DEF TypeOK
<1>4. NothingOnItsWay
  BY <1>1 DEF NothingOnItsWay
<1>5. StreamAgrees
  <2>. SUFFICES ASSUME NEW s \in Subscribers
                PROVE  HoldsAfter(s, inbox[s] \o outgoing) = Born
    BY DEF StreamAgrees
  <2>1. inbox[s] \o outgoing = << >>
    BY <1>1
  <2>2. Holds(s) = {} /\ Born = {} /\ {} \in TrackSets
    BY <1>1, <1>2 DEF Holds, Mirrored, Born, TrackSets
  <2>. QED BY <2>1, <2>2, AfterNothing DEF HoldsAfter
<1>. QED BY <1>3, <1>4, <1>5 DEF StreamInv

LEMMA StreamStep ==
  ASSUME StreamInv, [Next]_vars
  PROVE  StreamInv'
<1>1. ASSUME NEW seen \in Detections, NEW due \in BOOLEAN, Frame(seen, due)
      PROVE  StreamInv'
  BY <1>1, FrameAgrees
<1>2. CASE Publish
  BY <1>2, PublishAgrees
<1>3. CASE PublishFails
  BY <1>3, PublishFailsAgrees
<1>4. CASE CameraStarts
  <2>1. /\ UNCHANGED <<tracks, outgoing, inbox, consumers, torn>>
        /\ scene' = scene /\ broker' = broker /\ camera' \in BOOLEAN
    BY <1>4 DEF CameraStarts
  <2>. QED BY <2>1, RestAgrees DEF StreamInv, TypeOK
<1>5. CASE OnTier0
  BY <1>5, OnTier0Agrees
<1>6. CASE OnFrame
  BY <1>6, OnFrameAgrees
<1>7. CASE Move
  <2>1. /\ UNCHANGED <<tracks, outgoing, inbox, consumers, torn>>
        /\ camera' = camera /\ broker' = broker /\ scene' \subseteq Places
    BY <1>7 DEF Move, process
  <2>. QED BY <2>1, RestAgrees DEF StreamInv, TypeOK
<1>8. CASE BrokerFails
  BY <1>8, BrokerFailsAgrees
<1>9. CASE BrokerReturns
  <2>1. /\ UNCHANGED <<tracks, outgoing, inbox, consumers, torn>>
        /\ camera' = camera /\ scene' = scene /\ broker' = TRUE
    BY <1>9 DEF BrokerReturns, process
  <2>. QED BY <2>1, RestAgrees DEF StreamInv, TypeOK
<1>10. CASE UNCHANGED vars
  <2>1. UNCHANGED <<tracks, outgoing, inbox, consumers, torn, camera, broker, scene>>
    BY <1>10 DEF vars, process
  <2>. QED BY <2>1, RestAgrees DEF StreamInv, TypeOK
<1>. QED BY <1>1, <1>2, <1>3, <1>4, <1>5, <1>6, <1>7, <1>8, <1>9, <1>10 DEF Next

-----------------------------------------------------------------------------

\* Births, boxes and losses, whenever they are read, whenever the broker drops
\* them and whenever the camera's process dies of it (imx500_tripwire.py,
\* bus.py, orchestrator.py on_tier0, face_enrich.py _on_frame): types, an empty
\* bus while the broker is down, and the agreement below.
THEOREM StreamIsConsistent == Spec => []StreamInv
<1>1. Init => StreamInv
  BY StreamInit
<1>2. StreamInv /\ [Next]_vars => StreamInv'
  BY StreamStep
<1>. QED BY <1>1, <1>2, PTL DEF Spec

\* Unless a birth or a loss was dropped, the orchestrator and the enricher will
\* hold exactly the tracks the camera has announced and not yet lost, once they
\* have read what is on its way: for every scene, detector, number of tracks and
\* length of the queues.
THEOREM StreamKeepsAgreeing == Spec => []StreamAgrees
<1>1. StreamInv => StreamAgrees
  BY DEF StreamInv
<1>. QED BY <1>1, StreamIsConsistent, PTL
=============================================================================
