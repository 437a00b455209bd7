----------------------------- MODULE EarsProofs -----------------------------
(***************************************************************************)
(* That earsd hears itself only late, for every estimate, tail, reverb,    *)
(* pre-roll and buffer.  The property says something of what was read; it  *)
(* is inductive with what waits to be read: a frame of SPARC's own voice   *)
(* is in the device only while the gate is shut, or it is late already, or *)
(* beyond the estimate.                                                    *)
(***************************************************************************)
EXTENDS Ears, TLAPS

Frame == [sound : {"quiet", "speech", "own"}, late : BOOLEAN, overran : BOOLEAN]

EarsTypeOK ==
  /\ saying \in Nat /\ ringing \in Nat /\ gate \in Nat
  /\ device \in Seq(Frame) /\ preroll \in Seq(Frame) /\ own \in SUBSET Frame

\* After the last word the gate stays shut longer than the room rings.
GateOutlastsRoom == saying = 0 /\ ringing > 0 => ringing < gate

Excused(f) == f.sound = "own" => f.late \/ f.overran

WaitingExcused == \A i \in 1..Len(device) : gate > 0 \/ Excused(device[i])
HeardExcused ==
  /\ \A f \in own : f.sound = "own" /\ Excused(f)
  /\ \A i \in 1..Len(preroll) : Excused(preroll[i])

EarsInv == EarsTypeOK /\ GateOutlastsRoom /\ WaitingExcused /\ HeardExcused

-----------------------------------------------------------------------------

LEMMA OwnFrames ==
  ASSUME NEW s \in Seq(Frame)
  PROVE  /\ OwnIn(s) \in SUBSET Frame
         /\ \A f \in OwnIn(s) : \E i \in 1..Len(s) : f = s[i] /\ f.sound = "own"
BY DEF OwnIn

\* What the two loops do beside time and reading leaves the gate shut, or alone.
LEMMA HandsInv ==
  ASSUME EarsInv,
         VoiceUp \/ VoiceDown \/ StartSaying \/ SayFails
           \/ EndTranscription \/ MicFails \/ MicRestarts
  PROVE  EarsInv'
<1>. USE EarsAssumption DEF EarsInv, EarsTypeOK
<1>1. CASE VoiceUp \/ VoiceDown
  BY <1>1 DEF VoiceUp, VoiceDown, micVars, cutVars, GateOutlastsRoom, WaitingExcused,
              HeardExcused
<1>2. CASE StartSaying
  BY <1>2 DEF StartSaying, micVars, cutVars, GateOutlastsRoom, WaitingExcused, HeardExcused
<1>3. CASE SayFails
  BY <1>3 DEF SayFails, ResetGate, micVars, cutVars, GateOutlastsRoom, WaitingExcused,
              HeardExcused
<1>4. CASE EndTranscription
  BY <1>4 DEF EndTranscription, voiceVars, cutVars, GateOutlastsRoom, WaitingExcused,
              HeardExcused
<1>5. CASE MicFails
  BY <1>5 DEF MicFails, voiceVars, GateOutlastsRoom, WaitingExcused, HeardExcused
<1>6. CASE MicRestarts
  BY <1>6 DEF MicRestarts, voiceVars, cutVars, GateOutlastsRoom, WaitingExcused, HeardExcused
<1>. QED BY <1>1, <1>2, <1>3, <1>4, <1>5, <1>6

\* A frame of SPARC's voice comes behind the gate, or beyond the estimate; the
\* frames that were not read in time are late.
LEMMA TickInv ==
  ASSUME EarsInv, Tick
  PROVE  EarsInv'
<1>. USE EarsAssumption DEF EarsInv, EarsTypeOK
<1>1. /\ saying' \in Nat /\ ringing' \in Nat /\ gate' \in Nat
      /\ GateOutlastsRoom'
      /\ saying = 1 => gate' > 0
      /\ saying = 0 /\ ringing > 0 => gate' > 0
  BY DEF Tick, Less, ResetGate, GateOutlastsRoom
<1>2. UNCHANGED <<preroll, own>>
  BY DEF Tick, micVars, cutVars
<1>3. PICK f \in IF saying > 0 \/ ringing > 0 THEN {Own(gate' = 0)} ELSE {Quiet, Speech} :
        device' = LET waiting == [i \in 1..Len(device) |-> Late(device[i])] IN
                  IF mic # "crashed" /\ Len(device) < DeviceFrames
                    THEN Append(waiting, f) ELSE waiting
  BY DEF Tick
<1>4. f \in Frame /\ (gate' > 0 \/ Excused(f))
  <2>1. CASE saying > 0 \/ ringing > 0
    <3>1. f = Own(gate' = 0)
      BY <1>3, <2>1
    <3>2. CASE saying > 0 /\ gate' = 0
      BY <3>1, <3>2 DEF Own, Frame, Excused
    <3>3. CASE ~(saying > 0 /\ gate' = 0)
      BY <1>1, <2>1, <3>1, <3>3 DEF Own, Frame, Excused
    <3>. QED BY <3>2, <3>3
  <2>2. CASE ~(saying > 0 \/ ringing > 0)
    <3>1. f = Quiet \/ f = Speech
      BY <1>3, <2>2
    <3>2. CASE f = Quiet
      BY <3>2 DEF Quiet, Frame, Excused
    <3>3. CASE f = Speech
      BY <3>3 DEF Speech, Frame, Excused
    <3>. QED BY <3>1, <3>2, <3>3
  <2>. QED BY <2>1, <2>2
<1>. DEFINE waiting == [i \in 1..Len(device) |-> Late(device[i])]
<1>5. /\ waiting \in Seq(Frame) /\ Len(waiting) = Len(device)
      /\ \A i \in 1..Len(waiting) : Excused(waiting[i])
  <2>1. ASSUME NEW g \in Frame PROVE Late(g) \in Frame /\ Excused(Late(g))
    BY DEF Late, Frame, Excused
  <2>. QED BY <2>1
<1>6. device' = waiting \/ device' = Append(waiting, f)
  BY <1>3
<1>7. device' \in Seq(Frame) /\ WaitingExcused'
  <2>. HIDE DEF waiting
  <2>1. CASE device' = waiting
    BY <1>5, <2>1 DEF WaitingExcused
  <2>2. CASE device' = Append(waiting, f)
    BY <1>4, <1>5, <2>2 DEF WaitingExcused
  <2>. QED BY <1>6, <2>1, <2>2
<1>. QED BY <1>1, <1>2, <1>7 DEF HeardExcused

\* What is read into an utterance or the pre-roll is read with the gate open.
LEMMA ReadInv ==
  ASSUME EarsInv, Read
  PROVE  EarsInv'
<1>. USE DEF EarsInv, EarsTypeOK
<1>. DEFINE f == Head(device)
<1>1. /\ UNCHANGED <<saying, ringing, gate>>
      /\ device # << >> /\ device' = Tail(device) /\ f \in Frame
      /\ gate > 0 \/ Excused(f)
  BY DEF Read, voiceVars, WaitingExcused
<1>2. device' \in Seq(Frame) /\ WaitingExcused'
  BY <1>1 DEF WaitingExcused
<1>3. GateOutlastsRoom'
  BY <1>1 DEF GateOutlastsRoom
<1>4. PICK isSpeech \in BOOLEAN :
        IF Muted THEN ReadMuted
        ELSE IF inSpeech THEN ReadInSpeech(f, isSpeech)
        ELSE IF isSpeech THEN ReadOnset(f)
        ELSE ReadQuiet(f)
  BY DEF Read
<1>5. own' \in SUBSET Frame /\ preroll' \in Seq(Frame) /\ HeardExcused'
  <2>1. ASSUME NEW n, NEW shut, Flush(n, shut)
        PROVE  own' = {} /\ preroll' \in {<< >>, preroll}
    BY <2>1 DEF Flush
  <2>2. ASSUME own' = {} \/ own' = own, preroll' \in {<< >>, preroll}
        PROVE  own' \in SUBSET Frame /\ preroll' \in Seq(Frame) /\ HeardExcused'
    <3>1. CASE preroll' = preroll
      BY <2>2, <3>1 DEF HeardExcused
    <3>2. CASE preroll' = << >>
      BY <2>2, <3>2 DEF HeardExcused
    <3>. QED BY <2>2, <3>1, <3>2
  <2>3. CASE Muted
    BY <1>4, <2>1, <2>2, <2>3 DEF ReadMuted, cutVars
  <2>4. CASE ~Muted
    <3>1. Excused(f)
      BY <1>1, <2>4 DEF Muted
    <3>2. CASE inSpeech
      <4>1. \/ Flush(IF isSpeech THEN voiced + 1 ELSE voiced, FALSE)
            \/ own' = own \cup OwnIn(<<f>>) /\ preroll' = preroll
        BY <1>4, <2>4, <3>2 DEF ReadInSpeech
      <4>2. OwnIn(<<f>>) \in SUBSET Frame
            /\ \A g \in OwnIn(<<f>>) : g = f /\ g.sound = "own"
        <5>1. <<f>> \in Seq(Frame) /\ \A i \in 1..Len(<<f>>) : <<f>>[i] = f
          BY <1>1
        <5>. HIDE DEF f
        <5>. QED BY <5>1, OwnFrames
      <4>. QED BY <2>1, <2>2, <3>1, <4>1, <4>2 DEF HeardExcused
    <3>3. CASE ~inSpeech /\ isSpeech
      <4>1. own' = OwnIn(Append(preroll, f)) /\ preroll' = preroll
        BY <1>4, <2>4, <3>3 DEF ReadOnset
      <4>. DEFINE start == Append(preroll, f)
      <4>2. start \in Seq(Frame) /\ \A i \in 1..Len(start) : Excused(start[i])
        BY <1>1, <3>1 DEF HeardExcused
      <4>. HIDE DEF start
      <4>3. /\ OwnIn(start) \in SUBSET Frame
            /\ \A g \in OwnIn(start) : g.sound = "own" /\ Excused(g)
        BY <4>2, OwnFrames
      <4>4. own' = OwnIn(start) /\ preroll' = preroll
        BY <4>1 DEF start
      <4>. QED BY <4>3, <4>4 DEF HeardExcused
    <3>4. CASE ~inSpeech /\ ~isSpeech
      <4>. DEFINE all == Append(preroll, f)
      <4>1. own' = own /\ (preroll' = all \/ preroll' = Tail(all))
        BY <1>4, <2>4, <3>4 DEF ReadQuiet, cutVars
      <4>2. /\ all \in Seq(Frame) /\ all # << >>
            /\ \A i \in 1..Len(all) : Excused(all[i])
        BY <1>1, <3>1 DEF HeardExcused
      <4>. HIDE DEF all
      <4>3. Tail(all) \in Seq(Frame) /\ \A i \in 1..Len(Tail(all)) : Excused(Tail(all)[i])
        BY <4>2
      <4>. QED BY <4>1, <4>2, <4>3 DEF HeardExcused
    <3>. QED BY <3>2, <3>3, <3>4
  <2>. QED BY <2>3, <2>4
<1>. QED BY <1>1, <1>2, <1>3, <1>5

\* Whatever is said, read, transcribed or fails: the gate, and what passes it.
\* (earsd.py:60-75, 178-252)
THEOREM GateHolds == Spec => []EarsInv
<1>1. Init => EarsInv
  BY DEF Init, EarsInv, EarsTypeOK, GateOutlastsRoom, WaitingExcused, HeardExcused
<1>2. EarsInv /\ [Next]_vars => EarsInv'
  <2>. SUFFICES ASSUME EarsInv, [Next]_vars PROVE EarsInv'
    OBVIOUS
  <2>1. CASE UNCHANGED vars
    BY <2>1 DEF vars, voiceVars, micVars, cutVars, EarsInv, EarsTypeOK, GateOutlastsRoom,
                WaitingExcused, HeardExcused
  <2>. QED BY <2>1, HandsInv, TickInv, ReadInv DEF Next
<1>. QED BY <1>1, <1>2, PTL DEF Spec

\* However long the estimate, the tail and the pre-roll, and whatever crashes, no
\* frame of SPARC's voice is heard unless it was read late or `say` outlasted its
\* estimate.  (earsd.py:69-75, 188-190)
THEOREM HearsItselfOnlyLateAlways == Spec => []HearsItselfOnlyLate
<1>1. EarsInv => HearsItselfOnlyLate
  <2>. SUFFICES ASSUME EarsInv, NEW f \in own \cup OwnIn(preroll)
                PROVE  f.late \/ f.overran
    BY DEF HearsItselfOnlyLate
  <2>1. CASE f \in own
    BY <2>1 DEF EarsInv, HeardExcused, Excused
  <2>2. CASE f \in OwnIn(preroll)
    BY <2>2, OwnFrames DEF EarsInv, EarsTypeOK, HeardExcused, Excused
  <2>. QED BY <2>1, <2>2
<1>. QED BY <1>1, GateHolds, PTL
=============================================================================
