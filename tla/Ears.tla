-------------------------------- MODULE Ears --------------------------------
(***************************************************************************)
(* earsd (earsd.py): a thread that speaks what arrives on sparc/tts/say    *)
(* and holds the microphone's gate shut meanwhile, and a thread that reads *)
(* the microphone frame by frame, cuts utterances out of it, and stops     *)
(* reading while one is transcribed.                                       *)
(*                                                                         *)
(* One tick is one frame (FRAME_MS).  The gate, _speaking_until, is kept   *)
(* as the ticks it has left.  Frames of an utterance are counted, and only *)
(* those that hold SPARC's own voice are told apart.                       *)
(***************************************************************************)
EXTENDS Integers, Sequences

CONSTANTS
  Estimate,      \* est_s of on_message: a guess from the number of words
  MaxSay,        \* bound: ticks `say` takes; may be more than the estimate
  EchoTail,      \* echo_tail_s
  Reverb,        \* ticks SPARC's voice stays in the room
  MinVoiced,     \* min_utt_frames
  SilenceEnd,    \* silence_end_frames
  MaxUtterance,  \* max_utt_frames
  PrerollFrames, \* the deque's maxlen
  DeviceFrames   \* frames the device holds for a reader that is late

ASSUME EarsAssumption ==
  /\ Estimate \in Nat \ {0} /\ MaxSay \in Nat \ {0}
  /\ Reverb \in Nat /\ EchoTail \in Nat /\ Reverb < EchoTail
  /\ MinVoiced \in Nat /\ SilenceEnd \in Nat \ {0}
  /\ PrerollFrames \in Nat /\ MaxUtterance \in Nat
  /\ PrerollFrames + 1 < MaxUtterance
  /\ DeviceFrames \in Nat \ {0}

VARIABLES
  voice,      \* speaker_loop: "up", "down" or "crashed"
  voiceReady, \* _voice_mqtt_ready
  saying,     \* ticks `say` still takes
  ringing,    \* ticks SPARC's voice stays in the room after it
  gate,       \* ticks left until _speaking_until
  device,     \* frames captured and not read
  mic,        \* mic_loop: "reading", "transcribing" or "crashed"
  micOpen,    \* _mic_open
  cutOff,     \* the transcription began because the gate had shut
  inSpeech,
  length,     \* len(utterance)
  voiced,     \* voiced_frames
  silence,    \* silence_frames
  own,        \* the frames of the utterance that hold SPARC's voice
  preroll     \* the frames before speech

voiceVars == <<voice, voiceReady, saying, ringing, gate>>
cutVars   == <<inSpeech, length, voiced, silence, own>>
micVars   == <<mic, micOpen, cutOff, cutVars, preroll>>
vars      == <<voiceVars, device, micVars>>

Init ==
  /\ voice = "down" /\ voiceReady = FALSE
  /\ saying = 0 /\ ringing = 0 /\ gate = 0
  /\ device = << >>
  /\ mic = "reading" /\ micOpen = TRUE /\ cutOff = FALSE
  /\ inSpeech = FALSE /\ length = 0 /\ voiced = 0 /\ silence = 0 /\ own = {}
  /\ preroll = << >>

-----------------------------------------------------------------------------
(* Voice out                                                               *)

\* on_connect subscribes.
VoiceUp ==
  /\ voice # "up"
  /\ voice' = "up" /\ voiceReady' = TRUE
  /\ UNCHANGED <<saying, ringing, gate, device, micVars>>

\* on_disconnect, which runs between two messages, tries again until it can.
VoiceDown ==
  /\ voice = "up" /\ saying = 0
  /\ voice' = "down" /\ voiceReady' = FALSE
  /\ UNCHANGED <<saying, ringing, gate, device, micVars>>

\* on_message: the gate shuts for the estimate and the tail, then `say` runs.
StartSaying ==
  /\ voice = "up" /\ saying = 0
  /\ gate' = Estimate + EchoTail
  /\ \E n \in 1..MaxSay : saying' = n
  /\ UNCHANGED <<voice, voiceReady, ringing, device, micVars>>

\* Mutant: the gate opens with the last word.
NoTail == gate' = 0

\* The finally of on_message.
ResetGate == gate' = EchoTail

\* `say` takes more than a minute, or is not there: the exception ends
\* speaker_loop, which _forever starts again, and nothing clears voiceReady.
SayFails ==
  /\ saying > 0
  /\ saying' = 0 /\ ringing' = Reverb
  /\ ResetGate
  /\ voice' = "crashed"
  /\ UNCHANGED <<voiceReady, device, micVars>>

-----------------------------------------------------------------------------
(* Time and the device                                                     *)

Less(n) == IF n > 0 THEN n - 1 ELSE 0

Quiet == [sound |-> "quiet", late |-> FALSE, overran |-> FALSE]
Speech == [sound |-> "speech", late |-> FALSE, overran |-> FALSE]

\* A frame of SPARC's voice; `overran` when the gate was open because `say`
\* had outlasted its estimate.
Own(open) == [sound |-> "own", late |-> FALSE, overran |-> open /\ saying > 0]

Late(f) == IF f.sound = "own" THEN [f EXCEPT !.late = TRUE] ELSE f

\* A frame ends.  A reader that is not transcribing has read those before it;
\* the device keeps a few for one that is, and discards the rest.
Tick ==
  /\ device = << >> \/ mic # "reading"
  /\ saying' = Less(saying)
  /\ IF saying = 1 THEN ResetGate /\ ringing' = Reverb
     ELSE gate' = Less(gate) /\ ringing' = Less(ringing)
  /\ \E f \in IF saying > 0 \/ ringing > 0 THEN {Own(gate' = 0)} ELSE {Quiet, Speech} :
       device' = LET waiting == [i \in 1..Len(device) |-> Late(device[i])] IN
                 IF mic # "crashed" /\ Len(device) < DeviceFrames
                   THEN Append(waiting, f) ELSE waiting
  /\ UNCHANGED <<voice, voiceReady, micVars>>

-----------------------------------------------------------------------------
(* Ears in                                                                 *)

OwnIn(frames) == {frames[i] : i \in {j \in 1..Len(frames) : frames[j].sound = "own"}}

\* The reset at the head of flush; the transcription follows unless too few
\* frames were voiced.
Flush(n, shut) ==
  /\ inSpeech' = FALSE /\ length' = 0 /\ voiced' = 0 /\ silence' = 0 /\ own' = {}
  /\ IF n < MinVoiced
       THEN /\ preroll' = IF shut THEN << >> ELSE preroll
            /\ UNCHANGED <<mic, cutOff>>
       ELSE /\ mic' = "transcribing" /\ cutOff' = shut
            /\ UNCHANGED preroll

Muted == gate > 0

\* A frame read behind the gate: what was being said is cut off, the preroll
\* is dropped when the flush is over.
ReadMuted ==
  IF inSpeech THEN Flush(voiced, TRUE)
  ELSE preroll' = << >> /\ UNCHANGED <<mic, cutOff, cutVars>>

Ended(n, quiet) == quiet >= SilenceEnd \/ n >= MaxUtterance

\* Mutant: a long utterance forgets its first frames and goes on.
ReadIntoRing(f, isSpeech) ==
  LET quiet == IF isSpeech THEN 0 ELSE silence + 1
      loud == IF isSpeech THEN voiced + 1 ELSE voiced
      ring == MaxUtterance - 1
  IN IF Ended(0, quiet) THEN Flush(loud, FALSE)
     ELSE /\ length' = IF length < ring THEN length + 1 ELSE ring
          /\ voiced' = IF loud < ring THEN loud ELSE ring
          /\ silence' = quiet /\ own' = own \cup OwnIn(<<f>>)
          /\ UNCHANGED <<mic, cutOff, inSpeech, preroll>>

\* A frame of an utterance that is open.
ReadInSpeech(f, isSpeech) ==
  LET quiet == IF isSpeech THEN 0 ELSE silence + 1
      loud == IF isSpeech THEN voiced + 1 ELSE voiced
  IN IF Ended(length + 1, quiet) THEN Flush(loud, FALSE)
     ELSE /\ length' = length + 1 /\ voiced' = loud /\ silence' = quiet
          /\ own' = own \cup OwnIn(<<f>>)
          /\ UNCHANGED <<mic, cutOff, inSpeech, preroll>>

\* Speech begins: the utterance starts with the preroll, which stays as it is.
ReadOnset(f) ==
  /\ inSpeech' = TRUE
  /\ length' = Len(preroll) + 1 /\ voiced' = 1 /\ silence' = 0
  /\ own' = OwnIn(Append(preroll, f))
  /\ UNCHANGED <<mic, cutOff, preroll>>

ReadQuiet(f) ==
  /\ preroll' = LET all == Append(preroll, f) IN
                IF Len(all) > PrerollFrames THEN Tail(all) ELSE all
  /\ UNCHANGED <<mic, cutOff, cutVars>>

\* One turn of mic_loop.  The detector knows speech from quiet, and may take
\* SPARC's own voice for either.
Read ==
  /\ mic = "reading" /\ device # << >>
  /\ device' = Tail(device)
  /\ LET f == Head(device) IN
     \E isSpeech \in IF f.sound = "own" THEN BOOLEAN ELSE {f.sound = "speech"} :
       IF Muted THEN ReadMuted
       ELSE IF inSpeech THEN ReadInSpeech(f, isSpeech)
       ELSE IF isSpeech THEN ReadOnset(f)
       ELSE ReadQuiet(f)
  /\ UNCHANGED <<voiceVars, micOpen>>

\* The rest of flush: the transcription failed, was empty, repeats itself, or
\* does not name SPARC, and is dropped; or it is published.
EndTranscription ==
  /\ mic = "transcribing"
  /\ mic' = "reading" /\ cutOff' = FALSE
  /\ preroll' = IF cutOff THEN << >> ELSE preroll
  /\ UNCHANGED <<voiceVars, device, micOpen, cutVars>>

\* The device fails, or the transcript cannot be published, which flush does
\* not catch: mic_loop ends, with what it had heard.
MicFails ==
  /\ mic # "crashed"
  /\ mic' = "crashed" /\ micOpen' = FALSE /\ cutOff' = FALSE
  /\ inSpeech' = FALSE /\ length' = 0 /\ voiced' = 0 /\ silence' = 0 /\ own' = {}
  /\ preroll' = << >>
  /\ device' = << >>
  /\ UNCHANGED voiceVars

\* _forever starts mic_loop again.
MicRestarts ==
  /\ mic = "crashed"
  /\ mic' = "reading" /\ micOpen' = TRUE
  /\ UNCHANGED <<voiceVars, device, cutOff, cutVars, preroll>>

Next ==
  \/ VoiceUp \/ VoiceDown \/ StartSaying \/ SayFails \/ Tick
  \/ Read \/ EndTranscription \/ MicFails \/ MicRestarts

Spec == Init /\ [][Next]_vars

\* Time passes and the microphone's thread runs; a transcription may hang.
FairSpec == Spec /\ WF_vars(Tick) /\ WF_vars(Read)

-----------------------------------------------------------------------------
(* Properties                                                              *)

\* "Mic gated while SPARC speaks (+tail)": no frame of SPARC's own voice is
\* part of an utterance, or about to be, unless `say` had outlasted its
\* estimate or the frame was read late, behind a transcription.
HearsItselfOnlyLate ==
  \A f \in own \cup OwnIn(preroll) : f.late \/ f.overran

\* Nobody, and no noise, holds an utterance open: it ends, cut by the gate, by
\* silence or at its longest.
UtteranceEnds == inSpeech ~> ~inSpeech
=============================================================================
