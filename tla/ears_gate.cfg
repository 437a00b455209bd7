\* A voice that may outlast its estimate, utterances of up to six frames.
SPECIFICATION FairSpec
CONSTANTS
  Estimate = 2  MaxSay = 5  EchoTail = 2  Reverb = 1
  MinVoiced = 2  SilenceEnd = 2  MaxUtterance = 6
  PrerollFrames = 2  DeviceFrames = 3
INVARIANT HearsItselfOnlyLate
PROPERTY UtteranceEnds
