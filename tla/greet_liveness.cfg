SPECIFICATION FairSpec
CONSTANTS
  p = p  x1 = x1  x2 = x2
  t1 = t1  t2 = t2
  Entities = {p, x1}
  Tracks = {t1}
  MaxParked = 2  MaxSpeech = 1  BusMayDrop = TRUE
  NoTrack = NoTrack  Stranger = Stranger  Prose = Prose  Anyone = Anyone  NoOne = NoOne
PROPERTIES ArrivalIsDeliberated SpeechIsAnswered
