SPECIFICATION Spec
CONSTANTS
  p = p  x1 = x1  x2 = x2
  t1 = t1  t2 = t2
  Entities = {p, x1, x2}
  Tracks = {t1, t2}
  MaxParked = 2  MaxSpeech = 1  BusMayDrop = FALSE
  NoTrack = NoTrack  Stranger = Stranger  Prose = Prose  Anyone = Anyone  NoOne = NoOne
SYMMETRY MCSymmetry
INVARIANTS GreetingTypeOK PresenceIsSound GreetingIsGrounded PendingIsPresent NoRapidGreeting
