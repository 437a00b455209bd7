SPECIFICATION Spec
CONSTANTS
  p = p  q = q  x1 = x1  x2 = x2
  t1 = t1  t2 = t2
  lp = lp  lq = lq  lz = lz  ly = ly  lu = lu
  np = np  nq = nq  nx = nx
  Entities = {p, x1, x2}
  Tracks = {t1, t2}
  Looks = {lp, lz, ly}
  Names = {np, nx}
  Cos <- MCCos
  Gallery <- MCGallery
  KnownT = 55  UncertainT = 40  AgreeT = 80  CoherentT = 50
  DifferentKnownSamples = 2  StrongNegativeSamples = 3
  FaceCap = 2  EnrollSamples = 2  Window = 0
  Redelivery = FALSE  LiveEnrollment = FALSE
  NoTrack = NoTrack  NoName = NoName  NoLook = NoLook  Nobody = Nobody
SYMMETRY MCSymmetry
INVARIANTS NameIsOwn ContradictionOpen
PROPERTY ImplementsPresence
