\* One enrolled person, two ids for strangers, two threads; births delivered twice and
\* the enrollment script beside them.
SPECIFICATION EnrollmentSpec
CONSTANTS
  p = p  x1 = x1  x2 = x2  t1 = t1  t2 = t2  lp = lp  lz = lz  np = np  nx = nx
  Entities = {p, x1, x2}
  Tracks = {t1}
  Looks = {lp, lz}
  Names = {np, nx}
  Cos <- MCCos
  Gallery <- MCGallery
  KnownT = 55  UncertainT = 40  AgreeT = 80  CoherentT = 50
  DifferentKnownSamples = 2  StrongNegativeSamples = 2
  FaceCap = 1  EnrollSamples = 1  Window = 0
  Redelivery = TRUE  LiveEnrollment = TRUE
  NoTrack = NoTrack  NoName = NoName  NoLook = NoLook  Nobody = Nobody  Nothing = Nothing
SYMMETRY MCSymmetry
INVARIANT NameFollowsEnrollment
PROPERTY EnrollmentStands
