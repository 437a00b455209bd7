\* The camera's stream of births, boxes and losses, and two readers of it.
SPECIFICATION FairSpec
CONSTANTS
  Places <- MCPlaces
  Tracks <- MCTracks
  MinHits = 2  MaxJump = 2  LostAfter = 1  MaxInFlight = 1
  Away = Away
INVARIANT StreamAgrees
PROPERTY SceneSettles
CONSTRAINT Followed
