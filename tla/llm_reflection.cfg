\* Three postmortems on two threads, lessons and one mutation, over any server.
SPECIFICATION FairSpec
CONSTANTS
  Jobs = 3  Parents = 1  MaxConcurrency = 2  MaxRetries = 2
  FreeTurns = 3  MutateAttempts = 2
  Nobody = Nobody
INVARIANTS NegotiationIsFree OnlyRejectedModesGo
PROPERTY ReflectionEnds
CHECK_DEADLOCK FALSE
