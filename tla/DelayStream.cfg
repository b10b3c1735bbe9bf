SPECIFICATION FairSpec
CONSTANTS
  Delays <- SomeDelays
  MaxTime = 4
  MaxSends = 4
INVARIANTS
  NothingLost
  AlwaysPumped
PROPERTIES
  StreamSpec
  EveryMessageArrives
CHECK_DEADLOCK FALSE
