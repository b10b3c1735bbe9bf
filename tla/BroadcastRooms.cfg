SPECIFICATION FairSpec
CONSTANTS
  s1 = s1
  s2 = s2
  room = room
  Sids <- TwoSockets
  SharedRooms <- OneRoom
  Operators <- SomeOperators
  MaxCasts = 1
  MaxChanges = 1
  MaxDepth = 1
INVARIANTS
  RoomsInv
  AllHaveAnswered
  BulkReachesAll
PROPERTIES
  CollectsOnce
  CollectionEnds
CHECK_DEADLOCK FALSE
