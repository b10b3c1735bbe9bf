SPECIFICATION FairSpec
CONSTANTS
  Faults <- NoFaults
  MaxConnects = 3
  MaxEmits = 2
  MaxEvents = 2
INVARIANTS
  BridgeInv
  AcksAreCarried
  ObservesWhileNeeded
PROPERTIES
  ConnectSettles
  LeavingEnds
  EmitsInOrder
CHECK_DEADLOCK FALSE
