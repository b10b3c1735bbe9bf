SPECIFICATION Spec
CONSTANTS
  MaxPackets = 2
  MaxMiddleware = 1
  Limit <- FewListeners
  MaxChanges = 1
  MaxNext = 2
  Throwing = TRUE
INVARIANTS
  DispatchInv
  AtRestBothSidesAgree
PROPERTIES
  PipelineSpec
CHECK_DEADLOCK FALSE
