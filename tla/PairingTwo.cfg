SPECIFICATION Spec
CONSTANTS
  c1 = c1
  c2 = c2
  None = None
  Clients <- TwoClients
  ManagerOf <- SameManager
  Middlewares = 1
  CallbackAuth = FALSE
  EarlyDisconnect = TRUE
  StaleDisconnect = TRUE
  MaxAttempts = 2
  MaxNext = 2
  MaxBuffered = 0
SYMMETRY Symmetry
CONSTRAINT FewAttempts
INVARIANTS
  ManagerKnowsGroup
  GroupIsLeaving
  PairingInv
PROPERTIES
  AttemptsSettleOnce
CHECK_DEADLOCK FALSE
