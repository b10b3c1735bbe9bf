SPECIFICATION FairSpec
CONSTANTS
  c1 = c1
  c2 = c2
  None = None
  Clients <- OneClient
  ManagerOf <- SameManager
  Middlewares = 2
  CallbackAuth = TRUE
  EarlyDisconnect = FALSE
  StaleDisconnect = FALSE
  MaxAttempts = 3
  MaxNext = 1
  MaxBuffered = 2
INVARIANTS
  RosterAgreement
PROPERTIES
  EventOrder
  PendingSettles
  TornIsLeft
CHECK_DEADLOCK FALSE
