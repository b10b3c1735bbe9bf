SPECIFICATION FairSpec
CONSTANTS
  c1 = c1
  c2 = c2
  None = None
  Clients <- OneClient
  ManagerOf <- SameManager
  Middlewares = 0
  CallbackAuth = FALSE
  EarlyDisconnect = FALSE
  StaleDisconnect = TRUE
  MaxAttempts = 2
  MaxNext = 1
  MaxBuffered = 0
PROPERTIES
  OnlyOwnConnection
CHECK_DEADLOCK FALSE
