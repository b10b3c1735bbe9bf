SPECIFICATION Spec
CONSTANTS
  MaxConnections = 2
  MaxEmits = 2
INVARIANTS
  SettledIsNotResent
CHECK_DEADLOCK FALSE
