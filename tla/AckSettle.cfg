SPECIFICATION Spec
CONSTANTS
  MaxConnections = 2
  MaxEmits = 2
INVARIANTS
  DeadConnectionSettles
  FlushKeepsTheRest
PROPERTIES
  OnlyTheLoopCallsAgain
  AnswersNeedTheConnection
CHECK_DEADLOCK FALSE
