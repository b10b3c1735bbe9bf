SPECIFICATION Spec
CONSTANTS
  Faults <- AllFaults
  MaxConnects = 2
  MaxEmits = 2
  MaxEvents = 1
INVARIANTS
  HostUnderstands
  EndedGenerationIsSilent
CHECK_DEADLOCK FALSE
