SPECIFICATION Spec
CONSTANTS
  root = root
  game = game
  a1 = a1
  a2 = a2
  pattern = pattern
  Names <- TwoNames
  Root = root
  Attempts <- TwoAttempts
  NameOf <- BothToGame
  Observers <- TwoObservers
  RegExps = {pattern}
  Matching <- MatchesGame
  Ask = Ask
  Adapters <- TwoAdapters
  o1 = o1
  o2 = o2
  x1 = x1
  x2 = x2
  BuiltIn = BuiltIn
  CloseWhenAnnounced = FALSE
  MaxParents = 2
  MaxNested = 2
  MaxAgain = 1
  Successor = TRUE
SYMMETRY Symmetry
INVARIANTS
  ApiInv
PROPERTIES
  QueueSpec
  AdapterIsKept
CHECK_DEADLOCK FALSE
