SPECIFICATION Spec
CONSTANTS
  N = 2
  MaxHorloge = 1
  TailleQueue = 4
  Residus = {0}
  PileInitiale <- MCPile
INVARIANT
  ExclusionMutuelle
CHECK_DEADLOCK FALSE
