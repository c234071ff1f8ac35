SPECIFICATION FairSpec
CONSTANTS
  N = 2
  MaxHorloge = 2
  TailleQueue = 6
  Residus = {0}
  PileInitiale <- MCPile
PROPERTY
  SectionObtenue
CHECK_DEADLOCK FALSE
