SPECIFICATION FairSpec
CONSTANTS
  N = 2
  MaxHorloge = 2
  TailleQueue = 6
  Residus = {0}
  PileInitiale <- MCPile
INVARIANTS
  AccordDeTous
  Inv
  PerteExpliquee
PROPERTIES
  ImplementeAccord
  DemandeAboutit
  LiberationAboutit
CHECK_DEADLOCK FALSE
