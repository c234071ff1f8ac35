SPECIFICATION FairSpec
CONSTANTS
  Clients = {c1, c2, c3}
  Aucun = Aucun
  NbProcessus = 3
  MaxOuverts = 2
  MaxMorts = 1
INVARIANTS
  Inv
  FinExpliquee
PROPERTY
  ReponseAboutit
CHECK_DEADLOCK FALSE
