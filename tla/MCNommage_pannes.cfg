SPECIFICATION FairSpec
CONSTANTS
  Serveurs = {s1, s2}
  Clients = {c1, c2}
  Aucun = Aucun
  MaxPannes = 2
INVARIANT
  ResultatExplique
PROPERTIES
  NomDurable
  ServiceRendu
CHECK_DEADLOCK FALSE
