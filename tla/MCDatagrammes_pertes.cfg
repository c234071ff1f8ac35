SPECIFICATION FairSpec
CONSTANTS
  c1 = c1
  c2 = c2
  Clients = {c1, c2}
  NbLignes <- MCLignes
  Tube = 1
  Capacite = 1
  MaxEssais = 2
  MaxPannes = 1
INVARIANT
  JournalFidele
PROPERTIES
  TraceContinue
  ReponseOuPerte
CHECK_DEADLOCK FALSE
