SPECIFICATION FairSpec
CONSTANTS
  c1 = c1
  c2 = c2
  c3 = c3
  Clients = {c1, c2, c3}
  MAX_CONNEXIONS = 2
  Backlog = 2
  MaxSignaux = 2
INVARIANTS
  Inv
  EntreeExclusive
  CompteExact
PROPERTIES
  ReponseAboutit
  ArretAboutit
CHECK_DEADLOCK FALSE
