SPECIFICATION MCSpec
CONSTANTS
  Taille = 3
  Longueur = 6
  N = 4
  Longueurs = {0, 3, 6}
INVARIANTS
  AccesSur
  Inv
  InvThreads
PROPERTIES
  ImplementeFile
  Terminaison
  ThreadsImplementeFile
  ThreadsFinissent
CHECK_DEADLOCK FALSE
