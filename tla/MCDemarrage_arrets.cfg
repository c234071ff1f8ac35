SPECIFICATION FairSpec
CONSTANTS
  N = 2
  MaxEnvois = 1
  MaxEchecs = 1
INVARIANT
  Inv
PROPERTIES
  CompletDure
  ArretComplet
CHECK_DEADLOCK FALSE
