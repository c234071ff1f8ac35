SPECIFICATION FairSpec
CONSTANT
  Longueurs = {0, 127, 128, 256, 300}
INVARIANT
  Inv
PROPERTIES
  FilsFinit
  PereFinit
CHECK_DEADLOCK FALSE
