SPECIFICATION SpecTransport
CONSTANTS
  NbProcessus = 2
  Capacite = 1
  Backlog = 1
  MaxThreads = 3
  MaxEnvois = 2
PROPERTIES
  ImplementeCanal
  LivraisonAboutit
  EcritureAboutit
CHECK_DEADLOCK FALSE
