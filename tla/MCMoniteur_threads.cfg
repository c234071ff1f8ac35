SPECIFICATION SpecMoniteur
CONSTANTS
  p1 = p1
  p2 = p2
  p3 = p3
  r1 = r1
  r2 = r2
  r3 = r3
  Producteurs = {p1, p2, p3}
  Lecteurs = {r1, r2, r3}
  taille = 2
  Longueur = 3
  AvecNul = {p1}
INVARIANTS
  InvMoniteur
  PasTousEndormis
PROPERTIES
  FinDesLecteurs
  ImplementeFile
CHECK_DEADLOCK FALSE
