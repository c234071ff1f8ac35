--------------------------- MODULE TP3_TP4_proof ----------------------------
(***************************************************************************)
(* Proofs about the programs of TP3 (module Signaux), for every set of     *)
(* lengths, and about the monitor of TP4 (module Moniteur, under the name  *)
(* TP4 of its instance), for every number of producers and readers, every  *)
(* capacity and every length of the strings.                               *)
(***************************************************************************)
EXTENDS Signaux, MCMoniteur, SequenceTheorems, TLAPS

-----------------------------------------------------------------------------
(***************************************************************************)
(* TP3: the pipe and the two signals.                                      *)
(***************************************************************************)

\* Where the steps of the two main functions stand
RangArmer == IF env.programme = "etudiant" THEN 1 ELSE 2
RangSommeil == IF env.programme = "etudiant" THEN 4 ELSE 1
RangTaille == IF env.programme = "etudiant" THEN 2 ELSE IF env.programme = "anonyme" THEN 3 ELSE 4
RangTuer == IF env.programme = "nomme" THEN 6 ELSE 5
FinPere == IF env.programme = "nomme" THEN 7 ELSE 6
FinFils == IF env.programme = "nomme" THEN 4 ELSE 2

\* Types, with the places of the two processes
InvTypes ==
  /\ env \in Environnements /\ env.programme \in Programmes /\ env.longueur \in Nat
  /\ env.programme # "etudiant" => env.longueur = Bonjour
  /\ pos \in [Processus -> Nat] /\ pos["pere"] \in 1 .. FinPere + 1 /\ pos["fils"] \in 1 .. FinFils + 1
  /\ bloque \in [Processus -> BOOLEAN]
  /\ gestionnaire \in [Processus -> {"aucun", "taille", "texte", "repondre", "clavier", "terminer"}]
  /\ gestionnaire["fils"] # "terminer" /\ gestionnaire["pere"] \in {"aucun", "terminer"}
  /\ mort \in [Processus -> {"vivant", "sortie", "indefini"} \cup Signaux]
  /\ armes \subseteq Processus /\ ouverts \subseteq Processus /\ prealables \subseteq Processus
  /\ attente \in [Processus -> SUBSET Signaux]
  /\ tube \in Seq({"taille", "texte"})
  /\ descripteur \in BOOLEAN /\ recu \in {Rien, Autre} \cup Nat

\* What the parent waited for before it went on
InvPere ==
  /\ pos["pere"] > RangArmer => "pere" \in armes
  /\ pos["pere"] > RangSommeil /\ env.sommeilSuffit => "fils" \in armes
  /\ pos["pere"] > 3 /\ env.programme = "nomme" => "fils" \in ouverts
  /\ bloque["pere"] => pos["pere"] = FinPere

\* The child has its handler before it opens the pipe, and leaves its last
\* step by an answer only.
InvFils ==
  /\ pos["fils"] > 1 \/ "fils" \in ouverts => "fils" \in armes
  /\ bloque["fils"] => env.programme = "etudiant" /\ pos["fils"] = 2
  /\ pos["fils"] > FinFils => recu # Rien
  /\ descripteur \/ env.programme = "nomme"

\* SIGUSR1 is sent once, after the whole message, and SIGUSR2 answers it.
InvSignaux ==
  /\ attente["pere"] \subseteq {"USR2"} /\ attente["fils"] \subseteq {"USR1", "QUIT", "TERM"}
  /\ "USR1" \in attente["fils"] => pos["pere"] > RangTuer /\ recu = Rien /\ gestionnaire["fils"] = "aucun"
  /\ gestionnaire["fils"] \in {"taille", "clavier", "texte"} => pos["pere"] > RangTuer /\ recu = Rien
  /\ recu # Rien => pos["pere"] > RangTuer
  /\ gestionnaire["fils"] = "repondre" => recu # Rien
  /\ gestionnaire["fils"] = "clavier" => env.programme = "nomme"
  /\ attente["pere"] # {} \/ gestionnaire["pere"] = "terminer" => recu # Rien
  /\ "QUIT" \in attente["fils"] \/ "TERM" \in attente["fils"] => recu # Rien

\* The parent's two writes stay in the pipe until the handler reads it.
Ecrit ==
  IF pos["pere"] <= RangTaille THEN 0 ELSE IF pos["pere"] = RangTaille + 1 THEN 1 ELSE 2

InvTube ==
  /\ recu = Rien /\ gestionnaire["fils"] # "texte" => Len(tube) = Ecrit
  /\ gestionnaire["fils"] = "texte" => Len(tube) = 1

\* What holds in every reachable state
IInv ==
  /\ InvTypes /\ MortPrematuree /\ MortApresReception /\ MessageEntier
  /\ InvPere /\ InvFils /\ InvSignaux /\ InvTube

\* Each step of a main function has its rank.
LEMMA Rangs ==
  ASSUME InvTypes
  PROVE  /\ Len(Etapes("pere")) = FinPere /\ Len(Etapes("fils")) = FinFils
         /\ \A p \in Processus : pos[p] \in 1 .. Len(Etapes(p)) + 1
         /\ A("pere", "armer") => pos["pere"] = RangArmer
         /\ A("pere", "sommeil") => pos["pere"] = RangSommeil
         /\ A("pere", "taille") => pos["pere"] = RangTaille
         /\ A("pere", "texte") => pos["pere"] = RangTaille + 1
         /\ A("pere", "ouvrir") => env.programme = "nomme" /\ pos["pere"] = 3
         /\ A("pere", "tuer") => pos["pere"] = RangTuer
         /\ A("pere", "suspendre") \/ A("pere", "attendre") => pos["pere"] = FinPere
         /\ A("fils", "armer") => pos["fils"] = 1
         /\ A("fils", "ouvrir") => env.programme = "nomme" /\ pos["fils"] = 2
         /\ A("fils", "affecter") => env.programme = "nomme" /\ pos["fils"] = 3
         /\ A("fils", "suspendre") => env.programme = "etudiant" /\ pos["fils"] = 2
         /\ \A e \in {"armer", "ouvrir", "affecter"} : A("fils", e) => pos["fils"] < FinFils
         /\ env.programme \in Programmes
<1> USE DEF RangArmer, RangSommeil, RangTaille, RangTuer, FinPere, FinFils, Etapes
<1>0. env.programme \in Programmes => Len(Etapes("pere")) = FinPere /\ Len(Etapes("fils")) = FinFils
  BY DEF Programmes, PereEtudiant, PereAnonyme, PereNomme, FilsEtudiant, FilsAnonyme, FilsNomme
<1>1. env.programme \in Programmes /\ \A p \in Processus : pos[p] \in 1 .. Len(Etapes(p)) + 1
  BY <1>0 DEF InvTypes, Processus
<1>2. CASE env.programme = "etudiant"
  BY <1>1, <1>2 DEF A, PereEtudiant, FilsEtudiant, Processus
<1>3. CASE env.programme = "anonyme"
  BY <1>1, <1>3 DEF A, PereAnonyme, FilsAnonyme, Processus
<1>4. CASE env.programme = "nomme"
  BY <1>1, <1>4 DEF A, PereNomme, FilsNomme, Processus
<1> QED
  BY <1>1, <1>2, <1>3, <1>4 DEF Programmes

\* The lengths of the pipe
LEMMA TubeVide ==
  \A t \in Seq({"taille", "texte"}) : (t # <<>> <=> Len(t) > 0) /\ (Len(t) = 1 => Len(Append(t, "texte")) = 2)
<1>1. ASSUME NEW t \in Seq({"taille", "texte"})
      PROVE  t # <<>> <=> Len(t) > 0
  OBVIOUS
<1>2. ASSUME NEW t \in Seq({"taille", "texte"})
      PROVE  Len(t) = 1 => Len(Append(t, "texte")) = 2
  <2>1. Len(Append(t, "texte")) = Len(t) + 1
    OBVIOUS
  <2> QED
    BY <2>1
<1> QED
  BY <1>1, <1>2, Zenon

\* The return of open()
LEMMA Ouverture ==
  ASSUME NEW p \in Processus, Ouvrir(p)
  PROVE  /\ UNCHANGED <<env, bloque, gestionnaire, mort, armes, attente, tube, descripteur, recu, prealables>>
         /\ ouverts' = ouverts \/ ouverts' = ouverts \cup {p}
         /\ pos' # pos => A(p, "ouvrir") /\ pos' = [pos EXCEPT ![p] = pos[p] + 1]
<1>1. UNCHANGED <<env, bloque, gestionnaire, mort, armes, attente, tube, descripteur, recu, prealables>>
  BY DEF Ouvrir
<1>2. ouverts' = ouverts \/ ouverts' = ouverts \cup {p}
  BY DEF Ouvrir
<1>3. pos' # pos => A(p, "ouvrir") /\ pos' = [pos EXCEPT ![p] = pos[p] + 1]
  <2>1. CASE p \in ouverts
    BY <2>1 DEF Ouvrir, Avancer
  <2>2. CASE p \notin ouverts
    BY <2>2 DEF Ouvrir
  <2> QED
    BY <2>1, <2>2
<1> QED
  BY <1>1, <1>2, <1>3

\* The return of wait()
LEMMA RetourDeWait ==
  ASSUME Attendre
  PROVE  /\ UNCHANGED <<env, gestionnaire, mort, armes, attente, tube, ouverts, descripteur, recu, prealables>>
         /\ bloque' = bloque \/ bloque' = [bloque EXCEPT !["pere"] = TRUE]
         /\ pos' # pos => A("pere", "attendre") /\ pos' = [pos EXCEPT !["pere"] = pos["pere"] + 1]
<1>1. UNCHANGED <<env, gestionnaire, mort, armes, attente, tube, ouverts, descripteur, recu, prealables>>
  BY DEF Attendre
<1>2. bloque' = bloque \/ bloque' = [bloque EXCEPT !["pere"] = TRUE]
  BY DEF Attendre
<1>3. pos' # pos => A("pere", "attendre") /\ pos' = [pos EXCEPT !["pere"] = pos["pere"] + 1]
  <2>1. CASE mort["fils"] # "vivant"
    BY <2>1 DEF Attendre, Avancer
  <2>2. CASE mort["fils"] = "vivant"
    BY <2>2 DEF Attendre
  <2> QED
    BY <2>1, <2>2
<1> QED
  BY <1>1, <1>2, <1>3

\* The handler either gets letters, or dies of an array too large.
LEMMA Lecture ==
  ASSUME InvTypes, InvTube, LireTexte
  PROVE  /\ UNCHANGED <<env, pos, bloque, armes, attente, ouverts, descripteur, prealables>>
         /\ mort["fils"] = "vivant" /\ gestionnaire["fils"] = "texte"
         /\ \/ /\ mort' = [mort EXCEPT !["fils"] = "indefini"]
               /\ UNCHANGED <<gestionnaire, recu, tube>>
            \/ /\ gestionnaire' = [gestionnaire EXCEPT !["fils"] = "repondre"]
               /\ recu' = Demande /\ Demande \in Nat /\ recu' # Rien /\ UNCHANGED mort
               /\ tube' \in Seq({"taille", "texte"})
<1>1. Demande \in Int
  BY DEF InvTypes, Demande, Char
<1>2. tube # <<>> => Tail(tube) \in Seq({"taille", "texte"})
  BY DEF InvTypes
<1>3. gestionnaire["fils"] = "texte" => tube # <<>>
  <2>1. gestionnaire["fils"] = "texte" => Len(tube) > 0
    BY DEF InvTube
  <2> QED
    BY <2>1, TubeVide DEF InvTypes
<1>4. CASE Demande < 0
  BY <1>4 DEF LireTexte
<1>5. CASE Demande >= 0
  <2>1. Demande \in Nat /\ Demande # Rien
    BY <1>1, <1>5 DEF Rien
  <2> QED
    BY <1>2, <1>3, <1>5, <2>1 DEF LireTexte, InvTypes
<1> QED
  BY <1>1, <1>4, <1>5

\* The parent goes on when it was let.
LEMMA PasPere ==
  ASSUME IInv, [Next]_vars
  PROVE  InvPere'
<1> USE DEF IInv, InvPere, InvFils, InvTypes, Processus, Programmes, RangArmer, RangSommeil, RangTaille, RangTuer, FinPere, FinFils
<1>1. CASE UNCHANGED vars
  BY <1>1 DEF vars
<1>2. CASE Armer("pere")
  BY <1>2, Rangs DEF Armer, Avancer
<1>3. CASE EcrireTaille
  BY <1>3, Rangs DEF EcrireTaille, Avancer
<1>4. CASE EcrireTexte
  BY <1>4, Rangs DEF EcrireTexte, Avancer
<1>5. CASE Dormir
  BY <1>5, Rangs DEF Dormir, Avancer, SommeilFini
<1>6. CASE Tuer
  BY <1>6, Rangs DEF Tuer, Avancer, Envoyer
<1>7. CASE Ouvrir("pere")
  BY <1>7, Rangs DEF Ouvrir, Avancer
<1>8. CASE Suspendre("pere")
  BY <1>8, Rangs DEF Suspendre
<1>9. CASE Attendre
  BY <1>9, Rangs DEF Attendre, A, Avancer
<1>10. CASE FinAttente
  BY <1>10 DEF FinAttente, Avancer
<1>11. CASE Sortir("pere")
  BY <1>11 DEF Sortir
<1>12. CASE Recevoir("pere")
  BY <1>12 DEF Recevoir, Gere, Debut
<1>13. CASE Terminer
  BY <1>13 DEF Terminer, Envoyer, Revenir
<1>14. ASSUME NEW s \in Signaux, Mourir("pere", s)
      PROVE  InvPere'
  BY <1>14 DEF Mourir, Gere, Signaux
<1>15. CASE Armer("fils")
  BY <1>15 DEF Armer, Avancer
<1>16. CASE Ouvrir("fils")
  BY <1>16 DEF Ouvrir, Avancer
<1>17. CASE Affecter
  BY <1>17 DEF Affecter, Avancer
<1>18. CASE Suspendre("fils")
  BY <1>18 DEF Suspendre
<1>19. CASE Sortir("fils")
  BY <1>19 DEF Sortir
<1>20. CASE Recevoir("fils")
  BY <1>20 DEF Recevoir, Gere, Debut
<1>21. CASE LireTaille
  BY <1>21 DEF LireTaille
<1>22. CASE LireTexte
  BY <1>22 DEF LireTexte, Demande, Char
<1>23. CASE LireClavier
  BY <1>23 DEF LireClavier
<1>24. CASE Repondre
  BY <1>24 DEF Repondre, Envoyer, Revenir
<1>25. ASSUME NEW s \in Signaux, Mourir("fils", s)
      PROVE  InvPere'
  BY <1>25 DEF Mourir, Gere, Signaux
<1>26. CASE Saisir
  BY <1>26 DEF Saisir
<1> QED
  BY <1>1, <1>2, <1>3, <1>4, <1>5, <1>6, <1>7, <1>8, <1>9, <1>10, <1>11, <1>12, <1>13, <1>14,
     <1>15, <1>16, <1>17, <1>18, <1>19, <1>20, <1>21, <1>22, <1>23, <1>24, <1>25, <1>26 DEF Next,
     Pere, Fils

\* The child does not open the pipe, go on or end before it may.
LEMMA PasFils ==
  ASSUME IInv, [Next]_vars
  PROVE  InvFils'
<1> USE DEF IInv, InvFils, InvSignaux, InvTypes, Processus, Programmes, RangArmer, RangSommeil, RangTaille, RangTuer, FinPere, FinFils
<1>1. CASE UNCHANGED vars
  BY <1>1 DEF vars
<1>2. CASE Armer("pere")
  BY <1>2 DEF Armer, Avancer
<1>3. CASE EcrireTaille
  BY <1>3 DEF EcrireTaille, Avancer
<1>4. CASE EcrireTexte
  BY <1>4 DEF EcrireTexte, Avancer
<1>5. CASE Dormir
  BY <1>5 DEF Dormir, Avancer, SommeilFini
<1>6. CASE Tuer
  BY <1>6 DEF Tuer, Avancer, Envoyer
<1>7. CASE Ouvrir("pere")
  BY <1>7 DEF Ouvrir, Avancer
<1>8. CASE Suspendre("pere")
  BY <1>8 DEF Suspendre
<1>9. CASE Attendre
  BY <1>9 DEF Attendre, A, Avancer
<1>10. CASE FinAttente
  BY <1>10 DEF FinAttente, Avancer
<1>11. CASE Sortir("pere")
  BY <1>11 DEF Sortir
<1>12. CASE Recevoir("pere")
  BY <1>12 DEF Recevoir, Gere, Debut
<1>13. CASE Terminer
  BY <1>13 DEF Terminer, Envoyer, Revenir
<1>14. ASSUME NEW s \in Signaux, Mourir("pere", s)
      PROVE  InvFils'
  BY <1>14 DEF Mourir, Gere, Signaux
<1>15. CASE Armer("fils")
  BY <1>15, Rangs DEF Armer, Avancer
<1>16. CASE Ouvrir("fils")
  BY <1>16, Rangs DEF Ouvrir, Avancer
<1>17. CASE Affecter
  BY <1>17, Rangs DEF Affecter, Avancer
<1>18. CASE Suspendre("fils")
  BY <1>18, Rangs DEF Suspendre
<1>19. CASE Sortir("fils")
  BY <1>19 DEF Sortir
<1>20. CASE Recevoir("fils")
  BY <1>20 DEF Recevoir, Gere, Debut
<1>21. CASE LireTaille
  BY <1>21 DEF LireTaille
<1>22. CASE LireTexte
  BY <1>22, Lecture
<1>23. CASE LireClavier
  BY <1>23 DEF LireClavier
<1>24. CASE Repondre
  BY <1>24 DEF Repondre, Envoyer, Revenir
<1>25. ASSUME NEW s \in Signaux, Mourir("fils", s)
      PROVE  InvFils'
  BY <1>25 DEF Mourir, Gere, Signaux
<1>26. CASE Saisir
  BY <1>26 DEF Saisir, Rien, Autre
<1> QED
  BY <1>1, <1>2, <1>3, <1>4, <1>5, <1>6, <1>7, <1>8, <1>9, <1>10, <1>11, <1>12, <1>13, <1>14,
     <1>15, <1>16, <1>17, <1>18, <1>19, <1>20, <1>21, <1>22, <1>23, <1>24, <1>25, <1>26 DEF Next,
     Pere, Fils

\* Each signal answers what was done before it was sent.
LEMMA PasSignaux ==
  ASSUME IInv, [Next]_vars
  PROVE  InvSignaux'
<1> USE DEF IInv, InvSignaux, InvFils, InvTypes, Processus, Programmes, RangArmer, RangSommeil, RangTaille, RangTuer, FinPere, FinFils
<1>1. CASE UNCHANGED vars
  BY <1>1 DEF vars
<1>2. CASE Armer("pere")
  BY <1>2 DEF Armer, Avancer
<1>3. CASE EcrireTaille
  BY <1>3 DEF EcrireTaille, Avancer
<1>4. CASE EcrireTexte
  BY <1>4 DEF EcrireTexte, Avancer
<1>5. CASE Dormir
  BY <1>5 DEF Dormir, Avancer, SommeilFini
<1>6. CASE Tuer
  BY <1>6, Rangs DEF Tuer, Avancer, Envoyer
<1>7. CASE Ouvrir("pere")
  BY <1>7 DEF Ouvrir, Avancer
<1>8. CASE Suspendre("pere")
  BY <1>8 DEF Suspendre
<1>9. CASE Attendre
  BY <1>9 DEF Attendre, A, Avancer
<1>10. CASE FinAttente
  BY <1>10 DEF FinAttente, Avancer
<1>11. CASE Sortir("pere")
  BY <1>11 DEF Sortir
<1>12. CASE Recevoir("pere")
  BY <1>12 DEF Recevoir, Gere, Debut
<1>13. CASE Terminer
  BY <1>13 DEF Terminer, Envoyer, Revenir
<1>14. ASSUME NEW s \in Signaux, Mourir("pere", s)
      PROVE  InvSignaux'
  BY <1>14 DEF Mourir, Gere, Signaux
<1>15. CASE Armer("fils")
  BY <1>15 DEF Armer, Avancer
<1>16. CASE Ouvrir("fils")
  BY <1>16 DEF Ouvrir, Avancer
<1>17. CASE Affecter
  BY <1>17 DEF Affecter, Avancer
<1>18. CASE Suspendre("fils")
  BY <1>18 DEF Suspendre
<1>19. CASE Sortir("fils")
  BY <1>19 DEF Sortir
<1>20. CASE Recevoir("fils")
  BY <1>20 DEF Recevoir, Gere, Debut
<1>21. CASE LireTaille
  BY <1>21 DEF LireTaille
<1>22. CASE LireTexte
  BY <1>22, Lecture
<1>23. CASE LireClavier
  BY <1>23 DEF LireClavier
<1>24. CASE Repondre
  BY <1>24 DEF Repondre, Envoyer, Revenir
<1>25. ASSUME NEW s \in Signaux, Mourir("fils", s)
      PROVE  InvSignaux'
  BY <1>25 DEF Mourir, Gere, Signaux
<1>26. CASE Saisir
  BY <1>26 DEF Saisir, Rien, Autre
<1> QED
  BY <1>1, <1>2, <1>3, <1>4, <1>5, <1>6, <1>7, <1>8, <1>9, <1>10, <1>11, <1>12, <1>13, <1>14,
     <1>15, <1>16, <1>17, <1>18, <1>19, <1>20, <1>21, <1>22, <1>23, <1>24, <1>25, <1>26 DEF Next,
     Pere, Fils

\* Only the parent fills the pipe, only the child's handler empties it.
LEMMA PasTube ==
  ASSUME IInv, [Next]_vars
  PROVE  InvTube'
<1> USE DEF IInv, InvTube, InvSignaux, InvPere, Ecrit, InvTypes, Processus, Programmes, RangArmer, RangSommeil, RangTaille, RangTuer, FinPere, FinFils
<1>1. CASE UNCHANGED vars
  BY <1>1 DEF vars
<1>2. CASE Armer("pere")
  BY <1>2, Rangs DEF Armer, Avancer
<1>3. CASE EcrireTaille
  <2>1. A("pere", "taille") /\ tube' = Append(tube, "taille") /\ pos' = [pos EXCEPT !["pere"] = pos["pere"] + 1]
        /\ UNCHANGED <<env, gestionnaire, recu>>
    BY <1>3 DEF EcrireTaille, Avancer
  <2>2. pos["pere"] = RangTaille /\ pos'["pere"] = RangTaille + 1 /\ RangTaille < RangTuer
    BY <2>1, Rangs
  <2>3. recu = Rien /\ gestionnaire["fils"] # "texte" /\ Len(tube) = 0
    BY <2>2
  <2> QED
    BY <2>1, <2>2, <2>3
<1>4. CASE EcrireTexte
  <2>1. A("pere", "texte") /\ tube' = Append(tube, "texte") /\ pos' = [pos EXCEPT !["pere"] = pos["pere"] + 1]
        /\ UNCHANGED <<env, gestionnaire, recu>>
    BY <1>4 DEF EcrireTexte, Avancer
  <2>2. pos["pere"] = RangTaille + 1 /\ pos'["pere"] = RangTaille + 2 /\ RangTaille + 1 < RangTuer
    BY <2>1, Rangs
  <2>3. recu = Rien /\ gestionnaire["fils"] # "texte" /\ Len(tube) = 1
    BY <2>2
  <2>4. Len(tube') = 2
    BY <2>1, <2>3, TubeVide, Zenon
  <2>5. RangTaille' = RangTaille
    BY <2>1
  <2>6. Ecrit' = 2
    BY <2>2, <2>5
  <2> QED
    BY <2>1, <2>3, <2>4, <2>6
<1>5. CASE Dormir
  BY <1>5, Rangs DEF Dormir, Avancer, SommeilFini
<1>6. CASE Tuer
  BY <1>6, Rangs DEF Tuer, Avancer, Envoyer
<1>7. CASE Ouvrir("pere")
  BY <1>7, Rangs DEF Ouvrir, Avancer
<1>8. CASE Suspendre("pere")
  BY <1>8 DEF Suspendre
<1>9. CASE Attendre
  BY <1>9, Rangs DEF Attendre, A, Avancer
<1>10. CASE FinAttente
  BY <1>10 DEF FinAttente, Avancer
<1>11. CASE Sortir("pere")
  BY <1>11 DEF Sortir
<1>12. CASE Recevoir("pere")
  BY <1>12 DEF Recevoir, Gere, Debut
<1>13. CASE Terminer
  BY <1>13 DEF Terminer, Envoyer, Revenir
<1>14. ASSUME NEW s \in Signaux, Mourir("pere", s)
      PROVE  InvTube'
  BY <1>14 DEF Mourir, Gere, Signaux
<1>15. CASE Armer("fils")
  BY <1>15 DEF Armer, Avancer
<1>16. CASE Ouvrir("fils")
  BY <1>16 DEF Ouvrir, Avancer
<1>17. CASE Affecter
  BY <1>17 DEF Affecter, Avancer
<1>18. CASE Suspendre("fils")
  BY <1>18 DEF Suspendre
<1>19. CASE Sortir("fils")
  BY <1>19 DEF Sortir
<1>20. CASE Recevoir("fils")
  BY <1>20 DEF Recevoir, Gere, Debut
<1>21. CASE LireTaille
  <2>1. gestionnaire["fils"] = "taille" /\ gestionnaire'["fils"] = "texte" /\ tube' = Tail(tube) /\ tube # <<>>
    BY <1>21 DEF LireTaille
  <2>2. Len(tube) = 2
    BY <2>1
  <2>3. Len(Tail(tube)) = 1
    BY <2>2
  <2> QED
    BY <2>1, <2>3
<1>22. CASE LireTexte
  BY <1>22, Lecture
<1>23. CASE LireClavier
  BY <1>23 DEF LireClavier
<1>24. CASE Repondre
  BY <1>24 DEF Repondre, Envoyer, Revenir
<1>25. ASSUME NEW s \in Signaux, Mourir("fils", s)
      PROVE  InvTube'
  BY <1>25 DEF Mourir, Gere, Signaux
<1>26. CASE Saisir
  BY <1>26 DEF Saisir, Rien, Autre
<1> QED
  BY <1>1, <1>2, <1>3, <1>4, <1>5, <1>6, <1>7, <1>8, <1>9, <1>10, <1>11, <1>12, <1>13, <1>14,
     <1>15, <1>16, <1>17, <1>18, <1>19, <1>20, <1>21, <1>22, <1>23, <1>24, <1>25, <1>26 DEF Next,
     Pere, Fils

\* The types
LEMMA PasInvTypes ==
  ASSUME IInv, [Next]_vars
  PROVE  InvTypes'
<1> USE DEF IInv, InvTypes, InvPere, InvFils, Programmes, Signaux, Processus, RangArmer, RangSommeil, RangTaille, RangTuer, FinPere, FinFils
<1>1. CASE UNCHANGED vars
  BY <1>1 DEF vars
<1>2. CASE Armer("pere")
  BY <1>2, Rangs DEF Armer, Avancer
<1>3. CASE EcrireTaille
  BY <1>3, Rangs DEF EcrireTaille, Avancer
<1>4. CASE EcrireTexte
  BY <1>4, Rangs DEF EcrireTexte, Avancer
<1>5. CASE Dormir
  BY <1>5, Rangs DEF Dormir, Avancer, SommeilFini
<1>6. CASE Tuer
  BY <1>6, Rangs DEF Tuer, Avancer, Envoyer
<1>7. CASE Ouvrir("pere")
  <2>1. (ouverts \cup {"pere"}) \subseteq Processus
    OBVIOUS
  <2>2. ouverts' \subseteq Processus
    BY <1>7, <2>1, Ouverture
  <2>3. UNCHANGED <<env, bloque, gestionnaire, mort, armes, attente, tube, descripteur, recu, prealables>>
    BY <1>7, Ouverture
  <2>4. CASE pos' = pos
    BY <2>2, <2>3, <2>4
  <2>5. CASE pos' # pos
    <3>1. A("pere", "ouvrir") /\ pos' = [pos EXCEPT !["pere"] = pos["pere"] + 1]
      BY <1>7, <2>5, Ouverture
    <3>2. pos' \in [Processus -> Nat] /\ pos'["pere"] \in 1 .. FinPere + 1 /\ pos'["fils"] \in 1 .. FinFils + 1
      BY <3>1, Rangs
    <3> QED
      BY <2>2, <2>3, <3>2
  <2> QED
    BY <2>4, <2>5
<1>8. CASE Suspendre("pere")
  BY <1>8 DEF Suspendre
<1>9. CASE Attendre
  <2>1. bloque' \in [Processus -> BOOLEAN]
    BY <1>9, RetourDeWait
  <2>2. UNCHANGED <<env, gestionnaire, mort, armes, attente, tube, ouverts, descripteur, recu, prealables>>
    BY <1>9, RetourDeWait
  <2>3. CASE pos' = pos
    BY <2>1, <2>2, <2>3
  <2>4. CASE pos' # pos
    <3>1. A("pere", "attendre") /\ pos' = [pos EXCEPT !["pere"] = pos["pere"] + 1]
      BY <1>9, <2>4, RetourDeWait
    <3>2. pos' \in [Processus -> Nat] /\ pos'["pere"] \in 1 .. FinPere + 1 /\ pos'["fils"] = pos["fils"]
      BY <3>1, Rangs
    <3> QED
      BY <2>1, <2>2, <3>2
  <2> QED
    BY <2>3, <2>4
<1>10. CASE FinAttente
  BY <1>10 DEF FinAttente, Avancer
<1>11. CASE Sortir("pere")
  BY <1>11 DEF Sortir
<1>12. CASE Recevoir("pere")
  BY <1>12 DEF Recevoir, Gere, Debut
<1>13. CASE Terminer
  BY <1>13 DEF Terminer, Envoyer, Revenir
<1>14. ASSUME NEW s \in Signaux, Mourir("pere", s)
      PROVE  InvTypes'
  BY <1>14 DEF Mourir, Gere, Signaux
<1>15. CASE Armer("fils")
  BY <1>15, Rangs DEF Armer, Avancer
<1>16. CASE Ouvrir("fils")
  <2>1. (ouverts \cup {"fils"}) \subseteq Processus
    OBVIOUS
  <2>2. ouverts' \subseteq Processus
    BY <1>16, <2>1, Ouverture
  <2>3. UNCHANGED <<env, bloque, gestionnaire, mort, armes, attente, tube, descripteur, recu, prealables>>
    BY <1>16, Ouverture
  <2>4. CASE pos' = pos
    BY <2>2, <2>3, <2>4
  <2>5. CASE pos' # pos
    <3>1. A("fils", "ouvrir") /\ pos' = [pos EXCEPT !["fils"] = pos["fils"] + 1]
      BY <1>16, <2>5, Ouverture
    <3>2. pos' \in [Processus -> Nat] /\ pos'["pere"] \in 1 .. FinPere + 1 /\ pos'["fils"] \in 1 .. FinFils + 1
      BY <3>1, Rangs
    <3> QED
      BY <2>2, <2>3, <3>2
  <2> QED
    BY <2>4, <2>5
<1>17. CASE Affecter
  BY <1>17, Rangs DEF Affecter, Avancer
<1>18. CASE Suspendre("fils")
  BY <1>18 DEF Suspendre
<1>19. CASE Sortir("fils")
  BY <1>19 DEF Sortir
<1>20. CASE Recevoir("fils")
  BY <1>20 DEF Recevoir, Gere, Debut
<1>21. CASE LireTaille
  BY <1>21 DEF LireTaille
<1>22. CASE LireTexte
  BY <1>22, Lecture
<1>23. CASE LireClavier
  BY <1>23 DEF LireClavier
<1>24. CASE Repondre
  BY <1>24 DEF Repondre, Envoyer, Revenir
<1>25. ASSUME NEW s \in Signaux, Mourir("fils", s)
      PROVE  InvTypes'
  BY <1>25 DEF Mourir, Gere, Signaux
<1>26. CASE Saisir
  BY <1>26 DEF Saisir
<1> QED
  BY <1>1, <1>2, <1>3, <1>4, <1>5, <1>6, <1>7, <1>8, <1>9, <1>10, <1>11, <1>12, <1>13, <1>14,
     <1>15, <1>16, <1>17, <1>18, <1>19, <1>20, <1>21, <1>22, <1>23, <1>24, <1>25, <1>26 DEF Next,
     Pere, Fils

\* Nobody ends early, but the child for want of sleep.
LEMMA PasMortPrematuree ==
  ASSUME IInv, [Next]_vars
  PROVE  MortPrematuree'
<1> USE DEF IInv, MortPrematuree, InvTypes, InvPere, InvFils, InvSignaux, Processus, RangArmer, RangSommeil, RangTaille, RangTuer, FinPere, FinFils
<1>1. CASE UNCHANGED vars
  BY <1>1 DEF vars
<1>2. CASE Armer("pere")
  BY <1>2 DEF Armer, Avancer
<1>3. CASE EcrireTaille
  BY <1>3 DEF EcrireTaille, Avancer
<1>4. CASE EcrireTexte
  BY <1>4 DEF EcrireTexte, Avancer
<1>5. CASE Dormir
  BY <1>5 DEF Dormir, Avancer, SommeilFini
<1>6. CASE Tuer
  BY <1>6 DEF Tuer, Avancer, Envoyer
<1>7. CASE Ouvrir("pere")
  BY <1>7 DEF Ouvrir, Avancer
<1>8. CASE Suspendre("pere")
  BY <1>8 DEF Suspendre
<1>9. CASE Attendre
  BY <1>9 DEF Attendre, A, Avancer
<1>10. CASE FinAttente
  BY <1>10 DEF FinAttente, Avancer
<1>11. CASE Sortir("pere")
  BY <1>11 DEF Sortir
<1>12. CASE Recevoir("pere")
  BY <1>12 DEF Recevoir, Gere, Debut
<1>13. CASE Terminer
  BY <1>13 DEF Terminer, Envoyer, Revenir
<1>14. ASSUME NEW s \in Signaux, Mourir("pere", s)
      PROVE  MortPrematuree'
  BY <1>14 DEF Mourir, Gere, Signaux
<1>15. CASE Armer("fils")
  BY <1>15 DEF Armer, Avancer
<1>16. CASE Ouvrir("fils")
  BY <1>16 DEF Ouvrir, Avancer
<1>17. CASE Affecter
  BY <1>17 DEF Affecter, Avancer
<1>18. CASE Suspendre("fils")
  BY <1>18 DEF Suspendre
<1>19. CASE Sortir("fils")
  BY <1>19 DEF Sortir
<1>20. CASE Recevoir("fils")
  BY <1>20 DEF Recevoir, Gere, Debut
<1>21. CASE LireTaille
  BY <1>21 DEF LireTaille
<1>22. CASE LireTexte
  BY <1>22, Lecture
<1>23. CASE LireClavier
  BY <1>23 DEF LireClavier
<1>24. CASE Repondre
  BY <1>24 DEF Repondre, Envoyer, Revenir
<1>25. ASSUME NEW s \in Signaux, Mourir("fils", s)
      PROVE  MortPrematuree'
  BY <1>25 DEF Mourir, Gere, Signaux
<1>26. CASE Saisir
  BY <1>26 DEF Saisir
<1> QED
  BY <1>1, <1>2, <1>3, <1>4, <1>5, <1>6, <1>7, <1>8, <1>9, <1>10, <1>11, <1>12, <1>13, <1>14,
     <1>15, <1>16, <1>17, <1>18, <1>19, <1>20, <1>21, <1>22, <1>23, <1>24, <1>25, <1>26 DEF Next,
     Pere, Fils

\* The child ends with the message.
LEMMA PasMortApresReception ==
  ASSUME IInv, [Next]_vars
  PROVE  MortApresReception'
<1> USE DEF IInv, MortApresReception, InvTypes, InvFils, InvSignaux, InvTube, Ecrit, Processus, RangArmer, RangSommeil, RangTaille, RangTuer, FinPere, FinFils
<1>1. CASE UNCHANGED vars
  BY <1>1 DEF vars
<1>2. CASE Armer("pere")
  BY <1>2 DEF Armer, Avancer
<1>3. CASE EcrireTaille
  BY <1>3 DEF EcrireTaille, Avancer
<1>4. CASE EcrireTexte
  BY <1>4 DEF EcrireTexte, Avancer
<1>5. CASE Dormir
  BY <1>5 DEF Dormir, Avancer, SommeilFini
<1>6. CASE Tuer
  BY <1>6 DEF Tuer, Avancer, Envoyer
<1>7. CASE Ouvrir("pere")
  BY <1>7 DEF Ouvrir, Avancer
<1>8. CASE Suspendre("pere")
  BY <1>8 DEF Suspendre
<1>9. CASE Attendre
  BY <1>9 DEF Attendre, A, Avancer
<1>10. CASE FinAttente
  BY <1>10 DEF FinAttente, Avancer
<1>11. CASE Sortir("pere")
  BY <1>11 DEF Sortir
<1>12. CASE Recevoir("pere")
  BY <1>12 DEF Recevoir, Gere, Debut
<1>13. CASE Terminer
  BY <1>13 DEF Terminer, Envoyer, Revenir
<1>14. ASSUME NEW s \in Signaux, Mourir("pere", s)
      PROVE  MortApresReception'
  BY <1>14 DEF Mourir, Gere, Signaux
<1>15. CASE Armer("fils")
  BY <1>15 DEF Armer, Avancer
<1>16. CASE Ouvrir("fils")
  BY <1>16 DEF Ouvrir, Avancer
<1>17. CASE Affecter
  BY <1>17 DEF Affecter, A
<1>18. CASE Suspendre("fils")
  BY <1>18 DEF Suspendre
<1>19. CASE Sortir("fils")
  BY <1>19, Rangs DEF Sortir
<1>20. CASE Recevoir("fils")
  <2>1. tube # <<>> /\ UNCHANGED <<mort, recu, tube>>
    <3>1. "USR1" \in attente["fils"] /\ gestionnaire["fils"] = "aucun"
      BY <1>20 DEF Recevoir, Gere
    <3>4. Len(tube) = 2
      BY <3>1
    <3>2. Len(tube) > 0
      BY <3>4
    <3>3. tube # <<>>
      BY <3>2, TubeVide, Zenon
    <3> QED
      BY <1>20, <3>3 DEF Recevoir
  <2> QED
    BY <2>1
<1>21. CASE LireTaille
  BY <1>21 DEF LireTaille
<1>22. CASE LireTexte
  BY <1>22, Lecture
<1>23. CASE LireClavier
  BY <1>23 DEF LireClavier
<1>24. CASE Repondre
  BY <1>24 DEF Repondre, Envoyer, Revenir
<1>25. ASSUME NEW s \in Signaux, Mourir("fils", s)
      PROVE  MortApresReception'
  BY <1>25 DEF Mourir, Gere, Signaux
<1>26. CASE Saisir
  BY <1>26 DEF Saisir
<1> QED
  BY <1>1, <1>2, <1>3, <1>4, <1>5, <1>6, <1>7, <1>8, <1>9, <1>10, <1>11, <1>12, <1>13, <1>14,
     <1>15, <1>16, <1>17, <1>18, <1>19, <1>20, <1>21, <1>22, <1>23, <1>24, <1>25, <1>26 DEF Next,
     Pere, Fils

\* What the handler reads is what was sent.
LEMMA PasMessageEntier ==
  ASSUME IInv, [Next]_vars
  PROVE  MessageEntier'
<1> USE DEF IInv, MessageEntier, InvTypes, InvSignaux, Programmes, Bonjour, Rien, Autre, Processus, RangArmer, RangSommeil, RangTaille, RangTuer, FinPere, FinFils
<1>1. CASE UNCHANGED vars
  BY <1>1 DEF vars
<1>2. CASE Armer("pere")
  BY <1>2 DEF Armer, Avancer
<1>3. CASE EcrireTaille
  BY <1>3 DEF EcrireTaille, Avancer
<1>4. CASE EcrireTexte
  BY <1>4 DEF EcrireTexte, Avancer
<1>5. CASE Dormir
  BY <1>5 DEF Dormir, Avancer, SommeilFini
<1>6. CASE Tuer
  BY <1>6 DEF Tuer, Avancer, Envoyer
<1>7. CASE Ouvrir("pere")
  BY <1>7 DEF Ouvrir, Avancer
<1>8. CASE Suspendre("pere")
  BY <1>8 DEF Suspendre
<1>9. CASE Attendre
  BY <1>9 DEF Attendre, A, Avancer
<1>10. CASE FinAttente
  BY <1>10 DEF FinAttente, Avancer
<1>11. CASE Sortir("pere")
  BY <1>11 DEF Sortir
<1>12. CASE Recevoir("pere")
  BY <1>12 DEF Recevoir, Gere, Debut
<1>13. CASE Terminer
  BY <1>13 DEF Terminer, Envoyer, Revenir
<1>14. ASSUME NEW s \in Signaux, Mourir("pere", s)
      PROVE  MessageEntier'
  BY <1>14 DEF Mourir, Gere, Signaux
<1>15. CASE Armer("fils")
  BY <1>15 DEF Armer, Avancer
<1>16. CASE Ouvrir("fils")
  BY <1>16 DEF Ouvrir, Avancer
<1>17. CASE Affecter
  BY <1>17 DEF Affecter, Avancer
<1>18. CASE Suspendre("fils")
  BY <1>18 DEF Suspendre
<1>19. CASE Sortir("fils")
  BY <1>19 DEF Sortir
<1>20. CASE Recevoir("fils")
  BY <1>20 DEF Recevoir, Gere, Debut
<1>21. CASE LireTaille
  BY <1>21 DEF LireTaille
<1>22. CASE LireTexte
  <2>1. env.programme = "etudiant" /\ env.longueur <= 127 => Demande = env.longueur
    BY DEF Demande, Char
  <2>2. env.programme # "etudiant" => Demande = env.longueur
    BY DEF Demande
  <2>3. env' = env /\ (recu' = recu \/ recu' = Demande)
    BY <1>22, Lecture
  <2> QED
    BY <2>1, <2>2, <2>3
<1>23. CASE LireClavier
  BY <1>23 DEF LireClavier
<1>24. CASE Repondre
  BY <1>24 DEF Repondre, Envoyer, Revenir
<1>25. ASSUME NEW s \in Signaux, Mourir("fils", s)
      PROVE  MessageEntier'
  BY <1>25 DEF Mourir, Gere, Signaux
<1>26. CASE Saisir
  BY <1>26 DEF Saisir
<1> QED
  BY <1>1, <1>2, <1>3, <1>4, <1>5, <1>6, <1>7, <1>8, <1>9, <1>10, <1>11, <1>12, <1>13, <1>14,
     <1>15, <1>16, <1>17, <1>18, <1>19, <1>20, <1>21, <1>22, <1>23, <1>24, <1>25, <1>26 DEF Next,
     Pere, Fils

\* The initial states
LEMMA InitialementVrai == Init => IInv
<1> SUFFICES ASSUME Init PROVE IInv
  OBVIOUS
<1> USE DEF Init, Environnements, Programmes, Processus
<1>1. InvTypes
  <2>1. env.longueur \in Longueurs \cup {Bonjour} /\ env.programme \in Programmes
        /\ (env.programme # "etudiant" => env.longueur = Bonjour)
    OBVIOUS
  <2> QED
    <3>1. env.longueur \in Nat
      <4>1. Bonjour \in Nat
        BY DEF Bonjour
      <4> QED
        BY <2>1, <4>1, LongueursHypothese, Zenon
    <3>4. env \in Environnements
      BY Zenon DEF Init
    <3>2. pos \in [Processus -> Nat] /\ pos["pere"] = 1 /\ pos["fils"] = 1
      OBVIOUS
    <3>3. descripteur \in BOOLEAN
      BY Zenon DEF Init
    <3> QED
      BY <2>1, <3>1, <3>2, <3>3, <3>4 DEF InvTypes, FinPere, FinFils
<1>2. InvPere /\ InvFils /\ InvSignaux
  <2>1. InvPere
    BY DEF InvPere, RangArmer, RangSommeil
  <2>2. InvFils
    <3>1. descripteur \/ env.programme = "nomme"
      BY Zenon DEF Init
    <3>2. ~ bloque["fils"]
      OBVIOUS
    <3> QED
      BY <3>1, <3>2 DEF InvFils, FinFils
  <2>3. InvSignaux
    BY DEF InvSignaux, RangTuer
  <2> QED
    BY <2>1, <2>2, <2>3
<1>3. InvTube
  BY DEF InvTube, Ecrit, RangTaille
<1>4. MortPrematuree /\ MortApresReception /\ MessageEntier
  BY DEF MortPrematuree, MortApresReception, MessageEntier
<1> QED
  BY <1>1, <1>2, <1>3, <1>4 DEF IInv

(* Who may die early and what the child has by then, for every length
   (TP3_pipe_anonyme_signal.c:58-123 and the two corrections). *)
THEOREM SignauxCorrects == Spec => []Inv
<1>1. IInv /\ [Next]_vars => IInv'
  BY PasPere, PasFils, PasSignaux, PasTube, PasInvTypes, PasMortPrematuree, PasMortApresReception,
     PasMessageEntier
  DEF IInv
<1>2. IInv => Inv
  BY Rangs DEF IInv, Inv, TypeOK, InvTypes, Processus
<1> QED
  BY <1>1, <1>2, InitialementVrai, PTL DEF Spec

-----------------------------------------------------------------------------
(***************************************************************************)
(* TP4: the monitor, under the name TP4 of its instance.                   *)
(***************************************************************************)
(* The counter stays the length of the queue, so that offer() never refuses a
   character. *)
LEMMA PasType ==
  ASSUME TP4!Inv, [TP4!Next]_TP4!vars
  PROVE  TP4!TypeOK'
<1> USE MoniteurHypothese DEF TP4!Inv, TP4!TypeOK, TP4!Threads
<1>1. CASE UNCHANGED TP4!vars
  BY <1>1 DEF TP4!InvProgres, TP4!estPlein, TP4!Lettres, TP4!Lettre, TP4!vars
<1>2. ASSUME NEW p \in Producteurs, TP4!AttendrePlace(p)
      PROVE  TP4!TypeOK'
  BY <1>2 DEF TP4!InvProgres, TP4!estPlein, TP4!Lettres, TP4!Lettre, TP4!AttendrePlace, TP4!Attendre
<1>3. ASSUME NEW p \in Producteurs, TP4!Placer(p)
      PROVE  TP4!TypeOK'
  <2>1. p \in TP4!Threads /\ places[p] \in 0 .. Longueur - 1
    BY <1>3 DEF TP4!Placer, TP4!InvProgres
  <2>2. TP4!Lettre(p, places[p] + 1) \in TP4!Lettres
    BY <2>1 DEF TP4!Lettre, TP4!Lettres
  <2>3. /\ tableau' = Append(tableau, TP4!Lettre(p, places[p] + 1))
        /\ index' = index + 1 /\ index + 1 \in 0 .. taille
    BY <1>3 DEF TP4!Placer, TP4!estPlein
  <2>4. tableau' \in Seq(TP4!Lettres) /\ Len(tableau') = Len(tableau) + 1
    BY <2>2, <2>3
  <2>5. etat' \in [TP4!Threads -> {"actif", "attente", "fini"}]
    BY <1>3 DEF TP4!Placer, TP4!Rendre
  <2>6. places' \in [Producteurs -> 0 .. Longueur] /\ lus' = lus
    BY <1>3, <2>1 DEF TP4!Placer
  <2> QED
    BY <2>3, <2>4, <2>5, <2>6
<1>4. ASSUME NEW r \in Lecteurs, TP4!AttendreLettre(r)
      PROVE  TP4!TypeOK'
  BY <1>4 DEF TP4!InvProgres, TP4!estPlein, TP4!Lettres, TP4!Lettre, TP4!AttendreLettre,
     TP4!Attendre
<1>5. ASSUME NEW r \in Lecteurs, TP4!Retirer(r)
      PROVE  TP4!TypeOK'
  <2>1. tableau # <<>> /\ tableau' = Tail(tableau) /\ index' = index - 1
    BY <1>5 DEF TP4!Retirer
  <2>2. /\ tableau' \in Seq(TP4!Lettres) /\ Len(tableau') = Len(tableau) - 1 /\ Len(tableau) > 0
        /\ Head(tableau) \in TP4!Lettres
    BY <2>1
  <2>3. lus' \in Seq(TP4!Lettres)
    BY <1>5, <2>2 DEF TP4!Retirer
  <2>4. etat' \in [TP4!Threads -> {"actif", "attente", "fini"}]
    BY <1>5 DEF TP4!Retirer, TP4!Rendre
  <2> QED
    BY <1>5, <2>1, <2>2, <2>3, <2>4 DEF TP4!Retirer
<1>6. ASSUME NEW t \in TP4!Threads, TP4!ReveilFortuit(t)
      PROVE  TP4!TypeOK'
  BY <1>6 DEF TP4!InvProgres, TP4!estPlein, TP4!Lettres, TP4!Lettre, TP4!ReveilFortuit
<1> QED
  BY <1>1, <1>2, <1>3, <1>4, <1>5, <1>6 DEF TP4!Next, TP4!Produire, TP4!Lire

(* Who sleeps has a reason to: a step that takes it away wakes everybody. *)
LEMMA PasSommeil ==
  ASSUME TP4!Inv, [TP4!Next]_TP4!vars
  PROVE  TP4!InvSommeil'
<1> USE MoniteurHypothese DEF TP4!Inv, TP4!TypeOK, TP4!Threads, TP4!estPlein, TP4!estVide
<1>1. CASE UNCHANGED TP4!vars
  BY <1>1 DEF TP4!InvSommeil, TP4!vars
<1>2. ASSUME NEW p \in Producteurs, TP4!AttendrePlace(p)
      PROVE  TP4!InvSommeil'
  BY <1>2 DEF TP4!InvSommeil, TP4!AttendrePlace, TP4!Attendre
<1>3. ASSUME NEW p \in Producteurs, TP4!Placer(p)
      PROVE  TP4!InvSommeil'
  BY <1>3 DEF TP4!InvSommeil, TP4!Placer, TP4!Rendre, TP4!Notifies, TP4!Endormis
<1>4. ASSUME NEW r \in Lecteurs, TP4!AttendreLettre(r)
      PROVE  TP4!InvSommeil'
  BY <1>4 DEF TP4!InvSommeil, TP4!AttendreLettre, TP4!Attendre
<1>5. ASSUME NEW r \in Lecteurs, TP4!Retirer(r)
      PROVE  TP4!InvSommeil'
  BY <1>5 DEF TP4!InvSommeil, TP4!Retirer, TP4!Rendre, TP4!Notifies, TP4!Endormis
<1>6. ASSUME NEW t \in TP4!Threads, TP4!ReveilFortuit(t)
      PROVE  TP4!InvSommeil'
  BY <1>6 DEF TP4!InvSommeil, TP4!ReveilFortuit
<1> QED
  BY <1>1, <1>2, <1>3, <1>4, <1>5, <1>6 DEF TP4!Next, TP4!Produire, TP4!Lire

(* A producer that did not end has something left to place. *)
LEMMA PasProgres ==
  ASSUME TP4!Inv, [TP4!Next]_TP4!vars
  PROVE  TP4!InvProgres'
<1> USE MoniteurHypothese DEF TP4!Inv, TP4!TypeOK, TP4!Threads
<1>1. CASE UNCHANGED TP4!vars
  BY <1>1 DEF TP4!InvProgres, TP4!Derniere, TP4!vars
<1>2. ASSUME NEW p \in Producteurs, TP4!AttendrePlace(p)
      PROVE  TP4!InvProgres'
  BY <1>2 DEF TP4!InvProgres, TP4!Derniere, TP4!AttendrePlace, TP4!Attendre
<1>3. ASSUME NEW p \in Producteurs, TP4!Placer(p)
      PROVE  TP4!InvProgres'
  <2>1. places' = [places EXCEPT ![p] = places[p] + 1] /\ places[p] < Longueur
    BY <1>3 DEF TP4!Placer, TP4!InvProgres
  <2>2. ASSUME NEW u \in Producteurs, etat'[u] # "fini"
        PROVE  etat[u] # "fini" /\ (u = p => places[p] + 1 # Longueur)
    BY <1>3, <2>2 DEF TP4!Placer, TP4!Rendre, TP4!Notifies, TP4!Endormis, TP4!Derniere
  <2> QED
    BY <2>1, <2>2 DEF TP4!InvProgres
<1>4. ASSUME NEW r \in Lecteurs, TP4!AttendreLettre(r)
      PROVE  TP4!InvProgres'
  BY <1>4 DEF TP4!InvProgres, TP4!Derniere, TP4!AttendreLettre, TP4!Attendre
<1>5. ASSUME NEW r \in Lecteurs, TP4!Retirer(r)
      PROVE  TP4!InvProgres'
  BY <1>5 DEF TP4!InvProgres, TP4!Derniere, TP4!Retirer, TP4!Rendre, TP4!Notifies, TP4!Endormis
<1>6. ASSUME NEW t \in TP4!Threads, TP4!ReveilFortuit(t)
      PROVE  TP4!InvProgres'
  BY <1>6 DEF TP4!InvProgres, TP4!Derniere, TP4!ReveilFortuit
<1> QED
  BY <1>1, <1>2, <1>3, <1>4, <1>5, <1>6 DEF TP4!Next, TP4!Produire, TP4!Lire

\* The initial states
LEMMA InitialementVide ==
  ASSUME TP4!Init
  PROVE  TP4!Inv
<1> USE MoniteurHypothese DEF TP4!Init
<1>1. TP4!TypeOK
  BY DEF TP4!TypeOK, TP4!Threads
<1>2. TP4!InvSommeil /\ TP4!InvProgres
  BY DEF TP4!InvSommeil, TP4!InvProgres, TP4!Threads
<1> QED
  BY <1>1, <1>2 DEF TP4!Inv

-----------------------------------------------------------------------------
(* The invariant holds in every reachable state (Moniteur.java:25-52). *)
THEOREM MoniteurCorrect == TP4!Spec => []InvMoniteur
<1>1. TP4!Inv /\ [TP4!Next]_TP4!vars => TP4!Inv'
  BY PasType, PasSommeil, PasProgres DEF TP4!Inv
<1> QED
  BY InitialementVide, <1>1, PTL DEF TP4!Spec, InvMoniteur

(* notifyAll() is enough for any number of producers and readers: they are
   never all asleep with something to do (Moniteur.java:27-30, 42-45). *)
THEOREM JamaisTousEndormis == TP4!Spec => []PasTousEndormis
<1>1. TP4!Inv => TP4!PasTousEndormis
  BY DEF TP4!Inv, TP4!TypeOK, TP4!InvSommeil, TP4!PasTousEndormis, TP4!Threads, TP4!estVide
<1> QED
  BY <1>1, MoniteurCorrect, PTL DEF InvMoniteur, PasTousEndormis

(* The monitor is a bounded FIFO queue (Moniteur.java:25-52). *)
THEOREM RaffinementMoniteur == TP4!Spec => ImplementeFile
<1>1. TP4!Init => TP4!FileAbstraite!Init
  BY DEF TP4!Init, TP4!FileAbstraite!Init
<1>2. TP4!Inv /\ [TP4!Next]_TP4!vars => [TP4!FileAbstraite!Inserer \/ TP4!FileAbstraite!Retirer]_<<tableau, lus>>
  <2> SUFFICES ASSUME TP4!Inv, [TP4!Next]_TP4!vars
               PROVE  TP4!FileAbstraite!Inserer \/ TP4!FileAbstraite!Retirer \/ UNCHANGED <<tableau, lus>>
    OBVIOUS
  <2> USE MoniteurHypothese DEF TP4!Inv, TP4!TypeOK
  <2>1. CASE UNCHANGED TP4!vars
    BY <2>1 DEF TP4!vars
  <2>2. ASSUME NEW p \in Producteurs, TP4!AttendrePlace(p)
        PROVE  UNCHANGED <<tableau, lus>>
    BY <2>2 DEF TP4!AttendrePlace, TP4!Attendre
  <2>3. ASSUME NEW p \in Producteurs, TP4!Placer(p)
        PROVE  TP4!FileAbstraite!Inserer
    <3>1. Len(tableau) < taille
      BY <2>3 DEF TP4!Placer, TP4!estPlein
    <3>2. TP4!Lettre(p, places[p] + 1) \in TP4!Lettres
      BY <2>3 DEF TP4!Placer, TP4!Lettre, TP4!Lettres, TP4!InvProgres
    <3> QED
      BY <2>3, <3>1, <3>2 DEF TP4!Placer, TP4!FileAbstraite!Inserer
  <2>4. ASSUME NEW r \in Lecteurs, TP4!AttendreLettre(r)
        PROVE  UNCHANGED <<tableau, lus>>
    BY <2>4 DEF TP4!AttendreLettre, TP4!Attendre
  <2>5. ASSUME NEW r \in Lecteurs, TP4!Retirer(r)
        PROVE  TP4!FileAbstraite!Retirer
    BY <2>5 DEF TP4!Retirer, TP4!FileAbstraite!Retirer
  <2>6. ASSUME NEW t \in TP4!Threads, TP4!ReveilFortuit(t)
        PROVE  UNCHANGED <<tableau, lus>>
    BY <2>6 DEF TP4!ReveilFortuit
  <2> QED
    BY <2>1, <2>2, <2>3, <2>4, <2>5, <2>6 DEF TP4!Next, TP4!Produire, TP4!Lire
<1> QED
  BY <1>1, <1>2, MoniteurCorrect, PTL
  DEF TP4!Spec, InvMoniteur, ImplementeFile, TP4!ImplementeFile, TP4!FileAbstraite!Spec
=============================================================================
