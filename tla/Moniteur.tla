------------------------------ MODULE Moniteur ------------------------------
(***************************************************************************)
(* The Java monitor of TP4_producteur_consomateur: a bounded queue of      *)
(* characters with two synchronized methods, placer and retirer, that      *)
(* wait() in a loop and notifyAll() at the end.  Producer threads place    *)
(* the characters of a string, reader threads remove until they get '\0'.  *)
(* Main has one of each; the class is written for any number.              *)
(*                                                                         *)
(* A synchronized method runs alone but for its wait(), so that one pass   *)
(* through it is one step.  wait() may return without a notification.      *)
(* No thread calls interrupt(), so InterruptedException is left out.       *)
(***************************************************************************)
EXTENDS Integers, Sequences, FiniteSets, SequencesExt

CONSTANTS
  Producteurs, Lecteurs,
  taille,         \* capacity (5 in Main)
  Longueur,       \* characters in a string
  AvecNul         \* producers whose string ends with the character '\0'

Threads == Producteurs \cup Lecteurs

Lettre(p, k) == [de |-> p, rang |-> k]
EstNul(c) == c.de \in AvecNul /\ c.rang = Longueur
Lettres == [de : Producteurs, rang : 1 .. Longueur]

VARIABLES
  index,          \* the counter the methods test
  tableau,        \* the ArrayBlockingQueue
  etat,           \* "actif", "attente" (in wait) or "fini"
  places,         \* characters each producer has placed
  lus             \* history: characters the readers took, in order

vars == <<index, tableau, etat, places, lus>>

Init ==
  /\ index = 0
  /\ tableau = <<>>
  /\ etat = [t \in Threads |-> "actif"]
  /\ places = [p \in Producteurs |-> 0]
  /\ lus = <<>>
-----------------------------------------------------------------------------
estVide == index = 0

\* Mutant of estPlein: one off
estPleinTropTard == index = taille + 1

estPlein == index = taille

Endormis == {t \in Threads : etat[t] = "attente"}

\* Mutant of Notifies: notify() instead of notifyAll()
NotifiesUn == IF Endormis = {} THEN {} ELSE {CHOOSE t \in Endormis : TRUE}

Notifies == Endormis

\* What the end of a method does: t goes on with its loop or ends it.
Rendre(t, suite) ==
  etat' = [u \in Threads |-> IF u = t THEN suite ELSE IF u \in Notifies THEN "actif" ELSE etat[u]]

Attendre(t) ==
  /\ etat' = [etat EXCEPT ![t] = "attente"]
  /\ UNCHANGED <<index, tableau, places, lus>>

AttendrePlace(p) == etat[p] = "actif" /\ estPlein /\ Attendre(p)

Derniere(p) == places[p] + 1 = Longueur

\* offer() does nothing when the queue is full.
Placer(p) ==
  /\ etat[p] = "actif"
  /\ ~ estPlein
  /\ index' = index + 1
  /\ tableau' = IF Len(tableau) < taille THEN Append(tableau, Lettre(p, places[p] + 1)) ELSE tableau
  /\ places' = [places EXCEPT ![p] = @ + 1]
  /\ Rendre(p, IF Derniere(p) THEN "fini" ELSE "actif")
  /\ UNCHANGED lus

AttendreLettre(r) == etat[r] = "actif" /\ estVide /\ Attendre(r)

\* Mutant of DerniereLettre: the reader stops at the end of the string
DerniereLettreFin(c) == c.rang = Longueur

DerniereLettre(c) == EstNul(c)

\* Mutant of Retirer: peek() instead of poll()
RetirerSansOter(r) ==
  /\ etat[r] = "actif"
  /\ ~ estVide
  /\ tableau # <<>>
  /\ index' = index - 1
  /\ lus' = Append(lus, Head(tableau))
  /\ Rendre(r, IF DerniereLettre(Head(tableau)) THEN "fini" ELSE "actif")
  /\ UNCHANGED <<tableau, places>>

\* poll() returns null when the queue is empty, and retirer fails.
Retirer(r) ==
  /\ etat[r] = "actif"
  /\ ~ estVide
  /\ tableau # <<>>
  /\ index' = index - 1
  /\ tableau' = Tail(tableau)
  /\ lus' = Append(lus, Head(tableau))
  /\ Rendre(r, IF DerniereLettre(Head(tableau)) THEN "fini" ELSE "actif")
  /\ UNCHANGED places

\* wait() returns by itself.
ReveilFortuit(t) ==
  /\ etat[t] = "attente"
  /\ etat' = [etat EXCEPT ![t] = "actif"]
  /\ UNCHANGED <<index, tableau, places, lus>>

Produire(p) == AttendrePlace(p) \/ Placer(p)
Lire(r) == AttendreLettre(r) \/ Retirer(r)

Next ==
  \/ \E p \in Producteurs : Produire(p)
  \/ \E r \in Lecteurs : Lire(r)
  \/ \E t \in Threads : ReveilFortuit(t)

Spec == Init /\ [][Next]_vars

\* A thread that is not in wait() ends up with the lock.
FairSpec ==
  Spec /\ (\A p \in Producteurs : WF_vars(Produire(p)))
       /\ (\A r \in Lecteurs : WF_vars(Lire(r)))
-----------------------------------------------------------------------------
\* The counter is the length of the queue it shadows.
TypeOK ==
  /\ index = Len(tableau) /\ index \in 0 .. taille
  /\ tableau \in Seq(Lettres)
  /\ etat \in [Threads -> {"actif", "attente", "fini"}]
  /\ places \in [Producteurs -> 0 .. Longueur]
  /\ lus \in Seq(Lettres)

(* The threads are not all asleep while there is something to place or to
   read: no notification goes to the wrong thread only (lines 27-30, 36,
   42-45, 51). *)
PasTousEndormis ==
  (\A t \in Threads : etat[t] \in {"attente", "fini"})
    => (tableau = <<>> \/ \A r \in Lecteurs : etat[r] = "fini")
       /\ (\A p \in Producteurs : etat[p] = "fini" \/ estPlein)

\* The readers that ended
Finis == {r \in Lecteurs : etat[r] = "fini"}

(* Each string that ends with '\0' ends one reader, and nothing else does: the
   others wait for ever, as the reader of Main, whose string has none
   (Main.java:6, Reader.java:13-16). *)
FinDesLecteurs ==
  Cardinality(AvecNul) <= Cardinality(Lecteurs)
    => <>[](Cardinality(Finis) = Cardinality(AvecNul))

FileAbstraite ==
  INSTANCE FileBornee WITH Taille <- taille, file <- tableau, sorties <- lus

(* The monitor implements the bounded FIFO queue that the shared memory of TP1
   implements too (Moniteur.java:25-52). *)
ImplementeFile == FileAbstraite!Spec
-----------------------------------------------------------------------------
(* The inductive invariant behind these properties (proved in
   TP3_TP4_proof). *)

\* notifyAll() wakes everybody whenever the condition of a wait() may change.
InvSommeil ==
  /\ \A p \in Producteurs : etat[p] = "attente" => estPlein
  /\ \A r \in Lecteurs : etat[r] = "attente" => estVide

InvProgres == \A p \in Producteurs : etat[p] # "fini" => places[p] < Longueur

Inv == TypeOK /\ InvSommeil /\ InvProgres
=============================================================================
