----------------------------- MODULE MCMoniteur -----------------------------
(***************************************************************************)
(* Instances of Moniteur for TLC, under the name TP4; the .cfg file gives  *)
(* the bounds.                                                             *)
(***************************************************************************)
EXTENDS Integers, FiniteSets

CONSTANTS Producteurs, Lecteurs, taille, Longueur, AvecNul, p1, p2, p3, r1, r2, r3

ASSUME MoniteurHypothese ==
  /\ IsFiniteSet(Producteurs) /\ IsFiniteSet(Lecteurs)
  /\ Producteurs \cap Lecteurs = {}
  /\ taille \in Nat \ {0} /\ Longueur \in Nat \ {0}
  /\ AvecNul \subseteq Producteurs

VARIABLES index, tableau, etat, places, lus

TP4 == INSTANCE Moniteur

SpecMoniteur == TP4!FairSpec

(* The counter is the length of the queue, and who sleeps has a reason to
   (Moniteur.java:25-52). *)
InvMoniteur == TP4!Inv

(* The threads of the monitor are not all asleep with something to do
   (Moniteur.java:27-30, 36, 42-45, 51). *)
PasTousEndormis == TP4!PasTousEndormis

(* As many readers end as there are '\0' (Main.java:6, Reader.java:13-16). *)
FinDesLecteurs == TP4!FinDesLecteurs

(* The monitor is a bounded FIFO queue (Moniteur.java:25-52). *)
ImplementeFile == TP4!ImplementeFile
=============================================================================
