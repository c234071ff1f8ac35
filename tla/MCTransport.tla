----------------------------- MODULE MCTransport ----------------------------
(***************************************************************************)
(* Instances of Transport for TLC, under the name TR; the .cfg file gives  *)
(* the bounds.                                                             *)
(***************************************************************************)
EXTENDS Integers

CONSTANTS NbProcessus, Capacite, Backlog, MaxThreads, MaxEnvois

ASSUME TransportHypothese ==
  /\ NbProcessus \in Nat \ {0} /\ Capacite \in Nat \ {0} /\ Backlog \in Nat \ {0}
  /\ MaxThreads \in Nat /\ MaxEnvois \in Nat

VARIABLES aEcrire, envois, pipeEnvoi, pipeReception, client, attente, workers, threads, donnees,
          lus, perdus

TR == INSTANCE Transport WITH N <- NbProcessus

SpecTransport == TR!FairSpec

(* The connections are a channel that reorders, but neither repeats nor
   invents (client.c:21-64, serveur.c:40-71). *)
ImplementeCanal == TR!ImplementeCanal

(* A calcul thread always gets to the end of what it writes (serveur.c:40-52). *)
EcritureAboutit == TR!EcritureAboutit

(* What is not dropped for lack of a thread is read in the end
   (client.c:21-64, serveur.c:35-71). *)
LivraisonAboutit == TR!LivraisonAboutit
=============================================================================
