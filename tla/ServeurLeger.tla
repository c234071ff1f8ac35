---------------------------- MODULE ServeurLeger ----------------------------
(***************************************************************************)
(* The multi-threaded server of TP5                                        *)
(* (TP5_Socket/correction/socketUnix_Serveur_concurrent_leger.c) and its   *)
(* clients.  The main thread accepts a connection, looks for a free entry  *)
(* of the array connexions, and starts a thread on it; the thread answers  *)
(* one request and frees the entry.                                        *)
(*                                                                         *)
(* The semaphore starts at MAX_CONNEXIONS.  A thread holds one unit from   *)
(* its first to its last instruction, the main thread holds one while it   *)
(* searches.  An entry is taken earlier than the unit of its thread: from  *)
(* the search on.                                                          *)
(*                                                                         *)
(* SIGINT sets fin; its handler is installed without SA_RESTART, so that   *)
(* accept, sem_wait and read return when they are interrupted, and only    *)
(* the result of accept is tested.  pc = "accept" covers the way from the  *)
(* test of fin to accept as well as accept itself: a SIGINT that the main  *)
(* thread takes on that way interrupts nothing.                            *)
(***************************************************************************)
EXTENDS Integers, Sequences, FiniteSets

CONSTANTS
  MAX_CONNEXIONS, \* entries of the array (10 in the code)
  Clients,        \* clients, one connection each
  Backlog,        \* connections waiting for accept
  MaxSignaux      \* bound: number of CTRL-C

ASSUME ServeurHypothese ==
  /\ MAX_CONNEXIONS \in Nat \ {0}
  /\ IsFiniteSet(Clients)
  /\ Backlog \in Nat \ {0}
  /\ MaxSignaux \in Nat

Entrees == 1 .. MAX_CONNEXIONS
Aucune == 0                             \* indice == -1
Libre == "libre"                        \* descripteur == -1

ASSUME LibreHypothese == Libre \notin Clients

VARIABLES
  fin, signaux,
  pc,             \* the main thread
  newsockfd, indice, i,
  semaphore,
  descripteur,    \* descripteur[e]: client of entry e, or Libre
  attente,        \* connections accept has not returned
  client,         \* "dehors", "connecte", "demande", "repondu" or "coupe"
  thread,         \* the thread that serves a client
  entree,         \* the entry it was given
  interrompus,    \* history: sem_wait calls that returned without a unit
  perdu           \* history: a SIGINT came when the main thread was at, or on its
                  \* way to, accept, and did not interrupt it

varsMain == <<pc, newsockfd, indice, i>>
vars == <<fin, signaux, varsMain, semaphore, descripteur, attente, client, thread,
          entree, interrompus, perdu>>

Init ==
  /\ fin = FALSE /\ signaux = 0
  /\ pc = "accept"
  /\ newsockfd = Libre /\ indice = Aucune /\ i = 1
  /\ semaphore = MAX_CONNEXIONS
  /\ descripteur = [e \in Entrees |-> Libre]
  /\ attente = <<>>
  /\ client = [c \in Clients |-> "dehors"]
  /\ thread = [c \in Clients |-> "aucun"]
  /\ entree = [c \in Clients |-> Aucune]
  /\ interrompus = 0 /\ perdu = FALSE

EnService == pc \notin {"fini", "indefini"}
-----------------------------------------------------------------------------
(* A client *)

Connecter(c) ==
  /\ EnService
  /\ client[c] = "dehors"
  /\ Len(attente) <= Backlog
  /\ client' = [client EXCEPT ![c] = "connecte"]
  /\ attente' = Append(attente, c)
  /\ UNCHANGED <<fin, signaux, perdu, varsMain, semaphore, descripteur, thread, entree, interrompus>>

Demander(c) ==
  /\ client[c] = "connecte"
  /\ client' = [client EXCEPT ![c] = "demande"]
  /\ UNCHANGED <<fin, signaux, perdu, varsMain, semaphore, descripteur, attente, thread, entree, interrompus>>
-----------------------------------------------------------------------------
(* The main thread *)

Accepter ==
  /\ pc = "accept"
  /\ attente # <<>>
  /\ newsockfd' = Head(attente)
  /\ attente' = Tail(attente)
  /\ indice' = Aucune
  /\ pc' = "semaphore"
  /\ UNCHANGED <<fin, signaux, perdu, i, semaphore, descripteur, client, thread, entree, interrompus>>

Prendre ==
  /\ pc = "semaphore"
  /\ semaphore > 0
  /\ semaphore' = semaphore - 1
  /\ pc' = "cherche"
  /\ i' = 1
  /\ UNCHANGED <<fin, signaux, perdu, newsockfd, indice, descripteur, attente, client, thread, entree, interrompus>>

\* Mutant of EntreeLibre: the test is missing
EntreeLibreToujours(e) == TRUE

EntreeLibre(e) == descripteur[e] = Libre

\* One round of the for loop; threads free entries meanwhile.
Chercher ==
  /\ pc = "cherche"
  /\ IF i \in Entrees /\ indice = Aucune
       THEN /\ indice' = IF EntreeLibre(i) THEN i ELSE indice
            /\ i' = i + 1
            /\ UNCHANGED pc
       ELSE /\ pc' = "affecte"
            /\ UNCHANGED <<indice, i>>
  /\ UNCHANGED <<fin, signaux, perdu, newsockfd, semaphore, descripteur, attente, client, thread, entree, interrompus>>

Affecter ==
  /\ pc = "affecte"
  /\ indice # Aucune
  /\ descripteur' = [descripteur EXCEPT ![indice] = newsockfd]
  /\ pc' = "rendre"
  /\ UNCHANGED <<fin, signaux, perdu, newsockfd, indice, i, semaphore, attente, client, thread, entree, interrompus>>

\* No entry was found: connexions[-1] is written, which is undefined.
Deborder ==
  /\ pc = "affecte"
  /\ indice = Aucune
  /\ pc' = "indefini"
  /\ UNCHANGED <<fin, signaux, perdu, newsockfd, indice, i, semaphore, descripteur, attente, client, thread, entree, interrompus>>

Rendre ==
  /\ pc = "rendre"
  /\ semaphore' = semaphore + 1
  /\ pc' = "creer"
  /\ UNCHANGED <<fin, signaux, perdu, newsockfd, indice, i, descripteur, attente, client, thread, entree, interrompus>>

CreerThread ==
  /\ pc = "creer"
  /\ thread' = [thread EXCEPT ![newsockfd] = "semaphore"]
  /\ entree' = [entree EXCEPT ![newsockfd] = indice]
  /\ pc' = "test"
  /\ UNCHANGED <<fin, signaux, perdu, newsockfd, indice, i, semaphore, descripteur, attente, client, interrompus>>

EchouerThread ==
  /\ pc = "creer"
  /\ descripteur' = [descripteur EXCEPT ![indice] = Libre]
  /\ client' = [client EXCEPT ![newsockfd] = "coupe"]
  /\ pc' = "test"
  /\ UNCHANGED <<fin, signaux, perdu, newsockfd, indice, i, semaphore, attente, thread, entree, interrompus>>

Continuer == ~ fin

Tester ==
  /\ pc = "test"
  /\ pc' = IF Continuer THEN "accept" ELSE "sortie"
  /\ UNCHANGED <<fin, signaux, perdu, newsockfd, indice, i, semaphore, descripteur, attente, client, thread, entree, interrompus>>

\* main returns: the process ends, its threads with it.
Sortir ==
  /\ pc = "sortie"
  /\ pc' = "fini"
  /\ attente' = <<>>
  /\ thread' = [c \in Clients |-> IF thread[c] = "aucun" THEN "aucun" ELSE "fini"]
  /\ client' = [c \in Clients |-> IF client[c] \in {"connecte", "demande"} THEN "coupe" ELSE client[c]]
  /\ UNCHANGED <<fin, signaux, perdu, newsockfd, indice, i, semaphore, descripteur, entree, interrompus>>
-----------------------------------------------------------------------------
(* The thread of client c *)

PrendreT(c) ==
  /\ thread[c] = "semaphore"
  /\ semaphore > 0
  /\ semaphore' = semaphore - 1
  /\ thread' = [thread EXCEPT ![c] = "lecture"]
  /\ UNCHANGED <<fin, signaux, perdu, varsMain, descripteur, attente, client, entree, interrompus>>

\* The request is read; without memory for it there is no answer.
LireRequete(c) ==
  /\ thread[c] = "lecture"
  /\ client[c] = "demande"
  /\ \E suite \in {"reponse", "fermeture"} : thread' = [thread EXCEPT ![c] = suite]
  /\ UNCHANGED <<fin, signaux, perdu, varsMain, semaphore, descripteur, attente, client, entree, interrompus>>

Repondre(c) ==
  /\ thread[c] = "reponse"
  /\ client' = [client EXCEPT ![c] = "repondu"]
  /\ thread' = [thread EXCEPT ![c] = "fermeture"]
  /\ UNCHANGED <<fin, signaux, perdu, varsMain, semaphore, descripteur, attente, entree, interrompus>>

\* close (connexion->descripteur): the client whose descriptor is in the entry
Fermer(c) ==
  LET d == descripteur[entree[c]] IN
  /\ thread[c] = "fermeture"
  /\ client' = [client EXCEPT ![d] = IF @ = "repondu" THEN @ ELSE "coupe"]
  /\ thread' = [thread EXCEPT ![c] = "liberation"]
  /\ UNCHANGED <<fin, signaux, perdu, varsMain, semaphore, descripteur, attente, entree, interrompus>>

Liberer(c) ==
  /\ thread[c] = "liberation"
  /\ descripteur' = [descripteur EXCEPT ![entree[c]] = Libre]
  /\ thread' = [thread EXCEPT ![c] = "rendre"]
  /\ UNCHANGED <<fin, signaux, perdu, varsMain, semaphore, attente, client, entree, interrompus>>

\* Mutant of RendreT: no sem_post
RendreTOubli(c) ==
  /\ thread[c] = "rendre"
  /\ thread' = [thread EXCEPT ![c] = "fini"]
  /\ UNCHANGED <<fin, signaux, perdu, varsMain, semaphore, descripteur, attente, client, entree, interrompus>>

\* Mutant of RendreT: the unit is given back twice
RendreTDeuxFois(c) ==
  /\ thread[c] = "rendre"
  /\ semaphore' = semaphore + 2
  /\ thread' = [thread EXCEPT ![c] = "fini"]
  /\ UNCHANGED <<fin, signaux, perdu, varsMain, descripteur, attente, client, entree, interrompus>>

RendreT(c) ==
  /\ thread[c] = "rendre"
  /\ semaphore' = semaphore + 1
  /\ thread' = [thread EXCEPT ![c] = "fini"]
  /\ UNCHANGED <<fin, signaux, perdu, varsMain, descripteur, attente, client, entree, interrompus>>
-----------------------------------------------------------------------------
(* SIGINT, delivered to any thread of the process *)

Signal ==
  /\ EnService
  /\ signaux < MaxSignaux
  /\ signaux' = signaux + 1
  /\ fin' = TRUE

\* The signal does not interrupt accept.
SignalAilleurs == Signal /\ perdu' = (perdu \/ pc = "accept")

\* The thread that takes it is in none of the interruptible calls: any thread
\* of a client, or the main thread, which may be between its test of fin and
\* accept.
SignalSansEffet ==
  /\ SignalAilleurs
  /\ UNCHANGED <<varsMain, semaphore, descripteur, attente, client, thread, entree, interrompus>>

\* Mutant of SignalAccept: with SA_RESTART accept goes on
SignalAcceptReprise ==
  /\ Signal
  /\ pc = "accept" /\ attente = <<>>
  /\ UNCHANGED <<varsMain, semaphore, descripteur, attente, client, thread, entree, interrompus, perdu>>

SignalAccept ==
  /\ Signal
  /\ pc = "accept" /\ attente = <<>>
  /\ pc' = "test"
  /\ UNCHANGED <<newsockfd, indice, i, semaphore, descripteur, attente, client, thread, entree, interrompus, perdu>>

\* sem_wait returns -1 and its caller goes on without a unit.
SignalSemaphore ==
  /\ SignalAilleurs
  /\ pc = "semaphore" /\ semaphore = 0
  /\ pc' = "cherche" /\ i' = 1
  /\ interrompus' = interrompus + 1
  /\ UNCHANGED <<newsockfd, indice, semaphore, descripteur, attente, client, thread, entree>>

SignalSemaphoreT(c) ==
  /\ SignalAilleurs
  /\ thread[c] = "semaphore" /\ semaphore = 0
  /\ thread' = [thread EXCEPT ![c] = "lecture"]
  /\ interrompus' = interrompus + 1
  /\ UNCHANGED <<varsMain, semaphore, descripteur, attente, client, entree>>

\* read returns -1: the size is whatever was in the variable.
SignalLecture(c) ==
  /\ SignalAilleurs
  /\ thread[c] = "lecture" /\ client[c] # "demande"
  /\ \E suite \in {"reponse", "fermeture"} : thread' = [thread EXCEPT ![c] = suite]
  /\ UNCHANGED <<varsMain, semaphore, descripteur, attente, client, entree, interrompus>>

Principal ==
  \/ Accepter \/ Prendre \/ Chercher \/ Affecter \/ Deborder \/ Rendre
  \/ CreerThread \/ EchouerThread \/ Tester \/ Sortir

TraiterRequete(c) ==
  /\ EnService
  /\ PrendreT(c) \/ LireRequete(c) \/ Repondre(c) \/ Fermer(c) \/ Liberer(c) \/ RendreT(c)

Interruption ==
  \/ SignalSansEffet \/ SignalAccept \/ SignalSemaphore
  \/ \E c \in Clients : SignalSemaphoreT(c) \/ SignalLecture(c)

Next ==
  \/ Principal
  \/ Interruption
  \/ \E c \in Clients : Connecter(c) \/ Demander(c) \/ TraiterRequete(c)

Spec == Init /\ [][Next]_vars

\* Every thread that can run does, and a client that connected sends its
\* request; nobody is obliged to connect or to press CTRL-C.
FairSpec ==
  /\ Spec
  /\ WF_vars(Principal)
  /\ \A c \in Clients : WF_vars(Demander(c)) /\ WF_vars(TraiterRequete(c))
-----------------------------------------------------------------------------
TypeOK ==
  /\ fin \in BOOLEAN /\ signaux \in 0 .. MaxSignaux
  /\ pc \in {"accept", "semaphore", "cherche", "affecte", "rendre", "creer", "test",
             "sortie", "fini", "indefini"}
  /\ newsockfd \in Clients \cup {Libre}
  /\ indice \in Entrees \cup {Aucune} /\ i \in 1 .. MAX_CONNEXIONS + 1
  /\ semaphore \in 0 .. MAX_CONNEXIONS + MaxSignaux
  /\ descripteur \in [Entrees -> Clients \cup {Libre}]
  /\ attente \in Seq(Clients)
  /\ client \in [Clients -> {"dehors", "connecte", "demande", "repondu", "coupe"}]
  /\ thread \in [Clients -> {"aucun", "semaphore", "lecture", "reponse", "fermeture",
                             "liberation", "rendre", "fini"}]
  /\ entree \in [Clients -> Entrees \cup {Aucune}]
  /\ interrompus \in 0 .. MaxSignaux /\ perdu \in BOOLEAN

(* An entry belongs to the thread that was given it until that thread frees
   it, whatever happens to the semaphore: no thread closes the connection of
   another (lines 70-72, 159-163). *)
EntreeExclusive ==
  \A c \in Clients :
    thread[c] \in {"semaphore", "lecture", "reponse", "fermeture", "liberation"}
      => descripteur[entree[c]] = c

\* Threads between their sem_wait and their sem_post
Porteurs == {c \in Clients : thread[c] \in {"lecture", "reponse", "fermeture",
                                             "liberation", "rendre"}}

(* Units of the semaphore are neither lost nor created, but for one created by
   each interrupted sem_wait (lines 37, 74, 157, 165). *)
CompteExact ==
  EnService =>
    semaphore = MAX_CONNEXIONS - Cardinality(Porteurs)
                  - (IF pc \in {"cherche", "affecte", "rendre"} THEN 1 ELSE 0) + interrompus

(* A client that sends its request is answered or disconnected, unless the
   search found no entry: the semaphore blocks neither the main thread nor
   the threads for ever. *)
ReponseAboutit ==
  \A c \in Clients :
    client[c] = "demande" ~> (client[c] \in {"repondu", "coupe"} \/ pc = "indefini")

(* A request to stop is honoured whatever the main thread is doing, with one
   exception: that of a SIGINT which came when the main thread was in accept,
   or between its test of fin and accept, and was taken by another thread, or by
   the main thread itself before the call.  Nothing then wakes accept, and the
   server stops with the next connection, at the latest (lines 132-136, 192). *)
ArretAboutit == (fin /\ (~ perdu \/ pc # "accept" \/ attente # <<>>)) ~> ~ EnService

-----------------------------------------------------------------------------
(* The inductive invariant behind EntreeExclusive and CompteExact (proved in
   ServeurLeger_proof). *)

\* A connection that waits for accept is new, and waits once.
InvAttente ==
  /\ \A k \in 1 .. Len(attente) :
       thread[attente[k]] = "aucun" /\ attente[k] # newsockfd /\ client[attente[k]] # "dehors"
  /\ \A j, k \in 1 .. Len(attente) : attente[j] = attente[k] => j = k
  /\ \A c \in Clients : client[c] = "dehors" => thread[c] = "aucun" /\ c # newsockfd

\* The entry the main thread found stays free until it writes there; then it
\* belongs to a connection that has no thread yet.
InvPrincipal ==
  /\ pc \in {"semaphore", "cherche", "affecte", "rendre", "creer"}
       => newsockfd \in Clients /\ thread[newsockfd] = "aucun"
  /\ pc = "semaphore" => indice = Aucune
  /\ pc \in {"cherche", "affecte"} /\ indice # Aucune => descripteur[indice] = Libre
  /\ pc \in {"rendre", "creer"} => indice # Aucune /\ descripteur[indice] = newsockfd

InvThreads ==
  \A c \in Clients :
    thread[c] \in {"semaphore", "lecture", "reponse", "fermeture", "liberation"}
      => entree[c] # Aucune /\ descripteur[entree[c]] = c

Inv == TypeOK /\ InvAttente /\ InvPrincipal /\ InvThreads /\ interrompus <= signaux /\ CompteExact
=============================================================================
