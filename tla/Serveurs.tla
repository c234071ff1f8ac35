------------------------------ MODULE Serveurs ------------------------------
(***************************************************************************)
(* Four servers that accept connections, and their clients:                *)
(*   "fork"   TP5_Socket/server_fork.c, client.c                           *)
(*   "lourd"  TP5_Socket/correction, one process per connection, client v2 *)
(*   "objet"  socket java/Serveur-1, Client-1: one connection at a time,   *)
(*            object streams, which exchange headers first                 *)
(*   "ligne"  socket java/Serveur-2, Client-2: the same with lines of text *)
(*                                                                         *)
(* Process 1 is the server.  A child inherits all that its father has open *)
(* and a connection ends for the client when no process has it open.  A    *)
(* child of "lourd" answers and exits; nobody waits for it and it stays a  *)
(* zombie.  A child of "fork" goes back to the loop of its father, which   *)
(* never closes what it accepted.                                          *)
(*                                                                         *)
(* As committed client.c names another path than server_fork.c: its client *)
(* here is client.c with the path of the server.                           *)
(***************************************************************************)
EXTENDS Integers, Sequences, FiniteSets, SequencesExt

CONSTANTS
  Clients,
  Aucun,          \* no connection: accept failed
  NbProcessus,    \* processes the system grants, the server and its zombies included
  MaxOuverts,     \* connections a process may have open
  MaxMorts        \* bound: clients killed

ASSUME ServeursHypothese ==
  NbProcessus \in Nat \ {0} /\ MaxOuverts \in Nat \ {0} /\ Aucun \notin Clients

VARIABLES
  programme,
  fin,            \* SIGINT was received
  etat, courant,  \* where each process is, the connection it deals with
  tient,          \* the connections each process has open
  interrompus,    \* the processes that SIGINT caught in read
  file,           \* connections not yet accepted
  client,         \* where each client is
  requetes,       \* the clients that wrote their request
  entetes,        \* those the server sent its header to
  reponses,       \* those it sent its answer to
  abandonnes,     \* history: connections accepted whose fork failed
  sansMemoire     \* history: connections for whose request malloc found no memory

processus == <<etat, courant, tient>>
echanges == <<requetes, entetes, reponses>>
vars == <<programme, fin, processus, interrompus, file, client, echanges, abandonnes, sansMemoire>>

Processus == 1 .. NbProcessus
Arrete(p) == etat[p] \in {"libre", "zombie", "fini"}
Multi == programme \in {"fork", "lourd"}

Init ==
  /\ programme \in {"fork", "lourd", "objet", "ligne"}
  /\ fin = FALSE
  /\ etat = [p \in Processus |-> IF p = 1 THEN "accept" ELSE "libre"]
  /\ courant = [p \in Processus |-> Aucun]
  /\ tient = [p \in Processus |-> {}]
  /\ interrompus = {}
  /\ file = <<>>
  /\ client = [c \in Clients |-> "arret"]
  /\ requetes = {} /\ entetes = {} /\ reponses = {}
  /\ abandonnes = {} /\ sansMemoire = {}

Aller(p, e) == etat' = [etat EXCEPT ![p] = e]

\* A process ends: its descriptors are closed.
Finir(p, e) == Aller(p, e) /\ tient' = [tient EXCEPT ![p] = {}] /\ UNCHANGED courant
-----------------------------------------------------------------------------
(* The loop of the server *)

Accepter(p) ==
  /\ etat[p] = "accept" /\ file # <<>> /\ Cardinality(tient[p]) < MaxOuverts
  /\ file' = Tail(file)
  /\ courant' = [courant EXCEPT ![p] = Head(file)]
  /\ tient' = [tient EXCEPT ![p] = @ \cup {Head(file)}]
  /\ Aller(p, IF Multi THEN "fork" ELSE IF programme = "objet" THEN "entete" ELSE "lire")
  /\ UNCHANGED <<programme, fin, interrompus, client, echanges, abandonnes, sansMemoire>>

\* No descriptor left: "lourd" tries again, "fork" does not look and forks.
AccepterEchoue(p) ==
  /\ Multi /\ etat[p] = "accept" /\ Cardinality(tient[p]) >= MaxOuverts
  /\ courant' = [courant EXCEPT ![p] = Aucun]
  /\ Aller(p, IF programme = "fork" THEN "fork" ELSE "test")
  /\ UNCHANGED <<programme, fin, tient, interrompus, file, client, echanges, abandonnes, sansMemoire>>

\* Mutant of GardeApresFork: no close() in the father
GardeTout(p) == tient[p]

\* What the father keeps open
GardeApresFork(p) == IF programme = "fork" THEN tient[p] ELSE tient[p] \ {courant[p]}

Boucle == IF programme = "lourd" THEN "test" ELSE "accept"

\* A child with no connection fails to read, to write, to close, and accepts.
Forker(p, q) ==
  /\ etat[p] = "fork" /\ etat[q] = "libre"
  /\ etat' = [etat EXCEPT ![p] = Boucle, ![q] = IF courant[p] = Aucun THEN "accept" ELSE "lire"]
  /\ courant' = [courant EXCEPT ![p] = Aucun, ![q] = courant[p]]
  /\ tient' = [tient EXCEPT ![p] = GardeApresFork(p), ![q] = tient[p]]
  /\ UNCHANGED <<programme, fin, interrompus, file, client, echanges, abandonnes, sansMemoire>>

\* No process left: neither server closes the connection.
ForkEchoue(p) ==
  /\ etat[p] = "fork" /\ \A q \in Processus : etat[q] # "libre"
  /\ abandonnes' = abandonnes \cup ({courant[p]} \ {Aucun})
  /\ courant' = [courant EXCEPT ![p] = Aucun]
  /\ Aller(p, Boucle)
  /\ UNCHANGED <<programme, fin, tient, interrompus, file, client, echanges, sansMemoire>>

\* while ( !fin ), close(sockfd)
Tester(p) ==
  /\ etat[p] = "test"
  /\ IF fin THEN Finir(p, "fini") ELSE Aller(p, "accept") /\ UNCHANGED <<courant, tient>>
  /\ UNCHANGED <<programme, fin, interrompus, file, client, echanges, abandonnes, sansMemoire>>
-----------------------------------------------------------------------------
(* One connection *)

Vivant(c) == client[c] # "mort"

\* new ObjectOutputStream writes a header.
Entete(p) ==
  /\ etat[p] = "entete"
  /\ entetes' = entetes \cup {courant[p]}
  /\ Aller(p, "lire")
  /\ UNCHANGED <<programme, fin, courant, tient, interrompus, file, client, requetes, reponses, abandonnes, sansMemoire>>

\* Mutant of SansRequete: Serveur-2 uses the null line
SansRequeteNulle ==
  IF programme = "ligne" THEN {"fini"} ELSE IF programme = "objet" THEN {"fini"} ELSE {"repondre"}

\* What a process does when read ends with no request: the answer, whatever
\* was read; for "lourd" the size is uninitialised and malloc may refuse it;
\* readObject raises, and the exception leaves the loop of Serveur-1.
SansRequete ==
  CASE programme \in {"fork", "ligne"} -> {"repondre"}
    [] programme = "lourd" -> {"repondre", "fermer"}
    [] programme = "objet" -> {"fini"}

\* What it does with a request: the answer, unless "lourd" finds no memory.
AvecRequete == IF programme = "lourd" THEN {"repondre", "fermer"} ELSE {"repondre"}

Lire(p) ==
  LET c == courant[p] IN
  /\ etat[p] = "lire"
  /\ \E e \in (IF c \in requetes THEN AvecRequete ELSE {})
                \cup (IF (~ Vivant(c) /\ c \notin requetes) \/ p \in interrompus
                        THEN SansRequete ELSE {}) :
       /\ IF e = "fini" THEN Finir(p, e) ELSE Aller(p, e) /\ UNCHANGED <<courant, tient>>
       /\ sansMemoire' = IF e = "fermer" THEN sansMemoire \cup {c} ELSE sansMemoire
  /\ interrompus' = interrompus \ {p}
  /\ UNCHANGED <<programme, fin, file, client, echanges, abandonnes>>

\* To a client that is gone: SIGPIPE; an exception, unless the write comes
\* before the reset; nothing with a PrintStream.
Repondre(p) ==
  LET c == courant[p] IN
  /\ etat[p] = "repondre"
  /\ reponses' = reponses \cup {c}
  /\ \E e \in (IF Vivant(c) THEN {"fermer"}
               ELSE IF Multi THEN {"zombie"}
               ELSE IF programme = "objet" THEN {"fermer", "fini"} ELSE {"fermer"}) :
       IF e = "fermer" THEN Aller(p, e) /\ UNCHANGED <<courant, tient>> ELSE Finir(p, e)
  /\ UNCHANGED <<programme, fin, interrompus, file, client, requetes, entetes, abandonnes, sansMemoire>>

\* Mutant of Fermer: Serveur-2 forgets clt.close()
FermerOubli(p) ==
  /\ etat[p] = "fermer"
  /\ IF programme = "lourd"
       THEN Finir(p, "zombie")
       ELSE Aller(p, "accept") /\ courant' = [courant EXCEPT ![p] = Aucun] /\ UNCHANGED tient
  /\ UNCHANGED <<programme, fin, interrompus, file, client, echanges, abandonnes, sansMemoire>>

Fermer(p) ==
  /\ etat[p] = "fermer"
  /\ IF programme = "lourd"
       THEN Finir(p, "zombie")
       ELSE /\ Aller(p, "accept")
            /\ courant' = [courant EXCEPT ![p] = Aucun]
            /\ tient' = [tient EXCEPT ![p] = @ \ {courant[p]}]
  /\ UNCHANGED <<programme, fin, interrompus, file, client, echanges, abandonnes, sansMemoire>>
-----------------------------------------------------------------------------
(* The clients *)

AllerC(c, e) == client' = [client EXCEPT ![c] = e]
Ouvert == \E p \in Processus : ~ Arrete(p)      \* sockfd: every child has it too
Tenue(c) == Ouvert /\ (Contains(file, c) \/ \E p \in Processus : c \in tient[p])

Connecter(c) ==
  /\ client[c] = "arret"
  /\ AllerC(c, IF ~ Ouvert THEN "refuse" ELSE IF programme = "objet" THEN "entete" ELSE "ecrire")
  /\ file' = IF Ouvert THEN Append(file, c) ELSE file
  /\ UNCHANGED <<programme, fin, processus, interrompus, echanges, abandonnes, sansMemoire>>

\* Client-1 sent its header on connecting and waits for the server's.
RecevoirEntete(c) ==
  /\ client[c] = "entete" /\ c \in entetes
  /\ AllerC(c, "ecrire")
  /\ UNCHANGED <<programme, fin, processus, interrompus, file, echanges, abandonnes, sansMemoire>>

Ecrire(c) ==
  /\ client[c] = "ecrire" /\ Tenue(c)
  /\ requetes' = requetes \cup {c}
  /\ AllerC(c, "attente")
  /\ UNCHANGED <<programme, fin, processus, interrompus, file, entetes, reponses, abandonnes, sansMemoire>>

\* Client-2 reads lines until the end of the connection.
Recevoir(c) ==
  /\ client[c] = "attente" /\ c \in reponses
  /\ programme = "ligne" => ~ Tenue(c)
  /\ AllerC(c, "servi")
  /\ UNCHANGED <<programme, fin, processus, interrompus, file, echanges, abandonnes, sansMemoire>>

\* The connection ends before the answer: an exception, SIGPIPE, or read() = 0,
\* which the C clients take for an answer.
Perdre(c) ==
  /\ client[c] \in {"entete", "ecrire", "attente"} /\ ~ Tenue(c)
  /\ client[c] = "attente" => c \notin reponses
  /\ AllerC(c, "coupe")
  /\ UNCHANGED <<programme, fin, processus, interrompus, file, echanges, abandonnes, sansMemoire>>

Tuer(c) ==
  /\ client[c] \in {"entete", "ecrire", "attente"}
  /\ Cardinality({d \in Clients : ~ Vivant(d)}) < MaxMorts
  /\ AllerC(c, "mort")
  /\ UNCHANGED <<programme, fin, processus, interrompus, file, echanges, abandonnes, sansMemoire>>

\* SIGINT in the foreground: the handler of server_fork exits, in the children
\* too; the JVM ends; "lourd" notes it, which interrupts accept or read
\* (unless the process was about to enter them).
AppuyerCtrlC ==
  /\ fin' = TRUE
  /\ IF programme = "lourd"
       THEN /\ \E e \in {"accept", "test"} :
                 etat' = [etat EXCEPT ![1] = IF @ = "accept" THEN e ELSE @]
            /\ interrompus' \in SUBSET {p \in Processus : etat[p] = "lire"}
            /\ UNCHANGED <<courant, tient>>
       ELSE /\ etat' = [p \in Processus |-> "fini"]
            /\ tient' = [p \in Processus |-> {}]
            /\ UNCHANGED <<courant, interrompus>>
  /\ UNCHANGED <<programme, file, client, echanges, abandonnes, sansMemoire>>

Serveur(p) ==
  \/ Accepter(p) \/ AccepterEchoue(p) \/ (\E q \in Processus : Forker(p, q)) \/ ForkEchoue(p)
  \/ Tester(p) \/ Entete(p) \/ Lire(p) \/ Repondre(p) \/ Fermer(p)

Client(c) == RecevoirEntete(c) \/ Ecrire(c) \/ Recevoir(c) \/ Perdre(c)

Next ==
  \/ \E p \in Processus : Serveur(p)
  \/ \E c \in Clients : Connecter(c) \/ Client(c) \/ Tuer(c)
  \/ AppuyerCtrlC

Spec == Init /\ [][Next]_vars

\* Processes go on, and clients once connected; nobody has to come, or to stop
\* the server.
FairSpec ==
  /\ Spec
  /\ \A p \in Processus : WF_vars(Serveur(p))
  /\ \A c \in Clients : WF_vars(Client(c))
-----------------------------------------------------------------------------
TypeOK ==
  /\ fin \in BOOLEAN
  /\ etat \in [Processus -> {"libre", "accept", "fork", "test", "entete", "lire", "repondre",
                             "fermer", "zombie", "fini"}]
  /\ courant \in [Processus -> Clients \cup {Aucun}]
  /\ tient \in [Processus -> SUBSET Clients]
  /\ interrompus \subseteq Processus
  /\ sansMemoire \subseteq Clients
  /\ client \in [Clients -> {"arret", "refuse", "entete", "ecrire", "attente", "servi", "coupe", "mort"}]

Occupe(p) == etat[p] \in {"fork", "entete", "lire", "repondre", "fermer"} /\ courant[p] # Aucun

(* A connection is dealt with by one process, however many accept; and the
   server that closes after fork (Serveur_concurrent_lourd.c:111) keeps open
   the connections whose fork failed, and no other. *)
Inv ==
  /\ TypeOK
  /\ \A p, q \in Processus : p # q /\ Occupe(p) /\ Occupe(q) => courant[p] # courant[q]
  /\ programme = "lourd" =>
       tient[1] \subseteq abandonnes \cup (IF etat[1] = "fork" THEN {courant[1]} ELSE {})

\* What ends a server: CTRL-C, or for Serveur-1 the death of a client
Raison == fin \/ (programme = "objet" /\ \E c \in Clients : ~ Vivant(c))

(* Only CTRL-C ends a server, except Serveur-1, whose exception handler is
   outside the loop: the death of one client ends it for all
   (Serveur-1.java:13-40, Serveur-2.java:26-28).  Nothing else cuts off a client
   that lives, but for the child of "lourd" that finds no memory for its request
   (Serveur_concurrent_lourd.c:81-83, 100-104): the others go on. *)
FinExpliquee ==
  /\ etat[1] = "fini" => Raison
  /\ \A c \in Clients : client[c] = "coupe" => Raison \/ c \in sansMemoire

(* Who sent a request gets its answer or sees the connection end, unless fork
   failed for it, or no process of server_fork has a descriptor left. *)
ReponseAboutit ==
  \A c \in Clients :
    client[c] = "attente" ~>
      \/ client[c] \in {"servi", "coupe", "mort"} \/ c \in abandonnes
      \/ \A p \in Processus : Arrete(p) \/ Cardinality(tient[p]) >= MaxOuverts
=============================================================================
