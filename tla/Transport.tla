----------------------------- MODULE Transport ------------------------------
(***************************************************************************)
(* How a message of one calcul thread reaches another (projet/client.c,    *)
(* projet/serveur.c, the write() and read() calls of projet/calcul.c):     *)
(*                                                                         *)
(*   calcul --pipeEnvoi--> client --TCP connection--> serveur (accept)     *)
(*     serveur starts one serverWorker thread per connection               *)
(*     serverWorker --pipeReception--> calcul                              *)
(*                                                                         *)
(* All queues are bounded: the pipes (write blocks when one is full), the  *)
(* listen backlog (connect blocks) and the worker threads, which are       *)
(* neither joined nor detached, so that a finished one keeps its resources *)
(* and pthread_create ends up failing.                                     *)
(*                                                                         *)
(* The calcul thread is reduced to its traffic: read one message, then     *)
(* react and act, each by writing to one process, to all of them in port   *)
(* order, or to none.                                                      *)
(* All processes are up and listening (starting and stopping are left to   *)
(* Demarrage).                                                             *)
(***************************************************************************)
EXTENDS Integers, Sequences, FiniteSets

CONSTANTS
  N,              \* number of processes
  Capacite,       \* messages a pipe holds
  Backlog,        \* established connections waiting for accept
  MaxThreads,     \* worker threads a process can create in its life
  MaxEnvois       \* bound: times a calcul thread writes
  \* All positive but the last two; MCTransport has the assumption.

Proc == 1 .. N
Messages == [de : Proc, vers : Proc, id : 0 .. MaxEnvois]
Amorce == [de |-> 1, vers |-> 1, id |-> 0]      \* the initial message of main
Rien == [de |-> 0, vers |-> 0, id |-> 0]

VARIABLES
  aEcrire,        \* what a calcul thread still has to write
  envois,         \* times it started writing
  pipeEnvoi, pipeReception,
  client,         \* the client thread: [etat, msg]
  attente,        \* connections accept has not returned yet
  workers,        \* connections held by a running worker
  threads,        \* worker threads created so far
  donnees,        \* messages sent on their connection
  lus, perdus     \* history: what calcul read, what was dropped

vars == <<aEcrire, envois, pipeEnvoi, pipeReception, client, attente, workers,
          threads, donnees, lus, perdus>>

Init ==
  /\ aEcrire = [p \in Proc |-> <<>>]
  /\ envois = [p \in Proc |-> 0]
  /\ pipeEnvoi = [p \in Proc |-> <<>>]
  /\ pipeReception = [p \in Proc |-> IF p = 1 THEN <<Amorce>> ELSE <<>>]
  /\ client = [p \in Proc |-> [etat |-> "libre", msg |-> Rien]]
  /\ attente = [p \in Proc |-> <<>>]
  /\ workers = [p \in Proc |-> {}]
  /\ threads = [p \in Proc |-> 0]
  /\ donnees = {}
  /\ lus = [p \in Proc |-> <<>>]
  /\ perdus = [p \in Proc |-> {}]
-----------------------------------------------------------------------------
(* The calcul thread *)

Diffusion(p, k) == [q \in 1 .. N |-> [de |-> p, vers |-> q, id |-> k]]

\* What one branch of the loop writes: nothing, one message, or one to each
Lots(p, k) ==
  {<<>>} \cup (IF k <= MaxEnvois
                THEN {Diffusion(p, k)} \cup {<<Diffusion(p, k)[q]>> : q \in Proc}
                ELSE {})

Apres(k, lot) == IF lot = <<>> THEN k ELSE k + 1

\* read() returns the oldest message; the thread then writes its reaction
\* (REPLY, RELEASEs) and its random action (MESSAGE, REQUESTs).
Lire(p) ==
  /\ aEcrire[p] = <<>>
  /\ pipeReception[p] # <<>>
  /\ lus' = [lus EXCEPT ![p] = Append(@, Head(pipeReception[p]))]
  /\ pipeReception' = [pipeReception EXCEPT ![p] = Tail(@)]
  /\ \E reaction \in Lots(p, envois[p] + 1) :
       LET k == Apres(envois[p], reaction) IN
       \E action \in Lots(p, k + 1) :
         /\ aEcrire' = [aEcrire EXCEPT ![p] = reaction \o action]
         /\ envois' = [envois EXCEPT ![p] = Apres(k, action)]
  /\ UNCHANGED <<pipeEnvoi, client, attente, workers, threads, donnees, perdus>>

\* write() blocks until the pipe has room.
Ecrire(p) ==
  /\ aEcrire[p] # <<>>
  /\ Len(pipeEnvoi[p]) < Capacite
  /\ pipeEnvoi' = [pipeEnvoi EXCEPT ![p] = Append(@, Head(aEcrire[p]))]
  /\ aEcrire' = [aEcrire EXCEPT ![p] = Tail(@)]
  /\ UNCHANGED <<envois, pipeReception, client, attente, workers, threads, donnees, lus, perdus>>
-----------------------------------------------------------------------------
(* The client thread: one message, one connection *)

ClientLire(p) ==
  /\ client[p].etat = "libre"
  /\ pipeEnvoi[p] # <<>>
  /\ client' = [client EXCEPT ![p] = [etat |-> "connexion", msg |-> Head(pipeEnvoi[p])]]
  /\ pipeEnvoi' = [pipeEnvoi EXCEPT ![p] = Tail(@)]
  /\ UNCHANGED <<aEcrire, envois, pipeReception, attente, workers, threads, donnees, lus, perdus>>

\* connect() returns once the receiver's backlog took the connection.
Connecter(p) ==
  LET q == client[p].msg.vers IN
  /\ client[p].etat = "connexion"
  /\ Len(attente[q]) < Backlog
  /\ attente' = [attente EXCEPT ![q] = Append(@, client[p].msg)]
  /\ client' = [client EXCEPT ![p].etat = "envoi"]
  /\ UNCHANGED <<aEcrire, envois, pipeEnvoi, pipeReception, workers, threads, donnees, lus, perdus>>

\* send() and close(), whether or not the connection was accepted.
Envoyer(p) ==
  /\ client[p].etat = "envoi"
  /\ donnees' = donnees \cup {client[p].msg}
  /\ client' = [client EXCEPT ![p] = [etat |-> "libre", msg |-> Rien]]
  /\ UNCHANGED <<aEcrire, envois, pipeEnvoi, pipeReception, attente, workers, threads, lus, perdus>>
-----------------------------------------------------------------------------
(* The serveur thread and its workers *)

\* Mutant of PeutAccepter: a single connection is accepted
PeutAccepterUnique(q) == attente[q] # <<>> /\ threads[q] = 0

PeutAccepter(q) == attente[q] # <<>>

PeutCreer(q) == threads[q] < MaxThreads

\* accept() and pthread_create(); when no thread can be created the
\* connection is forgotten with its message.  Nobody closes it: what happens
\* once no descriptor is left, socket() or accept() that fails, is in
\* Demarrage.
Accepter(q) ==
  /\ PeutAccepter(q)
  /\ attente' = [attente EXCEPT ![q] = Tail(@)]
  /\ IF PeutCreer(q)
       THEN /\ threads' = [threads EXCEPT ![q] = @ + 1]
            /\ workers' = [workers EXCEPT ![q] = @ \cup {Head(attente[q])}]
            /\ UNCHANGED perdus
       ELSE /\ perdus' = [perdus EXCEPT ![q] = @ \cup {Head(attente[q])}]
            /\ UNCHANGED <<threads, workers>>
  /\ UNCHANGED <<aEcrire, envois, pipeEnvoi, pipeReception, client, donnees, lus>>

\* Mutant of Travailler: the worker loops instead of ending
TravaillerEnBoucle(q, m) ==
  /\ m \in workers[q]
  /\ m \in donnees
  /\ Len(pipeReception[q]) < Capacite
  /\ pipeReception' = [pipeReception EXCEPT ![q] = Append(@, m)]
  /\ UNCHANGED <<aEcrire, envois, pipeEnvoi, client, attente, workers, threads, donnees, lus, perdus>>

\* recv() waits for the data, write() for room in the pipe.
Travailler(q, m) ==
  /\ m \in workers[q]
  /\ m \in donnees
  /\ Len(pipeReception[q]) < Capacite
  /\ pipeReception' = [pipeReception EXCEPT ![q] = Append(@, m)]
  /\ workers' = [workers EXCEPT ![q] = @ \ {m}]
  /\ donnees' = donnees \ {m}
  /\ UNCHANGED <<aEcrire, envois, pipeEnvoi, client, attente, threads, lus, perdus>>

Calcul(p) == Lire(p) \/ Ecrire(p)
Client(p) == ClientLire(p) \/ Connecter(p) \/ Envoyer(p)
Worker(q) == \E m \in workers[q] : Travailler(q, m)

Next == \E p \in Proc : Calcul(p) \/ Client(p) \/ Accepter(p) \/ Worker(p)

Spec == Init /\ [][Next]_vars

\* Each thread that can run runs.  A process has many workers: which of them
\* writes next is left to the scheduler.
FairSpec ==
  Spec /\ \A p \in Proc : WF_vars(Calcul(p)) /\ WF_vars(Client(p))
                          /\ WF_vars(Accepter(p)) /\ WF_vars(Worker(p))
-----------------------------------------------------------------------------
Elements(s) == {s[i] : i \in DOMAIN s}

TypeOK ==
  /\ aEcrire \in [Proc -> Seq(Messages)]
  /\ envois \in [Proc -> 0 .. MaxEnvois]
  /\ pipeEnvoi \in [Proc -> Seq(Messages)]
  /\ pipeReception \in [Proc -> Seq(Messages)]
  /\ client \in [Proc -> [etat : {"libre", "connexion", "envoi"}, msg : Messages \cup {Rien}]]
  /\ attente \in [Proc -> Seq(Messages)]
  /\ workers \in [Proc -> SUBSET Messages]
  /\ threads \in [Proc -> 0 .. MaxThreads]
  /\ donnees \subseteq Messages
  /\ lus \in [Proc -> Seq(Messages)]
  /\ perdus \in [Proc -> SUBSET Messages]

\* Messages to q that calcul wrote and that are not in the pipe of q yet
EnVol(q) ==
  {m \in UNION {Elements(pipeEnvoi[p]) : p \in Proc} : m.vers = q}
    \cup {client[p].msg : p \in {r \in Proc : client[r].etat = "connexion" /\ client[r].msg.vers = q}}
    \cup Elements(attente[q])
    \cup workers[q]

\* What the calcul threads see of the network: the first message of process 1
\* is the one main put in its pipe.
transitAbstrait == [q \in Proc |-> EnVol(q) \cup perdus[q]]
arrivesAbstraits == [q \in Proc |-> IF q = 1 THEN Tail(lus[q] \o pipeReception[q])
                                            ELSE lus[q] \o pipeReception[q]]

CanalAbstrait == INSTANCE Canal WITH transit <- transitAbstrait, arrives <- arrivesAbstraits

(* Pipes, connections and workers together are a channel that repeats and
   invents nothing, but may reorder (client.c:21-64, serveur.c:40-71).  A
   message dropped for lack of a thread stays in transit: it never arrives
   after all. *)
ImplementeCanal == CanalAbstrait!Spec

(* No circular wait between the bounded queues: a calcul thread blocked on a
   full pipe always gets to the end of what it writes, because accept never
   waits for calcul to read (serveur.c:40-52). *)
EcritureAboutit == \A p \in Proc : aEcrire[p] # <<>> ~> aEcrire[p] = <<>>

(* When the calcul threads have written all they write, every message is read
   in the end, unless its receiver ran out of threads: none is stuck in a pipe,
   a backlog or a worker (client.c:21-64, serveur.c:35-71). *)
LivraisonAboutit ==
  \A q \in Proc : <>[](EnVol(q) = {} /\ pipeReception[q] = <<>>)
=============================================================================
