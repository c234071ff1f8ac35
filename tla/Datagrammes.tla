---------------------------- MODULE Datagrammes -----------------------------
(***************************************************************************)
(* Requests in datagrams, which are lost when the socket of the server is  *)
(* full or does not exist:                                                 *)
(*   "rpc"   the trace of projet/: calcul writes its lines in a pipe       *)
(*           (mylog), the trace thread reads them and calls the service,   *)
(*           which appends them to trace.log (trace_server.c)              *)
(*   "java"  socket java/Client and Serveur: one request, one answer       *)
(*                                                                         *)
(* The RPC library sends a request again when no answer comes, and gives   *)
(* up after a number of attempts (clnt_call, 25 s); the service does not   *)
(* remember what it answered, so a line may be logged several times.  The  *)
(* client of java sends once and waits.                                    *)
(***************************************************************************)
EXTENDS Integers, Sequences, FiniteSets, SequencesExt

CONSTANTS
  Clients,
  NbLignes,       \* bound: lines each calcul thread traces
  Tube,           \* lines the trace pipe holds
  Capacite,       \* datagrams the socket of the server holds
  MaxEssais,      \* transmissions of a request by clnt_call
  MaxPannes       \* bound: deaths of the server

ASSUME DatagrammesHypothese ==
  /\ NbLignes \in [Clients -> Nat \ {0}] /\ Tube \in Nat \ {0} /\ Capacite \in Nat \ {0}
  /\ MaxEssais \in Nat \ {0} /\ MaxPannes \in Nat

VARIABLES
  programme,
  ecrites,        \* lines each calcul thread wrote in its pipe
  client,         \* where each client, or trace thread, is
  essais,         \* times it sent its current request
  rendus,         \* how its calls ended
  reponse,        \* the answer to its current request is in its socket
  envoyes,        \* history: transmissions of each line of each client
  perdus,         \* history: clients of java of which a datagram was lost
  serveur,        \* "arret", "attente", "ecrire" or "repondre"
  inscrit,        \* the portmapper has the service
  socket,         \* the requests the socket of the server holds
  requete,        \* the one it deals with
  journal,        \* the lines of each client in the log
  pannes

cote == <<client, essais, rendus, reponse>>
service == <<serveur, inscrit, socket, requete>>
traces == <<envoyes, perdus, journal>>
vars == <<programme, ecrites, cote, service, traces, pannes>>

\* The current request of a client: its lines are numbered.
Courante(c) == [de |-> c, no |-> Len(rendus[c]) + 1]
Requetes == UNION {[de : {c}, no : 1 .. NbLignes[c]] : c \in Clients}
Aucune == [de |-> "personne", no |-> 0]
Total(c) == IF programme = "java" THEN 1 ELSE NbLignes[c]

Init ==
  /\ programme \in {"rpc", "java"}
  /\ ecrites = [c \in Clients |-> 0]
  /\ client = [c \in Clients |-> "libre"]
  /\ essais = [c \in Clients |-> 0]
  /\ rendus = [c \in Clients |-> <<>>]
  /\ reponse = [c \in Clients |-> FALSE]
  /\ serveur = "arret" /\ inscrit = FALSE /\ socket = <<>> /\ requete = Aucune
  /\ envoyes = [c \in Clients |-> [k \in 1 .. NbLignes[c] |-> 0]] /\ perdus = {}
  /\ journal = [c \in Clients |-> <<>>]
  /\ pannes = 0
-----------------------------------------------------------------------------
(* The client *)

AllerC(c, e) == client' = [client EXCEPT ![c] = e]
Perdre(cs) == perdus' = IF programme = "java" THEN perdus \cup cs ELSE perdus

\* mylog(): write blocks while the pipe is full.  In java, main begins.
Mylog(c) ==
  /\ ecrites[c] < Total(c) /\ client[c] # "mort"
  /\ ecrites[c] - (Len(rendus[c]) + IF client[c] = "libre" THEN 0 ELSE 1) < Tube
  /\ ecrites' = [ecrites EXCEPT ![c] = @ + 1]
  /\ UNCHANGED <<programme, cote, service, traces, pannes>>

\* read() on the pipe, clnt_create(): without the service the whole process
\* exits.  A DatagramSocket needs nobody.
Creer(c) ==
  /\ client[c] = "libre" /\ Len(rendus[c]) < ecrites[c]
  /\ AllerC(c, IF programme = "rpc" /\ ~ inscrit THEN "mort" ELSE "appel")
  /\ essais' = [essais EXCEPT ![c] = 0]
  /\ reponse' = [reponse EXCEPT ![c] = FALSE]
  /\ UNCHANGED <<programme, ecrites, rendus, service, traces, pannes>>

\* The call ends; send_rpc_msg returns nothing and the thread reads on.
Rendre(c, r) ==
  /\ rendus' = [rendus EXCEPT ![c] = Append(@, r)]
  /\ AllerC(c, "libre")
  /\ UNCHANGED essais

\* sendto(), again as long as no answer came.  The port of a dead server
\* refuses, and only the socket of the RPC library is told.
Emettre(c) ==
  /\ client[c] \in {"appel", "attente"} /\ ~ reponse[c]
  /\ essais[c] < IF programme = "rpc" THEN MaxEssais ELSE 1
  /\ LET recue == serveur # "arret" /\ Len(socket) < Capacite IN
       /\ socket' = IF recue THEN Append(socket, Courante(c)) ELSE socket
       /\ Perdre(IF recue THEN {} ELSE {c})
  /\ essais' = [essais EXCEPT ![c] = @ + 1]
  /\ envoyes' = [envoyes EXCEPT ![c][Courante(c).no] = @ + 1]
  /\ AllerC(c, IF programme = "rpc" /\ serveur = "arret" THEN "refus" ELSE "attente")
  /\ UNCHANGED <<programme, ecrites, rendus, reponse, serveur, inscrit, requete, journal, pannes>>

Recevoir(c) ==
  /\ client[c] = "attente" /\ reponse[c]
  /\ Rendre(c, "ok")
  /\ UNCHANGED <<programme, ecrites, reponse, service, traces, pannes>>

\* Mutant of Abandonner: the total timeout is not looked at
AbandonnerJamais(c) == FALSE /\ UNCHANGED vars

\* RPC_TIMEDOUT after the last attempt, or RPC_CANTRECV: "call failed"
Abandonner(c) ==
  /\ \/ client[c] = "refus"
     \/ programme = "rpc" /\ client[c] = "attente" /\ ~ reponse[c] /\ essais[c] = MaxEssais
  /\ Rendre(c, "echec")
  /\ UNCHANGED <<programme, ecrites, reponse, service, traces, pannes>>
-----------------------------------------------------------------------------
(* The server *)

\* pmap_unset, svcudp_create, svc_register (trace_svc.c:61-68); or new
\* DatagramSocket (2000).  One step: a service that dies on its way leaves the
\* same as one that was not started.  It has the port of the one before, where
\* retransmissions of an earlier call arrive too: with another port they would
\* only be lost, as they are when the socket is full.
Lancer ==
  /\ serveur = "arret"
  /\ serveur' = "attente" /\ inscrit' = TRUE /\ socket' = <<>> /\ requete' = Aucune
  /\ UNCHANGED <<programme, ecrites, cote, traces, pannes>>

Prendre ==
  /\ serveur = "attente" /\ socket # <<>>
  /\ requete' = Head(socket) /\ socket' = Tail(socket)
  /\ serveur' = "ecrire"
  /\ UNCHANGED <<programme, ecrites, cote, inscrit, traces, pannes>>

\* Mutant of Ecrire: a failure of fopen is skipped
EcrireOuPas ==
  /\ serveur = "ecrire"
  /\ journal' \in {journal, [journal EXCEPT ![requete.de] = Append(@, requete.no)]}
  /\ serveur' = "repondre"
  /\ UNCHANGED <<programme, ecrites, cote, inscrit, socket, requete, envoyes, perdus, pannes>>

\* fprintf, fclose; or println
Ecrire ==
  /\ serveur = "ecrire"
  /\ journal' = [journal EXCEPT ![requete.de] = Append(@, requete.no)]
  /\ serveur' = "repondre"
  /\ UNCHANGED <<programme, ecrites, cote, inscrit, socket, requete, envoyes, perdus, pannes>>

\* Mutant of Destinataire: one address for the server, the next datagram's
DestinataireSuivant == IF socket = <<>> THEN requete.de ELSE Head(socket).de

\* getAddress() and getPort() of the request; the address svc_udp kept
Destinataire == requete.de

\* The answer finds the socket of that call, or nobody: clnt_destroy closed it.
Repondre ==
  LET c == Destinataire IN
  /\ serveur = "repondre"
  /\ reponse' = [reponse EXCEPT ![c] = @ \/ (client[c] = "attente" /\ requete = Courante(c))]
  /\ serveur' = "attente" /\ requete' = Aucune
  /\ UNCHANGED <<programme, ecrites, client, essais, rendus, inscrit, socket, traces, pannes>>

\* Killed; or fopen fails, which log < 0 does not see, and fprintf(NULL) faults.
\* The portmapper keeps the registration.
Mourir ==
  /\ serveur # "arret" /\ pannes < MaxPannes
  /\ serveur' = "arret" /\ socket' = <<>> /\ requete' = Aucune
  /\ pannes' = pannes + 1
  /\ Perdre({r.de : r \in ToSet(socket) \cup ({requete} \ {Aucune})})
  /\ UNCHANGED <<programme, ecrites, cote, inscrit, envoyes, journal>>

Client(c) == Creer(c) \/ Emettre(c) \/ Recevoir(c) \/ Abandonner(c)
Serveur == Prendre \/ Ecrire \/ Repondre

Next ==
  \/ \E c \in Clients : Mylog(c) \/ Client(c)
  \/ Lancer \/ Serveur \/ Mourir

Spec == Init /\ [][Next]_vars

\* Threads go on, and a server that runs; nobody has to start it.
FairSpec ==
  /\ Spec
  /\ \A c \in Clients : WF_vars(Mylog(c)) /\ WF_vars(Client(c))
  /\ WF_vars(Serveur)
-----------------------------------------------------------------------------
Fois(c, k) == Cardinality({i \in DOMAIN journal[c] : journal[c][i] = k})

TypeOK ==
  /\ \A c \in Clients : ecrites[c] \in 0 .. Total(c)
  /\ client \in [Clients -> {"libre", "appel", "attente", "refus", "mort"}]
  /\ essais \in [Clients -> 0 .. MaxEssais]
  /\ reponse \in [Clients -> BOOLEAN]
  /\ serveur \in {"arret", "attente", "ecrire", "repondre"}
  /\ socket \in Seq(Requetes) /\ Len(socket) <= Capacite
  /\ requete \in Requetes \cup {Aucune}
  /\ pannes \in 0 .. MaxPannes

(* A line whose call succeeded is in the log, through deaths of the server; a
   line is there at most once per transmission, which is several times when an
   answer was late; and the lines of one process are in the order in which it
   wrote them, whatever was sent again (trace_client.c:27-31,
   trace_server.c:14-27). *)
JournalFidele ==
  /\ TypeOK
  /\ \A c \in Clients :
       /\ \A k \in DOMAIN rendus[c] : rendus[c][k] = "ok" => Fois(c, k) > 0
       /\ \A k \in 1 .. NbLignes[c] : Fois(c, k) <= envoyes[c][k]
       /\ \A i, j \in DOMAIN journal[c] : i < j => journal[c][i] <= journal[c][j]

(* The trace never blocks calcul for ever: every line is written in the pipe,
   whatever happens to the service, unless the process exits with the trace
   thread (mytrace.c:18-23, trace_client.c:20-24). *)
TraceContinue ==
  \A c \in Clients :
    programme = "rpc" ~> (ecrites[c] = NbLignes[c] \/ client[c] = "mort")

(* A client of java that waits gets its answer, unless a datagram of its own
   was lost: then nothing wakes it up (Client.java:18-22). *)
ReponseOuPerte ==
  \A c \in Clients :
    (programme = "java" /\ client[c] = "attente") ~> (client[c] = "libre" \/ c \in perdus)
=============================================================================
