------------------------------- MODULE Nommage -------------------------------
(***************************************************************************)
(* A remote adder and how its clients find it: CORBA with the naming       *)
(* service (version3), CORBA with a reference copied by hand (version2),   *)
(* CORBA in one process (version1), and RMI with its registry.             *)
(*                                                                         *)
(* A version3 server registers in four calls to the naming service, the    *)
(* context then the object, each of which falls back on the next when the  *)
(* name exists; an RMI server registers in one call, and gives up when the *)
(* name exists.  Nobody ever removes a name.  Servers die, and so does the *)
(* service: omniNames keeps its names on disk, rmiregistry in memory.      *)
(***************************************************************************)
EXTENDS Integers, Sequences

CONSTANTS
  Serveurs, Clients,
  Aucun,          \* no server
  MaxPannes       \* deaths of servers, stops of the service

ASSUME NommageHypothese == Aucun \notin Serveurs /\ MaxPannes \in Nat

VARIABLES
  programme,      \* "version1", "version2", "version3" or "rmi"
  service,        \* the naming service, or the registry, answers
  contexte,       \* the context Calcul exists
  objet,          \* the server bound to the name
  serveur,        \* where each server is
  client,         \* where each client is
  reference,      \* the reference a client holds
  resultats,      \* what its calls returned
  pannes

vars == <<programme, service, contexte, objet, serveur, client, reference, resultats, pannes>>
annuaire == <<contexte, objet>>
cote == <<client, reference, resultats>>        \* the clients' side

Init ==
  /\ programme \in {"version1", "version2", "version3", "rmi"}
  /\ service \in BOOLEAN
  /\ contexte = FALSE /\ objet = Aucun
  /\ serveur = [s \in Serveurs |-> "arret"]
  /\ client = [c \in Clients |-> "arret"]
  /\ reference = [c \in Clients |-> Aucun]
  /\ resultats = [c \in Clients |-> <<>>]
  /\ pannes = 0
-----------------------------------------------------------------------------
(* The servers *)

\* The POA manager is active, or the object exported, before the server has
\* a name, and as long as the process lives.
Actif(s) == serveur[s] \notin {"arret", "fini", "mort"}

Aller(s, etape) == serveur' = [serveur EXCEPT ![s] = etape]

Lancer(s) ==
  /\ serveur[s] = "arret"
  /\ Aller(s, IF programme \in {"version1", "version2"} THEN "run" ELSE "active")
  /\ UNCHANGED <<programme, service, annuaire, cote, pannes>>

\* Without the service: NO_RESOURCES makes bindObjectToName return 0, which
\* main ignores; TRANSIENT, raised by _narrow, leaves it and ends main.
ObtenirContexteRacine(s) ==
  /\ programme = "version3" /\ serveur[s] = "active"
  /\ \E etape \in IF service THEN {"contexte"} ELSE {"run", "fini"} : Aller(s, etape)
  /\ UNCHANGED <<programme, service, annuaire, cote, pannes>>

\* From here on an exception makes bindObjectToName return 0.
SansService(s) ==
  /\ serveur[s] \in {"contexte", "resoudre", "lier", "relier"} /\ ~ service
  /\ Aller(s, "run")
  /\ UNCHANGED <<programme, service, annuaire, cote, pannes>>

\* Mutant of BindNewContext: AlreadyBound is not caught
BindNewContextSansCatch(s) ==
  /\ serveur[s] = "contexte" /\ service
  /\ contexte' = TRUE
  /\ Aller(s, IF contexte THEN "fini" ELSE "lier")
  /\ UNCHANGED <<programme, service, objet, cote, pannes>>

BindNewContext(s) ==
  /\ serveur[s] = "contexte" /\ service
  /\ contexte' = TRUE
  /\ Aller(s, IF contexte THEN "resoudre" ELSE "lier")
  /\ UNCHANGED <<programme, service, objet, cote, pannes>>

ResoudreContexte(s) ==
  /\ serveur[s] = "resoudre" /\ service /\ contexte
  /\ Aller(s, "lier")
  /\ UNCHANGED <<programme, service, annuaire, cote, pannes>>

Bind(s) ==
  /\ serveur[s] = "lier" /\ service
  /\ objet' = IF objet = Aucun THEN s ELSE objet
  /\ Aller(s, IF objet = Aucun THEN "run" ELSE "relier")
  /\ UNCHANGED <<programme, service, contexte, cote, pannes>>

\* Mutant of Rebind: unbind, then bind again
RebindEnDeuxTemps(s) ==
  /\ serveur[s] = "relier" /\ service
  /\ objet' = Aucun
  /\ Aller(s, "lier")
  /\ UNCHANGED <<programme, service, contexte, cote, pannes>>

Rebind(s) ==
  /\ serveur[s] = "relier" /\ service
  /\ objet' = s
  /\ Aller(s, "run")
  /\ UNCHANGED <<programme, service, contexte, cote, pannes>>

\* Naming.bind.  When it fails the exported object still answers, and the
\* process ends when the object is collected: nobody refers to it.
NamingBind(s) ==
  /\ programme = "rmi" /\ serveur[s] = "active"
  /\ IF service /\ objet = Aucun
       THEN objet' = s /\ Aller(s, "run")
       ELSE UNCHANGED objet /\ \E etape \in {"run", "fini"} : Aller(s, etape)
  /\ UNCHANGED <<programme, service, contexte, cote, pannes>>
-----------------------------------------------------------------------------
(* The clients *)

\* What each program's client asks; a result of CORBA is a Short, one of RMI
\* an int, far from its limits here.
Short(x) == ((x + 32768) % 65536) - 32768
Operandes == IF programme = "rmi" THEN <<<<10, 20>>, <<73, 2>>, <<104, 58>>>> ELSE <<<<4, 7>>>>

AllerC(c, etape) == client' = [client EXCEPT ![c] = etape]

\* The reference of version2 is one that some server displayed; a process of
\* version1 is a server and its client.
Demarrer(c) ==
  /\ client[c] = "arret"
  /\ \/ programme = "version3" /\ AllerC(c, "service") /\ UNCHANGED reference
     \/ programme = "rmi" /\ AllerC(c, "resoudre") /\ UNCHANGED reference
     \/ \E s \in Serveurs :
          /\ \/ programme = "version2" /\ serveur[s] # "arret"
             \/ programme = "version1" /\ serveur[s] = "run" /\ \A d \in Clients : reference[d] # s
          /\ AllerC(c, "appel")
          /\ reference' = [reference EXCEPT ![c] = s]
  /\ UNCHANGED <<programme, service, annuaire, serveur, resultats, pannes>>

\* As for the server: either getObjectReference returns nil, or main ends.
ObtenirService(c) ==
  /\ client[c] = "service"
  /\ \E etape \in IF service THEN {"resoudre"} ELSE {"inexistant", "erreur"} : AllerC(c, etape)
  /\ UNCHANGED <<programme, service, annuaire, serveur, reference, resultats, pannes>>

Resoudre(c) ==
  /\ client[c] = "resoudre" /\ service
  /\ AllerC(c, IF objet = Aucun THEN "inexistant" ELSE "appel")
  /\ reference' = [reference EXCEPT ![c] = objet]
  /\ UNCHANGED <<programme, service, annuaire, serveur, resultats, pannes>>

\* TRANSIENT is caught and gives nil; lookup of RMI raises to main.
ResoudreSansService(c) ==
  /\ client[c] = "resoudre" /\ ~ service
  /\ AllerC(c, IF programme = "rmi" THEN "erreur" ELSE "inexistant")
  /\ UNCHANGED <<programme, service, annuaire, serveur, reference, resultats, pannes>>

Appeler(c) ==
  /\ client[c] = "appel"
  /\ AllerC(c, IF Actif(reference[c]) THEN "attente" ELSE "erreur")
  /\ UNCHANGED <<programme, service, annuaire, serveur, reference, resultats, pannes>>

Additionner(a, b) == IF programme = "rmi" THEN a + b ELSE Short(a + b)

\* Mutant of Recevoir: the client of RMI stops after its first call
RecevoirUnSeul(c) ==
  LET o == Operandes[1] IN
  /\ client[c] = "attente" /\ Actif(reference[c])
  /\ resultats' = [resultats EXCEPT ![c] = <<Additionner(o[1], o[2])>>]
  /\ AllerC(c, "fini")
  /\ UNCHANGED <<programme, service, annuaire, serveur, reference, pannes>>

Recevoir(c) ==
  LET o == Operandes[Len(resultats[c]) + 1] IN
  /\ client[c] = "attente" /\ Actif(reference[c])
  /\ resultats' = [resultats EXCEPT ![c] = Append(@, Additionner(o[1], o[2]))]
  /\ AllerC(c, IF Len(resultats'[c]) = Len(Operandes) THEN "fini" ELSE "appel")
  /\ UNCHANGED <<programme, service, annuaire, serveur, reference, pannes>>

\* COMM_FAILURE, or the same in a RemoteException
PerdreServeur(c) ==
  /\ client[c] = "attente" /\ ~ Actif(reference[c])
  /\ AllerC(c, "erreur")
  /\ UNCHANGED <<programme, service, annuaire, serveur, reference, resultats, pannes>>

\* version1 destroys its ORB, and the object with it.
Detruire(c) ==
  /\ programme = "version1" /\ client[c] = "fini" /\ Actif(reference[c])
  /\ Aller(reference[c], "fini")
  /\ UNCHANGED <<programme, service, annuaire, cote, pannes>>
-----------------------------------------------------------------------------
(* Failures *)

Mourir(s) ==
  /\ Actif(s) /\ programme # "version1" /\ pannes < MaxPannes
  /\ Aller(s, "mort")
  /\ pannes' = pannes + 1
  /\ UNCHANGED <<programme, service, annuaire, cote>>

ArreterService ==
  /\ service /\ pannes < MaxPannes
  /\ service' = FALSE
  /\ pannes' = pannes + 1
  /\ objet' = IF programme = "rmi" THEN Aucun ELSE objet
  /\ UNCHANGED <<programme, contexte, serveur, cote>>

RelancerService ==
  /\ ~ service
  /\ service' = TRUE
  /\ UNCHANGED <<programme, annuaire, serveur, cote, pannes>>

Serveur(s) ==
  \/ Lancer(s) \/ ObtenirContexteRacine(s) \/ SansService(s) \/ BindNewContext(s)
  \/ ResoudreContexte(s) \/ Bind(s) \/ Rebind(s) \/ NamingBind(s)

Client(c) ==
  \/ Demarrer(c) \/ ObtenirService(c) \/ Resoudre(c) \/ ResoudreSansService(c)
  \/ Appeler(c) \/ Recevoir(c) \/ PerdreServeur(c) \/ Detruire(c)

Next ==
  \/ \E s \in Serveurs : Serveur(s) \/ Mourir(s)
  \/ \E c \in Clients : Client(c)
  \/ ArreterService \/ RelancerService

Spec == Init /\ [][Next]_vars

\* Started programs go on; nobody has to start one, or to start the service.
FairSpec ==
  /\ Spec
  /\ \A s \in Serveurs : WF_vars(Serveur(s) /\ serveur[s] # "arret")
  /\ \A c \in Clients : WF_vars(Client(c) /\ client[c] # "arret")
-----------------------------------------------------------------------------
TypeOK ==
  /\ service \in BOOLEAN /\ contexte \in BOOLEAN /\ objet \in Serveurs \cup {Aucun}
  /\ serveur \in [Serveurs -> {"arret", "active", "contexte", "resoudre", "lier", "relier", "run",
                               "fini", "mort"}]
  /\ client \in [Clients -> {"arret", "service", "resoudre", "appel", "attente", "inexistant",
                             "erreur", "fini"}]
  /\ reference \in [Clients -> Serveurs \cup {Aucun}]
  /\ pannes \in 0 .. MaxPannes

(* A client ends with the exact sums of all its calls, made to one server; one
   that has a reference and ends with an exception saw the server of that
   reference end (version3_clt.cc:27-89, RMI/Client.java:5-26). *)
ResultatExplique ==
  /\ TypeOK
  /\ \A c \in Clients :
       /\ \A i \in 1 .. Len(resultats[c]) : resultats[c][i] = Operandes[i][1] + Operandes[i][2]
       /\ client[c] = "fini" => Len(resultats[c]) = Len(Operandes) /\ reference[c] # Aucun
       /\ client[c] = "erreur" /\ reference[c] # Aucun => ~ Actif(reference[c])

(* Once a version3 server has bound the name, no client is told any more that
   the object does not exist, through rebinds, deaths and restarts, as long as
   the service answers; an RMI name belongs to the server that took it first
   until the registry is stopped (version3_srv.cc:204-211, CalculImpl.java:21). *)
NomDurable ==
  [][ /\ objet # Aucun /\ service' =>
           objet' # Aucun /\ \A c \in Clients : client[c] = "resoudre" => client'[c] # "inexistant"
      /\ programme = "rmi" /\ objet # Aucun /\ service' => objet' = objet ]_vars

(* When nothing fails any more: a version3 server that starts to register
   gives the name to a server that answers, whatever dead server held it and
   whoever registers with it; and a client that looks up a name bound to a
   server that answers gets its result. *)
ServiceRendu ==
  /\ \A s \in Serveurs :
       (programme = "version3" /\ service /\ pannes = MaxPannes /\ serveur[s] = "active")
         ~> (objet # Aucun /\ Actif(objet))
  /\ \A c \in Clients :
       (client[c] = "resoudre" /\ service /\ pannes = MaxPannes /\ objet # Aucun /\ Actif(objet))
         ~> client[c] = "fini"
=============================================================================
