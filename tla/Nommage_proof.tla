---------------------------- MODULE Nommage_proof ----------------------------
(***************************************************************************)
(* Proofs about Nommage, for every set of servers and clients and every    *)
(* number of failures.                                                     *)
(***************************************************************************)
EXTENDS Nommage, TLAPS

\* What a client holds at each stage of its calls
InvClients ==
  /\ programme \in {"version1", "version2", "version3", "rmi"}
  /\ resultats \in [Clients -> Seq(Int)]
  /\ \A c \in Clients :
       /\ Len(resultats[c]) <= Len(Operandes)
       /\ client[c] \in {"arret", "service", "resoudre"} => Len(resultats[c]) = 0
       /\ client[c] \in {"appel", "attente"} => Len(resultats[c]) < Len(Operandes)
       /\ client[c] \in {"appel", "attente", "fini"} => reference[c] # Aucun
       /\ client[c] \in {"arret", "service", "resoudre"} => reference[c] = Aucun

\* A name, or a reference, is that of a server that was started; and only a
\* server of version3 registers in several calls.
InvServeurs ==
  /\ objet # Aucun => serveur[objet] # "arret"
  /\ \A c \in Clients : reference[c] # Aucun => serveur[reference[c]] # "arret"
  /\ \A s \in Serveurs :
       serveur[s] \in {"contexte", "resoudre", "lier", "relier"} => programme = "version3"

IInv == ResultatExplique /\ InvClients /\ InvServeurs

(* The sums of the operands are within a Short, so that the addition of CORBA
   is exact (calculateur.idl:9). *)
LEMMA AdditionExacte ==
  ASSUME NEW i \in 1 .. Len(Operandes)
  PROVE  /\ Operandes[i][1] + Operandes[i][2] \in Int
         /\ Additionner(Operandes[i][1], Operandes[i][2]) = Operandes[i][1] + Operandes[i][2]
<1>1. CASE programme = "rmi"
  <2>1. Operandes = <<<<10, 20>>, <<73, 2>>, <<104, 58>>>>
    BY <1>1 DEF Operandes
  <2>2. i \in {1, 2, 3}
    BY <2>1
  <2> QED
    BY <1>1, <2>1, <2>2 DEF Additionner
<1>2. CASE programme # "rmi"
  <2>1. Operandes = <<<<4, 7>>>>
    BY <1>2 DEF Operandes
  <2>2. i = 1
    BY <2>1
  <2>3. Short(11) = 11
    BY DEF Short
  <2> QED
    BY <1>2, <2>1, <2>2, <2>3 DEF Additionner
<1> QED
  BY <1>1, <1>2

(* Once started, a server that does not answer will never answer. *)
LEMMA MortDefinitive ==
  ASSUME TypeOK, [Next]_vars, NEW s \in Serveurs, serveur[s] # "arret"
  PROVE  serveur'[s] # "arret" /\ (~ Actif(s) => ~ Actif(s)')
<1> USE DEF TypeOK, Actif, Aller
<1>1. CASE UNCHANGED vars
  BY <1>1 DEF vars
<1>2. ASSUME NEW t \in Serveurs, Serveur(t)
      PROVE  serveur'[s] # "arret" /\ (~ Actif(s) => ~ Actif(s)')
  BY <1>2 DEF Serveur, Lancer, ObtenirContexteRacine, SansService, BindNewContext,
              ResoudreContexte, Bind, Rebind, NamingBind
<1>3. ASSUME NEW t \in Serveurs, Mourir(t)
      PROVE  serveur'[s] # "arret" /\ (~ Actif(s) => ~ Actif(s)')
  BY <1>3 DEF Mourir
<1>4. ASSUME NEW c \in Clients, Client(c)
      PROVE  serveur'[s] # "arret" /\ (~ Actif(s) => ~ Actif(s)')
  BY <1>4 DEF Client, Demarrer, ObtenirService, Resoudre, ResoudreSansService, Appeler, Recevoir,
              PerdreServeur, Detruire
<1>5. CASE ArreterService \/ RelancerService
  BY <1>5 DEF ArreterService, RelancerService
<1> QED
  BY <1>1, <1>2, <1>3, <1>4, <1>5 DEF Next

(* Types are preserved. *)
LEMMA PasType ==
  ASSUME TypeOK, InvServeurs, [Next]_vars
  PROVE  TypeOK'
<1> USE NommageHypothese DEF TypeOK, annuaire, cote, Aller, AllerC
<1>1. CASE UNCHANGED vars
  BY <1>1 DEF vars
<1>2. ASSUME NEW s \in Serveurs, Serveur(s)
      PROVE  TypeOK'
  <2>1. CASE Lancer(s) \/ ObtenirContexteRacine(s) \/ SansService(s)
    BY <2>1 DEF Lancer, ObtenirContexteRacine, SansService
  <2>2. CASE BindNewContext(s) \/ ResoudreContexte(s)
    BY <2>2 DEF BindNewContext, ResoudreContexte
  <2>3. CASE Bind(s) \/ Rebind(s) \/ NamingBind(s)
    BY <2>3 DEF Bind, Rebind, NamingBind
  <2> QED
    BY <1>2, <2>1, <2>2, <2>3 DEF Serveur
<1>3. ASSUME NEW s \in Serveurs, Mourir(s)
      PROVE  TypeOK'
  BY <1>3 DEF Mourir
<1>4. ASSUME NEW c \in Clients, Client(c)
      PROVE  TypeOK'
  <2>1. CASE Demarrer(c)
    BY <2>1 DEF Demarrer
  <2>2. CASE ObtenirService(c) \/ Resoudre(c) \/ ResoudreSansService(c)
    BY <2>2 DEF ObtenirService, Resoudre, ResoudreSansService
  <2>3. CASE Appeler(c) \/ Recevoir(c) \/ PerdreServeur(c)
    BY <2>3 DEF Appeler, Recevoir, PerdreServeur
  <2>4. CASE Detruire(c)
    BY <2>4 DEF Detruire
  <2> QED
    BY <1>4, <2>1, <2>2, <2>3, <2>4 DEF Client
<1>5. CASE ArreterService
  <2>1. objet' \in Serveurs \cup {Aucun} /\ pannes' \in 0 .. MaxPannes
    BY <1>5 DEF ArreterService
  <2> QED
    BY <1>5, <2>1 DEF ArreterService
<1>6. CASE RelancerService
  BY <1>6 DEF RelancerService
<1> QED
  BY <1>1, <1>2, <1>3, <1>4, <1>5, <1>6 DEF Next

(* What the clients hold is preserved. *)
LEMMA PasClients ==
  ASSUME TypeOK, InvClients, [Next]_vars
  PROVE  InvClients'
<1> USE NommageHypothese DEF TypeOK, InvClients, AllerC
<1>1. Operandes' = Operandes /\ Len(Operandes) \in Nat
  <2>1. programme' = programme
    BY DEF vars, Next, Serveur, Lancer, ObtenirContexteRacine, SansService, BindNewContext,
           ResoudreContexte, Bind, Rebind, NamingBind, Client, Demarrer, ObtenirService, Resoudre,
           ResoudreSansService, Appeler, Recevoir, PerdreServeur, Detruire, Mourir, ArreterService,
           RelancerService
  <2> QED
    BY <2>1 DEF Operandes
<1>2. CASE UNCHANGED cote /\ UNCHANGED programme
  BY <1>1, <1>2 DEF cote
<1>3. ASSUME NEW c \in Clients, Demarrer(c)
      PROVE  InvClients'
  <2>0. Len(Operandes) > 0
    BY DEF Operandes
  <2>1. CASE client' = [client EXCEPT ![c] = "service"] /\ UNCHANGED reference
    BY <1>1, <1>3, <2>1 DEF Demarrer
  <2>2. CASE client' = [client EXCEPT ![c] = "resoudre"] /\ UNCHANGED reference
    BY <1>1, <1>3, <2>2 DEF Demarrer
  <2>3. ASSUME NEW s \in Serveurs,
               client' = [client EXCEPT ![c] = "appel"], reference' = [reference EXCEPT ![c] = s]
        PROVE  InvClients'
    BY <1>1, <1>3, <2>0, <2>3 DEF Demarrer
  <2> QED
    BY <1>3, <2>1, <2>2, <2>3 DEF Demarrer
<1>4. ASSUME NEW c \in Clients, ObtenirService(c)
      PROVE  InvClients'
  BY <1>1, <1>4 DEF ObtenirService
<1>5. ASSUME NEW c \in Clients, Resoudre(c)
      PROVE  InvClients'
  <2>1. Len(Operandes) > 0
    BY DEF Operandes
  <2> QED
    BY <1>1, <1>5, <2>1 DEF Resoudre
<1>6. ASSUME NEW c \in Clients, ResoudreSansService(c) \/ Appeler(c) \/ PerdreServeur(c)
      PROVE  InvClients'
  BY <1>1, <1>6 DEF ResoudreSansService, Appeler, PerdreServeur
<1>7. ASSUME NEW c \in Clients, Recevoir(c)
      PROVE  InvClients'
  <2> DEFINE i == Len(resultats[c]) + 1
             x == Additionner(Operandes[i][1], Operandes[i][2])
  <2>1. i \in 1 .. Len(Operandes)
    BY <1>1, <1>7 DEF Recevoir
  <2>2. x \in Int
    BY <2>1, AdditionExacte
  <2>3. resultats' = [resultats EXCEPT ![c] = Append(@, x)]
    BY <1>7 DEF Recevoir
  <2>4. resultats'[c] \in Seq(Int) /\ Len(resultats'[c]) = i
    BY <2>2, <2>3
  <2>5. client' = [client EXCEPT ![c] = IF i = Len(Operandes) THEN "fini" ELSE "appel"]
    BY <1>7, <2>4 DEF Recevoir
  <2>6. UNCHANGED <<programme, reference>>
    BY <1>7 DEF Recevoir
  <2> HIDE DEF x
  <2> QED
    BY <1>1, <1>7, <2>1, <2>2, <2>3, <2>4, <2>5, <2>6 DEF Recevoir
<1>8. CASE \E c \in Clients : Detruire(c)
  BY <1>2, <1>8 DEF Detruire
<1>9. CASE \E s \in Serveurs : Serveur(s) \/ Mourir(s)
  BY <1>2, <1>9 DEF Serveur, Lancer, ObtenirContexteRacine, SansService, BindNewContext,
                    ResoudreContexte, Bind, Rebind, NamingBind, Mourir
<1>10. CASE ArreterService \/ RelancerService
  BY <1>2, <1>10 DEF ArreterService, RelancerService, cote
<1>11. CASE UNCHANGED vars
  BY <1>2, <1>11 DEF vars, cote
<1> QED
  BY <1>3, <1>4, <1>5, <1>6, <1>7, <1>8, <1>9, <1>10, <1>11 DEF Next, Client

(* What is known of the servers is preserved: names and references come from
   servers that were started, and these never go back to "arret". *)
LEMMA PasServeurs ==
  ASSUME TypeOK, InvClients, InvServeurs, [Next]_vars
  PROVE  InvServeurs'
<1> USE NommageHypothese DEF TypeOK, InvServeurs
<1>1. \A s \in Serveurs : serveur[s] # "arret" => serveur'[s] # "arret"
  BY MortDefinitive
<1>2. TypeOK'
  BY PasType
<1>3. programme' = programme
  BY DEF vars, Next, Serveur, Lancer, ObtenirContexteRacine, SansService, BindNewContext,
         ResoudreContexte, Bind, Rebind, NamingBind, Client, Demarrer, ObtenirService, Resoudre,
         ResoudreSansService, Appeler, Recevoir, PerdreServeur, Detruire, Mourir, ArreterService,
         RelancerService
<1>4. objet' # Aucun => serveur'[objet'] # "arret"
  <2>1. CASE objet' \in {objet, Aucun}
    BY <1>1, <2>1
  <2>2. ASSUME NEW s \in Serveurs, objet' = s, serveur[s] # "arret"
        PROVE  serveur'[objet'] # "arret"
    BY <1>1, <2>2
  <2>3. \/ objet' \in {objet, Aucun}
        \/ \E s \in Serveurs : objet' = s /\ serveur[s] # "arret"
    BY DEF vars, annuaire, Next, Serveur, Lancer, ObtenirContexteRacine, SansService, BindNewContext,
           ResoudreContexte, Bind, Rebind, NamingBind, Client, Demarrer, ObtenirService, Resoudre,
           ResoudreSansService, Appeler, Recevoir, PerdreServeur, Detruire, Mourir, ArreterService,
           RelancerService
  <2> QED
    BY <2>1, <2>2, <2>3
<1>5. ASSUME NEW c \in Clients, reference'[c] # Aucun
      PROVE  serveur'[reference'[c]] # "arret"
  <2>1. CASE reference'[c] \in {reference[c], objet}
    BY <1>1, <1>5, <2>1
  <2>2. ASSUME NEW s \in Serveurs, reference'[c] = s, serveur[s] # "arret"
        PROVE  serveur'[reference'[c]] # "arret"
    BY <1>1, <2>2
  <2>3. CASE UNCHANGED reference
    BY <2>1, <2>3
  <2>4. ASSUME NEW d \in Clients, Demarrer(d)
        PROVE  \/ reference'[c] = reference[c]
               \/ \E s \in Serveurs : reference'[c] = s /\ serveur[s] # "arret"
    BY <2>4 DEF Demarrer
  <2>5. ASSUME NEW d \in Clients, Resoudre(d)
        PROVE  reference'[c] \in {reference[c], objet}
    BY <2>5 DEF Resoudre
  <2>6. \/ UNCHANGED reference
        \/ \E d \in Clients : Demarrer(d) \/ Resoudre(d)
    BY DEF vars, cote, Next, Serveur, Lancer, ObtenirContexteRacine, SansService, BindNewContext,
           ResoudreContexte, Bind, Rebind, NamingBind, Client, ObtenirService,
           ResoudreSansService, Appeler, Recevoir, PerdreServeur, Detruire, Mourir, ArreterService,
           RelancerService
  <2> QED
    BY <2>1, <2>2, <2>3, <2>4, <2>5, <2>6
<1>6. ASSUME NEW s \in Serveurs, serveur'[s] \in {"contexte", "resoudre", "lier", "relier"}
      PROVE  programme = "version3"
  <2>1. CASE serveur'[s] = serveur[s]
    BY <1>6, <2>1
  <2>2. ASSUME NEW t \in Serveurs, Serveur(t)
        PROVE  programme = "version3"
    BY <1>6, <2>2 DEF Aller, Serveur, Lancer, ObtenirContexteRacine, SansService, BindNewContext,
                      ResoudreContexte, Bind, Rebind, NamingBind
  <2>3. CASE (\E t \in Serveurs : Mourir(t)) \/ (\E c \in Clients : Detruire(c))
    BY <1>6, <2>3 DEF Aller, Mourir, Detruire
  <2>4. \/ UNCHANGED serveur
        \/ \E t \in Serveurs : Serveur(t) \/ Mourir(t)
        \/ \E c \in Clients : Detruire(c)
    BY DEF vars, Next, Client, Demarrer, ObtenirService, Resoudre, ResoudreSansService, Appeler,
           Recevoir, PerdreServeur, ArreterService, RelancerService
  <2> QED
    BY <2>1, <2>2, <2>3, <2>4
<1> QED
  BY <1>3, <1>4, <1>5, <1>6

(* Results are preserved. *)
LEMMA PasResultat ==
  ASSUME IInv, [Next]_vars
  PROVE  ResultatExplique'
<1> USE NommageHypothese DEF IInv, ResultatExplique, InvClients, InvServeurs, TypeOK, AllerC
<1>1. TypeOK'
  BY PasType
<1>2. InvClients'
  BY PasClients
<1>3. programme' = programme /\ Operandes' = Operandes
  BY DEF vars, Next, Serveur, Lancer, ObtenirContexteRacine, SansService, BindNewContext,
         ResoudreContexte, Bind, Rebind, NamingBind, Client, Demarrer, ObtenirService, Resoudre,
         ResoudreSansService, Appeler, Recevoir, PerdreServeur, Detruire, Mourir, ArreterService,
         RelancerService, Operandes
<1>4. ASSUME NEW c \in Clients, NEW i \in 1 .. Len(resultats'[c])
      PROVE  resultats'[c][i] = Operandes[i][1] + Operandes[i][2]
  <2>1. CASE UNCHANGED resultats
    BY <1>4, <2>1
  <2>2. ASSUME NEW d \in Clients, Recevoir(d)
        PROVE  resultats'[c][i] = Operandes[i][1] + Operandes[i][2]
    <3> DEFINE n == Len(resultats[d]) + 1
               x == Additionner(Operandes[n][1], Operandes[n][2])
    <3>1. n \in 1 .. Len(Operandes)
      BY <2>2 DEF Recevoir, Operandes
    <3>2. x = Operandes[n][1] + Operandes[n][2] /\ x \in Int
      BY <3>1, AdditionExacte
    <3>3. resultats' = [resultats EXCEPT ![d] = Append(@, x)]
      BY <2>2 DEF Recevoir
    <3> HIDE DEF x
    <3> QED
      BY <1>4, <3>2, <3>3
  <2>3. \/ UNCHANGED resultats
        \/ \E d \in Clients : Recevoir(d)
    BY DEF vars, cote, Next, Serveur, Lancer, ObtenirContexteRacine, SansService, BindNewContext,
           ResoudreContexte, Bind, Rebind, NamingBind, Client, Demarrer, ObtenirService, Resoudre,
           ResoudreSansService, Appeler, PerdreServeur, Detruire, Mourir, ArreterService,
           RelancerService
  <2> QED
    BY <2>1, <2>2, <2>3
<1>5. ASSUME NEW c \in Clients, client'[c] = "fini"
      PROVE  Len(resultats'[c]) = Len(Operandes)
  <2>1. CASE client'[c] = client[c] /\ UNCHANGED resultats
    BY <1>5, <2>1
  <2>2. ASSUME NEW d \in Clients, Recevoir(d)
        PROVE  Len(resultats'[c]) = Len(Operandes)
    BY <1>5, <2>2 DEF Recevoir
  <2>3. ASSUME NEW d \in Clients, Client(d), ~ Recevoir(d)
        PROVE  client'[c] = client[c] /\ UNCHANGED resultats
    <3>1. CASE Demarrer(d)
      BY <1>5, <3>1 DEF Demarrer
    <3>2. CASE ObtenirService(d) \/ Resoudre(d)
      BY <1>5, <3>2 DEF ObtenirService, Resoudre
    <3>3. CASE ResoudreSansService(d) \/ Appeler(d) \/ PerdreServeur(d)
      BY <1>5, <3>3 DEF ResoudreSansService, Appeler, PerdreServeur
    <3>4. CASE Detruire(d)
      BY <3>4 DEF Detruire, cote
    <3> QED
      BY <2>3, <3>1, <3>2, <3>3, <3>4 DEF Client
  <2>4. \/ UNCHANGED <<client, resultats>>
        \/ \E d \in Clients : Client(d)
    BY DEF vars, cote, Next, Serveur, Lancer, ObtenirContexteRacine, SansService, BindNewContext,
           ResoudreContexte, Bind, Rebind, NamingBind, Mourir, ArreterService, RelancerService
  <2> QED
    BY <2>1, <2>2, <2>3, <2>4
<1>6. ASSUME NEW c \in Clients, client'[c] = "erreur", reference'[c] # Aucun
      PROVE  ~ Actif(reference[c])'
  <2>1. CASE client'[c] = client[c] /\ reference'[c] = reference[c]
    <3>1. \A s \in Serveurs : serveur[s] # "arret" /\ ~ Actif(s) => ~ Actif(s)'
      BY MortDefinitive
    <3>2. reference[c] \in Serveurs /\ serveur[reference[c]] # "arret" /\ ~ Actif(reference[c])
      BY <1>6, <2>1
    <3> QED
      BY <2>1, <3>1, <3>2 DEF Actif
  <2>2. ASSUME NEW d \in Clients, Client(d), client'[c] # client[c] \/ reference'[c] # reference[c]
        PROVE  reference'[c] = reference[c] /\ ~ Actif(reference[c]) /\ UNCHANGED serveur
    <3>1. ~ Demarrer(d)
      BY <1>6, <2>2 DEF Demarrer
    <3>2. ~ ObtenirService(d) /\ ~ Resoudre(d) /\ ~ ResoudreSansService(d)
      BY <1>6, <2>2 DEF ObtenirService, Resoudre, ResoudreSansService
    <3>3. ~ Recevoir(d)
      BY <1>6, <2>2 DEF Recevoir
    <3>4. ~ Detruire(d)
      BY <2>2 DEF Detruire, cote
    <3>5. CASE Appeler(d) \/ PerdreServeur(d)
      BY <1>6, <2>2, <3>5 DEF Appeler, PerdreServeur
    <3> QED
      BY <2>2, <3>1, <3>2, <3>3, <3>4, <3>5 DEF Client
  <2>3. \/ UNCHANGED <<client, reference>>
        \/ \E d \in Clients : Client(d)
    BY DEF vars, cote, Next, Serveur, Lancer, ObtenirContexteRacine, SansService, BindNewContext,
           ResoudreContexte, Bind, Rebind, NamingBind, Mourir, ArreterService, RelancerService
  <2> QED
    BY <2>1, <2>2, <2>3 DEF Actif
<1>7. ASSUME NEW c \in Clients, client'[c] = "fini"
      PROVE  reference'[c] # Aucun
  BY <1>2, <1>7
<1> QED
  BY <1>1, <1>3, <1>4, <1>5, <1>6, <1>7
-----------------------------------------------------------------------------
(* The invariant holds initially and every step preserves it. *)
LEMMA InitialementVrai == Init => IInv
<1> USE NommageHypothese DEF Init
<1>1. Init => TypeOK
  <2>1. 0 \in 0 .. MaxPannes
    OBVIOUS
  <2> QED
    BY <2>1 DEF TypeOK
<1>2. Init => InvClients
  <2>1. Len(Operandes) \in Nat
    BY DEF Operandes
  <2>2. Init => resultats \in [Clients -> Seq(Int)] /\ \A c \in Clients : Len(resultats[c]) = 0
    OBVIOUS
  <2> QED
    BY <2>1, <2>2 DEF InvClients
<1>3. Init => InvServeurs
  BY DEF InvServeurs
<1>4. Init => \A c \in Clients : client[c] = "arret" /\ Len(resultats[c]) = 0
  OBVIOUS
<1> QED
  BY <1>1, <1>2, <1>3, <1>4 DEF IInv, ResultatExplique

LEMMA PasInv == IInv /\ [Next]_vars => IInv'
<1> SUFFICES ASSUME IInv, [Next]_vars
             PROVE  IInv'
  OBVIOUS
<1>1. TypeOK /\ InvClients /\ InvServeurs
  BY DEF IInv, ResultatExplique
<1> QED
  BY <1>1, PasResultat, PasClients, PasServeurs DEF IInv

(* Results, names, references and stages agree at all times (the state of
   version3_srv.cc and CalculImpl.java, and of their clients). *)
THEOREM InvariantInductif == Spec => []IInv
<1> QED
  BY InitialementVrai, PasInv, PTL DEF Spec

(* Whatever servers and service do, a client that ends has the exact sums, and
   one that ends with an exception lost its server or found no service
   (version3_clt.cc:27-89, RMI/Client.java:5-26). *)
THEOREM ResultatCorrect == Spec => []ResultatExplique
<1>1. IInv => ResultatExplique
  BY DEF IInv
<1> QED
  BY <1>1, InvariantInductif, PTL

(* No step takes a name away while the service answers, nor tells a client
   that a name in use does not exist; a name of RMI keeps its server
   (version3_srv.cc:204-211, CalculImpl.java:21). *)
THEOREM NomCorrect == Spec => NomDurable
<1> DEFINE Duree ==
      /\ objet # Aucun /\ service' =>
           objet' # Aucun /\ \A c \in Clients : client[c] = "resoudre" => client'[c] # "inexistant"
      /\ programme = "rmi" /\ objet # Aucun /\ service' => objet' = objet
<1>1. ASSUME IInv, [Next]_vars
      PROVE  [Duree]_vars
  <2> SUFFICES ASSUME Next
               PROVE  Duree
    BY <1>1
  <2> USE NommageHypothese DEF Aller, AllerC
  <2>0. TypeOK /\ InvServeurs
    BY <1>1 DEF IInv, ResultatExplique
  <2>1. ASSUME NEW s \in Serveurs, Serveur(s) \/ Mourir(s)
        PROVE  Duree
    <3>1. UNCHANGED client
      BY <2>1 DEF cote, Serveur, Lancer, ObtenirContexteRacine, SansService, BindNewContext,
                  ResoudreContexte, Bind, Rebind, NamingBind, Mourir
    <3>2. UNCHANGED objet \/ (objet' = s /\ (objet = Aucun \/ programme = "version3"))
      BY <2>0, <2>1 DEF InvServeurs, annuaire, Serveur, Lancer, ObtenirContexteRacine, SansService,
                  BindNewContext, ResoudreContexte, Bind, Rebind, NamingBind, Mourir
    <3> QED
      BY <3>1, <3>2
  <2>2. ASSUME NEW d \in Clients, Client(d)
        PROVE  Duree
    <3>1. UNCHANGED <<service, objet>>
      BY <2>2 DEF annuaire, Client, Demarrer, ObtenirService, Resoudre, ResoudreSansService, Appeler,
                  Recevoir, PerdreServeur, Detruire
    <3>2. CASE Resoudre(d)
      BY <2>0, <3>1, <3>2 DEF TypeOK, Resoudre
    <3>3. CASE ResoudreSansService(d)
      BY <3>1, <3>3 DEF ResoudreSansService
    <3>4. CASE ~ Resoudre(d) /\ ~ ResoudreSansService(d)
      <4>1. \A c \in Clients : client[c] = "resoudre" => client'[c] = client[c]
        BY <2>0, <2>2, <3>4 DEF TypeOK, cote, Client, Demarrer, ObtenirService, Appeler, Recevoir,
                                PerdreServeur, Detruire
      <4> QED
        BY <3>1, <4>1
    <3> QED
      BY <3>2, <3>3, <3>4
  <2>3. CASE ArreterService
    BY <2>3 DEF ArreterService
  <2>4. CASE RelancerService
    BY <2>4 DEF RelancerService, annuaire, cote
  <2> QED
    BY <2>1, <2>2, <2>3, <2>4 DEF Next
<1>2. IInv /\ [Next]_vars => [Duree]_vars
  BY <1>1
<1>3. Spec => [][Duree]_vars
  BY <1>2, InvariantInductif, PTL DEF Spec
<1> QED
  BY <1>3 DEF NomDurable
=============================================================================
