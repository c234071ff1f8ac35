---------------------------- MODULE Serveurs_proof ----------------------------
(***************************************************************************)
(* Proofs about Serveurs, for every set of clients, every number of        *)
(* processes the system grants and of connections a process may have open. *)
(***************************************************************************)
EXTENDS Serveurs, FiniteSetTheorems, SequenceTheorems, TLAPS

\* Where the processes of each program may be.  The server of "lourd" never
\* serves and its children never accept; the JVM has one process.
InvEtats ==
  /\ programme \in {"fork", "lourd", "objet", "ligne"}
  /\ requetes \subseteq Clients /\ reponses \subseteq Clients
  /\ programme = "fork" =>
       etat[1] \in {"accept", "fork", "fini"} /\ \A p \in Processus \ {1} : etat[p] \notin {"entete", "test"}
  /\ programme = "lourd" =>
       /\ etat[1] \in {"accept", "fork", "test", "fini"}
       /\ \A p \in Processus \ {1} : etat[p] \in {"libre", "lire", "repondre", "fermer", "zombie"}
  /\ ~ Multi =>
       /\ etat[1] \in {"accept", "entete", "lire", "repondre", "fermer", "fini"}
       /\ etat[1] = "entete" => programme = "objet"
       /\ \A p \in Processus \ {1} : etat[p] \in {"libre", "fini"}
  /\ \A p \in Processus :
       /\ etat[p] \in {"entete", "lire", "repondre", "fermer"} => courant[p] \in Clients
       /\ Arrete(p) => tient[p] = {}
  /\ programme = "lourd" /\ etat[1] = "fork" => courant[1] \in Clients

\* A connection that waits to be accepted is there once, and no process has it.
InvFile ==
  /\ file \in Seq(Clients)
  /\ \A i \in DOMAIN file :
       /\ client[file[i]] # "arret"
       /\ \A j \in DOMAIN file : i # j => file[i] # file[j]
       /\ \A p \in Processus : file[i] # courant[p] /\ file[i] \notin tient[p]
  /\ \A p \in Processus : \A c \in tient[p] \cup ({courant[p]} \ {Aucun}) : client[c] # "arret"

\* Without a reason to do otherwise, a process answers who sent its request,
\* and closes what it answered, or had no memory for.
InvReponses ==
  /\ interrompus # {} => fin
  /\ \A c \in requetes : client[c] \in {"attente", "servi", "coupe", "mort"}
  /\ \A c \in reponses : c \in requetes \/ ~ Vivant(c) \/ fin
  /\ \A p \in Processus :
       /\ etat[p] = "repondre" => courant[p] \in requetes \/ ~ Vivant(courant[p]) \/ fin
       /\ etat[p] = "fermer" =>
            courant[p] \in reponses \cup sansMemoire \/ ~ Vivant(courant[p]) \/ fin

\* Who keeps a connection open besides the process that deals with it
InvTenues ==
  /\ programme = "lourd" =>
       /\ fin \/ \A p \in Processus : tient[p] \subseteq tient[1] \cup {courant[p]}
       /\ etat[1] = "fork" => \A p \in Processus \ {1} : courant[1] \notin tient[p]
  /\ programme = "fork" =>
       \A p \in Processus : \A c \in tient[p] :
         \E q \in Processus : etat[q] \in {"accept", "fork"} /\ c \in tient[q]
  /\ ~ Multi => tient[1] \subseteq {courant[1]} /\ (etat[1] = "accept" => tient[1] = {})

\* Without a reason, who has no answer has a connection, but for want of memory.
Ouverte(c) == (\E i \in DOMAIN file : file[i] = c) \/ (\E p \in Processus : c \in tient[p])
InvOuvertes ==
  Raison \/ \A c \in Clients :
    client[c] \in {"entete", "ecrire", "attente"} /\ c \notin reponses \cup sansMemoire => Ouverte(c)

\* The part of Inv about a server that closes after fork
Gardees ==
  programme = "lourd" => tient[1] \subseteq abandonnes \cup (IF etat[1] = "fork" THEN {courant[1]} ELSE {})

IInv == Inv /\ FinExpliquee /\ InvEtats /\ InvFile /\ InvReponses /\ InvTenues /\ InvOuvertes
-----------------------------------------------------------------------------
\* Process 1 exists.
LEMMA Premier == 1 \in Processus
BY ServeursHypothese DEF Processus

\* What a read leads to, and why
LEMMA LireMene ==
  ASSUME TypeOK, InvEtats, NEW p \in Processus, Lire(p)
  PROVE  LET c == courant[p] IN
         /\ etat[p] = "lire" /\ c \in Clients /\ interrompus' = interrompus \ {p}
         /\ UNCHANGED <<programme, fin, courant, file, client, echanges, abandonnes>>
         /\ \/ /\ Aller(p, "repondre") /\ UNCHANGED tient
               /\ c \in requetes \/ ~ Vivant(c) \/ p \in interrompus
               /\ UNCHANGED sansMemoire
            \/ /\ programme = "lourd" /\ Aller(p, "fermer") /\ UNCHANGED tient
               /\ sansMemoire' = sansMemoire \cup {c}
            \/ /\ programme = "objet" /\ UNCHANGED sansMemoire /\ Aller(p, "fini") /\ tient' = [tient EXCEPT ![p] = {}]
               /\ ~ Vivant(c) \/ p \in interrompus
<1> DEFINE c == courant[p]
<1>1. etat[p] = "lire" /\ c \in Clients
  BY DEF Lire, InvEtats
<1>2. SansRequete = IF programme \in {"fork", "ligne"} THEN {"repondre"}
                    ELSE IF programme = "lourd" THEN {"repondre", "fermer"} ELSE {"fini"}
  BY DEF SansRequete, InvEtats
<1>3. PICK e \in (IF c \in requetes THEN AvecRequete ELSE {})
                   \cup (IF (~ Vivant(c) /\ c \notin requetes) \/ p \in interrompus
                           THEN SansRequete ELSE {}) :
        /\ IF e = "fini" THEN Finir(p, e) ELSE Aller(p, e) /\ UNCHANGED <<courant, tient>>
        /\ sansMemoire' = IF e = "fermer" THEN sansMemoire \cup {c} ELSE sansMemoire
  BY DEF Lire
<1>4. CASE e = "repondre"
  BY <1>1, <1>2, <1>3, <1>4 DEF Lire, AvecRequete
<1>5. CASE e = "fermer"
  BY <1>1, <1>2, <1>3, <1>5 DEF Lire, AvecRequete, InvEtats
<1>6. CASE e = "fini"
  BY <1>1, <1>2, <1>3, <1>6 DEF Lire, AvecRequete, InvEtats, Finir
<1> QED
  BY <1>2, <1>3, <1>4, <1>5, <1>6 DEF AvecRequete

\* What a write leads to
LEMMA RepondreMene ==
  ASSUME TypeOK, InvEtats, NEW p \in Processus, Repondre(p)
  PROVE  LET c == courant[p] IN
         /\ etat[p] = "repondre" /\ c \in Clients /\ reponses' = reponses \cup {c}
         /\ UNCHANGED <<programme, fin, courant, interrompus, file, client, requetes, entetes, abandonnes, sansMemoire>>
         /\ \/ Aller(p, "fermer") /\ UNCHANGED tient
            \/ /\ ~ Vivant(c) /\ Multi /\ Aller(p, "zombie") /\ tient' = [tient EXCEPT ![p] = {}]
            \/ /\ ~ Vivant(c) /\ programme = "objet" /\ Aller(p, "fini") /\ tient' = [tient EXCEPT ![p] = {}]
BY DEF Repondre, InvEtats, Finir

\* Types are preserved.
LEMMA PasType ==
  ASSUME TypeOK, InvEtats, InvFile, [Next]_vars
  PROVE  TypeOK'
<1> USE DEF TypeOK, processus, echanges, Aller, AllerC
<1>1. CASE UNCHANGED vars
  BY <1>1 DEF vars
<1>2. ASSUME NEW p \in Processus, Serveur(p)
      PROVE  TypeOK'
  <2>1. CASE Accepter(p)
    <3>1. Head(file) \in Clients
      BY <2>1, HeadTailProperties DEF Accepter, InvFile
    <3> QED
      BY <2>1, <3>1 DEF Accepter
  <2>2. CASE AccepterEchoue(p)
    BY <2>2 DEF AccepterEchoue
  <2>3. ASSUME NEW q \in Processus, Forker(p, q)
        PROVE  TypeOK'
    BY <2>3 DEF Forker, GardeApresFork, Boucle
  <2>4. CASE ForkEchoue(p)
    BY <2>4 DEF ForkEchoue, Boucle
  <2>5. CASE Tester(p)
    BY <2>5 DEF Tester, Finir
  <2>6. CASE Entete(p)
    BY <2>6 DEF Entete
  <2>7. CASE Lire(p)
    BY <2>7, LireMene
  <2>8. CASE Repondre(p)
    BY <2>8, RepondreMene
  <2>9. CASE Fermer(p)
    BY <2>9 DEF Fermer, Finir
  <2> QED
    BY <1>2, <2>1, <2>2, <2>3, <2>4, <2>5, <2>6, <2>7, <2>8, <2>9 DEF Serveur
<1>3. ASSUME NEW c \in Clients, Connecter(c) \/ Client(c) \/ Tuer(c)
      PROVE  TypeOK'
  BY <1>3 DEF Connecter, Client, RecevoirEntete, Ecrire, Recevoir, Perdre, Tuer
<1>4. CASE AppuyerCtrlC
  BY <1>4 DEF AppuyerCtrlC
<1> QED
  BY <1>1, <1>2, <1>3, <1>4 DEF Next

\* Each program keeps to its states.
LEMMA PasEtats ==
  ASSUME TypeOK, InvEtats, InvFile, [Next]_vars
  PROVE  InvEtats'
<1> USE Premier, ServeursHypothese DEF TypeOK, InvEtats, processus, echanges, Aller, AllerC, Multi, Arrete
<1>1. CASE UNCHANGED vars
  BY <1>1 DEF vars
<1>2. ASSUME NEW p \in Processus, Serveur(p)
      PROVE  InvEtats'
  <2>1. CASE Accepter(p)
    <3>1. Head(file) \in Clients
      BY <2>1, HeadTailProperties DEF Accepter, InvFile
    <3> QED
      BY <2>1, <3>1 DEF Accepter
  <2>2. CASE AccepterEchoue(p)
    BY <2>2 DEF AccepterEchoue
  <2>3. ASSUME NEW q \in Processus, Forker(p, q)
        PROVE  InvEtats'
    BY <2>3 DEF Forker, GardeApresFork, Boucle
  <2>4. CASE ForkEchoue(p)
    BY <2>4 DEF ForkEchoue, Boucle
  <2>5. CASE Tester(p)
    BY <2>5 DEF Tester, Finir
  <2>6. CASE Entete(p)
    BY <2>6 DEF Entete
  <2>7. CASE Lire(p)
    BY <2>7, LireMene
  <2>8. CASE Repondre(p)
    BY <2>8, RepondreMene
  <2>9. CASE Fermer(p)
    BY <2>9 DEF Fermer, Finir
  <2> QED
    BY <1>2, <2>1, <2>2, <2>3, <2>4, <2>5, <2>6, <2>7, <2>8, <2>9 DEF Serveur
<1>3. ASSUME NEW c \in Clients, Connecter(c) \/ Client(c) \/ Tuer(c)
      PROVE  InvEtats'
  BY <1>3 DEF Connecter, Client, RecevoirEntete, Ecrire, Recevoir, Perdre, Tuer
<1>4. CASE AppuyerCtrlC
  BY <1>4 DEF AppuyerCtrlC
<1> QED
  BY <1>1, <1>2, <1>3, <1>4 DEF Next

\* A client that connected stays so.
LEMMA ArretPasse ==
  ASSUME TypeOK, [Next]_vars, NEW c \in Clients, client[c] # "arret"
  PROVE  client'[c] # "arret"
<1> USE DEF TypeOK, AllerC
<1>1. CASE UNCHANGED client
  BY <1>1
<1>2. ASSUME NEW d \in Clients, Connecter(d) \/ Client(d) \/ Tuer(d)
      PROVE  client'[c] # "arret"
  BY <1>2 DEF Connecter, Client, RecevoirEntete, Ecrire, Recevoir, Perdre, Tuer
<1> QED
  BY <1>1, <1>2 DEF Next, vars, Serveur, Accepter, AccepterEchoue, Forker, ForkEchoue, Tester, Entete, Lire,
     Repondre, Fermer, AppuyerCtrlC

\* What Accepter takes
LEMMA AccepterPrend ==
  ASSUME TypeOK, InvFile, NEW p \in Processus, Accepter(p)
  PROVE  /\ Head(file) \in Clients /\ Head(file) # Aucun /\ client[Head(file)] # "arret"
         /\ courant' = [courant EXCEPT ![p] = Head(file)]
         /\ tient' = [tient EXCEPT ![p] = @ \cup {Head(file)}]
         /\ \A q \in Processus : courant[q] # Head(file) /\ Head(file) \notin tient[q]
         /\ file' \in Seq(Clients) /\ UNCHANGED client
         /\ \A i \in DOMAIN file' : /\ i + 1 \in DOMAIN file /\ file'[i] = file[i + 1]
                                    /\ file'[i] # Head(file)
         /\ \A i \in DOMAIN file : file[i] = Head(file) \/ \E j \in DOMAIN file' : file'[j] = file[i]
<1>1. /\ file \in Seq(Clients) /\ file # <<>> /\ file' = Tail(file)
      /\ courant' = [courant EXCEPT ![p] = Head(file)]
      /\ tient' = [tient EXCEPT ![p] = @ \cup {Head(file)}]
      /\ UNCHANGED client
  BY DEF Accepter, InvFile
<1>2. /\ Head(file) \in Clients /\ file' \in Seq(Clients) /\ Len(file') = Len(file) - 1
      /\ \A i \in 1 .. Len(file') : file'[i] = file[i + 1]
  BY <1>1, HeadTailProperties
<1>3. Len(file) \in Nat /\ DOMAIN file = 1 .. Len(file) /\ DOMAIN file' = 1 .. Len(file')
  BY <1>1, <1>2, LenProperties
<1>4. Head(file) = file[1] /\ 1 \in DOMAIN file
  BY <1>1, <1>3, EmptySeq
<1>5. \A q \in Processus : courant[q] # Head(file) /\ Head(file) \notin tient[q]
  BY <1>4 DEF InvFile
<1>6. \A i \in DOMAIN file' : i + 1 \in DOMAIN file /\ file'[i] = file[i + 1] /\ i + 1 # 1
  BY <1>2, <1>3
<1>7. ASSUME NEW i \in DOMAIN file
      PROVE  file[i] = Head(file) \/ \E j \in DOMAIN file' : file'[j] = file[i]
  <2>1. CASE i = 1
    BY <1>4, <2>1
  <2>2. CASE i # 1
    <3>1. i - 1 \in DOMAIN file' /\ file'[i - 1] = file[i]
      BY <1>2, <1>3, <2>2
    <3> QED
      BY <3>1
  <2> QED
    BY <2>1, <2>2
<1>8. \A i \in DOMAIN file' : file'[i] # Head(file)
  BY <1>4, <1>6 DEF InvFile
<1>9. client[Head(file)] # "arret"
  BY <1>4 DEF InvFile
<1> QED
  BY <1>1, <1>2, <1>5, <1>6, <1>7, <1>8, <1>9, ServeursHypothese

\* What Connecter adds
LEMMA ConnecterAjoute ==
  ASSUME TypeOK, InvFile, NEW c \in Clients, Connecter(c), Ouvert
  PROVE  /\ file' \in Seq(Clients) /\ c = file'[Len(file) + 1]
         /\ DOMAIN file' = 1 .. Len(file) + 1 /\ DOMAIN file = 1 .. Len(file) /\ Len(file) \in Nat
         /\ \A i \in DOMAIN file : file'[i] = file[i] /\ file[i] # c
         /\ \A p \in Processus : courant[p] # c /\ c \notin tient[p]
         /\ UNCHANGED processus
<1>1. file \in Seq(Clients) /\ file' = Append(file, c) /\ client[c] = "arret"
  BY DEF Connecter, InvFile
<1>2. /\ file' \in Seq(Clients) /\ Len(file') = Len(file) + 1 /\ c = file'[Len(file) + 1]
      /\ \A i \in 1 .. Len(file) : file'[i] = file[i]
  BY <1>1, AppendProperties
<1>3. DOMAIN file' = 1 .. Len(file') /\ DOMAIN file = 1 .. Len(file) /\ Len(file) \in Nat
  BY <1>1, <1>2, LenProperties
<1>4. \A p \in Processus : courant[p] # c /\ c \notin tient[p]
  BY <1>1, ServeursHypothese DEF InvFile
<1>5. \A i \in DOMAIN file : file[i] # c
  BY <1>1 DEF InvFile
<1> QED
  BY <1>2, <1>3, <1>4, <1>5 DEF Connecter

\* The other steps neither accept nor connect: no process has a connection that
\* none had.
LEMMA SansNouvelle ==
  ASSUME TypeOK, InvEtats, InvFile, [Next]_vars
  PROVE  \/ \E p \in Processus : Accepter(p)
         \/ \E c \in Clients : Connecter(c) /\ Ouvert
         \/ /\ UNCHANGED file
            /\ \A p \in Processus :
                 /\ \A c \in tient'[p] : \E q \in Processus : c \in tient[q]
                 /\ courant'[p] = Aucun \/ \E q \in Processus : courant'[p] = courant[q]
<1> DEFINE Peu == /\ UNCHANGED file
                  /\ \A p \in Processus :
                       /\ \A c \in tient'[p] : \E q \in Processus : c \in tient[q]
                       /\ courant'[p] = Aucun \/ \E q \in Processus : courant'[p] = courant[q]
<1> USE DEF TypeOK, processus, Aller
<1>1. UNCHANGED <<file, processus>> => Peu
  OBVIOUS
<1>2. ASSUME NEW p \in Processus, NEW q \in Processus, Forker(p, q)
      PROVE  Peu
  BY <1>2 DEF Forker, GardeApresFork
<1>3. ASSUME NEW p \in Processus, AccepterEchoue(p) \/ ForkEchoue(p) \/ Tester(p) \/ Entete(p) \/ Fermer(p)
      PROVE  Peu
  BY <1>3 DEF AccepterEchoue, ForkEchoue, Tester, Entete, Fermer, Finir
<1>4. ASSUME NEW p \in Processus, Lire(p)
      PROVE  Peu
  BY <1>4, LireMene
<1>5. ASSUME NEW p \in Processus, Repondre(p)
      PROVE  Peu
  BY <1>5, RepondreMene
<1>6. ASSUME AppuyerCtrlC
      PROVE  Peu
  BY <1>6 DEF AppuyerCtrlC
<1>7. ASSUME NEW c \in Clients, Connecter(c), ~ Ouvert
      PROVE  UNCHANGED <<file, processus>>
  BY <1>7 DEF Connecter
<1> HIDE DEF Peu
<1>8. ASSUME NEW p \in Processus, Serveur(p)
      PROVE  Accepter(p) \/ Peu
  BY <1>2, <1>3, <1>4, <1>5, <1>8 DEF Serveur
<1>9. ASSUME NEW c \in Clients, Client(c) \/ Tuer(c)
      PROVE  UNCHANGED <<file, processus>>
  BY <1>9 DEF Client, RecevoirEntete, Ecrire, Recevoir, Perdre, Tuer
<1>10. ASSUME NEW c \in Clients, Connecter(c) \/ Client(c) \/ Tuer(c)
       PROVE  (Connecter(c) /\ Ouvert) \/ Peu
  BY <1>1, <1>7, <1>9, <1>10
<1>11. UNCHANGED vars => Peu
  BY <1>1 DEF vars
<1>12. (\E p \in Processus : Accepter(p)) \/ (\E c \in Clients : Connecter(c) /\ Ouvert) \/ Peu
  BY <1>6, <1>8, <1>10, <1>11 DEF Next
<1> QED
  BY <1>12 DEF Peu

(* A connection waits at most once and nobody has it meanwhile. *)
LEMMA PasFile ==
  ASSUME TypeOK, InvEtats, InvFile, [Next]_vars
  PROVE  InvFile'
<1>1. ASSUME NEW p \in Processus, Accepter(p)
      PROVE  InvFile'
  <2>1. \A i \in DOMAIN file' :
          /\ client'[file'[i]] # "arret"
          /\ \A j \in DOMAIN file' : i # j => file'[i] # file'[j]
    <3>1. \A i, j \in DOMAIN file' : i # j => i + 1 # j + 1
      <4>1. file' \in Seq(Clients)
        BY <1>1, AccepterPrend
      <4>2. DOMAIN file' = 1 .. Len(file') /\ Len(file') \in Nat
        BY <4>1, LenProperties
      <4> QED
        BY <4>2
    <3> QED
      BY <1>1, <3>1, AccepterPrend DEF InvFile
  <2>2. \A i \in DOMAIN file' : \A q \in Processus : file'[i] # courant'[q] /\ file'[i] \notin tient'[q]
    BY <1>1, AccepterPrend DEF InvFile, TypeOK
  <2>3. \A q \in Processus : \A c \in tient'[q] \cup ({courant'[q]} \ {Aucun}) : client'[c] # "arret"
    BY <1>1, AccepterPrend DEF InvFile, TypeOK
  <2> QED
    BY <1>1, <2>1, <2>2, <2>3, AccepterPrend DEF InvFile
<1>2. ASSUME NEW c \in Clients, Connecter(c), Ouvert
      PROVE  InvFile'
  <2>1. client'[c] # "arret" /\ \A d \in Clients : client[d] # "arret" => client'[d] # "arret"
    BY <1>2 DEF Connecter, AllerC, TypeOK
  <2>2. ASSUME NEW i \in DOMAIN file'
        PROVE  /\ client'[file'[i]] # "arret"
               /\ \A q \in Processus : file'[i] # courant'[q] /\ file'[i] \notin tient'[q]
    <3>1. CASE i \in DOMAIN file
      <4>1. file'[i] = file[i] /\ file[i] \in Clients
        BY <1>2, <3>1, ConnecterAjoute, ElementOfSeq DEF InvFile
      <4> QED
        BY <1>2, <2>1, <3>1, <4>1, ConnecterAjoute DEF InvFile, processus
    <3>2. CASE i = Len(file) + 1
      BY <1>2, <2>1, <3>2, ConnecterAjoute DEF processus
    <3> QED
      BY <1>2, <3>1, <3>2, ConnecterAjoute
  <2>3. \A i, j \in DOMAIN file' : i # j => file'[i] # file'[j]
    <3>1. \A i \in DOMAIN file' : i \in DOMAIN file \/ i = Len(file) + 1
      BY <1>2, ConnecterAjoute
    <3> QED
      BY <1>2, <3>1, ConnecterAjoute DEF InvFile
  <2>4. \A q \in Processus : \A d \in tient'[q] \cup ({courant'[q]} \ {Aucun}) : client'[d] # "arret"
    BY <1>2, <2>1, ConnecterAjoute DEF InvFile, processus, TypeOK
  <2> QED
    BY <1>2, <2>2, <2>3, <2>4, ConnecterAjoute DEF InvFile
<1>3. CASE /\ UNCHANGED file
           /\ \A p \in Processus :
                /\ \A c \in tient'[p] : \E q \in Processus : c \in tient[q]
                /\ courant'[p] = Aucun \/ \E q \in Processus : courant'[p] = courant[q]
  <2>1. \A i \in DOMAIN file : file[i] \in Clients /\ file[i] # Aucun
    BY LenProperties, ElementOfSeq, ServeursHypothese DEF InvFile
  <2>2. \A i \in DOMAIN file : \A p \in Processus : file[i] # courant'[p] /\ file[i] \notin tient'[p]
    BY <1>3, <2>1 DEF InvFile
  <2>3. \A p \in Processus : \A c \in tient'[p] \cup ({courant'[p]} \ {Aucun}) :
          c \in Clients /\ client[c] # "arret"
    BY <1>3 DEF InvFile, TypeOK
  <2> QED
    BY <1>3, <2>1, <2>2, <2>3, ArretPasse DEF InvFile
<1> QED
  BY <1>1, <1>2, <1>3, SansNouvelle

(* A connection is dealt with by one process: it is accepted once, and handed
   over by fork to a child that had none. *)
LEMMA PasOccupe ==
  ASSUME TypeOK, InvEtats, InvFile, [Next]_vars,
         \A p, q \in Processus : p # q /\ Occupe(p) /\ Occupe(q) => courant[p] # courant[q]
  PROVE  \A p, q \in Processus : p # q /\ Occupe(p)' /\ Occupe(q)' => courant'[p] # courant'[q]
<1> DEFINE Distincts == \A p, q \in Processus : p # q /\ Occupe(p)' /\ Occupe(q)' => courant'[p] # courant'[q]
<1> USE DEF TypeOK, Occupe, processus, Aller
<1>1. CASE \A p \in Processus : Occupe(p)' => Occupe(p) /\ courant'[p] = courant[p]
  BY <1>1
<1>2. ASSUME NEW p \in Processus, Accepter(p)
      PROVE  Distincts
  <2>1. \A q \in Processus \ {p} : (Occupe(q)' => Occupe(q)) /\ courant'[q] = courant[q]
    BY <1>2 DEF Accepter
  <2>2. \A q \in Processus \ {p} : courant'[q] # courant'[p]
    BY <1>2, <2>1, AccepterPrend
  <2> QED
    BY <2>1, <2>2
<1>3. ASSUME NEW p \in Processus, NEW q \in Processus, Forker(p, q)
      PROVE  Distincts
  <2>1. /\ etat[p] = "fork" /\ etat[q] = "libre" /\ ~ Occupe(p)'
        /\ courant'[q] = courant[p]
        /\ \A r \in Processus \ {p, q} : (Occupe(r)' => Occupe(r)) /\ courant'[r] = courant[r]
    BY <1>3 DEF Forker, Boucle
  <2> QED
    BY <2>1
<1>4. ASSUME NEW p \in Processus, AccepterEchoue(p) \/ ForkEchoue(p) \/ Tester(p) \/ Entete(p) \/ Fermer(p)
      PROVE  \A q \in Processus : Occupe(q)' => Occupe(q) /\ courant'[q] = courant[q]
  BY <1>4 DEF AccepterEchoue, ForkEchoue, Tester, Entete, Fermer, Finir, Boucle
<1>5. ASSUME NEW p \in Processus, Lire(p)
      PROVE  \A q \in Processus : Occupe(q)' => Occupe(q) /\ courant'[q] = courant[q]
  BY <1>5, LireMene
<1>6. ASSUME NEW p \in Processus, Repondre(p)
      PROVE  \A q \in Processus : Occupe(q)' => Occupe(q) /\ courant'[q] = courant[q]
  BY <1>6, RepondreMene
<1>7. CASE AppuyerCtrlC
  <2>1. \A q \in Processus : Occupe(q)' => Occupe(q) /\ courant'[q] = courant[q]
    BY <1>7 DEF AppuyerCtrlC
  <2> QED
    BY <1>1, <2>1
<1>8. CASE UNCHANGED processus
  BY <1>8
<1> HIDE DEF Occupe
<1>9. ASSUME NEW p \in Processus, Serveur(p)
      PROVE  Distincts
  BY <1>1, <1>2, <1>3, <1>4, <1>5, <1>6, <1>9 DEF Serveur
<1> QED
  BY <1>7, <1>8, <1>9 DEF Next, vars, Connecter, Client, RecevoirEntete, Ecrire, Recevoir, Perdre, Tuer

\* CTRL-C, a death and a reason are for ever.
LEMMA RaisonDure ==
  ASSUME TypeOK, InvEtats, [Next]_vars
  PROVE  /\ programme' = programme /\ (fin => fin')
         /\ \A c \in Clients : ~ Vivant(c) => ~ Vivant(c)'
         /\ Raison => Raison'
<1> USE DEF TypeOK, AllerC, Vivant
<1>1. programme' = programme /\ (fin => fin')
  BY DEF Next, vars, Serveur, Accepter, AccepterEchoue, Forker, ForkEchoue, Tester, Entete, Lire, Repondre,
         Fermer, AppuyerCtrlC, Connecter, Client, RecevoirEntete, Ecrire, Recevoir, Perdre, Tuer
<1>2. ASSUME NEW c \in Clients, ~ Vivant(c)
      PROVE  ~ Vivant(c)'
  <2>1. CASE UNCHANGED client
    BY <1>2, <2>1
  <2>2. ASSUME NEW d \in Clients, Connecter(d) \/ Client(d) \/ Tuer(d)
        PROVE  ~ Vivant(c)'
    BY <1>2, <2>2 DEF Connecter, Client, RecevoirEntete, Ecrire, Recevoir, Perdre, Tuer
  <2> QED
    BY <2>1, <2>2 DEF Next, vars, Serveur, Accepter, AccepterEchoue, Forker, ForkEchoue, Tester, Entete, Lire,
       Repondre, Fermer, AppuyerCtrlC
<1> HIDE DEF Vivant
<1> QED
  BY <1>1, <1>2 DEF Raison

(* Who is answered asked, and what is closed was answered, unless the client is
   dead or CTRL-C interrupted the read. *)
LEMMA PasReponses ==
  ASSUME TypeOK, InvEtats, InvFile, InvReponses, [Next]_vars
  PROVE  InvReponses'
<1> USE DEF TypeOK, InvEtats, InvReponses, Aller, AllerC, processus, echanges
<1>1. CASE UNCHANGED vars
  BY <1>1 DEF vars, Vivant
<1>2. ASSUME NEW p \in Processus, Serveur(p)
      PROVE  InvReponses'
  <2>1. CASE Accepter(p)
    BY <2>1 DEF Accepter, Vivant
  <2>2. CASE AccepterEchoue(p) \/ ForkEchoue(p)
    BY <2>2 DEF AccepterEchoue, ForkEchoue, Boucle, Vivant
  <2>3. ASSUME NEW q \in Processus, Forker(p, q)
        PROVE  InvReponses'
    BY <2>3 DEF Forker, Boucle, Vivant
  <2>4. CASE Tester(p) \/ Entete(p)
    BY <2>4 DEF Tester, Entete, Finir, Vivant
  <2>5. CASE Lire(p)
    BY <2>5, LireMene DEF Vivant
  <2>6. CASE Repondre(p)
    BY <2>6, RepondreMene DEF Vivant
  <2>7. CASE Fermer(p)
    BY <2>7 DEF Fermer, Finir, Vivant
  <2> QED
    BY <1>2, <2>1, <2>2, <2>3, <2>4, <2>5, <2>6, <2>7 DEF Serveur
<1>3. ASSUME NEW c \in Clients, Connecter(c) \/ Client(c) \/ Tuer(c)
      PROVE  InvReponses'
  <2>1. UNCHANGED <<fin, interrompus, etat, courant, reponses, sansMemoire>> /\ requetes \subseteq requetes'
    BY <1>3 DEF Connecter, Client, RecevoirEntete, Ecrire, Recevoir, Perdre, Tuer
  <2>2. \A d \in requetes' : client'[d] \in {"attente", "servi", "coupe", "mort"}
    BY <1>3 DEF Connecter, Client, RecevoirEntete, Ecrire, Recevoir, Perdre, Tuer
  <2>3. \A d \in Clients : ~ Vivant(d) => ~ Vivant(d)'
    BY RaisonDure
  <2>4. \A d \in reponses : d \in requetes' \/ ~ Vivant(d)' \/ fin
    BY <2>1, <2>3
  <2>5. \A p \in Processus :
          /\ etat[p] = "repondre" => courant[p] \in requetes' \/ ~ Vivant(courant[p])' \/ fin
          /\ etat[p] = "fermer" => courant[p] \in reponses \cup sansMemoire \/ ~ Vivant(courant[p])' \/ fin
    BY <2>1, <2>3
  <2> QED
    BY <2>1, <2>2, <2>4, <2>5
<1>4. CASE AppuyerCtrlC
  BY <1>4 DEF AppuyerCtrlC
<1> QED
  BY <1>1, <1>2, <1>3, <1>4 DEF Next

(* Who keeps a connection open: in "lourd" the father, until fork made a child
   for it; in "fork" always a process that accepts or forks, hence never ends
   with a connection of its own. *)
LEMMA PasTenues ==
  ASSUME TypeOK, InvEtats, InvFile, InvTenues, [Next]_vars
  PROVE  InvTenues'
<1> USE Premier DEF TypeOK, Aller, Multi
<1> DEFINE Lourd == programme = "lourd" =>
                      /\ fin \/ \A p \in Processus : tient[p] \subseteq tient[1] \cup {courant[p]}
                      /\ etat[1] = "fork" => \A p \in Processus \ {1} : courant[1] \notin tient[p]
           Fork == programme = "fork" =>
                     \A p \in Processus : \A c \in tient[p] :
                       \E q \in Processus : etat[q] \in {"accept", "fork"} /\ c \in tient[q]
           Java == ~ Multi => tient[1] \subseteq {courant[1]} /\ (etat[1] = "accept" => tient[1] = {})
<1>1. Lourd /\ Fork /\ Java
  BY DEF InvTenues
<1>2. CASE UNCHANGED <<programme, fin, processus>>
  BY <1>2 DEF InvTenues, processus
<1>3. ASSUME NEW p \in Processus, Accepter(p)
      PROVE  InvTenues'
  <2>1. UNCHANGED <<programme, fin>> /\ etat' = [etat EXCEPT ![p] = IF Multi THEN "fork" ELSE
                                                   IF programme = "objet" THEN "entete" ELSE "lire"]
    BY <1>3 DEF Accepter
  <2>2. etat[p] = "accept"
    BY <1>3 DEF Accepter
  <2>3. Lourd'
    <3>1. programme = "lourd" => p = 1
      BY <2>2 DEF InvEtats
    <3>2. /\ tient'[p] = tient[p] \cup {Head(file)} /\ courant'[p] = Head(file)
          /\ \A q \in Processus \ {p} : /\ tient'[q] = tient[q] /\ courant'[q] = courant[q]
                                       /\ Head(file) \notin tient[q]
      BY <1>3, AccepterPrend
    <3>3. programme = "lourd" /\ ~ fin => \A q \in Processus : tient'[q] \subseteq tient'[1] \cup {courant'[q]}
      BY <1>1, <3>1, <3>2
    <3>4. programme = "lourd" => \A q \in Processus \ {1} : courant'[1] \notin tient'[q]
      BY <3>1, <3>2
    <3> QED
      BY <2>1, <3>3, <3>4
  <2>4. Fork'
    <3>1. programme = "fork" => etat' = [etat EXCEPT ![p] = "fork"]
      BY <2>1
    <3>2. tient' = [tient EXCEPT ![p] = tient[p] \cup {Head(file)}]
      BY <1>3, AccepterPrend
    <3> HIDE DEF Lourd, Java
    <3>3. ASSUME programme = "fork", NEW q \in Processus, NEW c \in tient'[q]
          PROVE  \E r \in Processus : etat'[r] \in {"accept", "fork"} /\ c \in tient'[r]
      <4>1. CASE c \in tient[q]
        <5>1. PICK r \in Processus : etat[r] \in {"accept", "fork"} /\ c \in tient[r]
          BY <1>1, <3>3, <4>1
        <5>2. etat'[r] \in {"accept", "fork"} /\ c \in tient'[r]
          BY <3>1, <3>2, <3>3, <5>1
        <5> QED
          BY <5>2
      <4>2. CASE q = p
        <5>1. etat'[p] = "fork"
          BY <3>1, <3>3
        <5> QED
          BY <4>2, <5>1
      <4> QED
        BY <3>2, <4>1, <4>2
    <3> QED
      BY <2>1, <3>3
  <2>5. Java'
    <3>1. ~ Multi => p = 1
      BY <2>2 DEF InvEtats
    <3> QED
      BY <1>1, <1>3, <2>1, <2>2, <3>1, AccepterPrend
  <2> QED
    BY <2>3, <2>4, <2>5 DEF InvTenues
<1>4. ASSUME NEW p \in Processus, AccepterEchoue(p) \/ ForkEchoue(p)
      PROVE  InvTenues'
  <2>1. /\ Multi /\ etat[p] \in {"accept", "fork"} /\ UNCHANGED <<programme, fin, tient>>
        /\ courant' = [courant EXCEPT ![p] = Aucun]
        /\ \E e \in {"accept", "fork", "test"} :
             /\ etat' = [etat EXCEPT ![p] = e]
             /\ programme = "fork" => e \in {"accept", "fork"}
             /\ programme = "lourd" => e # "fork"
    <3>1. etat[p] = "fork" => Multi
      BY DEF InvEtats
    <3> QED
      BY <1>4, <3>1 DEF AccepterEchoue, ForkEchoue, Boucle
  <2>2. programme = "lourd" => p = 1
    BY <2>1 DEF InvEtats
  <2>3. Lourd' /\ Fork' /\ Java'
    BY <1>1, <2>1, <2>2
  <2> QED
    BY <2>3 DEF InvTenues
<1>5. ASSUME NEW p \in Processus, NEW q \in Processus, Forker(p, q)
      PROVE  InvTenues'
  <2>1. /\ etat[p] = "fork" /\ etat[q] = "libre" /\ p # q /\ q # 1 /\ Multi /\ tient[q] = {}
        /\ UNCHANGED <<programme, fin>>
    BY <1>5 DEF Forker, InvEtats, Arrete
  <2>2. Lourd'
    <3>1. SUFFICES ASSUME programme = "lourd"
                   PROVE  Lourd'
      BY <2>1
    <3>2. p = 1 /\ courant[1] \in Clients
      BY <2>1, <3>1 DEF InvEtats
    <3>3. /\ etat'[1] = "test" /\ tient'[1] = tient[1] \ {courant[1]}
          /\ tient'[q] = tient[1] /\ courant'[q] = courant[1]
          /\ \A r \in Processus \ {1, q} : tient'[r] = tient[r] /\ courant'[r] = courant[r]
      BY <1>5, <2>1, <3>1, <3>2 DEF Forker, GardeApresFork, Boucle
    <3>4. \A r \in Processus \ {1} : courant[1] \notin tient[r]
      BY <1>1, <2>1, <3>1, <3>2
    <3>5. ASSUME ~ fin, NEW r \in Processus
          PROVE  tient'[r] \subseteq tient'[1] \cup {courant'[r]}
      <4>1. CASE r \in {1, q}
        BY <3>3, <4>1
      <4>2. CASE r \notin {1, q}
        BY <1>1, <3>1, <3>3, <3>4, <3>5, <4>2
      <4> QED
        BY <4>1, <4>2
    <3> QED
      BY <2>1, <3>3, <3>5
  <2>3. Fork'
    <3>1. SUFFICES ASSUME programme = "fork"
                   PROVE  Fork'
      BY <2>1
    <3>2. tient' = [tient EXCEPT ![q] = tient[p]]
          /\ etat'[p] = "accept" /\ \A r \in Processus \ {p, q} : etat'[r] = etat[r]
      BY <1>5, <2>1, <3>1 DEF Forker, GardeApresFork, Boucle
    <3>3. ASSUME NEW r \in Processus, NEW c \in tient'[r]
          PROVE  \E s \in Processus : etat'[s] \in {"accept", "fork"} /\ c \in tient'[s]
      <4>1. PICK s \in Processus : c \in tient[s]
        BY <3>2, <3>3
      <4>2. PICK u \in Processus : etat[u] \in {"accept", "fork"} /\ c \in tient[u]
        BY <1>1, <3>1, <4>1
      <4>3. u # q /\ etat'[u] \in {"accept", "fork"} /\ c \in tient'[u]
        BY <2>1, <3>2, <4>2
      <4> QED
        BY <4>3
    <3> QED
      BY <3>3
  <2> QED
    BY <2>1, <2>2, <2>3 DEF InvTenues
<1>6. ASSUME NEW p \in Processus, Tester(p)
      PROVE  InvTenues'
  <2>1. programme = "lourd" /\ p = 1
    BY <1>6 DEF Tester, InvEtats
  <2>2. Lourd'
    BY <1>1, <1>6, <2>1 DEF Tester, Finir
  <2> QED
    BY <1>6, <2>1, <2>2 DEF Tester, InvTenues
<1>7. ASSUME NEW p \in Processus, Entete(p)
      PROVE  InvTenues'
  <2>1. ~ Multi /\ etat'[p] = "lire" /\ UNCHANGED <<programme, fin, courant, tient>>
        /\ \A q \in Processus \ {p} : etat'[q] = etat[q]
    BY <1>7 DEF Entete, InvEtats
  <2> QED
    BY <1>1, <2>1 DEF InvTenues
\* The steps of a process that serves: it keeps its connections or ends, and was
\* no process that accepts.
<1>8. ASSUME NEW p \in Processus, NEW e \in {"repondre", "fermer", "zombie", "fini"},
             etat[p] \in {"lire", "repondre"},
             UNCHANGED <<programme, fin, courant>>, etat' = [etat EXCEPT ![p] = e],
             tient' = tient \/ tient' = [tient EXCEPT ![p] = {}]
      PROVE  InvTenues'
  <2>1. programme = "lourd" => p # 1
    BY <1>8 DEF InvEtats
  <2>2. Lourd'
    BY <1>1, <1>8, <2>1
  <2>3. Fork'
    <3>1. ASSUME programme = "fork", NEW r \in Processus, NEW c \in tient'[r]
          PROVE  \E s \in Processus : etat'[s] \in {"accept", "fork"} /\ c \in tient'[s]
      <4>1. c \in tient[r]
        BY <1>8, <3>1
      <4>2. PICK s \in Processus : etat[s] \in {"accept", "fork"} /\ c \in tient[s]
        BY <1>1, <3>1, <4>1
      <4>3. etat'[s] \in {"accept", "fork"} /\ c \in tient'[s]
        BY <1>8, <4>2
      <4> QED
        BY <4>3
    <3> QED
      BY <1>8, <3>1
  <2>4. Java'
    BY <1>1, <1>8
  <2> QED
    BY <2>2, <2>3, <2>4 DEF InvTenues
<1>9. ASSUME NEW p \in Processus, Fermer(p)
      PROVE  InvTenues'
  <2>1. etat[p] = "fermer" /\ UNCHANGED <<programme, fin>>
    BY <1>9 DEF Fermer
  <2>2. Lourd'
    <3>1. programme = "lourd" => p # 1
      BY <2>1 DEF InvEtats
    <3> QED
      BY <1>1, <1>9, <2>1, <3>1 DEF Fermer, Finir
  <2>3. Fork'
    <3>1. programme = "fork" => /\ etat' = [etat EXCEPT ![p] = "accept"]
                                /\ tient' = [tient EXCEPT ![p] = tient[p] \ {courant[p]}]
      BY <1>9 DEF Fermer
    <3>2. ASSUME programme = "fork", NEW r \in Processus, NEW c \in tient'[r]
          PROVE  \E s \in Processus : etat'[s] \in {"accept", "fork"} /\ c \in tient'[s]
      <4>1. c \in tient[r]
        BY <3>1, <3>2
      <4>2. PICK s \in Processus : etat[s] \in {"accept", "fork"} /\ c \in tient[s]
        BY <1>1, <3>2, <4>1
      <4>3. etat'[s] \in {"accept", "fork"} /\ c \in tient'[s]
        BY <2>1, <3>1, <3>2, <4>2
      <4> QED
        BY <4>3
    <3> QED
      BY <2>1, <3>2
  <2>4. Java'
    <3>1. ~ Multi => p = 1
      BY <2>1 DEF InvEtats
    <3> QED
      BY <1>1, <1>9, <2>1, <3>1 DEF Fermer
  <2> QED
    BY <2>2, <2>3, <2>4 DEF InvTenues
<1>10. CASE AppuyerCtrlC
  BY <1>1, <1>10 DEF AppuyerCtrlC, InvTenues
<1>11. ASSUME NEW p \in Processus, Lire(p) \/ Repondre(p)
       PROVE  InvTenues'
  <2>1. /\ etat[p] \in {"lire", "repondre"} /\ UNCHANGED <<programme, fin, courant>>
        /\ tient' = tient \/ tient' = [tient EXCEPT ![p] = {}]
        /\ \E e \in {"repondre", "fermer", "zombie", "fini"} : etat' = [etat EXCEPT ![p] = e]
    BY <1>11, LireMene, RepondreMene
  <2> QED
    BY <1>8, <2>1
<1>12. ASSUME NEW c \in Clients, Connecter(c) \/ Client(c) \/ Tuer(c)
       PROVE  InvTenues'
  BY <1>2, <1>12 DEF Connecter, Client, RecevoirEntete, Ecrire, Recevoir, Perdre, Tuer
<1>13. ASSUME NEW p \in Processus, Serveur(p)
       PROVE  InvTenues'
  BY <1>3, <1>4, <1>5, <1>6, <1>7, <1>9, <1>11, <1>13 DEF Serveur
<1> QED
  BY <1>2, <1>10, <1>12, <1>13 DEF Next, vars

(* The father of "lourd" keeps what fork failed for, and nothing else. *)
LEMMA PasGardees ==
  ASSUME TypeOK, InvEtats, InvFile, Gardees, [Next]_vars
  PROVE  Gardees'
<1> SUFFICES ASSUME programme = "lourd"
             PROVE  Gardees'
  BY RaisonDure DEF Gardees
<1> USE Premier DEF TypeOK, Aller, Multi, Gardees
<1>1. CASE UNCHANGED <<programme, processus, abandonnes>>
  BY <1>1 DEF processus
<1>2. ASSUME NEW p \in Processus, Accepter(p)
      PROVE  Gardees'
  <2>1. p = 1 /\ etat[1] = "accept" /\ etat'[1] = "fork" /\ abandonnes' = abandonnes
    BY <1>2 DEF Accepter, InvEtats
  <2> QED
    BY <1>2, <2>1, AccepterPrend
<1>3. ASSUME NEW p \in Processus, AccepterEchoue(p)
      PROVE  Gardees'
  <2>1. p = 1
    BY <1>3 DEF AccepterEchoue, InvEtats
  <2> QED
    BY <1>3, <2>1 DEF AccepterEchoue
<1>4. ASSUME NEW p \in Processus, NEW q \in Processus, Forker(p, q)
      PROVE  Gardees'
  <2>1. p = 1 /\ q # 1
    BY <1>4 DEF Forker, InvEtats
  <2> QED
    BY <1>4, <2>1 DEF Forker, GardeApresFork, Boucle
<1>5. ASSUME NEW p \in Processus, ForkEchoue(p)
      PROVE  Gardees'
  <2>1. p = 1 /\ courant[1] \in Clients
    BY <1>5 DEF ForkEchoue, InvEtats
  <2>2. etat'[1] = "test" /\ abandonnes' = abandonnes \cup {courant[1]} /\ tient' = tient
    BY <1>5, <2>1, ServeursHypothese DEF ForkEchoue, Boucle
  <2> QED
    BY <2>1, <2>2
<1>6. ASSUME NEW p \in Processus, Tester(p)
      PROVE  Gardees'
  <2>1. p = 1
    BY <1>6 DEF Tester, InvEtats
  <2> QED
    BY <1>6, <2>1 DEF Tester, Finir
\* The children serve, the father does not.
<1>7. ASSUME NEW p \in Processus, Entete(p) \/ Lire(p) \/ Repondre(p) \/ Fermer(p)
      PROVE  Gardees'
  <2>1. etat[p] \in {"entete", "lire", "repondre", "fermer"}
    BY <1>7 DEF Entete, Lire, Repondre, Fermer
  <2>2. p # 1
    BY <2>1 DEF InvEtats
  <2>3. etat'[1] = etat[1] /\ tient'[1] = tient[1] /\ courant'[1] = courant[1] /\ abandonnes' = abandonnes
    BY <1>7, <2>2, LireMene, RepondreMene DEF Entete, Fermer, Finir
  <2> QED
    BY <2>3
<1>8. CASE AppuyerCtrlC
  BY <1>8 DEF AppuyerCtrlC
<1>9. ASSUME NEW c \in Clients, Connecter(c) \/ Client(c) \/ Tuer(c)
      PROVE  Gardees'
  BY <1>1, <1>9 DEF Connecter, Client, RecevoirEntete, Ecrire, Recevoir, Perdre, Tuer
<1>10. ASSUME NEW p \in Processus, Serveur(p)
       PROVE  Gardees'
  BY <1>2, <1>3, <1>4, <1>5, <1>6, <1>7, <1>10 DEF Serveur
<1> QED
  BY <1>1, <1>8, <1>9, <1>10 DEF Next, vars

\* A process that ends or closes does it with a reason, or leaves to another
\* what it has not answered.
LEMMA FinDeProcessus ==
  ASSUME TypeOK, InvEtats, InvReponses, InvTenues, NEW p \in Processus,
         Tester(p) \/ Lire(p) \/ Repondre(p) \/ Fermer(p), ~ Raison,
         NEW c \in Clients, Vivant(c), c \notin reponses \cup sansMemoire, c \in tient[p]
  PROVE  \E q \in Processus : c \in tient'[q]
<1> USE Premier DEF TypeOK, Aller, Multi
<1>1. ~ fin /\ interrompus = {} /\ (programme = "objet" => \A d \in Clients : Vivant(d))
  BY DEF Raison, InvReponses
\* In "fork" and "lourd" another process has it when this one ends.
<1>2. ASSUME Multi, etat[p] \in {"repondre", "fermer"}, c # courant[p]
      PROVE  \E q \in Processus \ {p} : c \in tient[q]
  <2>1. CASE programme = "lourd"
    <3>1. p # 1
      BY <1>2, <2>1 DEF InvEtats
    <3>2. c \in tient[1]
      BY <1>1, <1>2, <2>1 DEF InvTenues
    <3> QED
      BY <3>1, <3>2
  <2>2. CASE programme = "fork"
    <3>1. PICK q \in Processus : etat[q] \in {"accept", "fork"} /\ c \in tient[q]
      BY <2>2 DEF InvTenues
    <3>2. q # p
      BY <1>2, <3>1
    <3> QED
      BY <3>1, <3>2
  <2> QED
    BY <1>2, <2>1, <2>2
<1>3. CASE Tester(p)
  BY <1>1, <1>3 DEF Tester
<1>4. CASE Lire(p)
  <2>1. UNCHANGED tient
    BY <1>1, <1>4, LireMene
  <2> QED
    BY <2>1
<1>5. CASE Repondre(p)
  <2>1. CASE UNCHANGED tient
    BY <2>1
  <2>2. CASE tient' = [tient EXCEPT ![p] = {}] /\ Multi /\ ~ Vivant(courant[p])
    <3>1. etat[p] = "repondre" /\ c # courant[p]
      BY <1>5, <2>2, RepondreMene
    <3>2. PICK q \in Processus \ {p} : c \in tient[q]
      BY <1>2, <2>2, <3>1
    <3> QED
      BY <2>2, <3>2
  <2> QED
    BY <1>1, <1>5, <2>1, <2>2, RepondreMene
<1>6. CASE Fermer(p)
  <2>1. etat[p] = "fermer"
    BY <1>6 DEF Fermer
  <2>2. CASE c # courant[p]
    <3>1. CASE programme = "lourd"
      <4>1. PICK q \in Processus \ {p} : c \in tient[q]
        BY <1>2, <2>1, <2>2, <3>1
      <4> QED
        BY <1>6, <3>1, <4>1 DEF Fermer, Finir
    <3>2. CASE programme # "lourd"
      BY <1>6, <2>2, <3>2 DEF Fermer
    <3> QED
      BY <3>1, <3>2
  <2>3. courant[p] \in reponses \cup sansMemoire \/ ~ Vivant(courant[p])
    BY <1>1, <2>1 DEF InvReponses
  <2> QED
    BY <2>2, <2>3
<1> QED
  BY <1>3, <1>4, <1>5, <1>6

(* Without a reason, no connection ends before the answer: what leaves the file
   is taken, and what a process lets go is answered or another's. *)
LEMMA PasOuvertes ==
  ASSUME TypeOK, InvEtats, InvFile, InvReponses, InvTenues, InvOuvertes, [Next]_vars
  PROVE  InvOuvertes'
<1> SUFFICES ASSUME ~ Raison', NEW c \in Clients,
                    client'[c] \in {"entete", "ecrire", "attente"},
                    c \notin reponses' \cup sansMemoire'
             PROVE  Ouverte(c)'
  BY DEF InvOuvertes
<1> USE DEF TypeOK, Aller, AllerC
<1>1. ~ Raison
  BY RaisonDure
<1>2. c \notin reponses \cup sansMemoire
  BY DEF Next, vars, echanges, Serveur, Accepter, AccepterEchoue, Forker, ForkEchoue, Tester, Entete, Lire,
         Repondre, Fermer, AppuyerCtrlC, Connecter, Client, RecevoirEntete, Ecrire, Recevoir, Perdre, Tuer
<1>3. ASSUME Ouverte(c), UNCHANGED <<file, tient>>
      PROVE  Ouverte(c)'
  BY <1>3 DEF Ouverte
<1>4. CASE UNCHANGED vars
  <2>1. Ouverte(c)
    BY <1>1, <1>2, <1>4 DEF InvOuvertes, vars
  <2> QED
    BY <1>3, <1>4, <2>1 DEF vars, processus
<1>5. ASSUME NEW d \in Clients, Connecter(d)
      PROVE  Ouverte(c)'
  <2>1. CASE Ouvert
    <3>1. CASE c = d
      <4>1. c = file'[Len(file) + 1] /\ Len(file) + 1 \in DOMAIN file'
        BY <1>5, <2>1, <3>1, ConnecterAjoute
      <4> QED
        BY <4>1 DEF Ouverte
    <3>2. CASE c # d
      <4>1. client[c] = client'[c]
        BY <1>5, <3>2 DEF Connecter
      <4>2. Ouverte(c)
        BY <1>1, <1>2, <4>1 DEF InvOuvertes
      <4>3. \A i \in DOMAIN file : i \in DOMAIN file' /\ file'[i] = file[i]
        BY <1>5, <2>1, ConnecterAjoute
      <4>4. UNCHANGED tient
        BY <1>5 DEF Connecter, processus
      <4> QED
        BY <4>2, <4>3, <4>4 DEF Ouverte
    <3> QED
      BY <3>1, <3>2
  <2>2. CASE ~ Ouvert
    <3>1. client' = [client EXCEPT ![d] = "refuse"] /\ UNCHANGED <<file, tient>>
      BY <1>5, <2>2 DEF Connecter, processus
    <3>2. c # d /\ client[c] = client'[c]
      BY <3>1
    <3> QED
      BY <1>1, <1>2, <1>3, <3>1, <3>2 DEF InvOuvertes
  <2> QED
    BY <2>1, <2>2
<1>6. ASSUME NEW d \in Clients, Client(d) \/ Tuer(d)
      PROVE  Ouverte(c)'
  <2>1. UNCHANGED <<file, tient>> /\ client[c] \in {"entete", "ecrire", "attente"}
    BY <1>6 DEF Client, RecevoirEntete, Ecrire, Recevoir, Perdre, Tuer, processus
  <2> QED
    BY <1>1, <1>2, <1>3, <2>1 DEF InvOuvertes
<1>7. ASSUME NEW p \in Processus, Serveur(p)
      PROVE  Ouverte(c)'
  <2>1. UNCHANGED client
    BY <1>7 DEF Serveur, Accepter, AccepterEchoue, Forker, ForkEchoue, Tester, Entete, Lire, Repondre, Fermer
  <2>2. Ouverte(c) /\ Vivant(c)
    BY <1>1, <1>2, <2>1 DEF InvOuvertes, Vivant
  <2>3. CASE Accepter(p)
    <3>1. CASE \E q \in Processus : c \in tient[q]
      BY <2>3, <3>1 DEF Accepter, Ouverte
    <3>2. ASSUME NEW i \in DOMAIN file, file[i] = c
          PROVE  Ouverte(c)'
      <4>1. CASE c = Head(file)
        BY <2>3, <4>1 DEF Accepter, Ouverte
      <4>2. CASE c # Head(file)
        BY <2>3, <3>2, <4>2, AccepterPrend DEF Ouverte
      <4> QED
        BY <4>1, <4>2
    <3> QED
      BY <2>2, <3>1, <3>2 DEF Ouverte
  <2>4. ASSUME NEW q \in Processus, Forker(p, q)
        PROVE  Ouverte(c)'
    <3>1. UNCHANGED file /\ tient'[q] = tient[p] /\ tient[q] = {}
          /\ \A r \in Processus \ {p, q} : tient'[r] = tient[r]
      BY <2>4 DEF Forker, InvEtats, Arrete
    <3> QED
      BY <2>2, <3>1 DEF Ouverte
  <2>5. CASE AccepterEchoue(p) \/ ForkEchoue(p) \/ Entete(p)
    BY <1>3, <2>2, <2>5 DEF AccepterEchoue, ForkEchoue, Entete
  <2>6. CASE Tester(p) \/ Lire(p) \/ Repondre(p) \/ Fermer(p)
    <3>1. UNCHANGED file /\ \A q \in Processus \ {p} : tient'[q] = tient[q]
      BY <2>6, LireMene, RepondreMene DEF Tester, Fermer, Finir
    <3>2. CASE \E i \in DOMAIN file : file[i] = c
      BY <3>1, <3>2 DEF Ouverte
    <3>3. CASE \E q \in Processus : c \in tient[q]
      <4>1. \E q \in Processus : c \in tient'[q]
        BY <1>1, <1>2, <2>2, <2>6, <3>1, <3>3, FinDeProcessus
      <4> QED
        BY <4>1 DEF Ouverte
    <3> QED
      BY <2>2, <3>2, <3>3 DEF Ouverte
  <2> QED
    BY <1>7, <2>3, <2>4, <2>5, <2>6 DEF Serveur
<1>8. CASE AppuyerCtrlC
  BY <1>8 DEF AppuyerCtrlC, Raison
<1> QED
  BY <1>4, <1>5, <1>6, <1>7, <1>8 DEF Next

(* The server ends, and a client is cut off, with a reason. *)
LEMMA PasFin ==
  ASSUME TypeOK, InvEtats, InvFile, InvReponses, InvOuvertes, FinExpliquee, [Next]_vars
  PROVE  FinExpliquee'
<1> USE Premier DEF TypeOK, Aller, AllerC
<1> SUFFICES ASSUME ~ Raison'
             PROVE  etat'[1] # "fini" /\ \A c \in Clients : client'[c] = "coupe" => c \in sansMemoire'
  BY DEF FinExpliquee
<1>1. ~ Raison /\ ~ fin /\ interrompus = {} /\ (programme = "objet" => \A d \in Clients : Vivant(d))
  BY RaisonDure DEF Raison, InvReponses
<1>2. etat[1] # "fini" /\ \A c \in Clients : client[c] = "coupe" => c \in sansMemoire
  BY <1>1 DEF FinExpliquee
<1>3. etat'[1] # "fini"
  <2>1. CASE UNCHANGED etat
    BY <1>2, <2>1
  <2>2. ASSUME NEW p \in Processus, NEW q \in Processus, Forker(p, q)
        PROVE  etat'[1] # "fini"
    BY <1>2, <2>2 DEF Forker, Boucle
  <2>3. ASSUME NEW p \in Processus, Accepter(p) \/ AccepterEchoue(p) \/ ForkEchoue(p) \/ Entete(p) \/ Fermer(p)
        PROVE  etat'[1] # "fini"
    BY <1>2, <2>3 DEF Accepter, AccepterEchoue, ForkEchoue, Entete, Fermer, Finir, Boucle
  <2>4. ASSUME NEW p \in Processus, Tester(p)
        PROVE  etat'[1] # "fini"
    BY <1>1, <1>2, <2>4 DEF Tester
  <2>5. ASSUME NEW p \in Processus, Lire(p)
        PROVE  etat'[1] # "fini"
    BY <1>1, <1>2, <2>5, LireMene
  <2>6. ASSUME NEW p \in Processus, Repondre(p)
        PROVE  etat'[1] # "fini"
    BY <1>1, <1>2, <2>6, RepondreMene
  <2>7. ~ AppuyerCtrlC
    BY DEF AppuyerCtrlC, Raison
  <2>8. ASSUME NEW p \in Processus, Serveur(p)
        PROVE  etat'[1] # "fini"
    BY <2>2, <2>3, <2>4, <2>5, <2>6, <2>8 DEF Serveur
  <2> QED
    BY <2>1, <2>7, <2>8 DEF Next, vars, processus, Connecter, Client, RecevoirEntete, Ecrire, Recevoir, Perdre,
       Tuer
<1>4. ASSUME NEW c \in Clients, c \notin sansMemoire
      PROVE  ~ Perdre(c)
  <2> SUFFICES ASSUME Perdre(c)
               PROVE  FALSE
    OBVIOUS
  <2>1. client[c] \in {"entete", "ecrire", "attente"} /\ ~ Tenue(c) /\ Vivant(c)
    BY DEF Perdre, Vivant
  <2>2. c \notin reponses
    BY <1>1, <2>1 DEF Perdre, InvReponses
  <2>3. Ouverte(c)
    BY <1>1, <1>4, <2>1, <2>2 DEF InvOuvertes
  <2>4. Ouvert
    BY <1>2 DEF Ouvert, Arrete, InvEtats, Multi
  <2>5. DOMAIN file = 1 .. Len(file)
    BY LenProperties DEF InvFile
  <2> QED
    BY <2>1, <2>3, <2>4, <2>5 DEF Ouverte, Tenue, Contains
<1>5. sansMemoire \subseteq sansMemoire'
  BY DEF Next, vars, Serveur, Accepter, AccepterEchoue, Forker, ForkEchoue, Tester, Entete, Lire, Repondre,
         Fermer, AppuyerCtrlC, Connecter, Client, RecevoirEntete, Ecrire, Recevoir, Perdre, Tuer
<1>6. \A c \in Clients : client'[c] = "coupe" => c \in sansMemoire'
  <2>1. CASE UNCHANGED client
    BY <1>2, <1>5, <2>1
  <2>2. ASSUME NEW d \in Clients, Connecter(d) \/ Client(d) \/ Tuer(d)
        PROVE  \A c \in Clients : client'[c] = "coupe" => c \in sansMemoire'
    <3>1. CASE Perdre(d)
      BY <1>2, <1>4, <1>5, <3>1 DEF Perdre
    <3>2. CASE Connecter(d) \/ RecevoirEntete(d) \/ Ecrire(d) \/ Recevoir(d) \/ Tuer(d)
      BY <1>2, <1>5, <3>2 DEF Connecter, RecevoirEntete, Ecrire, Recevoir, Tuer
    <3> QED
      BY <2>2, <3>1, <3>2 DEF Client
  <2> QED
    BY <2>1, <2>2 DEF Next, vars, Serveur, Accepter, AccepterEchoue, Forker, ForkEchoue, Tester, Entete, Lire,
       Repondre, Fermer, AppuyerCtrlC
<1> QED
  BY <1>3, <1>6
-----------------------------------------------------------------------------
\* The invariant is inductive.
LEMMA Invariant == Spec => []IInv
<1>1. Init => IInv
  <2> SUFFICES ASSUME Init
               PROVE  IInv
    OBVIOUS
  <2> USE Premier, ServeursHypothese DEF Init
  <2>1. TypeOK
    BY DEF TypeOK
  <2>2. InvEtats /\ Inv /\ FinExpliquee
    BY <2>1 DEF InvEtats, Inv, FinExpliquee, Multi, Arrete, Occupe
  <2>3. InvFile
    <3>1. <<>> \in Seq(Clients) /\ DOMAIN <<>> = {}
      BY EmptySeq
    <3> QED
      BY <3>1 DEF InvFile
  <2>4. InvReponses /\ InvTenues /\ InvOuvertes
    BY DEF InvReponses, InvTenues, InvOuvertes
  <2> QED
    BY <2>2, <2>3, <2>4 DEF IInv
<1>2. IInv /\ [Next]_vars => IInv'
  <2> SUFFICES ASSUME IInv, [Next]_vars
               PROVE  IInv'
    OBVIOUS
  <2>1. TypeOK /\ Gardees /\ InvEtats /\ InvFile /\ InvReponses /\ InvTenues /\ InvOuvertes /\ FinExpliquee
        /\ \A p, q \in Processus : p # q /\ Occupe(p) /\ Occupe(q) => courant[p] # courant[q]
    BY DEF IInv, Inv, Gardees
  <2>2. TypeOK' /\ Gardees'
    BY <2>1, PasType, PasGardees
  <2>3. \A p, q \in Processus : p # q /\ Occupe(p)' /\ Occupe(q)' => courant'[p] # courant'[q]
    BY <2>1, PasOccupe
  <2>4. Inv'
    BY <2>2, <2>3 DEF Inv, Gardees
  <2>5. InvEtats' /\ InvFile' /\ InvReponses' /\ InvTenues'
    BY <2>1, PasEtats, PasFile, PasReponses, PasTenues
  <2>6. InvOuvertes' /\ FinExpliquee'
    BY <2>1, PasOuvertes, PasFin
  <2> QED
    BY <2>4, <2>5, <2>6 DEF IInv
<1> QED
  BY <1>1, <1>2, PTL DEF Spec

(* A connection is dealt with by one process, however many accept, and the
   father of "lourd" keeps open the connections whose fork failed, and no other
   (Serveur_concurrent_lourd.c:111). *)
THEOREM UnProcessusParConnexion == Spec => []Inv
<1>1. IInv => Inv
  BY DEF IInv
<1> QED
  BY <1>1, Invariant, PTL

(* Only CTRL-C ends a server and cuts its clients off, except Serveur-1, which
   the death of one client ends (Serveur-1.java:13-40), and "lourd", whose child
   closes the connection of a live client when malloc fails for its request
   (Serveur_concurrent_lourd.c:81-83, 100-104). *)
THEOREM FinToujoursExpliquee == Spec => []FinExpliquee
<1>1. IInv => FinExpliquee
  BY DEF IInv
<1> QED
  BY <1>1, Invariant, PTL
=============================================================================
