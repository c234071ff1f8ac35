-------------------------- MODULE Datagrammes_proof --------------------------
(***************************************************************************)
(* Proofs about Datagrammes, for every set of clients, every number of     *)
(* lines, of transmissions, of deaths of the server, and every size of the *)
(* pipe and of the socket.                                                 *)
(***************************************************************************)
EXTENDS Datagrammes, FiniteSetTheorems, FunctionTheorems, SequenceTheorems,
        TLAPS

\* How many times x is in s.  Fois is this for a journal.
Occurrences(s, x) == Cardinality({i \in DOMAIN s : s[i] = x})

(* The set that Occurrences counts is finite. *)
LEMMA OccurrencesFinies ==
  ASSUME NEW S, NEW s \in Seq(S), NEW x
  PROVE  IsFiniteSet({i \in DOMAIN s : s[i] = x}) /\ Occurrences(s, x) \in Nat
<1>1. DOMAIN s = 1 .. Len(s) /\ Len(s) \in Nat
  BY LenProperties
<1>2. IsFiniteSet(DOMAIN s)
  BY <1>1, FS_Interval
<1>3. IsFiniteSet({i \in DOMAIN s : s[i] = x})
  BY <1>2, FS_Subset
<1> QED
  BY <1>3, FS_CardinalityType DEF Occurrences

(* Something counted is somewhere, and conversely. *)
LEMMA OccurrencesPresence ==
  ASSUME NEW S, NEW s \in Seq(S), NEW x
  PROVE  Occurrences(s, x) > 0 <=> \E i \in DOMAIN s : s[i] = x
<1>1. Occurrences(s, x) = 0 <=> {i \in DOMAIN s : s[i] = x} = {}
  BY OccurrencesFinies, FS_EmptySet DEF Occurrences
<1>2. Occurrences(s, x) \in Nat
  BY OccurrencesFinies
<1> QED
  BY <1>1, <1>2

(* Nothing is in the empty sequence. *)
LEMMA OccurrencesVide ==
  ASSUME NEW x
  PROVE  Occurrences(<<>>, x) = 0
<1>1. {i \in DOMAIN <<>> : <<>>[i] = x} = {}
  OBVIOUS
<1> QED
  BY <1>1, FS_EmptySet DEF Occurrences

(* Append adds one occurrence, of what it appends. *)
LEMMA OccurrencesAjout ==
  ASSUME NEW S, NEW s \in Seq(S), NEW y \in S, NEW x
  PROVE  Occurrences(Append(s, y), x) = Occurrences(s, x) + (IF y = x THEN 1 ELSE 0)
<1> DEFINE T == {i \in DOMAIN s : s[i] = x}
           U == {i \in DOMAIN Append(s, y) : Append(s, y)[i] = x}
           n == Len(s) + 1
<1>1. /\ Len(s) \in Nat /\ DOMAIN s = 1 .. Len(s)
      /\ DOMAIN Append(s, y) = 1 .. n
      /\ \A i \in 1 .. Len(s) : Append(s, y)[i] = s[i]
      /\ Append(s, y)[n] = y
  <2>1. Append(s, y) \in Seq(S) /\ Len(Append(s, y)) = n
    BY AppendProperties
  <2> QED
    BY <2>1, LenProperties, AppendProperties
<1>2. IsFiniteSet(T) /\ Occurrences(s, x) = Cardinality(T) /\ Cardinality(T) \in Nat
  BY OccurrencesFinies DEF Occurrences
<1>3. n \notin T /\ Occurrences(Append(s, y), x) = Cardinality(U)
  BY <1>1 DEF Occurrences
<1>4. CASE y = x
  <2>1. U = T \cup {n}
    BY <1>1, <1>4
  <2>2. Cardinality(T \cup {n}) = Cardinality(T) + 1
    BY <1>2, <1>3, FS_AddElement
  <2> HIDE DEF T, U
  <2> QED
    BY <1>2, <1>3, <1>4, <2>1, <2>2
<1>5. CASE y # x
  <2>1. U = T
    BY <1>1, <1>5
  <2> HIDE DEF T, U
  <2> QED
    BY <1>2, <1>3, <1>5, <2>1
<1> QED
  BY <1>4, <1>5

(* Tail takes one occurrence away, of the head. *)
LEMMA OccurrencesRetrait ==
  ASSUME NEW S, NEW s \in Seq(S), s # <<>>, NEW x
  PROVE  Occurrences(s, x) = Occurrences(Tail(s), x) + (IF Head(s) = x THEN 1 ELSE 0)
<1> DEFINE T == {i \in DOMAIN s : s[i] = x}
           U == {i \in DOMAIN Tail(s) : Tail(s)[i] = x}
           V == T \ {1}
           f == [i \in U |-> i + 1]
<1>1. /\ Len(s) \in Nat /\ Len(s) > 0 /\ DOMAIN s = 1 .. Len(s)
      /\ Head(s) = s[1]
      /\ DOMAIN Tail(s) = 1 .. Len(s) - 1
      /\ \A i \in 1 .. Len(s) - 1 : Tail(s)[i] = s[i + 1]
  <2>1. Tail(s) \in Seq(S) /\ Len(Tail(s)) = Len(s) - 1
    BY HeadTailProperties
  <2>2. Len(s) \in Nat /\ DOMAIN s = 1 .. Len(s) /\ Len(s) > 0
    BY LenProperties, EmptySeq
  <2>3. Head(s) = s[1]
    OBVIOUS
  <2> QED
    BY <2>1, <2>2, <2>3, LenProperties, HeadTailProperties
<1>2. /\ IsFiniteSet(T) /\ Occurrences(s, x) = Cardinality(T) /\ Cardinality(T) \in Nat
      /\ IsFiniteSet(U) /\ Occurrences(Tail(s), x) = Cardinality(U) /\ Cardinality(U) \in Nat
  BY OccurrencesFinies, HeadTailProperties DEF Occurrences
<1>3. ExistsBijection(U, V)
  <2>1. \A i \in U : i + 1 \in V
    BY <1>1
  <2>2. \A j \in V : j - 1 \in U /\ j = (j - 1) + 1
    BY <1>1
  <2>3. f \in [U -> V]
    BY <2>1
  <2>4. \A a, b \in U : f[a] = f[b] => a = b
    BY <1>1
  <2>5. \A j \in V : \E i \in U : f[i] = j
    <3> TAKE j \in V
    <3> WITNESS j - 1 \in U
    <3> QED
      BY <2>2
  <2>6. f \in Bijection(U, V)
    BY <2>3, <2>4, <2>5, Fun_IsBij
  <2> QED
    BY <2>6 DEF ExistsBijection
<1>4. Cardinality(V) = Cardinality(U)
  BY <1>2, <1>3, FS_Bijection
<1>5. 1 \in T <=> Head(s) = x
  BY <1>1
<1>6. Cardinality(V) = IF 1 \in T THEN Cardinality(T) - 1 ELSE Cardinality(T)
  BY <1>2, FS_RemoveElement
<1> HIDE DEF T, U, V
<1> QED
  BY <1>2, <1>4, <1>5, <1>6
-----------------------------------------------------------------------------
EnAppel(c) == client[c] \in {"appel", "attente", "refus"}

\* What a client sends was written in its pipe, and the server holds a request
\* only while it deals with it.
Types ==
  /\ programme \in {"rpc", "java"}
  /\ ecrites \in [Clients -> Nat]
  /\ rendus \in [Clients -> Seq({"ok", "echec"})]
  /\ journal \in [Clients -> Seq(Nat)]
  /\ DOMAIN envoyes = Clients
  /\ \A c \in Clients :
       /\ envoyes[c] \in [1 .. NbLignes[c] -> Nat]
       /\ Len(rendus[c]) <= ecrites[c] /\ (EnAppel(c) => Len(rendus[c]) < ecrites[c])
       /\ \A i \in DOMAIN journal[c] : journal[c][i] \in 1 .. NbLignes[c]
  /\ serveur \in {"ecrire", "repondre"} <=> requete # Aucune
  /\ serveur = "arret" => socket = <<>>

\* The lines of a client are in order along their way: the log, the request
\* dealt with, the socket from its head on, the current request.
Avant(c, n) == \A i \in DOMAIN journal[c] : journal[c][i] <= n
Ordre ==
  /\ \A c \in Clients :
       /\ Avant(c, Courante(c).no)
       /\ \A i, j \in DOMAIN journal[c] : i < j => journal[c][i] <= journal[c][j]
  /\ requete # Aucune => requete.no <= Courante(requete.de).no /\ Avant(requete.de, requete.no)
  /\ \A i \in DOMAIN socket :
       /\ socket[i].no <= Courante(socket[i].de).no /\ Avant(socket[i].de, socket[i].no)
       /\ requete # Aucune /\ requete.de = socket[i].de => requete.no <= socket[i].no
       /\ \A j \in DOMAIN socket : i < j /\ socket[i].de = socket[j].de => socket[i].no <= socket[j].no

\* An answer is sent for a line that is in the log, and the socket of a call
\* holds no answer but its own.
Ecrite(c, k) == \E i \in DOMAIN journal[c] : journal[c][i] = k
Reponses ==
  /\ serveur = "repondre" => Ecrite(requete.de, requete.no)
  /\ \A c \in Clients :
       /\ EnAppel(c) /\ reponse[c] => Ecrite(c, Courante(c).no)
       /\ \A k \in DOMAIN rendus[c] : rendus[c][k] = "ok" => Ecrite(c, k)

\* Each transmission of a line is at one place at most: the log, the server,
\* its socket.
Ligne(c, k) == [de |-> c, no |-> k]
EnMain(r) == IF serveur = "ecrire" /\ requete = r THEN 1 ELSE 0
Comptes ==
  \A c \in Clients : \A k \in 1 .. NbLignes[c] :
    Occurrences(journal[c], k) + EnMain(Ligne(c, k)) + Occurrences(socket, Ligne(c, k)) <= envoyes[c][k]

IInv == TypeOK /\ Types /\ Ordre /\ Reponses /\ Comptes

(* A request is a line of one client; no request is not one. *)
LEMMA RequeteLigne ==
  /\ \A c \in Clients : \A k \in 1 .. NbLignes[c] : Ligne(c, k) \in Requetes
  /\ \A r \in Requetes : /\ r.de \in Clients /\ r.no \in 1 .. NbLignes[r.de] /\ r.no \in Nat
                         /\ r = Ligne(r.de, r.no) /\ r # Aucune
<1> USE DatagrammesHypothese DEF Requetes, Ligne, Aucune
<1>1. \A c \in Clients : \A k \in 1 .. NbLignes[c] : Ligne(c, k) \in Requetes
  OBVIOUS
<1>2. ASSUME NEW r \in Requetes
      PROVE  /\ r.de \in Clients /\ r.no \in 1 .. NbLignes[r.de] /\ r.no \in Nat
             /\ r = Ligne(r.de, r.no) /\ r # Aucune
  <2>1. PICK c \in Clients : r \in [de : {c}, no : 1 .. NbLignes[c]]
    BY <1>2
  <2>2. r.de = c /\ r.no \in 1 .. NbLignes[c] /\ r = [de |-> r.de, no |-> r.no]
    BY <2>1
  <2>3. r.no \in Nat /\ r.no # 0
    BY <2>2
  <2> QED
    BY <2>2, <2>3
<1> QED
  BY <1>1, <1>2

(* The current request of a client in a call is a line it wrote. *)
LEMMA CouranteEcrite ==
  ASSUME TypeOK, Types, NEW c \in Clients, EnAppel(c)
  PROVE  /\ Len(rendus[c]) \in Nat /\ Len(rendus[c]) + 1 <= NbLignes[c]
         /\ Courante(c) = Ligne(c, Len(rendus[c]) + 1)
         /\ Courante(c) \in Requetes
<1>1. Len(rendus[c]) \in Nat
  BY LenProperties DEF Types
<1>2. Len(rendus[c]) + 1 <= ecrites[c] /\ ecrites[c] \in Nat
  BY DEF Types
<1>3. ecrites[c] <= Total(c)
  BY DEF TypeOK, Types
<1>4. Total(c) <= NbLignes[c] /\ NbLignes[c] \in Nat
  BY DatagrammesHypothese DEF Total
<1>5. Total(c) \in Nat
  BY DatagrammesHypothese DEF Total
<1>6. Len(rendus[c]) + 1 \in 1 .. NbLignes[c]
  BY <1>1, <1>2, <1>3, <1>4, <1>5
<1> QED
  BY <1>1, <1>6, RequeteLigne DEF Courante, Ligne

\* Types are preserved: first what TypeOK says, then the rest.
LEMMA PasType ==
  ASSUME TypeOK, Types, [Next]_vars
  PROVE  TypeOK'
<1> USE DatagrammesHypothese DEF TypeOK, cote, service, traces, AllerC
<1>1. CASE UNCHANGED vars
  BY <1>1 DEF vars, Total
<1>2. ASSUME NEW c \in Clients, Mylog(c)
      PROVE  TypeOK'
  <2>1. \A d \in Clients : Total(d)' = Total(d)
    BY <1>2 DEF Mylog, Total
  <2>2. \A d \in Clients : ecrites'[d] \in 0 .. Total(d)
    BY <1>2 DEF Mylog, Total, Types
  <2> QED
    BY <1>2, <2>1, <2>2 DEF Mylog
<1>3. ASSUME NEW c \in Clients, Client(c)
      PROVE  TypeOK'
  <2>1. UNCHANGED <<programme, ecrites, serveur, requete, pannes>>
    BY <1>3 DEF Client, Creer, Emettre, Recevoir, Abandonner
  <2>2. \A d \in Clients : ecrites'[d] \in 0 .. Total(d)'
    BY <2>1 DEF Total
  <2>3. CASE Creer(c)
    BY <2>1, <2>2, <2>3 DEF Creer
  <2>4. CASE Emettre(c)
    <3>1. essais' \in [Clients -> 0 .. MaxEssais]
      BY <2>4 DEF Emettre
    <3>2. EnAppel(c)
      BY <2>4 DEF Emettre, EnAppel
    <3>3. socket' \in Seq(Requetes) /\ Len(socket') <= Capacite
      BY <2>4, <3>2, CouranteEcrite, AppendProperties, LenProperties DEF Emettre
    <3> QED
      BY <2>1, <2>2, <2>4, <3>1, <3>3 DEF Emettre
  <2>5. CASE Recevoir(c) \/ Abandonner(c)
    BY <2>1, <2>2, <2>5 DEF Recevoir, Abandonner, Rendre
  <2> QED
    BY <1>3, <2>3, <2>4, <2>5 DEF Client
<1>4. CASE Lancer \/ Serveur \/ Mourir
  <2>1. UNCHANGED <<programme, ecrites, client, essais>>
    BY <1>4 DEF Lancer, Serveur, Prendre, Ecrire, Repondre, Mourir
  <2>2. \A d \in Clients : ecrites'[d] \in 0 .. Total(d)'
    BY <2>1 DEF Total
  <2>3. CASE Lancer
    <3>1. <<>> \in Seq(Requetes) /\ Len(<<>>) = 0
      BY EmptySeq
    <3> QED
      BY <2>1, <2>2, <2>3, <3>1 DEF Lancer
  <2>4. CASE Prendre
    <3>1. Head(socket) \in Requetes /\ Tail(socket) \in Seq(Requetes) /\ Len(Tail(socket)) = Len(socket) - 1
      BY <2>4, HeadTailProperties DEF Prendre
    <3>2. Len(socket) \in Nat
      BY LenProperties
    <3> QED
      BY <2>1, <2>2, <2>4, <3>1, <3>2 DEF Prendre
  <2>5. CASE Ecrire
    BY <2>1, <2>2, <2>5 DEF Ecrire
  <2>6. CASE Repondre
    BY <2>1, <2>2, <2>6 DEF Repondre
  <2>7. CASE Mourir
    <3>1. <<>> \in Seq(Requetes) /\ Len(<<>>) = 0
      BY EmptySeq
    <3> QED
      BY <2>1, <2>2, <2>7, <3>1 DEF Mourir
  <2> QED
    BY <1>4, <2>3, <2>4, <2>5, <2>6, <2>7 DEF Serveur
<1> QED
  BY <1>1, <1>2, <1>3, <1>4 DEF Next

LEMMA PasTypes ==
  ASSUME TypeOK, Types, [Next]_vars
  PROVE  Types'
<1> USE DatagrammesHypothese DEF Types, EnAppel, cote, service, traces, AllerC
<1>1. CASE UNCHANGED vars
  BY <1>1 DEF vars
<1>2. ASSUME NEW c \in Clients, Mylog(c)
      PROVE  Types'
  <2>1. \A d \in Clients : ecrites'[d] \in Nat /\ ecrites'[d] >= ecrites[d]
    BY <1>2 DEF Mylog
  <2>2. \A d \in Clients : Len(rendus[d]) \in Nat
    BY LenProperties
  <2>3. \A d \in Clients : /\ Len(rendus'[d]) <= ecrites'[d]
                           /\ EnAppel(d)' => Len(rendus'[d]) < ecrites'[d]
    BY <1>2, <2>1, <2>2 DEF Mylog
  <2> QED
    BY <1>2, <2>1, <2>3 DEF Mylog
<1>3. ASSUME NEW c \in Clients, Client(c)
      PROVE  Types'
  <2>1. \A d \in Clients : Len(rendus[d]) \in Nat /\ ecrites[d] \in Nat
    BY LenProperties
  <2>2. UNCHANGED <<programme, ecrites, journal, serveur, requete>>
    BY <1>3 DEF Client, Creer, Emettre, Recevoir, Abandonner
  <2>3. CASE Creer(c)
    <3>1. \A d \in Clients : /\ Len(rendus'[d]) <= ecrites'[d]
                             /\ EnAppel(d)' => Len(rendus'[d]) < ecrites'[d]
      BY <2>1, <2>3 DEF Creer, TypeOK
    <3> QED
      BY <2>2, <2>3, <3>1 DEF Creer
  <2>4. CASE Emettre(c)
    <3> DEFINE k == Courante(c).no
    <3>1. EnAppel(c)
      BY <2>4 DEF Emettre
    <3>2. k \in 1 .. NbLignes[c]
      BY <3>1, CouranteEcrite, RequeteLigne DEF Ligne
    <3> HIDE DEF k
    <3>3. envoyes' = [envoyes EXCEPT ![c] = [envoyes[c] EXCEPT ![k] = envoyes[c][k] + 1]]
      BY <2>4 DEF Emettre, k
    <3>4. [envoyes[c] EXCEPT ![k] = envoyes[c][k] + 1] \in [1 .. NbLignes[c] -> Nat]
      <4>1. envoyes[c] \in [1 .. NbLignes[c] -> Nat]
        OBVIOUS
      <4> HIDE DEF Types
      <4> QED
        BY <3>2, <4>1
    <3>5. DOMAIN envoyes' = Clients /\ \A d \in Clients : envoyes'[d] \in [1 .. NbLignes[d] -> Nat]
      BY <3>3, <3>4
    <3>6. \A d \in Clients : /\ Len(rendus'[d]) <= ecrites'[d]
                             /\ EnAppel(d)' => Len(rendus'[d]) < ecrites'[d]
      BY <2>1, <2>4, <3>1 DEF Emettre, TypeOK
    <3>7. serveur' = "arret" => socket' = <<>>
      BY <2>4 DEF Emettre
    <3>8. UNCHANGED rendus
      BY <2>4 DEF Emettre
    <3> QED
      BY <2>2, <3>5, <3>6, <3>7, <3>8
  <2>5. CASE Recevoir(c) \/ Abandonner(c)
    <3>1. PICK r \in {"ok", "echec"} : Rendre(c, r)
      BY <2>5 DEF Recevoir, Abandonner
    <3>2. EnAppel(c)
      BY <2>5 DEF Recevoir, Abandonner
    <3>3. /\ Append(rendus[c], r) \in Seq({"ok", "echec"})
          /\ Len(Append(rendus[c], r)) = Len(rendus[c]) + 1
      BY AppendProperties
    <3>4. rendus' \in [Clients -> Seq({"ok", "echec"})]
      BY <3>1, <3>3 DEF Rendre
    <3>5. \A d \in Clients : /\ Len(rendus'[d]) <= ecrites'[d]
                             /\ EnAppel(d)' => Len(rendus'[d]) < ecrites'[d]
      BY <2>1, <2>2, <3>1, <3>2, <3>3 DEF Rendre, TypeOK
    <3>6. UNCHANGED <<socket, envoyes>>
      BY <2>5 DEF Recevoir, Abandonner
    <3>7. \A d \in Clients : /\ envoyes'[d] \in [1 .. NbLignes[d] -> Nat]
                            /\ \A i \in DOMAIN journal'[d] : journal'[d][i] \in 1 .. NbLignes[d]
      BY <2>2, <3>6
    <3>8. /\ programme' \in {"rpc", "java"} /\ ecrites' \in [Clients -> Nat]
          /\ journal' \in [Clients -> Seq(Nat)] /\ DOMAIN envoyes' = Clients
          /\ serveur' \in {"ecrire", "repondre"} <=> requete' # Aucune
          /\ serveur' = "arret" => socket' = <<>>
      BY <2>2, <3>6
    <3> QED
      BY <3>4, <3>5, <3>7, <3>8
  <2> QED
    BY <1>3, <2>3, <2>4, <2>5 DEF Client
<1>4. CASE Lancer \/ Serveur \/ Mourir
  <2>1. UNCHANGED <<programme, ecrites, client, rendus, envoyes>>
    BY <1>4 DEF Lancer, Serveur, Prendre, Ecrire, Repondre, Mourir
  <2>2. CASE Lancer
    BY <2>1, <2>2 DEF Lancer
  <2>3. CASE Prendre
    <3>1. Head(socket) # Aucune
      BY <2>3, HeadTailProperties, RequeteLigne DEF Prendre, TypeOK
    <3> QED
      BY <2>1, <2>3, <3>1 DEF Prendre
  <2>4. CASE Ecrire
    <3>1. /\ requete.de \in Clients /\ requete.no \in 1 .. NbLignes[requete.de] /\ requete.no \in Nat
          /\ requete # Aucune
      BY <2>4, RequeteLigne DEF Ecrire, TypeOK
    <3>2. Append(journal[requete.de], requete.no) \in Seq(Nat)
      BY <3>1, AppendProperties
    <3>3. \A i \in DOMAIN Append(journal[requete.de], requete.no) :
            Append(journal[requete.de], requete.no)[i] \in 1 .. NbLignes[requete.de]
      BY <3>1, <3>2, LenProperties, AppendProperties
    <3>4. journal' \in [Clients -> Seq(Nat)]
      BY <2>4, <3>1, <3>2 DEF Ecrire
    <3>5. \A c \in Clients : \A i \in DOMAIN journal'[c] : journal'[c][i] \in 1 .. NbLignes[c]
      BY <2>4, <3>1, <3>3 DEF Ecrire
    <3>6. serveur' = "repondre" /\ UNCHANGED <<requete, socket>>
      BY <2>4 DEF Ecrire
    <3> QED
      BY <2>1, <3>1, <3>4, <3>5, <3>6
  <2>5. CASE Repondre
    BY <2>1, <2>5 DEF Repondre
  <2>6. CASE Mourir
    BY <2>1, <2>6 DEF Mourir
  <2> QED
    BY <1>4, <2>2, <2>3, <2>4, <2>5, <2>6 DEF Serveur
<1> QED
  BY <1>1, <1>2, <1>3, <1>4 DEF Next

\* What the types say of the numbers of the lines, wherever they are
LEMMA Numeros ==
  ASSUME TypeOK, Types
  PROVE  /\ \A c \in Clients : /\ Len(rendus[c]) \in Nat /\ Courante(c).no \in Nat
                               /\ DOMAIN journal[c] = 1 .. Len(journal[c]) /\ Len(journal[c]) \in Nat
                               /\ \A i \in DOMAIN journal[c] : journal[c][i] \in Nat
         /\ DOMAIN socket = 1 .. Len(socket) /\ Len(socket) \in Nat
         /\ \A i \in DOMAIN socket : /\ socket[i] \in Requetes
                                     /\ socket[i].de \in Clients /\ socket[i].no \in Nat
         /\ requete # Aucune => requete \in Requetes /\ requete.de \in Clients /\ requete.no \in Nat
<1>1. ASSUME NEW c \in Clients
      PROVE  /\ Len(rendus[c]) \in Nat /\ Courante(c).no \in Nat
             /\ DOMAIN journal[c] = 1 .. Len(journal[c]) /\ Len(journal[c]) \in Nat
             /\ \A i \in DOMAIN journal[c] : journal[c][i] \in Nat
  <2>1. rendus[c] \in Seq({"ok", "echec"}) /\ journal[c] \in Seq(Nat)
    BY DEF Types
  <2> QED
    BY <2>1, LenProperties, ElementOfSeq DEF Courante
<1>2. DOMAIN socket = 1 .. Len(socket) /\ Len(socket) \in Nat
  BY LenProperties DEF TypeOK
<1>3. \A i \in DOMAIN socket : socket[i] \in Requetes
  BY <1>2, ElementOfSeq DEF TypeOK
<1> QED
  BY <1>1, <1>2, <1>3, RequeteLigne DEF TypeOK

(* The lines stay in order: what is sent is the current request, the last of
   all, and the server takes the requests and writes them as they came. *)
LEMMA PasOrdre ==
  ASSUME TypeOK, Types, Ordre, [Next]_vars
  PROVE  Ordre'
<1> USE Numeros DEF Ordre, Avant, cote, service, traces
<1>1. CASE UNCHANGED <<rendus, journal, socket, requete>>
  BY <1>1 DEF Courante
<1>2. ASSUME NEW c \in Clients, Emettre(c)
      PROVE  Ordre'
  <2>1. UNCHANGED <<rendus, journal, requete>>
    BY <1>2 DEF Emettre
  <2>2. \A d \in Clients : Courante(d)' = Courante(d)
    BY <2>1 DEF Courante
  <2>3. CASE UNCHANGED socket
    BY <1>1, <2>1, <2>3
  <2>4. CASE socket' = Append(socket, Courante(c))
    <3>1. Courante(c) \in Requetes /\ Courante(c).de = c
      BY <1>2, CouranteEcrite DEF Emettre, EnAppel, Courante
    <3>2. /\ DOMAIN socket' = 1 .. Len(socket) + 1
          /\ \A i \in 1 .. Len(socket) : socket'[i] = socket[i]
          /\ socket'[Len(socket) + 1] = Courante(c)
      <4>1. socket' \in Seq(Requetes) /\ Len(socket') = Len(socket) + 1
        BY <2>4, <3>1, AppendProperties DEF TypeOK
      <4> QED
        BY <2>4, <3>1, <4>1, LenProperties, AppendProperties DEF TypeOK
    <3>3. ASSUME NEW i \in DOMAIN socket'
          PROVE  /\ socket'[i].de \in Clients
                 /\ socket'[i].no <= Courante(socket'[i].de).no
                 /\ \A j \in DOMAIN journal[socket'[i].de] : journal[socket'[i].de][j] <= socket'[i].no
                 /\ requete # Aucune /\ requete.de = socket'[i].de => requete.no <= socket'[i].no
      <4>1. CASE i \in DOMAIN socket
        BY <3>2, <4>1
      <4>2. CASE i = Len(socket) + 1
        BY <3>1, <3>2, <4>2
      <4> QED
        BY <3>2, <4>1, <4>2
    <3>4. ASSUME NEW i \in DOMAIN socket', NEW j \in DOMAIN socket', i < j,
                 socket'[i].de = socket'[j].de
          PROVE  socket'[i].no <= socket'[j].no
      <4>1. i \in DOMAIN socket
        BY <3>2, <3>4
      <4>2. CASE j \in DOMAIN socket
        BY <3>2, <3>4, <4>1, <4>2
      <4>3. CASE j = Len(socket) + 1
        BY <3>1, <3>2, <3>4, <4>1, <4>3
      <4> QED
        BY <3>2, <4>2, <4>3
    <3> QED
      BY <2>1, <2>2, <3>3, <3>4
  <2> QED
    BY <1>2, <2>3, <2>4 DEF Emettre
<1>3. ASSUME NEW c \in Clients, Recevoir(c) \/ Abandonner(c)
      PROVE  Ordre'
  <2>1. UNCHANGED <<journal, socket, requete>>
    BY <1>3 DEF Recevoir, Abandonner
  <2>2. PICK r \in {"ok", "echec"} : Rendre(c, r)
    BY <1>3 DEF Recevoir, Abandonner
  <2>3. \A d \in Clients : Courante(d)'.no \in Nat /\ Courante(d)'.no >= Courante(d).no
    <3>1. Len(Append(rendus[c], r)) = Len(rendus[c]) + 1
      BY AppendProperties DEF Types
    <3> QED
      BY <2>2, <3>1 DEF Courante, Rendre, Types
  <2>4. \A d \in Clients : \A n \in Nat : n <= Courante(d).no => n <= Courante(d)'.no
    BY <2>3
  <2>5. \A d \in Clients : \A i \in DOMAIN journal[d] : journal[d][i] <= Courante(d)'.no
    BY <2>4
  <2>6. requete # Aucune => requete.no <= Courante(requete.de)'.no
    BY <2>1, <2>4
  <2>7. \A i \in DOMAIN socket : socket[i].no <= Courante(socket[i].de)'.no
    BY <2>1, <2>4
  <2> QED
    BY <2>1, <2>5, <2>6, <2>7
<1>4. CASE socket' = <<>> /\ requete' = Aucune /\ UNCHANGED <<rendus, journal>>
  BY <1>4 DEF Courante
<1>5. CASE Prendre
  <2>1. UNCHANGED <<rendus, journal>> /\ socket # <<>> /\ socket' = Tail(socket) /\ requete' = Head(socket)
    BY <1>5 DEF Prendre
  <2>2. \A d \in Clients : Courante(d)' = Courante(d)
    BY <2>1 DEF Courante
  <2>3. /\ DOMAIN socket' = 1 .. Len(socket) - 1
        /\ \A i \in 1 .. Len(socket) - 1 : socket'[i] = socket[i + 1]
        /\ requete' = socket[1] /\ 1 \in DOMAIN socket
    <3>1. socket' \in Seq(Requetes) /\ Len(socket') = Len(socket) - 1
      BY <2>1, HeadTailProperties DEF TypeOK
    <3>2. Len(socket) # 0
      BY <2>1, EmptySeq DEF TypeOK
    <3> QED
      BY <2>1, <3>1, <3>2, LenProperties, HeadTailProperties DEF TypeOK
  <2>4. \A i \in DOMAIN socket' : i + 1 \in DOMAIN socket /\ socket'[i] = socket[i + 1] /\ 1 < i + 1
    BY <2>3
  <2>5. requete'.no <= Courante(requete'.de).no
        /\ \A j \in DOMAIN journal[requete'.de] : journal[requete'.de][j] <= requete'.no
    BY <2>3
  <2>6. ASSUME NEW i \in DOMAIN socket'
        PROVE  /\ socket'[i].no <= Courante(socket'[i].de).no
               /\ \A j \in DOMAIN journal[socket'[i].de] : journal[socket'[i].de][j] <= socket'[i].no
               /\ requete'.de = socket'[i].de => requete'.no <= socket'[i].no
               /\ \A j \in DOMAIN socket' :
                    i < j /\ socket'[i].de = socket'[j].de => socket'[i].no <= socket'[j].no
    <3>1. \A j \in DOMAIN socket' : i < j => i + 1 < j + 1
      BY <2>3
    <3> QED
      BY <2>3, <2>4, <3>1
  <2>7. requete'.de \in Clients /\ \A i \in DOMAIN socket' : socket'[i].de \in Clients
    BY <2>3, <2>4
  <2> QED
    BY <2>1, <2>2, <2>5, <2>6, <2>7
<1>6. CASE Ecrire
  <2>1. UNCHANGED <<rendus, socket, requete>> /\ requete # Aucune
        /\ journal' = [journal EXCEPT ![requete.de] = Append(@, requete.no)]
    BY <1>6 DEF Ecrire, Types
  <2>2. \A d \in Clients : Courante(d)' = Courante(d)
    BY <2>1 DEF Courante
  <2> DEFINE c == requete.de
             l == Len(journal[c]) + 1
  <2>3. c \in Clients /\ requete.no \in Nat /\ journal[c] \in Seq(Nat)
    BY <2>1 DEF Types
  <2>4. /\ DOMAIN journal'[c] = 1 .. l
        /\ \A i \in DOMAIN journal[c] : journal'[c][i] = journal[c][i]
        /\ journal'[c][l] = requete.no
        /\ \A d \in Clients \ {c} : journal'[d] = journal[d]
    <3>1. journal'[c] = Append(journal[c], requete.no) /\ \A d \in Clients \ {c} : journal'[d] = journal[d]
      BY <2>1, <2>3 DEF Types
    <3>2. journal'[c] \in Seq(Nat) /\ Len(journal'[c]) = l
      BY <2>3, <3>1, AppendProperties
    <3> QED
      BY <2>3, <3>1, <3>2, LenProperties, AppendProperties
  <2>5. ASSUME NEW n \in Nat, requete.no <= n, \A i \in DOMAIN journal[c] : journal[c][i] <= n
        PROVE  \A i \in DOMAIN journal'[c] : journal'[c][i] <= n
    <3>1. \A i \in DOMAIN journal'[c] : i \in DOMAIN journal[c] \/ i = l
      BY <2>3, <2>4
    <3> QED
      BY <2>4, <2>5, <3>1
  <2>6. \A i, j \in DOMAIN journal'[c] : i < j => journal'[c][i] <= journal'[c][j]
    <3>1. \A i \in DOMAIN journal'[c] : i \in DOMAIN journal[c] \/ i = l
      BY <2>3, <2>4
    <3>2. \A i, j \in DOMAIN journal'[c] : i < j => i \in DOMAIN journal[c]
      BY <2>3, <2>4
    <3> QED
      BY <2>1, <2>3, <2>4, <3>1, <3>2
  <2> HIDE DEF c, l
  <2>7. ASSUME NEW d \in Clients
        PROVE  /\ \A i \in DOMAIN journal'[d] : journal'[d][i] <= Courante(d).no
               /\ \A i, j \in DOMAIN journal'[d] : i < j => journal'[d][i] <= journal'[d][j]
    <3>1. CASE d = c
      <4>1. requete.no <= Courante(c).no
        BY <2>1 DEF c
      <4> QED
        BY <2>3, <2>5, <2>6, <3>1, <4>1
    <3>2. CASE d # c
      BY <2>4, <3>2
    <3> QED
      BY <3>1, <3>2
  <2>8. \A i \in DOMAIN journal'[c] : journal'[c][i] <= requete.no
    <3>1. requete.no <= requete.no /\ \A i \in DOMAIN journal[c] : journal[c][i] <= requete.no
      BY <2>1, <2>3 DEF c
    <3> QED
      BY <2>3, <2>5, <3>1
  <2>9. ASSUME NEW i \in DOMAIN socket
        PROVE  \A j \in DOMAIN journal'[socket[i].de] : journal'[socket[i].de][j] <= socket[i].no
    <3>1. CASE socket[i].de = c
      <4>1. requete.no <= socket[i].no
        BY <2>1, <3>1 DEF c
      <4> QED
        BY <2>5, <3>1, <4>1
    <3>2. CASE socket[i].de # c
      BY <2>4, <3>2
    <3> QED
      BY <3>1, <3>2
  <2> QED
    BY <2>1, <2>2, <2>3, <2>7, <2>8, <2>9 DEF c
<1>7. CASE Repondre
  <2>1. UNCHANGED <<rendus, journal, socket>> /\ requete' = Aucune
    BY <1>7 DEF Repondre
  <2> QED
    BY <2>1 DEF Courante
<1>8. [Next]_vars =>
        \/ UNCHANGED <<rendus, journal, socket, requete>>
        \/ \E c \in Clients : Emettre(c) \/ Recevoir(c) \/ Abandonner(c)
        \/ socket' = <<>> /\ requete' = Aucune /\ UNCHANGED <<rendus, journal>>
        \/ Prendre \/ Ecrire \/ Repondre
  BY DEF Next, vars, Mylog, Client, Creer, Lancer, Serveur, Mourir
<1> HIDE DEF Ordre
<1> QED
  BY <1>1, <1>2, <1>3, <1>4, <1>5, <1>6, <1>7, <1>8

\* How a step changes the log, if it does
LEMMA PasJournal ==
  ASSUME TypeOK, Types, [Next]_vars
  PROVE  UNCHANGED journal \/ Ecrire
BY DEF Next, vars, Mylog, Client, Creer, Emettre, Recevoir, Abandonner, Lancer, Serveur, Prendre, Repondre,
       Mourir, traces

\* What fprintf appends
LEMMA EcrireAjoute ==
  ASSUME TypeOK, Types, Ecrire
  PROVE  /\ requete \in Requetes /\ requete.de \in Clients /\ requete.no \in Nat
         /\ journal'[requete.de] = Append(journal[requete.de], requete.no)
         /\ \A c \in Clients \ {requete.de} : journal'[c] = journal[c]
         /\ serveur' = "repondre" /\ UNCHANGED <<requete, socket, envoyes, rendus, client, reponse>>
<1>1. requete # Aucune
  BY DEF Ecrire, Types
<1> QED
  BY <1>1, Numeros DEF Ecrire, Types, cote

\* A line that is in the log stays there.
LEMMA EcritReste ==
  ASSUME TypeOK, Types, [Next]_vars, NEW c \in Clients, NEW k, Ecrite(c, k)
  PROVE  Ecrite(c, k)'
<1>1. CASE UNCHANGED journal
  BY <1>1 DEF Ecrite
<1>2. CASE Ecrire
  <2>1. CASE c = requete.de
    <3>1. journal'[c] = Append(journal[c], requete.no) /\ requete.no \in Nat /\ journal[c] \in Seq(Nat)
      BY <1>2, <2>1, EcrireAjoute DEF Types
    <3>2. /\ DOMAIN journal'[c] = 1 .. Len(journal[c]) + 1
          /\ \A i \in DOMAIN journal[c] : journal'[c][i] = journal[c][i]
          /\ DOMAIN journal[c] = 1 .. Len(journal[c]) /\ Len(journal[c]) \in Nat
      <4>1. journal'[c] \in Seq(Nat) /\ Len(journal'[c]) = Len(journal[c]) + 1
        BY <3>1, AppendProperties
      <4> QED
        BY <3>1, <4>1, LenProperties, AppendProperties
    <3> QED
      BY <3>2 DEF Ecrite
  <2>2. CASE c # requete.de
    BY <1>2, <2>2, EcrireAjoute DEF Ecrite
  <2> QED
    BY <2>1, <2>2
<1> QED
  BY <1>1, <1>2, PasJournal

(* No answer is ahead of its line: the service writes before it answers, the
   answer reaches the call it was asked by, and a call that ends well had its
   answer. *)
LEMMA PasReponses ==
  ASSUME TypeOK, Types, Reponses, [Next]_vars
  PROVE  Reponses'
<1> USE DEF EnAppel, cote, service, traces, AllerC
<1> DEFINE R(c) == /\ EnAppel(c) /\ reponse[c] => Ecrite(c, Courante(c).no)
                   /\ \A k \in DOMAIN rendus[c] : rendus[c][k] = "ok" => Ecrite(c, k)
<1>a. \A c \in Clients : R(c)
  BY DEF Reponses
<1>b. ASSUME NEW c \in Clients, UNCHANGED <<client[c], reponse[c], rendus[c]>>
      PROVE  R(c)'
  <2>1. UNCHANGED Courante(c)
    BY <1>b DEF Courante
  <2>2. EnAppel(c)' /\ reponse'[c] => Ecrite(c, Courante(c).no)'
    BY <1>a, <1>b, <2>1, EcritReste
  <2>3. \A k \in DOMAIN rendus'[c] : rendus'[c][k] = "ok" => Ecrite(c, k)'
    BY <1>a, <1>b, EcritReste
  <2> QED
    BY <2>2, <2>3
<1>1. ASSUME NEW c \in Clients
      PROVE  R(c)'
  <2>1. CASE UNCHANGED <<client, reponse, rendus>>
    BY <1>b, <2>1
  <2>2. ASSUME NEW d \in Clients, Client(d)
        PROVE  R(c)'
    <3>1. CASE c # d
      <4>1. UNCHANGED <<client[c], reponse[c], rendus[c]>>
        BY <2>2, <3>1 DEF TypeOK, Types, Client, Creer, Emettre, Recevoir, Abandonner, Rendre
      <4> QED
        BY <1>b, <4>1
    <3>2. CASE c = d /\ (Creer(d) \/ Emettre(d))
      <4>1. ~ reponse'[c] /\ rendus' = rendus
        BY <3>2 DEF TypeOK, Creer, Emettre
      <4>2. \A k \in DOMAIN rendus'[c] : rendus'[c][k] = "ok" => Ecrite(c, k)'
        BY <1>a, <4>1, EcritReste
      <4> QED
        BY <4>1, <4>2
    <3>3. CASE c = d /\ (Recevoir(d) \/ Abandonner(d))
      <4>1. PICK r \in {"ok", "echec"} : /\ rendus'[c] = Append(rendus[c], r) /\ client'[c] = "libre"
                                         /\ r = "ok" => EnAppel(c) /\ reponse[c]
        BY <3>3 DEF TypeOK, Types, Recevoir, Abandonner, Rendre
      <4>2. /\ Len(rendus[c]) \in Nat /\ DOMAIN rendus[c] = 1 .. Len(rendus[c])
            /\ DOMAIN rendus'[c] = 1 .. Len(rendus[c]) + 1
            /\ \A k \in DOMAIN rendus[c] : rendus'[c][k] = rendus[c][k]
            /\ rendus'[c][Len(rendus[c]) + 1] = r
        <5>1. rendus[c] \in Seq({"ok", "echec"})
          BY DEF Types
        <5>2. rendus'[c] \in Seq({"ok", "echec"}) /\ Len(rendus'[c]) = Len(rendus[c]) + 1
          BY <4>1, <5>1, AppendProperties
        <5> QED
          BY <4>1, <5>1, <5>2, LenProperties, AppendProperties
      <4>3. ASSUME NEW k, k = Len(rendus[c]) + 1, r = "ok"
            PROVE  Ecrite(c, k)'
        BY <1>a, <4>1, <4>3, EcritReste DEF Courante
      <4>4. ASSUME NEW k \in DOMAIN rendus'[c], rendus'[c][k] = "ok"
            PROVE  Ecrite(c, k)'
        <5>1. CASE k \in DOMAIN rendus[c]
          BY <1>a, <4>2, <4>4, <5>1, EcritReste
        <5>2. CASE k = Len(rendus[c]) + 1
          BY <4>2, <4>3, <4>4, <5>2
        <5> QED
          BY <4>2, <5>1, <5>2
      <4> QED
        BY <4>1, <4>4
    <3> QED
      BY <2>2, <3>1, <3>2, <3>3 DEF Client
  <2>3. CASE Repondre
    <3>1. UNCHANGED <<client, rendus>> /\ serveur = "repondre"
          /\ (reponse'[c] => reponse[c] \/ (c = requete.de /\ requete = Courante(c)))
      BY <2>3 DEF Repondre, Destinataire, TypeOK
    <3>2. Ecrite(requete.de, requete.no)
      BY <3>1 DEF Reponses
    <3>3. UNCHANGED Courante(c)
      BY <3>1 DEF Courante
    <3>4. EnAppel(c)' /\ reponse'[c] => Ecrite(c, Courante(c).no)
      BY <1>a, <3>1, <3>2, <3>3
    <3>5. EnAppel(c)' /\ reponse'[c] => Ecrite(c, Courante(c).no)'
      BY <3>3, <3>4, EcritReste
    <3>6. \A k \in DOMAIN rendus'[c] : rendus'[c][k] = "ok" => Ecrite(c, k)'
      BY <1>a, <3>1, EcritReste
    <3> QED
      BY <3>5, <3>6
  <2> QED
    BY <2>1, <2>2, <2>3 DEF Next, vars, Mylog, Lancer, Serveur, Prendre, Ecrire, Mourir
<1>2. serveur' = "repondre" => Ecrite(requete.de, requete.no)'
  <2>1. CASE UNCHANGED <<serveur, requete>>
    <3>1. serveur = "repondre" => requete.de \in Clients
      BY Numeros DEF Types
    <3>2. serveur = "repondre" => Ecrite(requete.de, requete.no)
      BY DEF Reponses
    <3>3. \A k : \A c \in Clients : Ecrite(c, k) => Ecrite(c, k)'
      BY EcritReste
    <3> QED
      BY <2>1, <3>1, <3>2, <3>3 DEF Ecrite
  <2>2. CASE Ecrire
    <3> DEFINE c == requete.de
               l == Len(journal[c]) + 1
    <3>1. journal[c] \in Seq(Nat) /\ requete.no \in Nat /\ UNCHANGED requete
      BY <2>2, EcrireAjoute DEF Types
    <3>2. journal'[c] = Append(journal[c], requete.no)
      BY <2>2, EcrireAjoute
    <3>3. journal'[c] \in Seq(Nat) /\ Len(journal'[c]) = l /\ journal'[c][l] = requete.no /\ l \in 1 .. l
      BY <3>1, <3>2, AppendProperties, LenProperties
    <3>4. l \in DOMAIN journal'[c]
      BY <3>3, LenProperties
    <3> QED
      BY <3>1, <3>3, <3>4 DEF Ecrite
  <2>3. serveur' # "repondre" \/ UNCHANGED <<serveur, requete>> \/ Ecrire
    BY DEF Next, vars, Mylog, Client, Creer, Emettre, Recevoir, Abandonner, Lancer, Serveur, Prendre, Repondre,
           Mourir
  <2> QED
    BY <2>1, <2>2, <2>3
<1> HIDE DEF R
<1>3. \A c \in Clients : R(c)'
  BY <1>1
<1> QED
  BY <1>2, <1>3 DEF Reponses, R

(* A line is in the log at most as often as it was sent: the server writes what
   it took, and takes what was sent. *)
LEMMA PasComptes ==
  ASSUME TypeOK, Types, Comptes, [Next]_vars
  PROVE  Comptes'
<1> SUFFICES ASSUME NEW c \in Clients, NEW k \in 1 .. NbLignes[c]
             PROVE  (Occurrences(journal[c], k) + EnMain(Ligne(c, k)) + Occurrences(socket, Ligne(c, k))
                       <= envoyes[c][k])'
  BY DEF Comptes
<1> DEFINE r == Ligne(c, k)
           J == Occurrences(journal[c], k)
           M == EnMain(r)
           S == Occurrences(socket, r)
           E == envoyes[c][k]
<1>1. J + M + S <= E
  BY DEF Comptes
<1>2. J \in Nat /\ M \in Nat /\ S \in Nat /\ E \in Nat
  BY OccurrencesFinies DEF Types, TypeOK, EnMain
<1>3. CASE UNCHANGED <<journal, serveur, requete, socket, envoyes>>
  BY <1>1, <1>3 DEF EnMain
<1>4. ASSUME NEW d \in Clients, Emettre(d)
      PROVE  (J + M + S <= E)'
  <2>1. UNCHANGED <<J, M>>
    BY <1>4 DEF Emettre, EnMain
  <2>2. EnAppel(d) /\ Courante(d) \in Requetes /\ Courante(d) = Ligne(d, Courante(d).no)
        /\ Courante(d).no \in 1 .. NbLignes[d]
    BY <1>4, CouranteEcrite, RequeteLigne DEF Emettre, EnAppel, Ligne
  <2>3. \/ UNCHANGED S
        \/ S' = S + (IF Courante(d) = r THEN 1 ELSE 0)
    <3>1. socket \in Seq(Requetes)
      BY DEF TypeOK
    <3>2. socket' = socket \/ socket' = Append(socket, Courante(d))
      BY <1>4 DEF Emettre
    <3>3. Occurrences(Append(socket, Courante(d)), r) = S + (IF Courante(d) = r THEN 1 ELSE 0)
      BY <2>2, <3>1, OccurrencesAjout
    <3> QED
      BY <3>2, <3>3
  <2>4. E' = IF Courante(d) = r THEN E + 1 ELSE E
    <3>1. envoyes' = [envoyes EXCEPT ![d] = [envoyes[d] EXCEPT ![Courante(d).no] = envoyes[d][Courante(d).no] + 1]]
      BY <1>4 DEF Emettre
    <3>2. CASE Courante(d) = r
      <4>1. d = c /\ Courante(d).no = k
        BY <2>2, <3>2 DEF Ligne
      <4> QED
        BY <3>1, <3>2, <4>1 DEF Types
    <3>3. CASE Courante(d) # r
      <4>1. d # c \/ Courante(d).no # k
        BY <2>2, <3>3
      <4> QED
        BY <3>1, <3>3, <4>1 DEF Types
    <3> QED
      BY <3>2, <3>3
  <2> QED
    BY <1>1, <1>2, <2>1, <2>3, <2>4
<1>5. CASE Prendre
  <2>1. UNCHANGED <<J, E>>
    BY <1>5 DEF Prendre, traces
  <2>2. M = 0 /\ M' = IF Head(socket) = r THEN 1 ELSE 0
    BY <1>5 DEF Prendre, EnMain
  <2>3. S = S' + (IF Head(socket) = r THEN 1 ELSE 0)
    BY <1>5, OccurrencesRetrait DEF Prendre, TypeOK
  <2>4. S' \in Nat
    BY <1>5, OccurrencesFinies, HeadTailProperties DEF Prendre, TypeOK
  <2> QED
    BY <1>1, <1>2, <2>1, <2>2, <2>3, <2>4
<1>6. CASE Ecrire
  <2>1. UNCHANGED <<S, E>>
    BY <1>6, EcrireAjoute
  <2>2. M' = 0 /\ M = IF requete = r THEN 1 ELSE 0
    BY <1>6, EcrireAjoute DEF Ecrire, EnMain
  <2>3. J' = J + (IF requete = r THEN 1 ELSE 0)
    <3>1. requete = Ligne(requete.de, requete.no)
      BY <1>6, EcrireAjoute, RequeteLigne
    <3>2. requete = r <=> requete.de = c /\ requete.no = k
      BY <3>1 DEF Ligne
    <3>3. CASE requete.de = c
      <4>1. J' = J + (IF requete.no = k THEN 1 ELSE 0)
        <5>1. journal[c] \in Seq(Nat) /\ requete.no \in Nat /\ journal'[c] = Append(journal[c], requete.no)
          BY <1>6, <3>3, EcrireAjoute DEF Types
        <5> QED
          BY <5>1, OccurrencesAjout
      <4> QED
        BY <3>2, <3>3, <4>1
    <3>4. CASE requete.de # c
      <4>1. J' = J
        BY <1>6, <3>4, EcrireAjoute
      <4> QED
        BY <1>2, <3>2, <3>4, <4>1
    <3> QED
      BY <3>3, <3>4
  <2> QED
    BY <1>1, <1>2, <2>1, <2>2, <2>3
<1>7. CASE Repondre
  <2>1. UNCHANGED <<J, S, E>> /\ M' = 0
    BY <1>7 DEF Repondre, traces, EnMain
  <2> QED
    BY <1>1, <1>2, <2>1
<1>8. CASE Lancer \/ Mourir
  <2>1. UNCHANGED <<J, E>> /\ M' = 0 /\ socket' = <<>>
    BY <1>8 DEF Lancer, Mourir, traces, EnMain
  <2>2. S' = 0
    BY <2>1, OccurrencesVide
  <2> QED
    BY <1>1, <1>2, <2>1, <2>2
<1> QED
  BY <1>3, <1>4, <1>5, <1>6, <1>7, <1>8 DEF Next, vars, Mylog, Client, Creer, Recevoir, Abandonner, Serveur,
     service, traces
-----------------------------------------------------------------------------
(* What the datagrams promise, however many are lost and however often the
   server dies: a line whose call succeeded is in the log, no line is there
   more often than it was sent, and the lines of a client are in order
   (trace_client.c:27-31, trace_server.c:14-27). *)
THEOREM JournalFideleVrai == Spec => []JournalFidele
<1>1. Init => IInv
  <2> SUFFICES ASSUME Init
               PROVE  IInv
    OBVIOUS
  <2> USE DatagrammesHypothese DEF Init
  <2>1. TypeOK
    <3>1. <<>> \in Seq(Requetes) /\ Len(<<>>) = 0 /\ 0 \in 0 .. MaxPannes /\ 0 \in 0 .. MaxEssais
      BY EmptySeq
    <3>2. \A c \in Clients : ecrites[c] \in 0 .. Total(c)
      BY DEF Total
    <3> QED
      BY <3>1, <3>2 DEF TypeOK
  <2>2. Types
    <3>1. <<>> \in Seq({"ok", "echec"}) /\ <<>> \in Seq(Nat) /\ Len(<<>>) = 0 /\ DOMAIN <<>> = {}
      BY EmptySeq
    <3>2. \A c \in Clients : envoyes[c] \in [1 .. NbLignes[c] -> Nat]
      OBVIOUS
    <3> QED
      BY <3>1, <3>2 DEF Types, EnAppel
  <2>3. Ordre /\ Reponses
    BY DEF Ordre, Avant, Reponses, Ecrite
  <2>4. Comptes
    BY OccurrencesVide DEF Comptes, EnMain
  <2> QED
    BY <2>1, <2>2, <2>3, <2>4 DEF IInv
<1>2. IInv /\ [Next]_vars => IInv'
  BY PasType, PasTypes, PasOrdre, PasReponses, PasComptes DEF IInv
<1>3. IInv => JournalFidele
  <2> SUFFICES ASSUME IInv
               PROVE  JournalFidele
    OBVIOUS
  <2>1. ASSUME NEW c \in Clients
        PROVE  /\ \A k : Fois(c, k) = Occurrences(journal[c], k)
               /\ journal[c] \in Seq(Nat)
    BY DEF IInv, Types, Fois, Occurrences
  <2>2. ASSUME NEW c \in Clients, NEW k \in DOMAIN rendus[c], rendus[c][k] = "ok"
        PROVE  Fois(c, k) > 0
    BY <2>1, <2>2, OccurrencesPresence DEF IInv, Reponses, Ecrite
  <2>3. ASSUME NEW c \in Clients, NEW k \in 1 .. NbLignes[c]
        PROVE  Fois(c, k) <= envoyes[c][k]
    <3>1. Occurrences(journal[c], k) + EnMain(Ligne(c, k)) + Occurrences(socket, Ligne(c, k)) <= envoyes[c][k]
      BY DEF IInv, Comptes
    <3>2. /\ Occurrences(journal[c], k) \in Nat /\ Occurrences(socket, Ligne(c, k)) \in Nat
          /\ EnMain(Ligne(c, k)) \in Nat /\ envoyes[c][k] \in Nat
      BY <2>1, OccurrencesFinies DEF IInv, TypeOK, Types, EnMain
    <3> QED
      BY <2>1, <3>1, <3>2
  <2> QED
    BY <2>2, <2>3 DEF JournalFidele, IInv, Ordre
<1> QED
  BY <1>1, <1>2, <1>3, PTL DEF Spec
=============================================================================
