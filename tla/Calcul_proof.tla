---------------------------- MODULE Calcul_proof ----------------------------
(***************************************************************************)
(* Proofs about Calcul, for every number of processes, every bound on the  *)
(* clocks and every content of the uninitialised array, and about the      *)
(* network under it (module Transport, under the name TR of its instance), *)
(* for every number of processes and every bound on its queues.            *)
(***************************************************************************)
EXTENDS Calcul, MCTransport, FunctionTheorems, FiniteSetTheorems, SequenceTheorems,
        WellFoundedInduction, TLAPS

-----------------------------------------------------------------------------
(* The queue. *)

(* The smallest number of a non-empty set of naturals is one of its members. *)
LEMMA MinNat ==
  ASSUME NEW S \in SUBSET Nat, S # {}
  PROVE  Min(S) \in S
<1> DEFINE R == {s \in Nat \X Nat : s[1] < s[2]}
<1>1. IsWellFoundedOn(R, Nat)
  BY NatLessThanWellFounded DEF OpToRel
<1>2. \A x, y \in Nat : y < x => <<y, x>> \in R
  OBVIOUS
<1> HIDE DEF R
<1>3. PICK x \in S : \A y \in S : ~ (<<y, x>> \in R)
  BY <1>1, WFMin
<1>4. ASSUME NEW y \in S
      PROVE  x <= y
  <2>1. x \in Nat /\ y \in Nat
    OBVIOUS
  <2>2. ~ (y < x)
    BY <1>2, <1>3, <2>1
  <2> QED
    BY <2>1, <2>2
<1> QED
  BY <1>4 DEF Min

(* Storing a request keeps the array an array of items: calcul.c:94-104
   writes no slot with anything but the request or another slot. *)
LEMMA RangerType ==
  ASSUME NEW f \in Files, NEW n \in Nat, NEW r \in Item,
         PlacesPossibles(f, n, r.horloge) # {}
  PROVE  Ranger(f, n, r) \in Files
<1> DEFINE i == Min(PlacesPossibles(f, n, r.horloge))
<1>1. i \in Nat
  <2>1. PlacesPossibles(f, n, r.horloge) \in SUBSET Nat
    BY DEF PlacesPossibles
  <2> QED
    BY <2>1, MinNat
<1>2. ASSUME NEW j \in Emplacements, j \in (i + 2) .. (n + 1)
      PROVE  f[j - 1] \in Item
  BY <1>1, <1>2, TailleQueueHypothese DEF Files, Emplacements
<1> HIDE DEF i
<1>3. Ranger(f, n, r) = [j \in Emplacements |->
         IF j = i THEN r
         ELSE IF j \in (i + 2) .. (n + 1) THEN f[j - 1]
         ELSE f[j]]
  BY DEF Ranger, i
<1> QED
  BY <1>2, <1>3 DEF Files

(* Removing the first element keeps it an array of items. *)
LEMMA RetirerType ==
  ASSUME NEW f \in Files, NEW n \in Int, n <= TailleQueue
  PROVE  RetirerPremiere(f, n) \in Files
  BY TailleQueueHypothese DEF RetirerPremiere, Files, Emplacements

-----------------------------------------------------------------------------
(* There are N * MaxHorloge requests at most. *)
LEMMA NombreDeRequetes ==
  /\ IsFiniteSet(Requetes)
  /\ Cardinality(Requetes) = N * MaxHorloge
<1> DEFINE P == Proc \X (1 .. MaxHorloge)
<1> DEFINE f == [c \in P |-> Req(c[1], c[2])]
<1>1. IsFiniteSet(Proc) /\ Cardinality(Proc) = N
  BY FS_Interval, NHypothese DEF Proc
<1>2. IsFiniteSet(1 .. MaxHorloge) /\ Cardinality(1 .. MaxHorloge) = MaxHorloge
  BY FS_Interval, MaxHorlogeHypothese
<1>3. IsFiniteSet(P) /\ Cardinality(P) = N * MaxHorloge
  BY <1>1, <1>2, FS_Product
<1>4. f \in [P -> Requetes]
  BY DEF Requetes, Req
<1>5. \A a, b \in P : f[a] = f[b] => a = b
  BY DEF Req
<1>6. \A r \in Requetes : \E c \in P : f[c] = r
  <2>1. ASSUME NEW r \in Requetes
        PROVE  <<r.de, r.tour>> \in P /\ f[<<r.de, r.tour>>] = r
    BY DEF Requetes, Req
  <2> QED
    BY <2>1
<1> HIDE DEF f, P
<1>7. f \in Bijection(P, Requetes)
  BY <1>4, <1>5, <1>6, Fun_IsBij
<1> QED
  BY <1>3, <1>7, FS_Bijection DEF ExistsBijection

(* Every slot the code reads or writes, queue[queueIndex + 1] included, is in
   the array. *)
LEMMA IndexBorne ==
  ASSUME TypeOK, InvRegistres, NEW q \in Proc
  PROVE  queueIndex[q] \in Nat /\ queueIndex[q] + 1 < TailleQueue
<1>1. enregistrees[q] \in SUBSET Requetes
  BY DEF TypeOK
<1>2. Cardinality(enregistrees[q]) <= N * MaxHorloge
  BY <1>1, NombreDeRequetes, FS_Subset
<1>3. Cardinality(enregistrees[q]) \in Nat
  BY FS_CardinalityType DEF InvRegistres
<1> QED
  BY <1>2, <1>3, PlaceHypothese, NHypothese, MaxHorlogeHypothese, TailleQueueHypothese
     DEF InvRegistres

-----------------------------------------------------------------------------
(* The steps.  One lemma per part of the invariant, one case per action. *)

(* Types are preserved; for the array this needs queueIndex to stay inside. *)
LEMMA PasType ==
  ASSUME TypeOK, Inv, [Next]_vars
  PROVE  TypeOK'
<1> USE NHypothese, MaxHorlogeHypothese DEF TypeOK
<1>1. CASE UNCHANGED vars
  BY <1>1 DEF TypeOK, vars, code, histoire
<1>2. ASSUME NEW p \in Proc, NEW m \in reseau[p], RecevoirReply(p, m)
      PROVE  TypeOK'
  <2>1. m \in Messages /\ m.de \in Proc /\ m.tour \in 0 .. MaxHorloge
    BY DEF Messages
  <2>2. compteurReply[p] + 1 <= N
    BY <1>2 DEF RecevoirReply, Lire, Inv, InvRepondants
  <2> QED
    BY <2>1, <2>2, <1>2 DEF RecevoirReply, Sans
<1>3. ASSUME NEW p \in Proc, NEW m \in reseau[p], RecevoirRelease(p, m)
      PROVE  TypeOK'
  <2>1. m \in Messages /\ m.de \in Proc /\ m.tour \in 0 .. MaxHorloge
    BY DEF Messages
  <2>2. Req(m.de, m.tour) \in Requetes
    BY <1>3 DEF RecevoirRelease, Retirer, Lire, Inv, InvRelease
  <2>3. RetirerPremiere(queue[p], queueIndex[p]) \in Files
    BY IndexBorne, RetirerType, TailleQueueHypothese DEF Inv
  <2>4. queue' \in [Proc -> Files]
    BY <2>3, <1>3 DEF RecevoirRelease, Retirer
  <2>5. enregistrees' \in [Proc -> SUBSET Requetes] /\ liberees' \in [Proc -> SUBSET Requetes]
    BY <2>2, <1>3 DEF RecevoirRelease, Retirer
  <2> QED
    BY <2>4, <2>5, <1>3 DEF RecevoirRelease, Retirer, Sans
<1>4. ASSUME NEW p \in Proc, NEW m \in reseau[p], StockerRequest(p, m)
      PROVE  TypeOK'
  <2>1. m \in Messages /\ m.de \in Proc /\ m.tour \in 0 .. MaxHorloge
    BY DEF Messages
  <2>2. Req(m.de, m.tour) \in Requetes
    <3>1. m.tour >= 1
      BY <2>1, <1>4 DEF StockerRequest, Lire, Inv, InvRequest, InvHorloge
    <3> QED
      BY <2>1, <3>1 DEF Req, Requetes
  <2>3. [pid |-> m.de, horloge |-> m.tour] \in Item
    BY <2>1 DEF Item, Proc
  <2>4. Ranger(queue[p], queueIndex[p], [pid |-> m.de, horloge |-> m.tour]) \in Files
    BY <2>3, <1>4, IndexBorne, RangerType DEF StockerRequest, Inv
  <2>5. queue' \in [Proc -> Files]
    BY <2>4, <1>4 DEF StockerRequest
  <2>6. Msg("REPLY", p, m.tour) \in Messages
    BY <2>1 DEF Msg, Messages, Types
  <2>7. reseau' \in [Proc -> SUBSET Messages]
    BY <2>6, <1>4 DEF StockerRequest, Sans, Vers
  <2>8. enregistrees' \in [Proc -> SUBSET Requetes]
    BY <2>2, <1>4 DEF StockerRequest
  <2> QED
    BY <2>5, <2>7, <2>8, <1>4 DEF StockerRequest
<1>5. ASSUME NEW p \in Proc, NEW m \in reseau[p], PerdreRequest(p, m)
      PROVE  TypeOK'
  <2>1. m \in Messages /\ m.de \in Proc /\ m.tour \in 0 .. MaxHorloge
    BY DEF Messages
  <2>2. Req(m.de, m.tour) \in Requetes
    <3>1. m.tour >= 1
      BY <2>1, <1>5 DEF PerdreRequest, Lire, Inv, InvRequest, InvHorloge
    <3> QED
      BY <2>1, <3>1 DEF Req, Requetes
  <2> QED
    BY <2>2, <1>5 DEF PerdreRequest, Sans
<1>6. ASSUME NEW p \in Proc, NEW m \in reseau[p], RecevoirMessage(p, m)
      PROVE  TypeOK'
  BY <1>6 DEF Inv, RecevoirMessage, Lire, Sans, Vers, VersTous, DernierReply, histoire, Msg, Req, Messages, Requetes, Types
<1>7. ASSUME NEW p \in Proc, SectionCritique(p)
      PROVE  TypeOK'
  BY <1>7 DEF Inv, SectionCritique, DiffuserRelease, Reset, Lire, Sans, Vers, VersTous, DernierReply, histoire, Msg, Req, Messages, Requetes, Types
<1>8. ASSUME NEW p \in Proc, ActionLocale(p)
      PROVE  TypeOK'
  BY <1>8 DEF Inv, ActionLocale, Lire, Sans, Vers, VersTous, DernierReply, histoire, Msg, Req, Messages, Requetes, Types
<1>9. ASSUME NEW p \in Proc, EnvoiMessage(p)
      PROVE  TypeOK'
  BY <1>9 DEF Inv, EnvoiMessage, Lire, Sans, Vers, VersTous, DernierReply, histoire, Msg, Req, Messages, Requetes, Types
<1>10. ASSUME NEW p \in Proc, DemandeSC(p)
      PROVE  TypeOK'
  BY <1>10 DEF Inv, DemandeSC, Lire, Sans, Vers, VersTous, DernierReply, histoire, Msg, Req, Messages, Requetes, Types
<1>11. ASSUME NEW p \in Proc, DemandeEnCours(p)
      PROVE  TypeOK'
  BY <1>11 DEF Inv, DemandeEnCours, Lire, Sans, Vers, VersTous, DernierReply, histoire, Msg, Req, Messages, Requetes, Types
<1> QED
  BY <1>1, <1>2, <1>3, <1>4, <1>5, <1>6, <1>7, <1>8, <1>9, <1>10, <1>11 DEF Next, Etape, Lecture, Action

(* A request is stamped with a clock value the process has reached. *)
LEMMA PasHorloge ==
  ASSUME TypeOK, Inv, [Next]_vars
  PROVE  InvHorloge'
<1> USE MaxHorlogeHypothese DEF TypeOK, Inv
<1>1. CASE UNCHANGED vars
  BY <1>1 DEF InvHorloge, vars, code, histoire
<1>2. ASSUME NEW p \in Proc, NEW m \in reseau[p], RecevoirReply(p, m)
      PROVE  InvHorloge'
  BY <1>2 DEF InvHorloge, RecevoirReply, Lire, Sans, Msg, DernierReply
<1>3. ASSUME NEW p \in Proc, NEW m \in reseau[p], RecevoirRelease(p, m)
      PROVE  InvHorloge'
  BY <1>3 DEF InvHorloge, RecevoirRelease, Retirer, Lire, Sans, Msg
<1>4. ASSUME NEW p \in Proc, NEW m \in reseau[p], StockerRequest(p, m)
      PROVE  InvHorloge'
  BY <1>4 DEF InvHorloge, StockerRequest, Lire, Sans, Vers, Msg
<1>5. ASSUME NEW p \in Proc, NEW m \in reseau[p], PerdreRequest(p, m)
      PROVE  InvHorloge'
  BY <1>5 DEF InvHorloge, PerdreRequest, Lire, Sans, Msg
<1>6. ASSUME NEW p \in Proc, NEW m \in reseau[p], RecevoirMessage(p, m)
      PROVE  InvHorloge'
  BY <1>6 DEF InvHorloge, RecevoirMessage, Lire, Sans, Msg, histoire
<1>7. ASSUME NEW p \in Proc, SectionCritique(p)
      PROVE  InvHorloge'
  BY <1>7 DEF InvHorloge, SectionCritique, DiffuserRelease, Reset, VersTous, Msg
<1>8. ASSUME NEW p \in Proc, ActionLocale(p)
      PROVE  InvHorloge'
  BY <1>8 DEF InvHorloge, ActionLocale, histoire
<1>9. ASSUME NEW p \in Proc, EnvoiMessage(p)
      PROVE  InvHorloge'
  BY <1>9 DEF InvHorloge, EnvoiMessage, Vers, Msg, histoire
<1>10. ASSUME NEW p \in Proc, DemandeSC(p)
      PROVE  InvHorloge'
  BY <1>10 DEF InvHorloge, DemandeSC, VersTous, Msg
<1>11. ASSUME NEW p \in Proc, DemandeEnCours(p)
      PROVE  InvHorloge'
  BY <1>11 DEF InvHorloge, DemandeEnCours, histoire
<1> QED
  BY <1>1, <1>2, <1>3, <1>4, <1>5, <1>6, <1>7, <1>8, <1>9, <1>10, <1>11 DEF Next, Etape, Lecture, Action

(* A REQUEST in transit to q is the pending one of its sender, and q has done
   nothing about it yet. *)
LEMMA PasRequest ==
  ASSUME TypeOK, Inv, [Next]_vars
  PROVE  InvRequest'
<1> USE MaxHorlogeHypothese DEF TypeOK, Inv
<1>1. CASE UNCHANGED vars
  BY <1>1 DEF InvRequest, vars, code, histoire, Courante
<1>2. ASSUME NEW p \in Proc, NEW m \in reseau[p], RecevoirReply(p, m)
      PROVE  InvRequest'
  BY <1>2 DEF InvRequest, InvReply, InvRepondants, Messages, RecevoirReply, Lire, Sans, Msg, DernierReply
<1>3. ASSUME NEW p \in Proc, NEW m \in reseau[p], RecevoirRelease(p, m)
      PROVE  InvRequest'
  <2> SUFFICES ASSUME NEW q \in Proc, NEW x \in reseau'[q], x.type = "REQUEST"
               PROVE  /\ wantSC'[x.de]
                      /\ x.tour = demande'[x.de]
                      /\ q \notin repondants'[x.de]
                      /\ Msg("REPLY", q, x.tour) \notin reseau'[x.de]
                      /\ Req(x.de, x.tour) \notin enregistrees'[q] \cup liberees'[q] \cup perdues'[q]
    BY DEF InvRequest
  <2>1. x \in reseau[q] /\ reseau'[x.de] \subseteq reseau[x.de]
    BY <1>3 DEF RecevoirRelease, Retirer, Lire, Sans, Messages
  <2>2. Req(m.de, m.tour) \in enregistrees[p]
    BY <1>3 DEF RecevoirRelease, Retirer, Lire, InvRelease
  <2>3. enregistrees'[q] \cup liberees'[q] \cup perdues'[q]
          = enregistrees[q] \cup liberees[q] \cup perdues[q]
    BY <1>3, <2>2 DEF RecevoirRelease, Retirer
  <2>4. wantSC' = wantSC /\ demande' = demande /\ repondants' = repondants
    BY <1>3 DEF RecevoirRelease, Retirer
  <2> QED
    BY <2>1, <2>3, <2>4 DEF InvRequest
<1>4. ASSUME NEW p \in Proc, NEW m \in reseau[p], StockerRequest(p, m)
      PROVE  InvRequest'
  <2> SUFFICES ASSUME NEW q \in Proc, NEW x \in reseau'[q], x.type = "REQUEST"
               PROVE  /\ wantSC'[x.de]
                      /\ x.tour = demande'[x.de]
                      /\ q \notin repondants'[x.de]
                      /\ Msg("REPLY", q, x.tour) \notin reseau'[x.de]
                      /\ Req(x.de, x.tour) \notin enregistrees'[q] \cup liberees'[q] \cup perdues'[q]
    BY DEF InvRequest
  <2>1. m.type = "REQUEST" /\ m.de \in Proc
    BY <1>4 DEF StockerRequest, Lire, Messages
  <2>2. x \in reseau[q] /\ ~ (q = p /\ x = m)
    BY <1>4 DEF StockerRequest, Lire, Sans, Vers, Msg
  <2>3. x.de \in Proc /\ x.tour = demande[x.de]
    BY <2>2 DEF InvRequest, Messages
  <2>4. ~ (q = p /\ x.de = m.de)
    BY <2>1, <2>2, <2>3 DEF InvRequest, Messages
  <2>5. wantSC' = wantSC /\ demande' = demande /\ repondants' = repondants
    BY <1>4 DEF StockerRequest
  <2>6. Msg("REPLY", q, x.tour) \notin reseau'[x.de]
    BY <1>4, <2>1, <2>2, <2>3, <2>4 DEF StockerRequest, Sans, Vers, Msg, InvRequest
  <2>7. Req(x.de, x.tour) \notin enregistrees'[q] \cup liberees'[q] \cup perdues'[q]
    BY <1>4, <2>2, <2>4 DEF StockerRequest, Req, InvRequest
  <2> QED
    BY <2>2, <2>5, <2>6, <2>7 DEF InvRequest
<1>5. ASSUME NEW p \in Proc, NEW m \in reseau[p], PerdreRequest(p, m)
      PROVE  InvRequest'
  <2> SUFFICES ASSUME NEW q \in Proc, NEW x \in reseau'[q], x.type = "REQUEST"
               PROVE  /\ wantSC'[x.de]
                      /\ x.tour = demande'[x.de]
                      /\ q \notin repondants'[x.de]
                      /\ Msg("REPLY", q, x.tour) \notin reseau'[x.de]
                      /\ Req(x.de, x.tour) \notin enregistrees'[q] \cup liberees'[q] \cup perdues'[q]
    BY DEF InvRequest
  <2>1. m.type = "REQUEST" /\ m.de \in Proc
    BY <1>5 DEF PerdreRequest, Lire, Messages
  <2>2. x \in reseau[q] /\ ~ (q = p /\ x = m)
    BY <1>5 DEF PerdreRequest, Lire, Sans, Vers, Msg
  <2>3. x.de \in Proc /\ x.tour = demande[x.de]
    BY <2>2 DEF InvRequest, Messages
  <2>4. ~ (q = p /\ x.de = m.de)
    BY <2>1, <2>2, <2>3 DEF InvRequest, Messages
  <2>5. wantSC' = wantSC /\ demande' = demande /\ repondants' = repondants
    BY <1>5 DEF PerdreRequest
  <2>6. Msg("REPLY", q, x.tour) \notin reseau'[x.de]
    BY <1>5, <2>1, <2>2, <2>3, <2>4 DEF PerdreRequest, Sans, Vers, Msg, InvRequest
  <2>7. Req(x.de, x.tour) \notin enregistrees'[q] \cup liberees'[q] \cup perdues'[q]
    BY <1>5, <2>2, <2>4 DEF PerdreRequest, Req, InvRequest
  <2> QED
    BY <2>2, <2>5, <2>6, <2>7 DEF InvRequest
<1>6. ASSUME NEW p \in Proc, NEW m \in reseau[p], RecevoirMessage(p, m)
      PROVE  InvRequest'
  BY <1>6 DEF InvRequest, InvReply, InvRepondants, Messages, RecevoirMessage, Lire, Sans, Msg, histoire
<1>7. ASSUME NEW p \in Proc, SectionCritique(p)
      PROVE  InvRequest'
  BY <1>7 DEF InvRequest, InvReply, InvRepondants, Messages, SectionCritique, DiffuserRelease, Reset, VersTous, Msg
<1>8. ASSUME NEW p \in Proc, ActionLocale(p)
      PROVE  InvRequest'
  BY <1>8 DEF InvRequest, InvReply, InvRepondants, Messages, ActionLocale, histoire
<1>9. ASSUME NEW p \in Proc, EnvoiMessage(p)
      PROVE  InvRequest'
  BY <1>9 DEF InvRequest, InvReply, InvRepondants, Messages, EnvoiMessage, Vers, Msg, histoire
<1>10. ASSUME NEW p \in Proc, DemandeSC(p)
      PROVE  InvRequest'
  <2> SUFFICES ASSUME NEW q \in Proc, NEW x \in reseau'[q], x.type = "REQUEST"
               PROVE  /\ wantSC'[x.de]
                      /\ x.tour = demande'[x.de]
                      /\ q \notin repondants'[x.de]
                      /\ Msg("REPLY", q, x.tour) \notin reseau'[x.de]
                      /\ Req(x.de, x.tour) \notin enregistrees'[q] \cup liberees'[q] \cup perdues'[q]
    BY DEF InvRequest
  <2>1. wantSC[p] = FALSE /\ horloge[p] + 1 > demande[p] /\ demande[p] \in Nat
    BY <1>10 DEF DemandeSC, InvHorloge
  <2>2. CASE x \in reseau[q] /\ x # Msg("REQUEST", p, horloge[p] + 1)
    <3>1. x.de \in Proc /\ x.de # p
      BY <2>1, <2>2 DEF InvRequest, Messages
    <3>2. /\ wantSC'[x.de] = wantSC[x.de]
          /\ demande'[x.de] = demande[x.de]
      BY <3>1, <1>10 DEF DemandeSC
    <3>3. Msg("REPLY", q, x.tour) \notin reseau'[x.de]
      BY <2>2, <3>1, <1>10 DEF DemandeSC, VersTous, Msg, InvRequest
    <3> QED
      BY <2>2, <3>2, <3>3, <1>10 DEF DemandeSC, InvRequest
  <2>3. CASE x = Msg("REQUEST", p, horloge[p] + 1)
    <3>1. x.de = p /\ x.tour = horloge[p] + 1
      BY <2>3 DEF Msg
    <3>2. wantSC'[p] /\ demande'[p] = horloge[p] + 1
      BY <1>10 DEF DemandeSC
    <3>3. q \notin repondants'[p]
      BY <2>1, <1>10 DEF DemandeSC, InvRepondants
    <3>4. Msg("REPLY", q, x.tour) \notin reseau'[p]
      <4>1. Msg("REPLY", q, x.tour) \notin reseau[p]
        BY <2>1 DEF InvReply, Msg
      <4> QED
        BY <4>1, <1>10 DEF DemandeSC, VersTous, Msg
    <3>5. Req(p, x.tour) \notin enregistrees'[q] \cup liberees'[q] \cup perdues'[q]
      BY <2>1, <3>1, <1>10 DEF DemandeSC, InvRegistres, Req
    <3> QED
      BY <3>1, <3>2, <3>3, <3>4, <3>5
  <2> QED
    BY <2>2, <2>3, <1>10 DEF DemandeSC, VersTous
<1>11. ASSUME NEW p \in Proc, DemandeEnCours(p)
      PROVE  InvRequest'
  BY <1>11 DEF InvRequest, InvReply, InvRepondants, Messages, DemandeEnCours, histoire
<1> QED
  BY <1>1, <1>2, <1>3, <1>4, <1>5, <1>6, <1>7, <1>8, <1>9, <1>10, <1>11 DEF Next, Etape, Lecture, Action

(* A REPLY in transit answers the pending request of its receiver, for which
   its sender was not counted yet and which its sender has stored. *)
LEMMA PasReply ==
  ASSUME TypeOK, Inv, [Next]_vars
  PROVE  InvReply'
<1> USE MaxHorlogeHypothese DEF TypeOK, Inv
<1>1. CASE UNCHANGED vars
  BY <1>1 DEF InvReply, vars, code, histoire, Courante
<1>2. ASSUME NEW p \in Proc, NEW m \in reseau[p], RecevoirReply(p, m)
      PROVE  InvReply'
  BY <1>2 DEF InvRequest, InvReply, InvRelease, InvRepondants, Courante, Req, Messages, RecevoirReply, Lire, Sans, Msg, DernierReply
<1>3. ASSUME NEW p \in Proc, NEW m \in reseau[p], RecevoirRelease(p, m)
      PROVE  InvReply'
  BY <1>3 DEF InvRequest, InvReply, InvRelease, InvRepondants, Courante, Req, Messages, RecevoirRelease, Retirer, Lire, Sans, Msg
<1>4. ASSUME NEW p \in Proc, NEW m \in reseau[p], StockerRequest(p, m)
      PROVE  InvReply'
  <2> SUFFICES ASSUME NEW q \in Proc, NEW x \in reseau'[q], x.type = "REPLY"
               PROVE  /\ wantSC'[q]
                      /\ x.tour = demande'[q]
                      /\ x.de \notin repondants'[q]
                      /\ Courante(q)' \in enregistrees'[x.de]
    BY DEF InvReply
  <2>1. m.type = "REQUEST" /\ m.de \in Proc /\ m.tour = demande[m.de] /\ wantSC[m.de]
        /\ p \notin repondants[m.de]
    BY <1>4 DEF StockerRequest, Lire, InvRequest, Messages
  <2>2. wantSC' = wantSC /\ demande' = demande /\ repondants' = repondants
    BY <1>4 DEF StockerRequest
  <2>3. CASE x \in reseau[q]
    <3>1. x.de \in Proc /\ enregistrees[x.de] \subseteq enregistrees'[x.de]
      BY <2>3, <1>4 DEF StockerRequest, Messages
    <3> QED
      BY <2>2, <2>3, <3>1 DEF InvReply, Courante
  <2>4. CASE q = m.de /\ x = Msg("REPLY", p, m.tour)
    BY <2>1, <2>2, <2>4, <1>4 DEF StockerRequest, Courante, Req, Msg
  <2> QED
    BY <2>1, <2>3, <2>4, <1>4 DEF StockerRequest, Sans, Vers
<1>5. ASSUME NEW p \in Proc, NEW m \in reseau[p], PerdreRequest(p, m)
      PROVE  InvReply'
  BY <1>5 DEF InvRequest, InvReply, InvRelease, InvRepondants, Courante, Req, Messages, PerdreRequest, Lire, Sans, Msg
<1>6. ASSUME NEW p \in Proc, NEW m \in reseau[p], RecevoirMessage(p, m)
      PROVE  InvReply'
  BY <1>6 DEF InvRequest, InvReply, InvRelease, InvRepondants, Courante, Req, Messages, RecevoirMessage, Lire, Sans, Msg, histoire
<1>7. ASSUME NEW p \in Proc, SectionCritique(p)
      PROVE  InvReply'
  BY <1>7 DEF InvRequest, InvReply, InvRelease, InvRepondants, Courante, Req, Messages, SectionCritique, DiffuserRelease, Reset, VersTous, Msg
<1>8. ASSUME NEW p \in Proc, ActionLocale(p)
      PROVE  InvReply'
  BY <1>8 DEF InvRequest, InvReply, InvRelease, InvRepondants, Courante, Req, Messages, ActionLocale, histoire
<1>9. ASSUME NEW p \in Proc, EnvoiMessage(p)
      PROVE  InvReply'
  BY <1>9 DEF InvRequest, InvReply, InvRelease, InvRepondants, Courante, Req, Messages, EnvoiMessage, Vers, Msg, histoire
<1>10. ASSUME NEW p \in Proc, DemandeSC(p)
      PROVE  InvReply'
  <2> SUFFICES ASSUME NEW q \in Proc, NEW x \in reseau'[q], x.type = "REPLY"
               PROVE  /\ wantSC'[q]
                      /\ x.tour = demande'[q]
                      /\ x.de \notin repondants'[q]
                      /\ Courante(q)' \in enregistrees'[x.de]
    BY DEF InvReply
  <2>1. x \in reseau[q]
    BY <1>10 DEF DemandeSC, VersTous, Msg
  <2>2. q # p /\ x.de \in Proc
    BY <2>1, <1>10 DEF DemandeSC, InvReply, Messages
  <2>3. wantSC'[q] = wantSC[q] /\ demande'[q] = demande[q]
    BY <2>2, <1>10 DEF DemandeSC
  <2> QED
    BY <2>1, <2>2, <2>3, <1>10 DEF DemandeSC, InvReply, Courante
<1>11. ASSUME NEW p \in Proc, DemandeEnCours(p)
      PROVE  InvReply'
  BY <1>11 DEF InvRequest, InvReply, InvRelease, InvRepondants, Courante, Req, Messages, DemandeEnCours, histoire
<1> QED
  BY <1>1, <1>2, <1>3, <1>4, <1>5, <1>6, <1>7, <1>8, <1>9, <1>10, <1>11 DEF Next, Etape, Lecture, Action

(* A RELEASE in transit to q closes a request that q has stored and that is no
   longer pending. *)
LEMMA PasRelease ==
  ASSUME TypeOK, Inv, [Next]_vars
  PROVE  InvRelease'
<1> USE MaxHorlogeHypothese DEF TypeOK, Inv
<1>1. CASE UNCHANGED vars
  BY <1>1 DEF InvRelease, vars, code, histoire, Courante
<1>2. ASSUME NEW p \in Proc, NEW m \in reseau[p], RecevoirReply(p, m)
      PROVE  InvRelease'
  BY <1>2 DEF InvRequest, InvRelease, InvHorloge, InvRepondants, Courante, Req, Messages, RecevoirReply, Lire, Sans, Msg, DernierReply
<1>3. ASSUME NEW p \in Proc, NEW m \in reseau[p], RecevoirRelease(p, m)
      PROVE  InvRelease'
  BY <1>3 DEF InvRequest, InvRelease, InvHorloge, InvRepondants, Courante, Req, Messages, RecevoirRelease, Retirer, Lire, Sans, Msg
<1>4. ASSUME NEW p \in Proc, NEW m \in reseau[p], StockerRequest(p, m)
      PROVE  InvRelease'
  BY <1>4 DEF InvRequest, InvRelease, InvHorloge, InvRepondants, Courante, Req, Messages, StockerRequest, Lire, Sans, Vers, Msg
<1>5. ASSUME NEW p \in Proc, NEW m \in reseau[p], PerdreRequest(p, m)
      PROVE  InvRelease'
  BY <1>5 DEF InvRequest, InvRelease, InvHorloge, InvRepondants, Courante, Req, Messages, PerdreRequest, Lire, Sans, Msg
<1>6. ASSUME NEW p \in Proc, NEW m \in reseau[p], RecevoirMessage(p, m)
      PROVE  InvRelease'
  BY <1>6 DEF InvRequest, InvRelease, InvHorloge, InvRepondants, Courante, Req, Messages, RecevoirMessage, Lire, Sans, Msg, histoire
<1>7. ASSUME NEW p \in Proc, SectionCritique(p)
      PROVE  InvRelease'
  BY <1>7 DEF InvRequest, InvRelease, InvHorloge, InvRepondants, Courante, Req, Messages, SectionCritique, DiffuserRelease, Reset, VersTous, Msg
<1>8. ASSUME NEW p \in Proc, ActionLocale(p)
      PROVE  InvRelease'
  BY <1>8 DEF InvRequest, InvRelease, InvHorloge, InvRepondants, Courante, Req, Messages, ActionLocale, histoire
<1>9. ASSUME NEW p \in Proc, EnvoiMessage(p)
      PROVE  InvRelease'
  <2>1. UNCHANGED <<wantSC, demande, enregistrees>>
    BY <1>9 DEF EnvoiMessage, histoire
  <2>2. \A q \in Proc : \A m \in reseau'[q] : m.type = "RELEASE" => m \in reseau[q]
    BY <1>9 DEF EnvoiMessage, Vers, Msg
  <2> QED
    BY <2>1, <2>2 DEF InvRelease
<1>10. ASSUME NEW p \in Proc, DemandeSC(p)
      PROVE  InvRelease'
  BY <1>10 DEF InvRequest, InvRelease, InvHorloge, InvRepondants, Courante, Req, Messages, DemandeSC, VersTous, Msg
<1>11. ASSUME NEW p \in Proc, DemandeEnCours(p)
      PROVE  InvRelease'
  BY <1>11 DEF InvRequest, InvRelease, InvHorloge, InvRepondants, Courante, Req, Messages, DemandeEnCours, histoire
<1> QED
  BY <1>1, <1>2, <1>3, <1>4, <1>5, <1>6, <1>7, <1>8, <1>9, <1>10, <1>11 DEF Next, Etape, Lecture, Action

(* compteurReply counts distinct processes, all of which have stored the
   pending request; it reaches N exactly on entering the section. *)
LEMMA PasRepondants ==
  ASSUME TypeOK, Inv, [Next]_vars
  PROVE  InvRepondants'
<1> USE MaxHorlogeHypothese DEF TypeOK, Inv
<1>1. CASE UNCHANGED vars
  BY <1>1 DEF InvRepondants, vars, code, histoire, Courante
<1>2. ASSUME NEW p \in Proc, NEW m \in reseau[p], RecevoirReply(p, m)
      PROVE  InvRepondants'
  <2> SUFFICES ASSUME NEW a \in Proc
               PROVE  /\ \A q \in repondants'[a] : wantSC'[a] /\ Courante(a)' \in enregistrees'[q]
                      /\ IsFiniteSet(repondants'[a])
                      /\ compteurReply'[a] = Cardinality(repondants'[a])
                      /\ IF pc'[a] = "section" THEN wantSC'[a] /\ repondants'[a] = Proc
                                               ELSE compteurReply'[a] < N
    BY DEF InvRepondants
  <2>1. /\ wantSC[p] /\ m.de \in Proc /\ m.de \notin repondants[p]
        /\ Courante(p) \in enregistrees[m.de]
    BY <1>2 DEF RecevoirReply, Lire, InvReply, Messages
  <2>2. CASE a # p
    BY <2>2, <1>2 DEF RecevoirReply, InvRepondants, Courante
  <2>3. CASE a = p
    <3>1. /\ repondants'[p] = repondants[p] \cup {m.de}
          /\ compteurReply'[p] = compteurReply[p] + 1
          /\ pc'[p] = IF compteurReply[p] + 1 = N THEN "section" ELSE "action"
          /\ UNCHANGED <<wantSC, demande, enregistrees>>
      BY <2>1, <1>2 DEF RecevoirReply, DernierReply
    <3>2. /\ IsFiniteSet(repondants'[p])
          /\ Cardinality(repondants'[p]) = compteurReply[p] + 1
      <4>1. IsFiniteSet(repondants[p]) /\ compteurReply[p] = Cardinality(repondants[p])
        BY DEF InvRepondants
      <4>2. /\ IsFiniteSet(repondants[p] \cup {m.de})
            /\ m.de \notin repondants[p] =>
                 Cardinality(repondants[p] \cup {m.de}) = Cardinality(repondants[p]) + 1
        BY <4>1, FS_AddElement
      <4> QED
        BY <2>1, <3>1, <4>1, <4>2
    <3>3. compteurReply[p] + 1 <= N /\ (compteurReply[p] + 1 = N => repondants'[p] = Proc)
      <4>1. IsFiniteSet(Proc) /\ Cardinality(Proc) = N
        BY FS_Interval, NHypothese DEF Proc
      <4>2. repondants'[p] \in SUBSET Proc
        BY <2>1, <3>1
      <4> QED
        BY <3>2, <4>1, <4>2, FS_Subset
    <3>4. \A q \in repondants'[p] : wantSC'[p] /\ Courante(p)' \in enregistrees'[q]
      BY <2>1, <3>1 DEF InvRepondants, Courante
    <3> QED
      BY <2>1, <2>3, <3>1, <3>2, <3>3, <3>4, NHypothese
  <2> QED
    BY <2>2, <2>3
<1>3. ASSUME NEW p \in Proc, NEW m \in reseau[p], RecevoirRelease(p, m)
      PROVE  InvRepondants'
  <2>1. \A a \in Proc : wantSC[a] => Courante(a) # Req(m.de, m.tour)
    BY <1>3 DEF RecevoirRelease, Retirer, Lire, InvRelease, Courante, Req, Messages
  <2> QED
    BY <2>1, <1>3 DEF RecevoirRelease, Retirer, Lire, InvRepondants, Courante
<1>4. ASSUME NEW p \in Proc, NEW m \in reseau[p], StockerRequest(p, m)
      PROVE  InvRepondants'
  BY <1>4 DEF StockerRequest, Lire, InvRepondants, Courante
<1>5. ASSUME NEW p \in Proc, NEW m \in reseau[p], PerdreRequest(p, m)
      PROVE  InvRepondants'
  BY <1>5 DEF InvRepondants, PerdreRequest, Lire, histoire, Courante, Req
<1>6. ASSUME NEW p \in Proc, NEW m \in reseau[p], RecevoirMessage(p, m)
      PROVE  InvRepondants'
  BY <1>6 DEF InvRepondants, RecevoirMessage, Lire, histoire, Courante, Req
<1>7. ASSUME NEW p \in Proc, SectionCritique(p)
      PROVE  InvRepondants'
  <2>1. IsFiniteSet({}) /\ Cardinality({}) = 0
    BY FS_EmptySet
  <2> QED
    BY <2>1, <1>7, NHypothese DEF SectionCritique, DiffuserRelease, Reset, InvRepondants, Courante
<1>8. ASSUME NEW p \in Proc, ActionLocale(p)
      PROVE  InvRepondants'
  BY <1>8 DEF InvRepondants, ActionLocale, Lire, histoire, Courante, Req
<1>9. ASSUME NEW p \in Proc, EnvoiMessage(p)
      PROVE  InvRepondants'
  BY <1>9 DEF InvRepondants, EnvoiMessage, Lire, histoire, Courante, Req
<1>10. ASSUME NEW p \in Proc, DemandeSC(p)
      PROVE  InvRepondants'
  <2>1. repondants[p] = {}
    BY <1>10 DEF DemandeSC, InvRepondants
  <2> QED
    BY <2>1, <1>10 DEF DemandeSC, InvRepondants, Courante
<1>11. ASSUME NEW p \in Proc, DemandeEnCours(p)
      PROVE  InvRepondants'
  BY <1>11 DEF InvRepondants, DemandeEnCours, Lire, histoire, Courante, Req
<1> QED
  BY <1>1, <1>2, <1>3, <1>4, <1>5, <1>6, <1>7, <1>8, <1>9, <1>10, <1>11 DEF Next, Etape, Lecture, Action

(* queueIndex counts the stored requests; none was also forgotten; none is
   newer than the last request of its owner. *)
LEMMA PasRegistres ==
  ASSUME TypeOK, Inv, [Next]_vars
  PROVE  InvRegistres'
<1> USE MaxHorlogeHypothese DEF TypeOK, Inv
<1>1. CASE UNCHANGED vars
  BY <1>1 DEF InvRegistres, vars, code, histoire, Courante
<1>2. ASSUME NEW p \in Proc, NEW m \in reseau[p], RecevoirReply(p, m)
      PROVE  InvRegistres'
  BY <1>2 DEF InvRegistres, RecevoirReply, histoire
<1>3. ASSUME NEW p \in Proc, NEW m \in reseau[p], RecevoirRelease(p, m)
      PROVE  InvRegistres'
  <2> SUFFICES ASSUME NEW q \in Proc
               PROVE  /\ IsFiniteSet(enregistrees'[q])
                      /\ queueIndex'[q] = Cardinality(enregistrees'[q])
                      /\ perdues'[q] \cap enregistrees'[q] = {}
                      /\ \A r \in enregistrees'[q] \cup liberees'[q] \cup perdues'[q] : r.tour <= demande'[r.de]
    BY DEF InvRegistres
  <2>1. Req(m.de, m.tour) \in enregistrees[p]
    BY <1>3 DEF RecevoirRelease, Retirer, Lire, InvRelease
  <2>2. /\ IsFiniteSet(enregistrees[q] \ {Req(m.de, m.tour)})
        /\ Req(m.de, m.tour) \in enregistrees[q] =>
             Cardinality(enregistrees[q] \ {Req(m.de, m.tour)}) = Cardinality(enregistrees[q]) - 1
    BY FS_RemoveElement DEF InvRegistres
  <2> QED
    BY <2>1, <2>2, <1>3 DEF RecevoirRelease, Retirer, InvRegistres
<1>4. ASSUME NEW p \in Proc, NEW m \in reseau[p], StockerRequest(p, m)
      PROVE  InvRegistres'
  <2> SUFFICES ASSUME NEW q \in Proc
               PROVE  /\ IsFiniteSet(enregistrees'[q])
                      /\ queueIndex'[q] = Cardinality(enregistrees'[q])
                      /\ perdues'[q] \cap enregistrees'[q] = {}
                      /\ \A r \in enregistrees'[q] \cup liberees'[q] \cup perdues'[q] : r.tour <= demande'[r.de]
    BY DEF InvRegistres
  <2>1. /\ m.de \in Proc /\ m.tour = demande[m.de]
        /\ Req(m.de, m.tour) \notin enregistrees[p] \cup perdues[p]
    BY <1>4 DEF StockerRequest, Lire, InvRequest, Messages
  <2>2. /\ IsFiniteSet(enregistrees[q] \cup {Req(m.de, m.tour)})
        /\ Req(m.de, m.tour) \notin enregistrees[q] =>
             Cardinality(enregistrees[q] \cup {Req(m.de, m.tour)}) = Cardinality(enregistrees[q]) + 1
    BY FS_AddElement DEF InvRegistres
  <2>3. Req(m.de, m.tour).tour <= demande[Req(m.de, m.tour).de]
    BY <2>1 DEF Req
  <2> QED
    BY <2>1, <2>2, <2>3, <1>4 DEF StockerRequest, InvRegistres
<1>5. ASSUME NEW p \in Proc, NEW m \in reseau[p], PerdreRequest(p, m)
      PROVE  InvRegistres'
  <2> SUFFICES ASSUME NEW q \in Proc
               PROVE  /\ IsFiniteSet(enregistrees'[q])
                      /\ queueIndex'[q] = Cardinality(enregistrees'[q])
                      /\ perdues'[q] \cap enregistrees'[q] = {}
                      /\ \A r \in enregistrees'[q] \cup liberees'[q] \cup perdues'[q] : r.tour <= demande'[r.de]
    BY DEF InvRegistres
  <2>1. /\ m.de \in Proc /\ m.tour = demande[m.de]
        /\ Req(m.de, m.tour) \notin enregistrees[p] \cup perdues[p]
    BY <1>5 DEF PerdreRequest, Lire, InvRequest, Messages
  <2>2. Req(m.de, m.tour).tour <= demande[Req(m.de, m.tour).de]
    BY <2>1 DEF Req
  <2> QED
    BY <2>1, <2>2, <1>5 DEF PerdreRequest, InvRegistres
<1>6. ASSUME NEW p \in Proc, NEW m \in reseau[p], RecevoirMessage(p, m)
      PROVE  InvRegistres'
  BY <1>6 DEF InvRegistres, RecevoirMessage, histoire
<1>7. ASSUME NEW p \in Proc, SectionCritique(p)
      PROVE  InvRegistres'
  BY <1>7 DEF InvRegistres, SectionCritique, DiffuserRelease, Reset, histoire
<1>8. ASSUME NEW p \in Proc, ActionLocale(p)
      PROVE  InvRegistres'
  BY <1>8 DEF InvRegistres, ActionLocale, histoire
<1>9. ASSUME NEW p \in Proc, EnvoiMessage(p)
      PROVE  InvRegistres'
  BY <1>9 DEF InvRegistres, EnvoiMessage, histoire
<1>10. ASSUME NEW p \in Proc, DemandeSC(p)
      PROVE  InvRegistres'
  <2>1. demande[p] <= horloge[p] + 1 /\ horloge[p] \in Nat
    BY DEF InvHorloge
  <2>2. \A a \in Proc : demande[a] <= demande'[a] /\ demande'[a] \in Int /\ demande[a] \in Int
    BY <2>1, <1>10 DEF DemandeSC
  <2>3. \A q \in Proc : \A r \in enregistrees[q] \cup liberees[q] \cup perdues[q] :
          r.de \in Proc /\ r.tour \in Int
    BY DEF Requetes
  <2> QED
    BY <2>2, <2>3, <1>10 DEF DemandeSC, InvRegistres
<1>11. ASSUME NEW p \in Proc, DemandeEnCours(p)
      PROVE  InvRegistres'
  BY <1>11 DEF InvRegistres, DemandeEnCours, histoire
<1> QED
  BY <1>1, <1>2, <1>3, <1>4, <1>5, <1>6, <1>7, <1>8, <1>9, <1>10, <1>11 DEF Next, Etape, Lecture, Action

(* A pending request is at some stage at every process. *)
LEMMA PasStades ==
  ASSUME TypeOK, Inv, [Next]_vars
  PROVE  InvStades'
<1> USE MaxHorlogeHypothese DEF TypeOK, Inv
<1>1. CASE UNCHANGED vars
  BY <1>1 DEF InvStades, vars, code, histoire, Courante
<1>2. ASSUME NEW p \in Proc, NEW m \in reseau[p], RecevoirReply(p, m)
      PROVE  InvStades'
  BY <1>2 DEF InvStades, InvRequest, Courante, Req, Messages, RecevoirReply, Lire, Sans, Msg, DernierReply
<1>3. ASSUME NEW p \in Proc, NEW m \in reseau[p], RecevoirRelease(p, m)
      PROVE  InvStades'
  BY <1>3 DEF InvStades, InvRequest, Courante, Req, Messages, RecevoirRelease, Retirer, Lire, Sans, Msg
<1>4. ASSUME NEW p \in Proc, NEW m \in reseau[p], StockerRequest(p, m)
      PROVE  InvStades'
  <2> SUFFICES ASSUME NEW a \in Proc, NEW q \in Proc, wantSC'[a]
               PROVE  \/ Msg("REQUEST", a, demande'[a]) \in reseau'[q]
                      \/ Msg("REPLY", q, demande'[a]) \in reseau'[a]
                      \/ q \in repondants'[a]
                      \/ Courante(a)' \in perdues'[q]
    BY DEF InvStades
  <2>1. m.type = "REQUEST" /\ m.de \in Proc /\ m.tour = demande[m.de]
    BY <1>4 DEF StockerRequest, Lire, InvRequest, Messages
  <2>2. wantSC' = wantSC /\ demande' = demande /\ repondants' = repondants /\ perdues' = perdues
    BY <1>4 DEF StockerRequest
  <2>3. CASE q = p /\ a = m.de
    BY <2>1, <2>2, <2>3, <1>4 DEF StockerRequest, Sans, Vers
  <2>4. CASE ~ (q = p /\ a = m.de)
    <3>1. Msg("REQUEST", a, demande[a]) \in reseau[q] => Msg("REQUEST", a, demande[a]) \in reseau'[q]
      BY <2>4, <1>4 DEF StockerRequest, Sans, Vers, Msg
    <3>2. Msg("REPLY", q, demande[a]) \in reseau[a] => Msg("REPLY", q, demande[a]) \in reseau'[a]
      BY <2>1, <1>4 DEF StockerRequest, Sans, Vers, Msg
    <3> QED
      BY <2>2, <3>1, <3>2 DEF InvStades, Courante
  <2> QED
    BY <2>3, <2>4
<1>5. ASSUME NEW p \in Proc, NEW m \in reseau[p], PerdreRequest(p, m)
      PROVE  InvStades'
  BY <1>5 DEF InvStades, InvRequest, Courante, Req, Messages, PerdreRequest, Lire, Sans, Msg
<1>6. ASSUME NEW p \in Proc, NEW m \in reseau[p], RecevoirMessage(p, m)
      PROVE  InvStades'
  BY <1>6 DEF InvStades, InvRequest, Courante, Req, Messages, RecevoirMessage, Lire, Sans, Msg, histoire
<1>7. ASSUME NEW p \in Proc, SectionCritique(p)
      PROVE  InvStades'
  BY <1>7 DEF InvStades, InvRequest, Courante, Req, Messages, SectionCritique, DiffuserRelease, Reset, VersTous, Msg
<1>8. ASSUME NEW p \in Proc, ActionLocale(p)
      PROVE  InvStades'
  BY <1>8 DEF InvStades, InvRequest, Courante, Req, Messages, ActionLocale, histoire
<1>9. ASSUME NEW p \in Proc, EnvoiMessage(p)
      PROVE  InvStades'
  BY <1>9 DEF InvStades, InvRequest, Courante, Req, Messages, EnvoiMessage, Vers, Msg, histoire
<1>10. ASSUME NEW p \in Proc, DemandeSC(p)
      PROVE  InvStades'
  BY <1>10 DEF InvStades, InvRequest, Courante, Req, Messages, DemandeSC, VersTous, Msg
<1>11. ASSUME NEW p \in Proc, DemandeEnCours(p)
      PROVE  InvStades'
  BY <1>11 DEF InvStades, InvRequest, Courante, Req, Messages, DemandeEnCours, histoire
<1> QED
  BY <1>1, <1>2, <1>3, <1>4, <1>5, <1>6, <1>7, <1>8, <1>9, <1>10, <1>11 DEF Next, Etape, Lecture, Action

-----------------------------------------------------------------------------
(* The theorems. *)

LEMMA InitialementVrai == Init => TypeOK /\ Inv
<1> SUFFICES ASSUME Init PROVE TypeOK /\ Inv
  OBVIOUS
<1> USE NHypothese, MaxHorlogeHypothese DEF Init
<1>1. TypeOK
  <2>1. queue \in [Proc -> Files]
    BY PileHypothese
  <2>2. reseau \in [Proc -> SUBSET Messages]
    BY DEF Msg, Messages, Types
  <2> QED
    BY <2>1, <2>2 DEF TypeOK
<1>2. IsFiniteSet({}) /\ Cardinality({}) = 0
  BY FS_EmptySet
<1>3. InvHorloge /\ InvRequest /\ InvReply /\ InvRelease /\ InvStades
  BY DEF InvHorloge, InvRequest, InvReply, InvRelease, InvStades, Msg
<1>4. InvRepondants /\ InvRegistres
  BY <1>2 DEF InvRepondants, InvRegistres
<1> QED
  BY <1>1, <1>3, <1>4 DEF Inv

LEMMA PasInv == TypeOK /\ Inv /\ [Next]_vars => TypeOK' /\ Inv'
<1> SUFFICES ASSUME TypeOK, Inv, [Next]_vars PROVE TypeOK' /\ Inv'
  OBVIOUS
<1> QED
  BY PasType, PasHorloge, PasRequest, PasReply, PasRelease, PasRepondants, PasRegistres, PasStades
     DEF Inv

(* The whole invariant holds in every reachable state, whatever the number of
   processes and the contents of the uninitialised array (calcul.c:13-181). *)
THEOREM InvariantInductif == Spec => [](TypeOK /\ Inv)
<1>1. Init => TypeOK /\ Inv
  BY InitialementVrai
<1>2. (TypeOK /\ Inv) /\ [Next]_vars => (TypeOK /\ Inv)'
  BY PasInv
<1> QED
  BY <1>1, <1>2, PTL DEF Spec

(* Every variable of the calcul thread keeps its type. *)
THEOREM TypeCorrect == Spec => []TypeOK
  BY InvariantInductif, PTL

(* Who is in the section has its request in everybody's books (calcul.c:55). *)
THEOREM AccordCorrect == Spec => []AccordDeTous
<1>1. TypeOK /\ Inv => AccordDeTous
  BY DEF TypeOK, Inv, InvRepondants, AccordDeTous
<1> QED
  BY <1>1, InvariantInductif, PTL

(* No RELEASE is read before the REQUEST it closes was stored (calcul.c:77). *)
THEOREM ReleaseCorrect == Spec => []ReleaseApresRequest
<1>1. TypeOK /\ Inv => ReleaseApresRequest
  BY DEF Inv, InvRelease, ReleaseApresRequest
<1> QED
  BY <1>1, InvariantInductif, PTL

(* No REPLY outlives the request it answers (calcul.c:51). *)
THEOREM ReplyCorrect == Spec => []PasDeReplyTardif
<1>1. TypeOK /\ Inv => PasDeReplyTardif
  BY DEF Inv, InvReply, PasDeReplyTardif
<1> QED
  BY <1>1, InvariantInductif, PTL

(* Each process is at exactly one stage of each pending request, so a request
   is answered at most once by each and counted at most once (calcul.c:53). *)
THEOREM EtapeCorrecte == Spec => []UneSeuleEtape
<1>1. TypeOK /\ Inv => UneSeuleEtape
  <2> SUFFICES ASSUME TypeOK, Inv, NEW p \in Proc, wantSC[p]
               PROVE  LET aLire == {q \in Proc : Msg("REQUEST", p, demande[p]) \in reseau[q]}
                          enRoute == {q \in Proc : Msg("REPLY", q, demande[p]) \in reseau[p]}
                          oubli == {q \in Proc : Courante(p) \in perdues[q]}
                      IN  /\ aLire \cup enRoute \cup repondants[p] \cup oubli = Proc
                          /\ aLire \cap (enRoute \cup repondants[p] \cup oubli) = {}
                          /\ enRoute \cap (repondants[p] \cup oubli) = {}
                          /\ repondants[p] \cap oubli = {}
    BY DEF UneSeuleEtape
  <2>1. repondants[p] \subseteq Proc
    BY DEF TypeOK
  <2>2. \A q \in Proc : \/ Msg("REQUEST", p, demande[p]) \in reseau[q]
                        \/ Msg("REPLY", q, demande[p]) \in reseau[p]
                        \/ q \in repondants[p]
                        \/ Courante(p) \in perdues[q]
    BY DEF Inv, InvStades
  <2>3. \A q \in Proc : Msg("REQUEST", p, demande[p]) \in reseau[q] =>
           /\ Msg("REPLY", q, demande[p]) \notin reseau[p]
           /\ q \notin repondants[p]
           /\ Courante(p) \notin perdues[q]
    BY DEF Inv, InvRequest, Msg, Courante
  <2>4. \A q \in Proc : Msg("REPLY", q, demande[p]) \in reseau[p] =>
           q \notin repondants[p] /\ Courante(p) \in enregistrees[q]
    BY DEF Inv, InvReply, Msg
  <2>5. \A q \in Proc : q \in repondants[p] => Courante(p) \in enregistrees[q]
    BY DEF Inv, InvRepondants
  <2>6. \A q \in Proc : Courante(p) \in enregistrees[q] => Courante(p) \notin perdues[q]
    BY DEF Inv, InvRegistres
  <2> QED
    BY <2>1, <2>2, <2>3, <2>4, <2>5, <2>6
<1> QED
  BY <1>1, InvariantInductif, PTL

(* queueIndex is the number of stored requests (calcul.c:85, 99), hence never
   negative. *)
THEOREM IndexCorrect == Spec => []IndexExact
<1>1. TypeOK /\ Inv => IndexExact
  BY DEF Inv, InvRegistres, IndexExact
<1> QED
  BY <1>1, InvariantInductif, PTL
-----------------------------------------------------------------------------
(* What the array holds when it started with zeros. *)

\* The clocks in the array are those of requests that were stored, and until
\* the first RELEASE only zeros follow the stored requests.
PileExpliquee(q) ==
  /\ \A i \in Emplacements :
       \/ queue[q][i].horloge = 0
       \/ \E s \in enregistrees[q] \cup liberees[q] : s.tour = queue[q][i].horloge
  /\ liberees[q] = {} => \A i \in Emplacements : i >= queueIndex[q] => queue[q][i].horloge = 0

InvPile == PerteExpliquee /\ \A q \in Proc : PileExpliquee(q)

PileNulle == \A f \in PileInitiale : \A i \in Emplacements : f[i].horloge = 0

(* Storing a request copies slots that were in use and moves the first free
   one by one place (calcul.c:94-104). *)
LEMMA RangerContenu ==
  ASSUME NEW f \in Files, NEW n \in Nat, n + 1 < TailleQueue, NEW r \in Item,
         PlacesPossibles(f, n, r.horloge) # {}
  PROVE  /\ \A j \in Emplacements :
              \/ Ranger(f, n, r)[j] = r
              \/ \E k \in Emplacements : Ranger(f, n, r)[j] = f[k]
         /\ (\A j \in Emplacements : j >= n => f[j].horloge = 0) =>
              \A j \in Emplacements : j >= n + 1 => Ranger(f, n, r)[j].horloge = 0
<1> DEFINE i == Min(PlacesPossibles(f, n, r.horloge))
<1>1. i \in 0 .. n
  <2>1. PlacesPossibles(f, n, r.horloge) \in SUBSET Nat
    BY DEF PlacesPossibles
  <2>2. i \in PlacesPossibles(f, n, r.horloge)
    BY <2>1, MinNat
  <2> QED
    BY <2>2 DEF PlacesPossibles
<1> HIDE DEF i
<1>2. ASSUME NEW j \in Emplacements
      PROVE  Ranger(f, n, r)[j] = IF j = i THEN r
                                  ELSE IF j \in (i + 2) .. (n + 1) THEN f[j - 1]
                                  ELSE f[j]
  BY DEF Ranger, i
<1>3. ASSUME NEW j \in Emplacements, j \in (i + 2) .. (n + 1)
      PROVE  j - 1 \in Emplacements
  BY <1>1, <1>3, TailleQueueHypothese DEF Emplacements
<1>4. ASSUME NEW j \in Emplacements
      PROVE  Ranger(f, n, r)[j] = r \/ \E k \in Emplacements : Ranger(f, n, r)[j] = f[k]
  BY <1>2, <1>3
<1>5. ASSUME \A j \in Emplacements : j >= n => f[j].horloge = 0,
             NEW j \in Emplacements, j >= n + 1
      PROVE  Ranger(f, n, r)[j].horloge = 0
  <2>1. j \in Nat /\ j # i /\ j - 1 >= n /\ j >= n
    BY <1>1, <1>5, TailleQueueHypothese DEF Emplacements
  <2> QED
    BY <1>2, <1>3, <1>5, <2>1
<1> QED
  BY <1>4, <1>5

(* Removing the first element copies slots. *)
LEMMA RetirerContenu ==
  ASSUME NEW f \in Files, NEW n \in Nat, n < TailleQueue, NEW j \in Emplacements
  PROVE  \E k \in Emplacements : RetirerPremiere(f, n)[j] = f[k]
<1>1. j \in 0 .. n - 2 => j + 1 \in Emplacements
  BY TailleQueueHypothese DEF Emplacements
<1>2. RetirerPremiere(f, n)[j] = IF j \in 0 .. n - 2 THEN f[j + 1] ELSE f[j]
  BY DEF RetirerPremiere
<1> QED
  BY <1>1, <1>2

LEMMA PasPile ==
  ASSUME TypeOK, Inv, InvPile, [Next]_vars
  PROVE  InvPile'
<1> USE DEF InvPile
<1>1. ASSUME UNCHANGED <<queue, queueIndex, enregistrees, liberees, perdues>>
      PROVE  InvPile'
  BY <1>1 DEF PerteExpliquee, PileExpliquee
<1>2. ASSUME NEW p \in Proc, NEW m \in reseau[p], RecevoirRelease(p, m)
      PROVE  InvPile'
  <2>1. /\ queueIndex[p] \in Nat /\ queueIndex[p] < TailleQueue /\ queue[p] \in Files
        /\ Req(m.de, m.tour) \in enregistrees[p]
    BY <1>2, IndexBorne, TailleQueueHypothese DEF Inv, InvRelease, RecevoirRelease, Lire, TypeOK
  <2>2. /\ queue'[p] = RetirerPremiere(queue[p], queueIndex[p])
        /\ enregistrees'[p] \cup liberees'[p] = enregistrees[p] \cup liberees[p]
        /\ liberees'[p] # {} /\ perdues' = perdues
        /\ \A q \in Proc : q # p => /\ queue'[q] = queue[q] /\ queueIndex'[q] = queueIndex[q]
                                    /\ enregistrees'[q] = enregistrees[q] /\ liberees'[q] = liberees[q]
    BY <1>2, <2>1 DEF RecevoirRelease, Retirer, TypeOK
  <2>3. PileExpliquee(p)'
    <3> SUFFICES ASSUME NEW i \in Emplacements
                 PROVE  \/ queue'[p][i].horloge = 0
                        \/ \E s \in enregistrees'[p] \cup liberees'[p] : s.tour = queue'[p][i].horloge
      BY <2>2 DEF PileExpliquee
    <3>1. PICK k \in Emplacements : queue'[p][i] = queue[p][k]
      BY <2>1, <2>2, RetirerContenu
    <3> QED
      BY <2>2, <3>1 DEF PileExpliquee
  <2>4. \A q \in Proc : q # p => PileExpliquee(q)'
    BY <2>2 DEF PileExpliquee
  <2>5. PerteExpliquee'
    BY <2>2 DEF PerteExpliquee
  <2> QED
    BY <2>3, <2>4, <2>5
<1>3. ASSUME NEW p \in Proc, NEW m \in reseau[p], StockerRequest(p, m)
      PROVE  InvPile'
  <2> DEFINE r == [pid |-> m.de, horloge |-> m.tour]
  <2>1. m \in Messages /\ r \in Item /\ queue[p] \in Files
    BY <1>3 DEF StockerRequest, TypeOK, Messages, Item, Proc
  <2>2. /\ queueIndex[p] \in Nat /\ queueIndex[p] + 1 < TailleQueue
        /\ PlacesPossibles(queue[p], queueIndex[p], r.horloge) # {}
    BY <1>3, IndexBorne DEF Inv, StockerRequest
  <2>3. /\ queue'[p] = Ranger(queue[p], queueIndex[p], r)
        /\ queueIndex'[p] = queueIndex[p] + 1
        /\ enregistrees'[p] = enregistrees[p] \cup {Req(m.de, m.tour)}
        /\ UNCHANGED <<liberees, perdues>>
        /\ \A q \in Proc : q # p => /\ queue'[q] = queue[q] /\ queueIndex'[q] = queueIndex[q]
                                    /\ enregistrees'[q] = enregistrees[q]
    BY <1>3 DEF StockerRequest, TypeOK
  <2> HIDE DEF r
  <2>4. /\ \A j \in Emplacements : queue'[p][j] = r \/ \E k \in Emplacements : queue'[p][j] = queue[p][k]
        /\ (\A j \in Emplacements : j >= queueIndex[p] => queue[p][j].horloge = 0) =>
             \A j \in Emplacements : j >= queueIndex'[p] => queue'[p][j].horloge = 0
    <3> DEFINE f == Ranger(queue[p], queueIndex[p], r)
    <3>1. /\ \A j \in Emplacements : f[j] = r \/ \E k \in Emplacements : f[j] = queue[p][k]
          /\ (\A j \in Emplacements : j >= queueIndex[p] => queue[p][j].horloge = 0) =>
               \A j \in Emplacements : j >= queueIndex[p] + 1 => f[j].horloge = 0
      BY <2>1, <2>2, RangerContenu
    <3> HIDE DEF f
    <3>2. queue'[p] = f /\ queueIndex'[p] = queueIndex[p] + 1
      BY <2>3 DEF f
    <3> QED
      BY <3>1, <3>2
  <2>5. Req(m.de, m.tour) \in enregistrees'[p] /\ Req(m.de, m.tour).tour = r.horloge
    BY <2>3 DEF Req, r
  <2>6. PileExpliquee(p)'
    <3>1. ASSUME NEW i \in Emplacements
          PROVE  \/ queue'[p][i].horloge = 0
                 \/ \E s \in enregistrees'[p] \cup liberees'[p] : s.tour = queue'[p][i].horloge
      BY <2>3, <2>4, <2>5 DEF PileExpliquee
    <3> QED
      BY <2>3, <2>4, <3>1 DEF PileExpliquee
  <2>7. \A q \in Proc : q # p => PileExpliquee(q)'
    BY <2>3 DEF PileExpliquee
  <2>8. PerteExpliquee'
    BY <2>3 DEF PerteExpliquee
  <2> QED
    BY <2>6, <2>7, <2>8
\* The loop finds no slot: the first one it looks at, and the one after the
\* stored requests, hold clocks below the new one that are not zero.
<1>4. ASSUME NEW p \in Proc, NEW m \in reseau[p], PerdreRequest(p, m)
      PROVE  InvPile'
  <2> DEFINE n == queueIndex[p]
  <2>1. /\ n \in Nat /\ n + 1 < TailleQueue /\ m.tour \in Nat
        /\ \A i \in Emplacements : queue[p][i].horloge \in Int
    BY <1>4, IndexBorne DEF Inv, PerdreRequest, Lire, TypeOK, Messages, Files, Item
  <2>2. \A i \in 0 .. n : i \in Emplacements /\ queue[p][i].horloge # 0 /\ queue[p][i].horloge < m.tour
    BY <1>4, <2>1, TailleQueueHypothese DEF PerdreRequest, PlacesPossibles, Emplacements
  <2>3. 0 \in 0 .. n /\ n \in 0 .. n
    BY <2>1
  <2>4. liberees[p] # {}
    BY <2>1, <2>2, <2>3 DEF PileExpliquee
  <2>5. \E s \in enregistrees[p] \cup liberees[p] : s.tour < m.tour
    BY <2>2, <2>3 DEF PileExpliquee
  <2>6. /\ perdues' = [perdues EXCEPT ![p] = @ \cup {Req(m.de, m.tour)}]
        /\ UNCHANGED <<queue, queueIndex, enregistrees, liberees>>
    BY <1>4 DEF PerdreRequest
  <2>7. PerteExpliquee'
    BY <2>4, <2>5, <2>6 DEF PerteExpliquee, Req, TypeOK
  <2> QED
    BY <2>6, <2>7 DEF PileExpliquee
<1>5. ASSUME NEW p \in Proc, NEW m \in reseau[p], RecevoirReply(p, m) \/ RecevoirMessage(p, m)
      PROVE  InvPile'
  BY <1>1, <1>5 DEF RecevoirReply, RecevoirMessage, histoire
<1>6. ASSUME NEW p \in Proc, SectionCritique(p) \/ Action(p)
      PROVE  InvPile'
  BY <1>1, <1>6 DEF SectionCritique, Action, ActionLocale, EnvoiMessage, DemandeSC, DemandeEnCours, histoire
<1>7. CASE UNCHANGED vars
  BY <1>1, <1>7 DEF vars, code, histoire
<1> QED
  BY <1>2, <1>3, <1>4, <1>5, <1>6, <1>7 DEF Next, Etape, Lecture

(* On a stack that happened to be zero, a request is forgotten only by a
   process that stored an older one and read a RELEASE: the first loss is due
   to what RELEASE leaves past queueIndex (calcul.c:80-85, 97). *)
THEOREM PertesExpliquees == PileNulle => (Spec => []PerteExpliquee)
<1> SUFFICES ASSUME PileNulle PROVE Spec => []PerteExpliquee
  OBVIOUS
<1>1. Init => TypeOK /\ Inv /\ InvPile
  BY InitialementVrai DEF Init, InvPile, PileExpliquee, PerteExpliquee, PileNulle
<1>2. (TypeOK /\ Inv /\ InvPile) /\ [Next]_vars => (TypeOK /\ Inv /\ InvPile)'
  BY PasInv, PasPile
<1>3. InvPile => PerteExpliquee
  BY DEF InvPile
<1> QED
  BY <1>1, <1>2, <1>3, PTL DEF Spec
-----------------------------------------------------------------------------
(* Calcul implements Accord: every step of a calcul thread is a step of the  *)
(* abstract protocol or leaves its state alone.                              *)

(* The abstract state changes only where these three functions change. *)
LEMMA AbstraitInchange ==
  ASSUME TypeOK, TypeOK', wantSC' = wantSC,
         \A p \in Proc : pc'[p] = "section" <=> pc[p] = "section",
         \A p, q \in Proc : wantSC[p] => (Courante(p)' \in enregistrees'[q] <=> Courante(p) \in enregistrees[q])
  PROVE  UNCHANGED <<etatAbstrait, accordsAbstraits>>
<1>1. etatAbstrait' = etatAbstrait
  BY DEF etatAbstrait
<1>2. ASSUME NEW p \in Proc, wantSC[p]
      PROVE  {q \in Proc : Courante(p)' \in enregistrees'[q]} = {q \in Proc : Courante(p) \in enregistrees[q]}
  BY <1>2
<1>3. accordsAbstraits' = accordsAbstraits
  BY <1>2 DEF accordsAbstraits
<1> QED
  BY <1>1, <1>3

(* Counting a REPLY is invisible, except the last one, which enters. *)
LEMMA ReplyRaffine ==
  ASSUME TypeOK, Inv, TypeOK', Inv', NEW p \in Proc, NEW m \in reseau[p], RecevoirReply(p, m)
  PROVE  AccordAbstrait!Entrer(p) \/ UNCHANGED <<etatAbstrait, accordsAbstraits>>
<1>1. /\ pc[p] = "lecture" /\ wantSC[p]
      /\ UNCHANGED <<wantSC, demande, enregistrees>>
      /\ pc' = [pc EXCEPT ![p] = IF DernierReply(p) THEN "section" ELSE "action"]
  BY DEF RecevoirReply, Lire, Inv, InvReply
<1>2. accordsAbstraits' = accordsAbstraits
  BY <1>1 DEF accordsAbstraits, Courante
<1>3. CASE DernierReply(p)
  <2>1. etatAbstrait[p] = "attente" /\ etatAbstrait' = [etatAbstrait EXCEPT ![p] = "section"]
    BY <1>1, <1>3 DEF etatAbstrait, TypeOK
  <2>2. pc'[p] = "section"
    BY <1>1, <1>3 DEF TypeOK
  <2>3. \A q \in Proc : Courante(p) \in enregistrees[q]
    BY <1>1, <2>2 DEF Inv, InvRepondants, Courante
  <2>4. accordsAbstraits[p] = Proc
    BY <1>1, <2>3 DEF accordsAbstraits
  <2> QED
    BY <1>2, <2>1, <2>4 DEF AccordAbstrait!Entrer
<1>4. CASE ~ DernierReply(p)
  <2>1. etatAbstrait' = etatAbstrait
    BY <1>1, <1>4 DEF etatAbstrait, TypeOK
  <2> QED
    BY <1>2, <2>1
<1> QED
  BY <1>3, <1>4

(* A RELEASE never touches a pending request: invisible. *)
LEMMA ReleaseRaffine ==
  ASSUME TypeOK, Inv, TypeOK', NEW p \in Proc, NEW m \in reseau[p], RecevoirRelease(p, m)
  PROVE  UNCHANGED <<etatAbstrait, accordsAbstraits>>
<1>1. \A a \in Proc : wantSC[a] => Courante(a) # Req(m.de, m.tour)
  BY DEF RecevoirRelease, Retirer, Lire, Inv, InvRelease, Courante, Req, Messages, TypeOK
<1>2. \A a, q \in Proc : wantSC[a] => (Courante(a)' \in enregistrees'[q] <=> Courante(a) \in enregistrees[q])
  BY <1>1 DEF RecevoirRelease, Retirer, Courante, TypeOK
<1>3. \A a \in Proc : pc'[a] = "section" <=> pc[a] = "section"
  BY DEF RecevoirRelease, Retirer, Lire, TypeOK
<1> QED
  BY <1>2, <1>3, AbstraitInchange DEF RecevoirRelease, Retirer

(* Storing a request is the agreement of its receiver. *)
LEMMA StockerRaffine ==
  ASSUME TypeOK, Inv, TypeOK', NEW p \in Proc, NEW m \in reseau[p], StockerRequest(p, m)
  PROVE  AccordAbstrait!Accorder(m.de, p)
<1>1. /\ m.de \in Proc /\ wantSC[m.de] /\ Req(m.de, m.tour) = Courante(m.de)
      /\ Courante(m.de) \notin enregistrees[p]
      /\ p \notin repondants[m.de]
  BY DEF StockerRequest, Lire, Inv, InvRequest, Courante, TypeOK, Messages
<1>2. pc[m.de] # "section"
  BY <1>1 DEF Inv, InvRepondants
<1>3. /\ UNCHANGED <<wantSC, demande>>
      /\ enregistrees' = [enregistrees EXCEPT ![p] = @ \cup {Courante(m.de)}]
      /\ pc' = [pc EXCEPT ![p] = "action"] /\ pc[p] = "lecture"
  BY <1>1 DEF StockerRequest, Lire
<1>4. etatAbstrait[m.de] = "attente" /\ etatAbstrait' = etatAbstrait
  BY <1>1, <1>2, <1>3 DEF etatAbstrait, TypeOK
<1>5. p \notin accordsAbstraits[m.de]
  BY <1>1 DEF accordsAbstraits
<1>6. \A a \in Proc : a # m.de => Courante(a) # Courante(m.de)
  BY DEF Courante, Req
<1>7. \A a, q \in Proc : Courante(a)' \in enregistrees'[q] <=>
         Courante(a) \in enregistrees[q] \/ (a = m.de /\ q = p)
  BY <1>1, <1>3, <1>6 DEF Courante, TypeOK
<1>8. accordsAbstraits' = [accordsAbstraits EXCEPT ![m.de] = @ \cup {p}]
  <2>1. ASSUME NEW a \in Proc
        PROVE  accordsAbstraits'[a] = IF a = m.de THEN accordsAbstraits[a] \cup {p} ELSE accordsAbstraits[a]
    <3>1. {q \in Proc : Courante(a)' \in enregistrees'[q]} =
            {q \in Proc : Courante(a) \in enregistrees[q]} \cup (IF a = m.de THEN {p} ELSE {})
      BY <1>7
    <3> QED
      BY <1>1, <1>3, <3>1 DEF accordsAbstraits
  <2>2. accordsAbstraits = [a \in Proc |-> accordsAbstraits[a]]
    BY DEF accordsAbstraits
  <2>3. accordsAbstraits' = [a \in Proc |-> accordsAbstraits'[a]]
    BY DEF accordsAbstraits
  <2> HIDE DEF accordsAbstraits
  <2> QED
    BY <2>1, <2>2, <2>3, <1>1
<1> QED
  BY <1>4, <1>5, <1>8 DEF AccordAbstrait!Accorder

(* The RELEASE broadcast and the reset leave the section. *)
LEMMA SectionRaffine ==
  ASSUME TypeOK, Inv, TypeOK', NEW p \in Proc, SectionCritique(p)
  PROVE  AccordAbstrait!Sortir(p)
<1>1. etatAbstrait[p] = "section"
  BY DEF SectionCritique, DiffuserRelease, Reset, etatAbstrait
<1>2. etatAbstrait' = [etatAbstrait EXCEPT ![p] = "repos"]
  BY DEF SectionCritique, DiffuserRelease, Reset, etatAbstrait, TypeOK
<1>3. accordsAbstraits' = [accordsAbstraits EXCEPT ![p] = {}]
  BY DEF SectionCritique, DiffuserRelease, Reset, accordsAbstraits, Courante, TypeOK
<1> QED
  BY <1>1, <1>2, <1>3 DEF AccordAbstrait!Sortir

(* A new request starts without any agreement. *)
LEMMA DemandeRaffinee ==
  ASSUME TypeOK, Inv, TypeOK', NEW p \in Proc, DemandeSC(p)
  PROVE  AccordAbstrait!Demander(p)
<1>1. /\ pc[p] = "action" /\ ~ wantSC[p]
      /\ pc' = [pc EXCEPT ![p] = "lecture"]
      /\ wantSC' = [wantSC EXCEPT ![p] = TRUE]
      /\ demande' = [demande EXCEPT ![p] = horloge[p] + 1]
      /\ enregistrees' = enregistrees
  BY DEF DemandeSC
<1>2. etatAbstrait[p] = "repos" /\ etatAbstrait' = [etatAbstrait EXCEPT ![p] = "attente"]
  BY <1>1 DEF etatAbstrait, TypeOK
<1>3. \A q \in Proc : Req(p, horloge[p] + 1) \notin enregistrees[q]
  BY DEF Inv, InvHorloge, InvRegistres, Req, TypeOK
<1>4. ASSUME NEW a \in Proc
      PROVE  accordsAbstraits'[a] = accordsAbstraits[a]
  <2>1. CASE a = p
    BY <1>1, <1>3, <2>1 DEF accordsAbstraits, Courante, TypeOK
  <2>2. CASE a # p
    BY <1>1, <2>2 DEF accordsAbstraits, Courante, TypeOK
  <2> QED
    BY <2>1, <2>2
<1>5. accordsAbstraits' = accordsAbstraits
  BY <1>4 DEF accordsAbstraits
<1> QED
  BY <1>2, <1>5 DEF AccordAbstrait!Demander

(* Every step of the program is an abstract step or a stutter. *)
LEMMA PasRaffine ==
  TypeOK /\ Inv /\ TypeOK' /\ Inv' /\ [Next]_vars
    => [AccordAbstrait!Next]_<<etatAbstrait, accordsAbstraits>>
<1> SUFFICES ASSUME TypeOK, Inv, TypeOK', Inv', [Next]_vars
             PROVE  [AccordAbstrait!Next]_<<etatAbstrait, accordsAbstraits>>
  OBVIOUS
<1>1. CASE UNCHANGED vars
  BY <1>1 DEF vars, code, histoire, etatAbstrait, accordsAbstraits, Courante
<1>2. ASSUME NEW p \in Proc, NEW m \in reseau[p], RecevoirReply(p, m)
      PROVE  [AccordAbstrait!Next]_<<etatAbstrait, accordsAbstraits>>
  BY <1>2, ReplyRaffine DEF AccordAbstrait!Next
<1>3. ASSUME NEW p \in Proc, NEW m \in reseau[p], RecevoirRelease(p, m)
      PROVE  [AccordAbstrait!Next]_<<etatAbstrait, accordsAbstraits>>
  BY <1>3, ReleaseRaffine
<1>4. ASSUME NEW p \in Proc, NEW m \in reseau[p], StockerRequest(p, m)
      PROVE  [AccordAbstrait!Next]_<<etatAbstrait, accordsAbstraits>>
  <2>1. m.de \in Proc
    BY DEF TypeOK, Messages
  <2> QED
    BY <1>4, <2>1, StockerRaffine DEF AccordAbstrait!Next
<1>5. ASSUME NEW p \in Proc, NEW m \in reseau[p], PerdreRequest(p, m) \/ RecevoirMessage(p, m)
      PROVE  [AccordAbstrait!Next]_<<etatAbstrait, accordsAbstraits>>
  <2>1. /\ UNCHANGED <<wantSC, demande, enregistrees>>
        /\ \A a \in Proc : pc'[a] = "section" <=> pc[a] = "section"
    BY <1>5 DEF PerdreRequest, RecevoirMessage, Lire, histoire, TypeOK
  <2> QED
    BY <2>1, AbstraitInchange DEF Courante
<1>6. ASSUME NEW p \in Proc, SectionCritique(p)
      PROVE  [AccordAbstrait!Next]_<<etatAbstrait, accordsAbstraits>>
  BY <1>6, SectionRaffine DEF AccordAbstrait!Next
<1>7. ASSUME NEW p \in Proc, ActionLocale(p) \/ EnvoiMessage(p) \/ DemandeEnCours(p)
      PROVE  [AccordAbstrait!Next]_<<etatAbstrait, accordsAbstraits>>
  <2>1. /\ UNCHANGED <<wantSC, demande, enregistrees>>
        /\ \A a \in Proc : pc'[a] = "section" <=> pc[a] = "section"
    BY <1>7 DEF ActionLocale, EnvoiMessage, DemandeEnCours, histoire, TypeOK
  <2> QED
    BY <2>1, AbstraitInchange DEF Courante
<1>8. ASSUME NEW p \in Proc, DemandeSC(p)
      PROVE  [AccordAbstrait!Next]_<<etatAbstrait, accordsAbstraits>>
  BY <1>8, DemandeRaffinee DEF AccordAbstrait!Next
<1> QED
  BY <1>1, <1>2, <1>3, <1>4, <1>5, <1>6, <1>7, <1>8 DEF Next, Etape, Lecture, Action

LEMMA InitRaffine == Init => AccordAbstrait!Init
  BY DEF Init, AccordAbstrait!Init, etatAbstrait, accordsAbstraits

(* For every number of processes, the program only enters the section with the
   agreement of all to the request it made (calcul.c:44-178). *)
THEOREM Raffinement == Spec => ImplementeAccord
<1>1. Init => AccordAbstrait!Init
  BY InitRaffine
<1>2. TypeOK /\ Inv /\ (TypeOK /\ Inv)' /\ [Next]_vars
        => [AccordAbstrait!Next]_<<etatAbstrait, accordsAbstraits>>
  BY PasRaffine
<1> QED
  BY <1>1, <1>2, InvariantInductif, PTL DEF Spec, ImplementeAccord, AccordAbstrait!Spec

-----------------------------------------------------------------------------
(***************************************************************************)
(* The network, under the name TR of its instance.                         *)
(***************************************************************************)
(* A message goes from place to place: what calcul has to write, the pipe to
   the client, the client's connection, the backlog, a worker, calcul. *)
AEcrire(m) == m \in TR!Elements(aEcrire[m.de])
DansPipe(m) == m \in TR!Elements(pipeEnvoi[m.de])
EnConnexion(m) == client[m.de].etat = "connexion" /\ client[m.de].msg = m
EnAttente(m) == m \in TR!Elements(attente[m.vers])
ChezWorker(m) == m \in workers[m.vers]
Perdu(m) == m \in perdus[m.vers]
Recus(q) == lus[q] \o pipeReception[q]
Arrive(m) == m \in TR!Elements(Recus(m.vers))

EnTransit(m) == DansPipe(m) \/ EnConnexion(m) \/ EnAttente(m) \/ ChezWorker(m) \/ Perdu(m)

\* Each message is in one place only, and was written by its sender.
InvLieux ==
  \A m \in TR!Messages :
    /\ AEcrire(m) => ~ EnTransit(m) /\ ~ Arrive(m) /\ m.id # 0
    /\ DansPipe(m) => ~ EnConnexion(m) /\ ~ EnAttente(m) /\ ~ ChezWorker(m) /\ ~ Perdu(m) /\ ~ Arrive(m)
    /\ EnConnexion(m) => ~ EnAttente(m) /\ ~ ChezWorker(m) /\ ~ Perdu(m) /\ ~ Arrive(m)
    /\ EnAttente(m) => ~ ChezWorker(m) /\ ~ Perdu(m) /\ ~ Arrive(m)
    /\ ChezWorker(m) => ~ Perdu(m) /\ ~ Arrive(m)
    /\ Perdu(m) => ~ Arrive(m)
    /\ AEcrire(m) \/ EnTransit(m) \/ Arrive(m) => m.id <= envois[m.de]

\* The place of a message says who sent it, or to whom.
InvAdresses ==
  \A p \in TR!Proc :
    /\ \A m \in TR!Elements(aEcrire[p]) : m.de = p
    /\ \A m \in TR!Elements(pipeEnvoi[p]) : m.de = p
    /\ client[p].etat # "libre" => client[p].msg \in TR!Messages /\ client[p].msg.de = p
    /\ \A m \in TR!Elements(attente[p]) : m.vers = p
    /\ \A m \in workers[p] \cup perdus[p] : m.vers = p

\* No message is twice in a queue.
Distincts(s) == \A i, j \in DOMAIN s : s[i] = s[j] => i = j

InvDistincts ==
  /\ \A p \in TR!Proc : Distincts(aEcrire[p]) /\ Distincts(pipeEnvoi[p]) /\ Distincts(attente[p])
  /\ Recus(1) # <<>>

InvReseau == TR!TypeOK /\ InvLieux /\ InvAdresses /\ InvDistincts
-----------------------------------------------------------------------------
(* The elements of a sequence *)

LEMMA ElementsVide == TR!Elements(<<>>) = {}
BY DEF TR!Elements

LEMMA ElementsAjout ==
  ASSUME NEW S, NEW s \in Seq(S), NEW e \in S
  PROVE  /\ Append(s, e) \in Seq(S) /\ Append(s, e) # <<>>
         /\ TR!Elements(Append(s, e)) = TR!Elements(s) \cup {e}
         /\ Distincts(s) /\ e \notin TR!Elements(s) => Distincts(Append(s, e))
<1>1. Append(s, e) \in Seq(S) /\ Len(Append(s, e)) = Len(s) + 1
  BY AppendProperties
<1>2. Len(s) \in Nat /\ DOMAIN s = 1 .. Len(s) /\ DOMAIN Append(s, e) = 1 .. Len(s) + 1
  BY <1>1, LenProperties
<1>3. (\A i \in 1 .. Len(s) : Append(s, e)[i] = s[i]) /\ Append(s, e)[Len(s) + 1] = e
  BY AppendProperties
<1>4. TR!Elements(Append(s, e)) = TR!Elements(s) \cup {e}
  BY <1>2, <1>3 DEF TR!Elements
<1>5. ASSUME Distincts(s), e \notin TR!Elements(s)
      PROVE  Distincts(Append(s, e))
  <2> SUFFICES ASSUME NEW i \in 1 .. Len(s) + 1, NEW j \in 1 .. Len(s) + 1, Append(s, e)[i] = Append(s, e)[j]
               PROVE  i = j
    BY <1>2 DEF Distincts
  <2>1. i \in 1 .. Len(s) \/ i = Len(s) + 1
    BY <1>2
  <2>2. j \in 1 .. Len(s) \/ j = Len(s) + 1
    BY <1>2
  <2>3. \A k \in 1 .. Len(s) : s[k] # e
    BY <1>2, <1>5 DEF TR!Elements
  <2> QED
    BY <1>2, <1>3, <1>5, <2>1, <2>2, <2>3 DEF Distincts
<1> QED
  BY <1>1, <1>2, <1>4, <1>5, EmptySeq

LEMMA ElementsReste ==
  ASSUME NEW S, NEW s \in Seq(S), s # <<>>
  PROVE  /\ Head(s) \in S /\ Tail(s) \in Seq(S)
         /\ TR!Elements(s) = {Head(s)} \cup TR!Elements(Tail(s))
         /\ Distincts(s) => Distincts(Tail(s)) /\ Head(s) \notin TR!Elements(Tail(s))
<1>1. /\ Head(s) \in S /\ Tail(s) \in Seq(S) /\ Len(Tail(s)) = Len(s) - 1
      /\ \A i \in 1 .. Len(Tail(s)) : Tail(s)[i] = s[i + 1]
  BY HeadTailProperties
<1>2. Len(s) \in Nat /\ Len(s) # 0 /\ DOMAIN s = 1 .. Len(s) /\ DOMAIN Tail(s) = 1 .. Len(s) - 1
  BY <1>1, LenProperties, EmptySeq
<1>3. Head(s) = s[1]
  OBVIOUS
<1>4. \A i \in 2 .. Len(s) : i - 1 \in 1 .. Len(s) - 1 /\ s[i] = Tail(s)[i - 1]
  BY <1>1, <1>2
<1>5. ASSUME NEW x \in TR!Elements(s)
      PROVE  x \in {Head(s)} \cup TR!Elements(Tail(s))
  <2>1. PICK i \in 1 .. Len(s) : x = s[i]
    BY <1>2 DEF TR!Elements
  <2>2. i = 1 \/ i \in 2 .. Len(s)
    BY <1>2
  <2> QED
    BY <1>2, <1>3, <1>4, <2>1, <2>2 DEF TR!Elements
<1>6. {Head(s)} \cup TR!Elements(Tail(s)) \subseteq TR!Elements(s)
  BY <1>1, <1>2, <1>3 DEF TR!Elements
<1>7. ASSUME Distincts(s)
      PROVE  Distincts(Tail(s)) /\ Head(s) \notin TR!Elements(Tail(s))
  <2>1. \A i \in 1 .. Len(s) - 1 : i + 1 \in 1 .. Len(s) /\ i + 1 # 1 /\ Tail(s)[i] = s[i + 1]
    BY <1>1, <1>2
  <2>2. Distincts(Tail(s))
    <3> SUFFICES ASSUME NEW i \in 1 .. Len(s) - 1, NEW j \in 1 .. Len(s) - 1, Tail(s)[i] = Tail(s)[j]
                 PROVE  i = j
      BY <1>2 DEF Distincts
    <3>1. i + 1 = j + 1
      BY <1>2, <1>7, <2>1 DEF Distincts
    <3> QED
      BY <3>1, <1>2
  <2>3. Head(s) \notin TR!Elements(Tail(s))
    BY <1>2, <1>3, <1>7, <2>1 DEF Distincts, TR!Elements
  <2> QED
    BY <2>2, <2>3
<1> QED
  BY <1>1, <1>5, <1>6, <1>7

LEMMA ElementsConcat ==
  ASSUME NEW S, NEW s \in Seq(S), NEW t \in Seq(S)
  PROVE  /\ s \o t \in Seq(S) /\ TR!Elements(s \o t) = TR!Elements(s) \cup TR!Elements(t)
         /\ Distincts(s) /\ Distincts(t) /\ TR!Elements(s) \cap TR!Elements(t) = {} => Distincts(s \o t)
<1>1. /\ s \o t \in Seq(S) /\ Len(s \o t) = Len(s) + Len(t)
      /\ \A i \in 1 .. Len(s) + Len(t) : (s \o t)[i] = IF i <= Len(s) THEN s[i] ELSE t[i - Len(s)]
  BY ConcatProperties
<1>2. /\ Len(s) \in Nat /\ Len(t) \in Nat /\ DOMAIN s = 1 .. Len(s) /\ DOMAIN t = 1 .. Len(t)
      /\ DOMAIN (s \o t) = 1 .. Len(s) + Len(t)
  BY <1>1, LenProperties
<1>3. \A i \in 1 .. Len(s) : i \in 1 .. Len(s) + Len(t) /\ (s \o t)[i] = s[i]
  BY <1>1, <1>2
<1>4. \A i \in 1 .. Len(t) : Len(s) + i \in 1 .. Len(s) + Len(t) /\ (s \o t)[Len(s) + i] = t[i]
  BY <1>1, <1>2
<1>5. \A i \in 1 .. Len(s) + Len(t) : i \in 1 .. Len(s) \/ \E k \in 1 .. Len(t) : i = Len(s) + k
  <2> TAKE i \in 1 .. Len(s) + Len(t)
  <2>1. CASE i <= Len(s)
    BY <1>2, <2>1
  <2>2. CASE i > Len(s)
    <3>1. i - Len(s) \in 1 .. Len(t) /\ i = Len(s) + (i - Len(s))
      BY <1>2, <2>2
    <3> QED
      BY <3>1
  <2> QED
    BY <1>2, <2>1, <2>2
<1>6. TR!Elements(s \o t) = TR!Elements(s) \cup TR!Elements(t)
  <2>1. ASSUME NEW x \in TR!Elements(s \o t)
        PROVE  x \in TR!Elements(s) \cup TR!Elements(t)
    <3>1. PICK i \in 1 .. Len(s) + Len(t) : x = (s \o t)[i]
      BY <1>2 DEF TR!Elements
    <3>2. CASE i \in 1 .. Len(s)
      BY <1>2, <1>3, <3>1, <3>2 DEF TR!Elements
    <3>3. ASSUME NEW k \in 1 .. Len(t), i = Len(s) + k
          PROVE  x \in TR!Elements(t)
      BY <1>2, <1>4, <3>1, <3>3 DEF TR!Elements
    <3> QED
      BY <1>5, <3>2, <3>3
  <2>2. TR!Elements(s) \subseteq TR!Elements(s \o t)
    BY <1>2, <1>3 DEF TR!Elements
  <2>3. TR!Elements(t) \subseteq TR!Elements(s \o t)
    BY <1>2, <1>4 DEF TR!Elements
  <2> QED
    BY <2>1, <2>2, <2>3
<1>7. ASSUME Distincts(s), Distincts(t), TR!Elements(s) \cap TR!Elements(t) = {}
      PROVE  Distincts(s \o t)
  <2> SUFFICES ASSUME NEW i \in 1 .. Len(s) + Len(t), NEW j \in 1 .. Len(s) + Len(t), (s \o t)[i] = (s \o t)[j]
               PROVE  i = j
    BY <1>2 DEF Distincts
  <2>0. \A a \in 1 .. Len(s) : \A b \in 1 .. Len(t) : s[a] # t[b]
    BY <1>2, <1>7 DEF TR!Elements
  <2>1. CASE i \in 1 .. Len(s) /\ j \in 1 .. Len(s)
    BY <1>2, <1>3, <1>7, <2>1 DEF Distincts
  <2>2. ASSUME NEW k \in 1 .. Len(t), i = Len(s) + k, NEW l \in 1 .. Len(t), j = Len(s) + l
        PROVE  i = j
    BY <1>2, <1>4, <1>7, <2>2 DEF Distincts
  <2>3. ASSUME NEW k \in 1 .. Len(t), i = Len(s) + k, j \in 1 .. Len(s)
        PROVE  FALSE
    BY <1>3, <1>4, <2>0, <2>3
  <2>4. ASSUME NEW l \in 1 .. Len(t), j = Len(s) + l, i \in 1 .. Len(s)
        PROVE  FALSE
    BY <1>3, <1>4, <2>0, <2>4
  <2> QED
    BY <1>5, <2>1, <2>2, <2>3, <2>4
<1> QED
  BY <1>1, <1>6, <1>7

\* What arrived, when a message is read and when one is written in the pipe
LEMMA LectureReseau ==
  ASSUME NEW S, NEW s \in Seq(S), NEW t \in Seq(S), t # <<>>
  PROVE  Append(s, Head(t)) \o Tail(t) = s \o t
  OBVIOUS

LEMMA Livraison ==
  \A s \in Seq(TR!Messages), t \in Seq(TR!Messages), e \in TR!Messages :
    s \o Append(t, e) = Append(s \o t, e)
  OBVIOUS

LEMMA ResteAjout ==
  ASSUME NEW S, NEW s \in Seq(S), s # <<>>, NEW e \in S
  PROVE  Tail(Append(s, e)) = Append(Tail(s), e)
  OBVIOUS

\* The sequences of Transport
LEMMA ElementsMessages == \A s \in Seq(TR!Messages) : TR!Elements(s) \subseteq TR!Messages
<1> TAKE s \in Seq(TR!Messages)
<1>1. DOMAIN s = 1 .. Len(s) /\ \A i \in 1 .. Len(s) : s[i] \in TR!Messages
  BY LenProperties, ElementOfSeq
<1> QED
  BY <1>1 DEF TR!Elements

LEMMA UnMessage ==
  /\ \A m \in TR!Messages : m.de \in TR!Proc /\ m.vers \in TR!Proc /\ m.id \in Nat
  /\ TR!Amorce \in TR!Messages /\ 1 \in TR!Proc
BY TransportHypothese DEF TR!Messages, TR!Proc, TR!Amorce
-----------------------------------------------------------------------------
(* What a branch of calcul writes is new, and written once. *)
LEMMA LotEcrit ==
  ASSUME NEW p \in TR!Proc, NEW k \in Nat \ {0}, NEW lot \in TR!Lots(p, k)
  PROVE  /\ lot \in Seq(TR!Messages) /\ Distincts(lot)
         /\ \A m \in TR!Elements(lot) : m.de = p /\ m.id = k
         /\ lot # <<>> => k <= MaxEnvois
<1> DEFINE M(q) == [de |-> p, vers |-> q, id |-> k]
<1>1. CASE lot = <<>>
  BY <1>1, ElementsVide, EmptySeq DEF Distincts
<1>2. ASSUME k <= MaxEnvois
      PROVE  \A q \in TR!Proc : M(q) \in TR!Messages /\ M(q).de = p /\ M(q).vers = q /\ M(q).id = k
  BY <1>2, TransportHypothese DEF TR!Messages, TR!Proc
<1>3. CASE k <= MaxEnvois /\ lot = TR!Diffusion(p, k)
  <2>1. lot = [q \in TR!Proc |-> M(q)]
    BY <1>3 DEF TR!Diffusion, TR!Proc
  <2> HIDE DEF M
  <2>2. lot \in [TR!Proc -> TR!Messages]
    BY <1>2, <1>3, <2>1
  <2>3. lot \in Seq(TR!Messages)
    BY <2>2, TransportHypothese, SeqDef DEF TR!Proc
  <2>4. Distincts(lot)
    BY <1>2, <1>3, <2>1 DEF Distincts
  <2>5. \A m \in TR!Elements(lot) : \E q \in TR!Proc : m = M(q)
    BY <2>1 DEF TR!Elements
  <2> QED
    BY <1>2, <1>3, <2>3, <2>4, <2>5
<1>4. CASE k <= MaxEnvois /\ \E q \in TR!Proc : lot = <<TR!Diffusion(p, k)[q]>>
  <2>1. PICK q \in TR!Proc : lot = <<TR!Diffusion(p, k)[q]>>
    BY <1>4
  <2>2. TR!Diffusion(p, k)[q] = M(q)
    BY DEF TR!Diffusion, TR!Proc
  <2>3. lot = <<M(q)>> /\ M(q) \in TR!Messages
    BY <1>2, <1>4, <2>1, <2>2
  <2>4. lot \in Seq(TR!Messages) /\ DOMAIN lot = {1} /\ lot[1] = M(q)
    <3> HIDE DEF M
    <3> QED
      BY <2>3
  <2>5. Distincts(lot) /\ TR!Elements(lot) = {M(q)}
    BY <2>4 DEF Distincts, TR!Elements
  <2> QED
    BY <1>2, <1>4, <2>4, <2>5
<1> QED
  BY <1>1, <1>3, <1>4 DEF TR!Lots

\* Reading a message changes nothing that arrived, and what the thread writes
\* then has numbers that were never used.
LEMMA EffetLire ==
  ASSUME TR!TypeOK, NEW p \in TR!Proc, TR!Lire(p)
  PROVE  /\ UNCHANGED <<pipeEnvoi, client, attente, workers, threads, donnees, perdus>>
         /\ lus' \in [TR!Proc -> Seq(TR!Messages)] /\ pipeReception' \in [TR!Proc -> Seq(TR!Messages)]
         /\ \A q \in TR!Proc : Recus(q)' = Recus(q)
         /\ envois' \in [TR!Proc -> 0 .. MaxEnvois] /\ \A q \in TR!Proc : envois[q] <= envois'[q]
         /\ aEcrire[p] = <<>>
         /\ \E lot \in Seq(TR!Messages) :
              /\ aEcrire' = [aEcrire EXCEPT ![p] = lot] /\ Distincts(lot)
              /\ \A m \in TR!Elements(lot) : m.de = p /\ m.id > envois[p] /\ m.id <= envois'[p]
<1>1. /\ pipeReception[p] \in Seq(TR!Messages) /\ pipeReception[p] # <<>> /\ lus[p] \in Seq(TR!Messages)
      /\ lus' = [lus EXCEPT ![p] = Append(lus[p], Head(pipeReception[p]))]
      /\ pipeReception' = [pipeReception EXCEPT ![p] = Tail(pipeReception[p])]
  BY DEF TR!Lire, TR!TypeOK
<1>2. /\ Append(lus[p], Head(pipeReception[p])) \in Seq(TR!Messages)
      /\ Tail(pipeReception[p]) \in Seq(TR!Messages)
      /\ Append(lus[p], Head(pipeReception[p])) \o Tail(pipeReception[p]) = lus[p] \o pipeReception[p]
  <2>1. Head(pipeReception[p]) \in TR!Messages /\ Tail(pipeReception[p]) \in Seq(TR!Messages)
    BY <1>1, ElementsReste
  <2>2. Append(lus[p], Head(pipeReception[p])) \in Seq(TR!Messages)
    BY <1>1, <2>1, AppendProperties
  <2> QED
    BY <1>1, <2>1, <2>2, LectureReseau
<1>3. lus' \in [TR!Proc -> Seq(TR!Messages)] /\ pipeReception' \in [TR!Proc -> Seq(TR!Messages)]
  BY <1>1, <1>2 DEF TR!TypeOK
<1>4. \A q \in TR!Proc : Recus(q)' = Recus(q)
  BY <1>1, <1>2 DEF TR!TypeOK, Recus
<1>5. PICK reaction \in TR!Lots(p, envois[p] + 1) :
        \E action \in TR!Lots(p, TR!Apres(envois[p], reaction) + 1) :
          /\ aEcrire' = [aEcrire EXCEPT ![p] = reaction \o action]
          /\ envois' = [envois EXCEPT ![p] = TR!Apres(TR!Apres(envois[p], reaction), action)]
  BY DEF TR!Lire
<1>6. PICK action \in TR!Lots(p, TR!Apres(envois[p], reaction) + 1) :
        /\ aEcrire' = [aEcrire EXCEPT ![p] = reaction \o action]
        /\ envois' = [envois EXCEPT ![p] = TR!Apres(TR!Apres(envois[p], reaction), action)]
  BY <1>5
<1> DEFINE k == TR!Apres(envois[p], reaction)
<1> DEFINE l == TR!Apres(k, action)
<1>7. envois[p] \in 0 .. MaxEnvois /\ MaxEnvois \in Nat
  BY TransportHypothese DEF TR!TypeOK
<1>8. /\ reaction \in Seq(TR!Messages) /\ Distincts(reaction)
      /\ \A m \in TR!Elements(reaction) : m.de = p /\ m.id = envois[p] + 1
      /\ reaction # <<>> => envois[p] + 1 <= MaxEnvois
  BY <1>7, LotEcrit
<1>9. /\ k \in 0 .. MaxEnvois /\ envois[p] <= k
      /\ \A m \in TR!Elements(reaction) : m.id <= k
  BY <1>7, <1>8, ElementsVide DEF TR!Apres
<1> HIDE DEF k
<1>10. /\ action \in Seq(TR!Messages) /\ Distincts(action)
       /\ \A m \in TR!Elements(action) : m.de = p /\ m.id = k + 1
       /\ action # <<>> => k + 1 <= MaxEnvois
  BY <1>6, <1>9, LotEcrit DEF k
<1>11. /\ l \in 0 .. MaxEnvois /\ k <= l
       /\ \A m \in TR!Elements(action) : m.id <= l
  BY <1>7, <1>9, <1>10, ElementsVide DEF TR!Apres
<1> HIDE DEF l
<1>12. envois' = [envois EXCEPT ![p] = l] /\ aEcrire' = [aEcrire EXCEPT ![p] = reaction \o action]
  BY <1>6 DEF k, l
<1>13. TR!Elements(reaction) \cap TR!Elements(action) = {}
  BY <1>7, <1>8, <1>9, <1>10
<1>14. /\ reaction \o action \in Seq(TR!Messages) /\ Distincts(reaction \o action)
       /\ TR!Elements(reaction \o action) = TR!Elements(reaction) \cup TR!Elements(action)
  BY <1>8, <1>10, <1>13, ElementsConcat
<1>15. envois' \in [TR!Proc -> 0 .. MaxEnvois] /\ envois'[p] = l
         /\ \A q \in TR!Proc : envois[q] <= envois'[q]
  BY <1>7, <1>9, <1>11, <1>12 DEF TR!TypeOK
<1>16. \A m \in TR!Elements(reaction \o action) : m.de = p /\ m.id > envois[p] /\ m.id <= envois'[p]
  BY <1>7, <1>8, <1>9, <1>10, <1>11, <1>14, <1>15
<1>17. /\ UNCHANGED <<pipeEnvoi, client, attente, workers, threads, donnees, perdus>>
       /\ aEcrire[p] = <<>>
  BY DEF TR!Lire
<1> QED
  BY <1>3, <1>4, <1>12, <1>14, <1>15, <1>16, <1>17

\* Writing takes a message to the pipe.
LEMMA EffetEcrire ==
  ASSUME TR!TypeOK, InvAdresses, InvDistincts, NEW p \in TR!Proc, TR!Ecrire(p)
  PROVE  /\ UNCHANGED <<envois, pipeReception, client, attente, workers, threads, donnees, lus, perdus>>
         /\ aEcrire' \in [TR!Proc -> Seq(TR!Messages)] /\ pipeEnvoi' \in [TR!Proc -> Seq(TR!Messages)]
         /\ \A q \in TR!Proc : Distincts(aEcrire'[q])
         /\ \E m0 \in TR!Messages :
              /\ m0.de = p /\ AEcrire(m0)
              /\ \A q \in TR!Proc : TR!Elements(aEcrire'[q]) \subseteq TR!Elements(aEcrire[q])
              /\ \A q \in TR!Proc : q # p => pipeEnvoi'[q] = pipeEnvoi[q]
              /\ TR!Elements(pipeEnvoi'[p]) = TR!Elements(pipeEnvoi[p]) \cup {m0}
              /\ ~ DansPipe(m0) => Distincts(pipeEnvoi'[p])
              /\ \A m \in TR!Messages : AEcrire(m)' <=> AEcrire(m) /\ m # m0
              /\ \A m \in TR!Messages : DansPipe(m)' <=> DansPipe(m) \/ m = m0
<1> DEFINE m0 == Head(aEcrire[p])
<1>1. /\ aEcrire[p] \in Seq(TR!Messages) /\ aEcrire[p] # <<>> /\ pipeEnvoi[p] \in Seq(TR!Messages)
      /\ Distincts(aEcrire[p]) /\ Distincts(pipeEnvoi[p])
      /\ \A m \in TR!Elements(aEcrire[p]) : m.de = p
  BY DEF TR!Ecrire, TR!TypeOK, InvAdresses, InvDistincts
<1>2. /\ m0 \in TR!Messages /\ Tail(aEcrire[p]) \in Seq(TR!Messages)
      /\ TR!Elements(aEcrire[p]) = {m0} \cup TR!Elements(Tail(aEcrire[p]))
      /\ Distincts(Tail(aEcrire[p])) /\ m0 \notin TR!Elements(Tail(aEcrire[p]))
  BY <1>1, ElementsReste
<1>3. aEcrire' = [aEcrire EXCEPT ![p] = Tail(aEcrire[p])]
        /\ pipeEnvoi' = [pipeEnvoi EXCEPT ![p] = Append(pipeEnvoi[p], m0)]
  BY DEF TR!Ecrire
<1> HIDE DEF m0
<1>4. /\ Append(pipeEnvoi[p], m0) \in Seq(TR!Messages)
      /\ TR!Elements(Append(pipeEnvoi[p], m0)) = TR!Elements(pipeEnvoi[p]) \cup {m0}
      /\ m0 \notin TR!Elements(pipeEnvoi[p]) => Distincts(Append(pipeEnvoi[p], m0))
  BY <1>1, <1>2, ElementsAjout
<1>5. /\ aEcrire' \in [TR!Proc -> Seq(TR!Messages)] /\ pipeEnvoi' \in [TR!Proc -> Seq(TR!Messages)]
      /\ aEcrire'[p] = Tail(aEcrire[p]) /\ \A q \in TR!Proc : q # p => aEcrire'[q] = aEcrire[q]
      /\ pipeEnvoi'[p] = Append(pipeEnvoi[p], m0) /\ \A q \in TR!Proc : q # p
           => pipeEnvoi'[q] = pipeEnvoi[q]
  BY <1>2, <1>3, <1>4 DEF TR!TypeOK
<1>6. m0.de = p /\ AEcrire(m0)
  BY <1>1, <1>2 DEF AEcrire
<1>7. \A m \in TR!Messages : AEcrire(m)' <=> AEcrire(m) /\ m # m0
  BY <1>2, <1>5, <1>6, UnMessage DEF AEcrire
<1>8. \A m \in TR!Messages : DansPipe(m)' <=> DansPipe(m) \/ m = m0
  <2> SUFFICES ASSUME NEW m \in TR!Messages
               PROVE  m \in TR!Elements(pipeEnvoi'[m.de]) <=> m \in TR!Elements(pipeEnvoi[m.de]) \/ m = m0
    BY DEF DansPipe
  <2>1. CASE m.de = p
    BY <1>4, <1>5, <2>1
  <2>2. CASE m.de # p
    BY <1>5, <1>6, <2>2, UnMessage
  <2> QED
    BY <2>1, <2>2
<1>9. \A q \in TR!Proc : Distincts(aEcrire'[q])
        /\ TR!Elements(aEcrire'[q]) \subseteq TR!Elements(aEcrire[q])
  BY <1>2, <1>5 DEF InvDistincts
<1>10. UNCHANGED <<envois, pipeReception, client, attente, workers, threads, donnees, lus, perdus>>
  BY DEF TR!Ecrire
<1>11. ~ DansPipe(m0) => Distincts(pipeEnvoi'[p])
  BY <1>4, <1>5, <1>6 DEF DansPipe
<1> QED
  BY <1>2, <1>4, <1>5, <1>6, <1>7, <1>8, <1>9, <1>10, <1>11

\* The client takes a message from the pipe.
LEMMA EffetClientLire ==
  ASSUME TR!TypeOK, InvAdresses, InvDistincts, NEW p \in TR!Proc, TR!ClientLire(p)
  PROVE  /\ UNCHANGED <<aEcrire, envois, pipeReception, attente, workers, threads, donnees, lus, perdus>>
         /\ pipeEnvoi' \in [TR!Proc -> Seq(TR!Messages)]
         /\ client' \in [TR!Proc -> [etat : {"libre", "connexion", "envoi"}, msg : TR!Messages \cup {TR!Rien}]]
         /\ \A q \in TR!Proc : Distincts(pipeEnvoi'[q])
              /\ TR!Elements(pipeEnvoi'[q]) \subseteq TR!Elements(pipeEnvoi[q])
         /\ \E m0 \in TR!Messages :
              /\ m0.de = p /\ DansPipe(m0)
              /\ client' = [client EXCEPT ![p] = [etat |-> "connexion", msg |-> m0]]
              /\ \A m \in TR!Messages : DansPipe(m)' <=> DansPipe(m) /\ m # m0
              /\ \A m \in TR!Messages : EnConnexion(m)' <=> EnConnexion(m) \/ m = m0
<1> DEFINE m0 == Head(pipeEnvoi[p])
<1>1. /\ pipeEnvoi[p] \in Seq(TR!Messages) /\ pipeEnvoi[p] # <<>> /\ Distincts(pipeEnvoi[p])
      /\ \A m \in TR!Elements(pipeEnvoi[p]) : m.de = p
      /\ client[p].etat = "libre"
  BY DEF TR!ClientLire, TR!TypeOK, InvAdresses, InvDistincts
<1>2. /\ m0 \in TR!Messages /\ Tail(pipeEnvoi[p]) \in Seq(TR!Messages)
      /\ TR!Elements(pipeEnvoi[p]) = {m0} \cup TR!Elements(Tail(pipeEnvoi[p]))
      /\ Distincts(Tail(pipeEnvoi[p])) /\ m0 \notin TR!Elements(Tail(pipeEnvoi[p]))
  BY <1>1, ElementsReste
<1>3. pipeEnvoi' = [pipeEnvoi EXCEPT ![p] = Tail(pipeEnvoi[p])]
        /\ client' = [client EXCEPT ![p] = [etat |-> "connexion", msg |-> m0]]
  BY DEF TR!ClientLire
<1> HIDE DEF m0
<1>5. /\ pipeEnvoi' \in [TR!Proc -> Seq(TR!Messages)]
      /\ pipeEnvoi'[p] = Tail(pipeEnvoi[p]) /\ \A q \in TR!Proc : q # p => pipeEnvoi'[q] = pipeEnvoi[q]
      /\ client' \in [TR!Proc -> [etat : {"libre", "connexion", "envoi"}, msg : TR!Messages \cup {TR!Rien}]]
      /\ client'[p].etat = "connexion" /\ client'[p].msg = m0
      /\ \A q \in TR!Proc : q # p => client'[q] = client[q]
  BY <1>2, <1>3 DEF TR!TypeOK
<1>6. m0.de = p /\ DansPipe(m0)
  BY <1>1, <1>2 DEF DansPipe
<1>7. \A m \in TR!Messages : DansPipe(m)' <=> DansPipe(m) /\ m # m0
  <2> SUFFICES ASSUME NEW m \in TR!Messages
               PROVE  m \in TR!Elements(pipeEnvoi'[m.de]) <=> m \in TR!Elements(pipeEnvoi[m.de]) /\ m # m0
    BY DEF DansPipe
  <2>1. CASE m.de = p
    BY <1>2, <1>5, <2>1
  <2>2. CASE m.de # p
    BY <1>5, <1>6, <2>2, UnMessage
  <2> QED
    BY <2>1, <2>2
<1>8. \A m \in TR!Messages : EnConnexion(m)' <=> EnConnexion(m) \/ m = m0
  BY <1>1, <1>5, <1>6, UnMessage DEF EnConnexion
<1>9. \A q \in TR!Proc : Distincts(pipeEnvoi'[q])
        /\ TR!Elements(pipeEnvoi'[q]) \subseteq TR!Elements(pipeEnvoi[q])
  BY <1>2, <1>5 DEF InvDistincts
<1>10. UNCHANGED <<aEcrire, envois, pipeReception, attente, workers, threads, donnees, lus, perdus>>
  BY DEF TR!ClientLire
<1> QED
  BY <1>2, <1>3, <1>5, <1>6, <1>7, <1>8, <1>9, <1>10

\* The connection waits for accept.
LEMMA EffetConnecter ==
  ASSUME TR!TypeOK, InvAdresses, InvDistincts, NEW p \in TR!Proc, TR!Connecter(p)
  PROVE  /\ UNCHANGED <<aEcrire, envois, pipeEnvoi, pipeReception, workers, threads, donnees, lus, perdus>>
         /\ attente' \in [TR!Proc -> Seq(TR!Messages)]
         /\ client' \in [TR!Proc -> [etat : {"libre", "connexion", "envoi"}, msg : TR!Messages \cup {TR!Rien}]]
         /\ \A q \in TR!Proc : client'[q].msg = client[q].msg /\ (client'[q].etat # "libre"
              => client[q].etat # "libre")
         /\ \E m0 \in TR!Messages :
              /\ EnConnexion(m0)
              /\ \A q \in TR!Proc : q # m0.vers => attente'[q] = attente[q]
              /\ TR!Elements(attente'[m0.vers]) = TR!Elements(attente[m0.vers]) \cup {m0}
              /\ ~ EnAttente(m0) => Distincts(attente'[m0.vers])
              /\ \A m \in TR!Messages : EnConnexion(m)' <=> EnConnexion(m) /\ m # m0
              /\ \A m \in TR!Messages : EnAttente(m)' <=> EnAttente(m) \/ m = m0
<1> DEFINE m0 == client[p].msg
<1>1. m0 \in TR!Messages /\ m0.de = p /\ m0.vers \in TR!Proc /\ client[p].etat = "connexion"
  BY UnMessage DEF TR!Connecter, InvAdresses
<1>2. /\ attente' = [attente EXCEPT ![m0.vers] = Append(attente[m0.vers], m0)]
      /\ client' = [client EXCEPT ![p] = [client[p] EXCEPT !.etat = "envoi"]]
  BY DEF TR!Connecter
<1>3. /\ client' \in [TR!Proc -> [etat : {"libre", "connexion", "envoi"}, msg : TR!Messages \cup {TR!Rien}]]
      /\ client'[p].etat = "envoi" /\ client'[p].msg = client[p].msg
      /\ \A q \in TR!Proc : q # p => client'[q] = client[q]
  BY <1>2 DEF TR!TypeOK
<1>4. EnConnexion(m0)
  BY <1>1 DEF EnConnexion
<1>5. \A m \in TR!Messages : EnConnexion(m)' <=> EnConnexion(m) /\ m # m0
  BY <1>1, <1>3, UnMessage DEF EnConnexion
<1>6. \A q \in TR!Proc : client'[q].msg = client[q].msg /\ (client'[q].etat # "libre"
        => client[q].etat # "libre")
  BY <1>1, <1>3
<1> HIDE DEF m0
<1>7. attente[m0.vers] \in Seq(TR!Messages) /\ Distincts(attente[m0.vers])
  BY <1>1 DEF TR!TypeOK, InvDistincts
<1>8. /\ Append(attente[m0.vers], m0) \in Seq(TR!Messages)
      /\ TR!Elements(Append(attente[m0.vers], m0)) = TR!Elements(attente[m0.vers]) \cup {m0}
      /\ m0 \notin TR!Elements(attente[m0.vers]) => Distincts(Append(attente[m0.vers], m0))
  BY <1>1, <1>7, ElementsAjout
<1>9. /\ attente' \in [TR!Proc -> Seq(TR!Messages)] /\ attente'[m0.vers] = Append(attente[m0.vers], m0)
      /\ \A q \in TR!Proc : q # m0.vers => attente'[q] = attente[q]
  BY <1>1, <1>2, <1>8 DEF TR!TypeOK
<1>10. ~ EnAttente(m0) => Distincts(attente'[m0.vers])
  BY <1>8, <1>9 DEF EnAttente
<1>11. \A m \in TR!Messages : EnAttente(m)' <=> EnAttente(m) \/ m = m0
  BY <1>1, <1>8, <1>9, UnMessage DEF EnAttente
<1>12. UNCHANGED <<aEcrire, envois, pipeEnvoi, pipeReception, workers, threads, donnees, lus, perdus>>
  BY DEF TR!Connecter
<1>13. TR!Elements(attente'[m0.vers]) = TR!Elements(attente[m0.vers]) \cup {m0}
  BY <1>8, <1>9
<1> QED
  BY <1>1, <1>3, <1>4, <1>5, <1>6, <1>9, <1>10, <1>11, <1>12, <1>13

\* Sending and closing moves no message.
LEMMA EffetEnvoyer ==
  ASSUME TR!TypeOK, InvAdresses, NEW p \in TR!Proc, TR!Envoyer(p)
  PROVE  /\ UNCHANGED <<aEcrire, envois, pipeEnvoi, pipeReception, attente, workers, threads, lus, perdus>>
         /\ donnees' \subseteq TR!Messages
         /\ client' \in [TR!Proc -> [etat : {"libre", "connexion", "envoi"}, msg : TR!Messages \cup {TR!Rien}]]
         /\ \A q \in TR!Proc : client'[q].etat # "libre" => client'[q] = client[q]
         /\ \A m \in TR!Messages : EnConnexion(m)' <=> EnConnexion(m)
<1>1. /\ client[p].etat = "envoi" /\ client[p].msg \in TR!Messages
      /\ client' = [client EXCEPT ![p] = [etat |-> "libre", msg |-> TR!Rien]]
      /\ donnees' = donnees \cup {client[p].msg}
  BY DEF TR!Envoyer, InvAdresses
<1>2. /\ client' \in [TR!Proc -> [etat : {"libre", "connexion", "envoi"}, msg : TR!Messages \cup {TR!Rien}]]
      /\ client'[p].etat = "libre" /\ \A q \in TR!Proc : q # p => client'[q] = client[q]
  BY <1>1 DEF TR!TypeOK
<1>3. \A m \in TR!Messages : EnConnexion(m)' <=> EnConnexion(m)
  BY <1>1, <1>2, UnMessage DEF EnConnexion
<1>4. donnees' \subseteq TR!Messages
  BY <1>1 DEF TR!TypeOK
<1>5. \A q \in TR!Proc : client'[q].etat # "libre" => client'[q] = client[q]
  BY <1>2
<1> QED
  BY <1>2, <1>3, <1>4, <1>5 DEF TR!Envoyer

\* accept() gives the message to a worker, or drops it.
LEMMA EffetAccepter ==
  ASSUME TR!TypeOK, InvAdresses, InvDistincts, NEW q \in TR!Proc, TR!Accepter(q)
  PROVE  /\ UNCHANGED <<aEcrire, envois, pipeEnvoi, pipeReception, client, donnees, lus>>
         /\ attente' \in [TR!Proc -> Seq(TR!Messages)] /\ workers' \in [TR!Proc -> SUBSET TR!Messages]
         /\ threads' \in [TR!Proc -> 0 .. MaxThreads] /\ perdus' \in [TR!Proc -> SUBSET TR!Messages]
         /\ \A r \in TR!Proc : Distincts(attente'[r])
              /\ TR!Elements(attente'[r]) \subseteq TR!Elements(attente[r])
         /\ \E m0 \in TR!Messages :
              /\ m0.vers = q /\ EnAttente(m0)
              /\ \A r \in TR!Proc : workers'[r] \cup perdus'[r] \subseteq workers[r] \cup perdus[r] \cup (IF r = q THEN {m0} ELSE {})
              /\ \A m \in TR!Messages : EnAttente(m)' <=> EnAttente(m) /\ m # m0
              /\ \/ /\ \A m \in TR!Messages : ChezWorker(m)' <=> ChezWorker(m) \/ m = m0
                    /\ \A m \in TR!Messages : Perdu(m)' <=> Perdu(m)
                 \/ /\ \A m \in TR!Messages : ChezWorker(m)' <=> ChezWorker(m)
                    /\ \A m \in TR!Messages : Perdu(m)' <=> Perdu(m) \/ m = m0
<1> DEFINE m0 == Head(attente[q])
<1>1. /\ attente[q] \in Seq(TR!Messages) /\ attente[q] # <<>> /\ Distincts(attente[q])
      /\ \A m \in TR!Elements(attente[q]) : m.vers = q
  BY DEF TR!Accepter, TR!PeutAccepter, TR!TypeOK, InvAdresses, InvDistincts
<1>2. /\ m0 \in TR!Messages /\ Tail(attente[q]) \in Seq(TR!Messages)
      /\ TR!Elements(attente[q]) = {m0} \cup TR!Elements(Tail(attente[q]))
      /\ Distincts(Tail(attente[q])) /\ m0 \notin TR!Elements(Tail(attente[q]))
  BY <1>1, ElementsReste
<1>3. /\ attente' = [attente EXCEPT ![q] = Tail(attente[q])]
      /\ \/ /\ threads[q] < MaxThreads /\ threads' = [threads EXCEPT ![q] = threads[q] + 1]
            /\ workers' = [workers EXCEPT ![q] = workers[q] \cup {m0}] /\ perdus' = perdus
         \/ /\ perdus' = [perdus EXCEPT ![q] = perdus[q] \cup {m0}]
            /\ threads' = threads /\ workers' = workers
  BY DEF TR!Accepter, TR!PeutCreer
<1> HIDE DEF m0
<1>4. /\ attente' \in [TR!Proc -> Seq(TR!Messages)] /\ attente'[q] = Tail(attente[q])
      /\ \A r \in TR!Proc : r # q => attente'[r] = attente[r]
  BY <1>2, <1>3 DEF TR!TypeOK
<1>5. m0.vers = q /\ EnAttente(m0)
  BY <1>1, <1>2 DEF EnAttente
<1>6. \A m \in TR!Messages : EnAttente(m)' <=> EnAttente(m) /\ m # m0
  BY <1>2, <1>4, <1>5, UnMessage DEF EnAttente
<1>7. \A r \in TR!Proc : Distincts(attente'[r])
        /\ TR!Elements(attente'[r]) \subseteq TR!Elements(attente[r])
  BY <1>2, <1>4 DEF InvDistincts
<1>8. UNCHANGED <<aEcrire, envois, pipeEnvoi, pipeReception, client, donnees, lus>>
  BY DEF TR!Accepter
<1>9. CASE /\ threads[q] < MaxThreads /\ threads' = [threads EXCEPT ![q] = threads[q] + 1]
           /\ workers' = [workers EXCEPT ![q] = workers[q] \cup {m0}] /\ perdus' = perdus
  <2>1. threads' \in [TR!Proc -> 0 .. MaxThreads]
    BY <1>9, TransportHypothese DEF TR!TypeOK
  <2>2. /\ workers' \in [TR!Proc -> SUBSET TR!Messages] /\ workers'[q] = workers[q] \cup {m0}
        /\ \A r \in TR!Proc : r # q => workers'[r] = workers[r]
        /\ perdus' \in [TR!Proc -> SUBSET TR!Messages]
    BY <1>2, <1>9 DEF TR!TypeOK
  <2>3. \A m \in TR!Messages : ChezWorker(m)' <=> ChezWorker(m) \/ m = m0
    BY <1>5, <2>2, UnMessage DEF ChezWorker
  <2>4. \A m \in TR!Messages : Perdu(m)' <=> Perdu(m)
    BY <1>9 DEF Perdu
  <2>5. \A r \in TR!Proc : workers'[r] \cup perdus'[r] \subseteq workers[r] \cup perdus[r]
          \cup (IF r = q THEN {m0} ELSE {})
    BY <1>9, <2>2
  <2> QED
    BY <1>2, <1>4, <1>5, <1>6, <1>7, <1>8, <2>1, <2>2, <2>3, <2>4, <2>5
<1>10. CASE /\ perdus' = [perdus EXCEPT ![q] = perdus[q] \cup {m0}]
            /\ threads' = threads /\ workers' = workers
  <2>1. threads' \in [TR!Proc -> 0 .. MaxThreads] /\ workers' \in [TR!Proc -> SUBSET TR!Messages]
    BY <1>10 DEF TR!TypeOK
  <2>2. /\ perdus' \in [TR!Proc -> SUBSET TR!Messages] /\ perdus'[q] = perdus[q] \cup {m0}
        /\ \A r \in TR!Proc : r # q => perdus'[r] = perdus[r]
    BY <1>2, <1>10 DEF TR!TypeOK
  <2>3. \A m \in TR!Messages : Perdu(m)' <=> Perdu(m) \/ m = m0
    BY <1>5, <2>2, UnMessage DEF Perdu
  <2>4. \A m \in TR!Messages : ChezWorker(m)' <=> ChezWorker(m)
    BY <1>10 DEF ChezWorker
  <2>5. \A r \in TR!Proc : workers'[r] \cup perdus'[r] \subseteq workers[r] \cup perdus[r]
          \cup (IF r = q THEN {m0} ELSE {})
    BY <1>10, <2>2
  <2> QED
    BY <1>2, <1>4, <1>5, <1>6, <1>7, <1>8, <2>1, <2>2, <2>3, <2>4, <2>5
<1> QED
  BY <1>3, <1>9, <1>10

\* The worker writes the message in the pipe of calcul.
LEMMA EffetTravailler ==
  ASSUME TR!TypeOK, InvAdresses, NEW q \in TR!Proc, NEW m0 \in TR!Messages, TR!Travailler(q, m0)
  PROVE  /\ UNCHANGED <<aEcrire, envois, pipeEnvoi, client, attente, threads, lus, perdus>>
         /\ pipeReception' \in [TR!Proc -> Seq(TR!Messages)] /\ workers' \in [TR!Proc -> SUBSET TR!Messages]
         /\ donnees' \subseteq TR!Messages
         /\ m0.vers = q /\ ChezWorker(m0)
         /\ \A r \in TR!Proc : workers'[r] \subseteq workers[r]
         /\ Recus(q)' = Append(Recus(q), m0) /\ Recus(q) \in Seq(TR!Messages)
         /\ \A r \in TR!Proc : r # q => Recus(r)' = Recus(r)
         /\ \A m \in TR!Messages : ChezWorker(m)' <=> ChezWorker(m) /\ m # m0
         /\ \A m \in TR!Messages : Arrive(m)' <=> Arrive(m) \/ m = m0
<1>1. /\ m0 \in workers[q] /\ pipeReception' = [pipeReception EXCEPT ![q] = Append(pipeReception[q], m0)]
      /\ workers' = [workers EXCEPT ![q] = workers[q] \ {m0}] /\ donnees' = donnees \ {m0}
  BY DEF TR!Travailler
<1>2. m0.vers = q /\ ChezWorker(m0)
  BY <1>1 DEF InvAdresses, ChezWorker
<1>3. /\ pipeReception[q] \in Seq(TR!Messages) /\ lus[q] \in Seq(TR!Messages)
      /\ Append(pipeReception[q], m0) \in Seq(TR!Messages)
  BY AppendProperties DEF TR!TypeOK
<1>4. lus[q] \o Append(pipeReception[q], m0) = Append(lus[q] \o pipeReception[q], m0)
        /\ lus[q] \o pipeReception[q] \in Seq(TR!Messages)
  <2>1. lus[q] \o pipeReception[q] \in Seq(TR!Messages)
    BY <1>3, ConcatProperties
  <2> QED
    BY <1>3, <2>1, Livraison, Zenon
<1>5. /\ pipeReception' \in [TR!Proc -> Seq(TR!Messages)]
      /\ pipeReception'[q] = Append(pipeReception[q], m0)
      /\ \A r \in TR!Proc : r # q => pipeReception'[r] = pipeReception[r]
      /\ workers' \in [TR!Proc -> SUBSET TR!Messages] /\ workers'[q] = workers[q] \ {m0}
      /\ \A r \in TR!Proc : r # q => workers'[r] = workers[r]
      /\ donnees' \subseteq TR!Messages
  BY <1>1, <1>3 DEF TR!TypeOK
<1>6. UNCHANGED <<aEcrire, envois, pipeEnvoi, client, attente, threads, lus, perdus>>
  BY DEF TR!Travailler
<1>7. /\ Recus(q)' = Append(Recus(q), m0) /\ Recus(q) \in Seq(TR!Messages)
      /\ \A r \in TR!Proc : r # q => Recus(r)' = Recus(r)
  BY <1>4, <1>5, <1>6 DEF Recus
<1>8. TR!Elements(Recus(q)') = TR!Elements(Recus(q)) \cup {m0}
  BY <1>7, ElementsAjout
<1>9. \A m \in TR!Messages : ChezWorker(m)' <=> ChezWorker(m) /\ m # m0
  BY <1>2, <1>5, UnMessage DEF ChezWorker
<1>10. \A m \in TR!Messages : Arrive(m)' <=> Arrive(m) \/ m = m0
  BY <1>2, <1>7, <1>8, UnMessage DEF Arrive
<1>11. \A r \in TR!Proc : workers'[r] \subseteq workers[r]
  BY <1>5
<1> QED
  BY <1>2, <1>5, <1>6, <1>7, <1>9, <1>10, <1>11
-----------------------------------------------------------------------------
(* What a step does to the place of each message. *)
\* The variables that hold a message decide its places.
LEMMA Inchange ==
  ASSUME NEW m \in TR!Messages
  PROVE  /\ UNCHANGED aEcrire => (AEcrire(m)' <=> AEcrire(m))
         /\ UNCHANGED pipeEnvoi => (DansPipe(m)' <=> DansPipe(m))
         /\ UNCHANGED client => (EnConnexion(m)' <=> EnConnexion(m))
         /\ UNCHANGED attente => (EnAttente(m)' <=> EnAttente(m))
         /\ UNCHANGED workers => (ChezWorker(m)' <=> ChezWorker(m))
         /\ UNCHANGED perdus => (Perdu(m)' <=> Perdu(m))
         /\ UNCHANGED <<lus, pipeReception>> => (Arrive(m)' <=> Arrive(m))
BY DEF AEcrire, DansPipe, EnConnexion, EnAttente, ChezWorker, Perdu, Arrive, Recus

\* What calcul writes after a reading is nowhere else yet.
LEMMA NouveauxMessages ==
  ASSUME TR!TypeOK, InvLieux, NEW p \in TR!Proc, TR!Lire(p), NEW m \in TR!Messages
  PROVE  /\ DansPipe(m)' <=> DansPipe(m)
         /\ EnConnexion(m)' <=> EnConnexion(m)
         /\ EnAttente(m)' <=> EnAttente(m)
         /\ ChezWorker(m)' <=> ChezWorker(m)
         /\ Perdu(m)' <=> Perdu(m)
         /\ Arrive(m)' <=> Arrive(m)
         /\ envois[m.de] \in Nat /\ envois'[m.de] \in Nat /\ envois[m.de] <= envois'[m.de]
         /\ AEcrire(m)' => AEcrire(m) \/ (m.id > envois[m.de] /\ m.id <= envois'[m.de])
<1>1. /\ UNCHANGED <<pipeEnvoi, client, attente, workers, perdus>>
      /\ \A q \in TR!Proc : Recus(q)' = Recus(q)
      /\ envois' \in [TR!Proc -> 0 .. MaxEnvois] /\ \A q \in TR!Proc : envois[q] <= envois'[q]
  BY EffetLire
<1>2. PICK lot \in Seq(TR!Messages) :
        /\ aEcrire' = [aEcrire EXCEPT ![p] = lot]
        /\ \A x \in TR!Elements(lot) : x.de = p /\ x.id > envois[p] /\ x.id <= envois'[p]
  BY EffetLire
<1>3. m.de \in TR!Proc /\ m.vers \in TR!Proc
  BY UnMessage
<1>4. aEcrire'[p] = lot /\ \A q \in TR!Proc : q # p => aEcrire'[q] = aEcrire[q]
  BY <1>2 DEF TR!TypeOK
<1>5. AEcrire(m)' => AEcrire(m) \/ (m.id > envois[m.de] /\ m.id <= envois'[m.de])
  <2>1. CASE m.de = p
    BY <1>2, <1>4, <2>1 DEF AEcrire
  <2>2. CASE m.de # p
    BY <1>3, <1>4, <2>2 DEF AEcrire
  <2> QED
    BY <2>1, <2>2
<1>6. Arrive(m)' <=> Arrive(m)
  BY <1>1, <1>3 DEF Arrive
<1>7. envois[m.de] \in Nat /\ envois'[m.de] \in Nat /\ envois[m.de] <= envois'[m.de]
  BY <1>1, <1>3, TransportHypothese DEF TR!TypeOK
<1> QED
  BY <1>1, <1>5, <1>6, <1>7, Inchange

\* InvLieux, for one message
Lieux(m) ==
  /\ AEcrire(m) => ~ EnTransit(m) /\ ~ Arrive(m) /\ m.id # 0
  /\ DansPipe(m) => ~ EnConnexion(m) /\ ~ EnAttente(m) /\ ~ ChezWorker(m) /\ ~ Perdu(m) /\ ~ Arrive(m)
  /\ EnConnexion(m) => ~ EnAttente(m) /\ ~ ChezWorker(m) /\ ~ Perdu(m) /\ ~ Arrive(m)
  /\ EnAttente(m) => ~ ChezWorker(m) /\ ~ Perdu(m) /\ ~ Arrive(m)
  /\ ChezWorker(m) => ~ Perdu(m) /\ ~ Arrive(m)
  /\ Perdu(m) => ~ Arrive(m)
  /\ AEcrire(m) \/ EnTransit(m) \/ Arrive(m) => m.id <= envois[m.de]

LEMMA PasLieux ==
  ASSUME InvReseau, [TR!Next]_TR!vars, NEW m \in TR!Messages
  PROVE  Lieux(m)'
<1>0. Lieux(m) /\ m.id \in Nat
  BY UnMessage DEF InvReseau, InvLieux, Lieux
<1>1. ASSUME NEW p \in TR!Proc, TR!Lire(p)
      PROVE  Lieux(m)'
  <2>1. /\ DansPipe(m)' <=> DansPipe(m)
        /\ EnConnexion(m)' <=> EnConnexion(m)
        /\ EnAttente(m)' <=> EnAttente(m)
        /\ ChezWorker(m)' <=> ChezWorker(m)
        /\ Perdu(m)' <=> Perdu(m)
        /\ Arrive(m)' <=> Arrive(m)
        /\ envois[m.de] \in Nat /\ envois'[m.de] \in Nat /\ envois[m.de] <= envois'[m.de]
        /\ AEcrire(m)' => AEcrire(m) \/ (m.id > envois[m.de] /\ m.id <= envois'[m.de])
    BY <1>1, NouveauxMessages DEF InvReseau
  <2>2. AEcrire(m)' => ~ EnTransit(m) /\ ~ Arrive(m) /\ m.id # 0 /\ m.id <= envois'[m.de]
    BY <1>0, <2>1 DEF Lieux
  <2>3. EnTransit(m) \/ Arrive(m) => m.id <= envois'[m.de]
    BY <1>0, <2>1 DEF Lieux
  <2> QED
    BY <1>0, <2>1, <2>2, <2>3 DEF Lieux, EnTransit
<1>2. ASSUME NEW p \in TR!Proc, TR!Ecrire(p)
      PROVE  Lieux(m)'
  <2>1. PICK m0 \in TR!Messages :
          /\ AEcrire(m0)
          /\ AEcrire(m)' <=> AEcrire(m) /\ m # m0
          /\ DansPipe(m)' <=> DansPipe(m) \/ m = m0
    BY <1>2, EffetEcrire DEF InvReseau
  <2>2. UNCHANGED <<envois, pipeReception, client, attente, workers, lus, perdus>>
    BY <1>2 DEF TR!Ecrire
  <2> QED
    BY <1>0, <2>1, <2>2, Inchange DEF Lieux, EnTransit
<1>3. ASSUME NEW p \in TR!Proc, TR!ClientLire(p)
      PROVE  Lieux(m)'
  <2>1. PICK m0 \in TR!Messages :
          /\ DansPipe(m0)
          /\ DansPipe(m)' <=> DansPipe(m) /\ m # m0
          /\ EnConnexion(m)' <=> EnConnexion(m) \/ m = m0
    BY <1>3, EffetClientLire DEF InvReseau
  <2>2. UNCHANGED <<aEcrire, envois, pipeReception, attente, workers, lus, perdus>>
    BY <1>3 DEF TR!ClientLire
  <2> QED
    BY <1>0, <2>1, <2>2, Inchange DEF Lieux, EnTransit
<1>4. ASSUME NEW p \in TR!Proc, TR!Connecter(p)
      PROVE  Lieux(m)'
  <2>1. PICK m0 \in TR!Messages :
          /\ EnConnexion(m0)
          /\ EnConnexion(m)' <=> EnConnexion(m) /\ m # m0
          /\ EnAttente(m)' <=> EnAttente(m) \/ m = m0
    BY <1>4, EffetConnecter DEF InvReseau
  <2>2. UNCHANGED <<aEcrire, envois, pipeEnvoi, pipeReception, workers, lus, perdus>>
    BY <1>4 DEF TR!Connecter
  <2> QED
    BY <1>0, <2>1, <2>2, Inchange DEF Lieux, EnTransit
<1>5. ASSUME NEW p \in TR!Proc, TR!Envoyer(p)
      PROVE  Lieux(m)'
  <2>1. EnConnexion(m)' <=> EnConnexion(m)
    BY <1>5, EffetEnvoyer DEF InvReseau
  <2>2. UNCHANGED <<aEcrire, envois, pipeEnvoi, pipeReception, attente, workers, lus, perdus>>
    BY <1>5 DEF TR!Envoyer
  <2> QED
    BY <1>0, <2>1, <2>2, Inchange DEF Lieux, EnTransit
<1>6. ASSUME NEW p \in TR!Proc, TR!Accepter(p)
      PROVE  Lieux(m)'
  <2>1. PICK m0 \in TR!Messages :
          /\ EnAttente(m0)
          /\ EnAttente(m)' <=> EnAttente(m) /\ m # m0
          /\ \/ (ChezWorker(m)' <=> ChezWorker(m) \/ m = m0) /\ (Perdu(m)' <=> Perdu(m))
             \/ (ChezWorker(m)' <=> ChezWorker(m)) /\ (Perdu(m)' <=> Perdu(m) \/ m = m0)
    BY <1>6, EffetAccepter DEF InvReseau
  <2>2. UNCHANGED <<aEcrire, envois, pipeEnvoi, pipeReception, client, lus>>
    BY <1>6 DEF TR!Accepter
  <2> QED
    BY <1>0, <2>1, <2>2, Inchange DEF Lieux, EnTransit
<1>7. ASSUME NEW p \in TR!Proc, NEW m0 \in workers[p], TR!Travailler(p, m0)
      PROVE  Lieux(m)'
  <2>0. m0 \in TR!Messages
    BY <1>7 DEF InvReseau, TR!TypeOK
  <2>1. /\ ChezWorker(m0)
        /\ ChezWorker(m)' <=> ChezWorker(m) /\ m # m0
        /\ Arrive(m)' <=> Arrive(m) \/ m = m0
    BY <1>7, <2>0, EffetTravailler DEF InvReseau
  <2>2. UNCHANGED <<aEcrire, envois, pipeEnvoi, client, attente, lus, perdus>>
    BY <1>7 DEF TR!Travailler
  <2> QED
    BY <1>0, <2>1, <2>2, Inchange DEF Lieux, EnTransit
<1>8. CASE UNCHANGED TR!vars
  <2>1. UNCHANGED <<aEcrire, envois, pipeEnvoi, pipeReception, client, attente, workers, lus, perdus>>
    BY <1>8 DEF TR!vars
  <2> QED
    BY <1>0, <2>1, Inchange DEF Lieux, EnTransit
<1> QED
  BY <1>1, <1>2, <1>3, <1>4, <1>5, <1>6, <1>7, <1>8 DEF TR!Next, TR!Calcul, TR!Client, TR!Worker

\* The types
LEMMA PasTypeReseau ==
  ASSUME InvReseau, [TR!Next]_TR!vars
  PROVE  TR!TypeOK'
<1>1. ASSUME NEW p \in TR!Proc, TR!Lire(p)
      PROVE  TR!TypeOK'
  <2>1. PICK lot \in Seq(TR!Messages) : aEcrire' = [aEcrire EXCEPT ![p] = lot]
    BY <1>1, EffetLire DEF InvReseau
  <2>2. aEcrire' \in [TR!Proc -> Seq(TR!Messages)]
    BY <2>1 DEF InvReseau, TR!TypeOK
  <2> QED
    BY <1>1, <2>2, EffetLire DEF InvReseau, TR!TypeOK
<1>2. ASSUME NEW p \in TR!Proc, TR!Ecrire(p)
      PROVE  TR!TypeOK'
  BY <1>2, EffetEcrire DEF InvReseau, TR!TypeOK
<1>3. ASSUME NEW p \in TR!Proc, TR!ClientLire(p)
      PROVE  TR!TypeOK'
  BY <1>3, EffetClientLire DEF InvReseau, TR!TypeOK
<1>4. ASSUME NEW p \in TR!Proc, TR!Connecter(p)
      PROVE  TR!TypeOK'
  BY <1>4, EffetConnecter DEF InvReseau, TR!TypeOK
<1>5. ASSUME NEW p \in TR!Proc, TR!Envoyer(p)
      PROVE  TR!TypeOK'
  BY <1>5, EffetEnvoyer DEF InvReseau, TR!TypeOK
<1>6. ASSUME NEW p \in TR!Proc, TR!Accepter(p)
      PROVE  TR!TypeOK'
  BY <1>6, EffetAccepter DEF InvReseau, TR!TypeOK
<1>7. ASSUME NEW p \in TR!Proc, NEW m0 \in workers[p], TR!Travailler(p, m0)
      PROVE  TR!TypeOK'
  <2>1. m0 \in TR!Messages
    BY <1>7 DEF InvReseau, TR!TypeOK
  <2> QED
    BY <1>7, <2>1, EffetTravailler DEF InvReseau, TR!TypeOK
<1>8. CASE UNCHANGED TR!vars
  BY <1>8 DEF TR!vars, InvReseau, TR!TypeOK
<1> QED
  BY <1>1, <1>2, <1>3, <1>4, <1>5, <1>6, <1>7, <1>8 DEF TR!Next, TR!Calcul, TR!Client, TR!Worker

\* The places keep their senders and receivers.
LEMMA PasAdresses ==
  ASSUME InvReseau, [TR!Next]_TR!vars, NEW q \in TR!Proc
  PROVE  /\ \A m \in TR!Elements(aEcrire'[q]) : m.de = q
         /\ \A m \in TR!Elements(pipeEnvoi'[q]) : m.de = q
         /\ client'[q].etat # "libre" => client'[q].msg \in TR!Messages /\ client'[q].msg.de = q
         /\ \A m \in TR!Elements(attente'[q]) : m.vers = q
         /\ \A m \in workers'[q] \cup perdus'[q] : m.vers = q
<1> DEFINE But == /\ \A m \in TR!Elements(aEcrire'[q]) : m.de = q
                  /\ \A m \in TR!Elements(pipeEnvoi'[q]) : m.de = q
                  /\ client'[q].etat # "libre" => client'[q].msg \in TR!Messages /\ client'[q].msg.de = q
                  /\ \A m \in TR!Elements(attente'[q]) : m.vers = q
                  /\ \A m \in workers'[q] \cup perdus'[q] : m.vers = q
<1>0. /\ \A m \in TR!Elements(aEcrire[q]) : m.de = q
      /\ \A m \in TR!Elements(pipeEnvoi[q]) : m.de = q
      /\ client[q].etat # "libre" => client[q].msg \in TR!Messages /\ client[q].msg.de = q
      /\ \A m \in TR!Elements(attente[q]) : m.vers = q
      /\ \A m \in workers[q] \cup perdus[q] : m.vers = q
  BY DEF InvReseau, InvAdresses
<1>1. ASSUME NEW p \in TR!Proc, TR!Lire(p)
      PROVE  But
  <2>1. PICK lot \in Seq(TR!Messages) :
          /\ aEcrire' = [aEcrire EXCEPT ![p] = lot]
          /\ \A m \in TR!Elements(lot) : m.de = p
    BY <1>1, EffetLire DEF InvReseau
  <2>2. \A m \in TR!Elements(aEcrire'[q]) : m.de = q
    BY <1>0, <2>1 DEF InvReseau, TR!TypeOK
  <2>3. UNCHANGED <<pipeEnvoi, client, attente, workers, perdus>>
    BY <1>1 DEF TR!Lire
  <2> QED
    BY <1>0, <2>2, <2>3
<1>2. ASSUME NEW p \in TR!Proc, TR!Ecrire(p)
      PROVE  But
  <2>1. PICK m0 \in TR!Messages :
          /\ m0.de = p
          /\ TR!Elements(aEcrire'[q]) \subseteq TR!Elements(aEcrire[q])
          /\ q # p => pipeEnvoi'[q] = pipeEnvoi[q]
          /\ TR!Elements(pipeEnvoi'[p]) = TR!Elements(pipeEnvoi[p]) \cup {m0}
    BY <1>2, EffetEcrire DEF InvReseau
  <2>2. UNCHANGED <<client, attente, workers, perdus>>
    BY <1>2 DEF TR!Ecrire
  <2>3. \A m \in TR!Elements(pipeEnvoi'[q]) : m.de = q
    BY <1>0, <2>1
  <2> QED
    BY <1>0, <2>1, <2>2, <2>3
<1>3. ASSUME NEW p \in TR!Proc, TR!ClientLire(p)
      PROVE  But
  <2>1. PICK m0 \in TR!Messages : m0.de = p
          /\ client' = [client EXCEPT ![p] = [etat |-> "connexion", msg |-> m0]]
    BY <1>3, EffetClientLire DEF InvReseau
  <2>2. TR!Elements(pipeEnvoi'[q]) \subseteq TR!Elements(pipeEnvoi[q])
    BY <1>3, EffetClientLire DEF InvReseau
  <2>3. UNCHANGED <<aEcrire, attente, workers, perdus>>
    BY <1>3 DEF TR!ClientLire
  <2>4. client'[q].etat # "libre" => client'[q].msg \in TR!Messages /\ client'[q].msg.de = q
    BY <1>0, <2>1 DEF InvReseau, TR!TypeOK
  <2> QED
    BY <1>0, <2>2, <2>3, <2>4
<1>4. ASSUME NEW p \in TR!Proc, TR!Connecter(p)
      PROVE  But
  <2>1. client'[q].msg = client[q].msg /\ (client'[q].etat # "libre" => client[q].etat # "libre")
    BY <1>4, EffetConnecter DEF InvReseau
  <2>2. PICK m0 \in TR!Messages :
          /\ q # m0.vers => attente'[q] = attente[q]
          /\ TR!Elements(attente'[m0.vers]) = TR!Elements(attente[m0.vers]) \cup {m0}
    BY <1>4, EffetConnecter DEF InvReseau
  <2>3. UNCHANGED <<aEcrire, pipeEnvoi, workers, perdus>>
    BY <1>4 DEF TR!Connecter
  <2>4. \A m \in TR!Elements(attente'[q]) : m.vers = q
    BY <1>0, <2>2
  <2> QED
    BY <1>0, <2>1, <2>3, <2>4
<1>5. ASSUME NEW p \in TR!Proc, TR!Envoyer(p)
      PROVE  But
  <2>1. client'[q].etat # "libre" => client'[q] = client[q]
    BY <1>5, EffetEnvoyer DEF InvReseau
  <2>2. UNCHANGED <<aEcrire, pipeEnvoi, attente, workers, perdus>>
    BY <1>5 DEF TR!Envoyer
  <2> QED
    BY <1>0, <2>1, <2>2
<1>6. ASSUME NEW p \in TR!Proc, TR!Accepter(p)
      PROVE  But
  <2>1. PICK m0 \in TR!Messages :
          /\ m0.vers = p
          /\ workers'[q] \cup perdus'[q] \subseteq workers[q] \cup perdus[q]
               \cup (IF q = p THEN {m0} ELSE {})
    BY <1>6, EffetAccepter DEF InvReseau
  <2>2. TR!Elements(attente'[q]) \subseteq TR!Elements(attente[q])
    BY <1>6, EffetAccepter DEF InvReseau
  <2>3. UNCHANGED <<aEcrire, pipeEnvoi, client>>
    BY <1>6 DEF TR!Accepter
  <2>4. \A m \in workers'[q] \cup perdus'[q] : m.vers = q
    BY <1>0, <2>1
  <2> QED
    BY <1>0, <2>2, <2>3, <2>4
<1>7. ASSUME NEW p \in TR!Proc, NEW m0 \in workers[p], TR!Travailler(p, m0)
      PROVE  But
  <2>1. m0 \in TR!Messages
    BY <1>7 DEF InvReseau, TR!TypeOK
  <2>2. workers'[q] \subseteq workers[q]
    BY <1>7, <2>1, EffetTravailler DEF InvReseau
  <2>3. UNCHANGED <<aEcrire, pipeEnvoi, client, attente, perdus>>
    BY <1>7 DEF TR!Travailler
  <2> QED
    BY <1>0, <2>2, <2>3
<1>8. CASE UNCHANGED TR!vars
  BY <1>0, <1>8 DEF TR!vars
<1> QED
  BY <1>1, <1>2, <1>3, <1>4, <1>5, <1>6, <1>7, <1>8 DEF TR!Next, TR!Calcul, TR!Client, TR!Worker

\* No queue gets a message it holds: the places of a message exclude each other.
LEMMA PasDistincts ==
  ASSUME InvReseau, [TR!Next]_TR!vars, NEW q \in TR!Proc
  PROVE  Distincts(aEcrire'[q]) /\ Distincts(pipeEnvoi'[q]) /\ Distincts(attente'[q])
<1> DEFINE But == Distincts(aEcrire'[q]) /\ Distincts(pipeEnvoi'[q]) /\ Distincts(attente'[q])
<1>0. Distincts(aEcrire[q]) /\ Distincts(pipeEnvoi[q]) /\ Distincts(attente[q])
  BY DEF InvReseau, InvDistincts
<1>1. ASSUME NEW p \in TR!Proc, TR!Lire(p)
      PROVE  But
  <2>1. PICK lot \in Seq(TR!Messages) : aEcrire' = [aEcrire EXCEPT ![p] = lot] /\ Distincts(lot)
    BY <1>1, EffetLire DEF InvReseau
  <2>2. Distincts(aEcrire'[q])
    BY <1>0, <2>1 DEF InvReseau, TR!TypeOK
  <2> QED
    BY <1>0, <1>1, <2>2 DEF TR!Lire
<1>2. ASSUME NEW p \in TR!Proc, TR!Ecrire(p)
      PROVE  But
  <2>1. PICK m0 \in TR!Messages :
          /\ AEcrire(m0)
          /\ q # p => pipeEnvoi'[q] = pipeEnvoi[q]
          /\ ~ DansPipe(m0) => Distincts(pipeEnvoi'[p])
    BY <1>2, EffetEcrire DEF InvReseau
  <2>2. ~ DansPipe(m0)
    BY <2>1 DEF InvReseau, InvLieux, EnTransit
  <2>3. Distincts(aEcrire'[q]) /\ attente' = attente
    BY <1>2, EffetEcrire DEF InvReseau
  <2> QED
    BY <1>0, <2>1, <2>2, <2>3
<1>3. ASSUME NEW p \in TR!Proc, TR!ClientLire(p)
      PROVE  But
  <2>1. Distincts(pipeEnvoi'[q]) /\ UNCHANGED <<aEcrire, attente>>
    BY <1>3, EffetClientLire DEF InvReseau
  <2> QED
    BY <1>0, <2>1
<1>4. ASSUME NEW p \in TR!Proc, TR!Connecter(p)
      PROVE  But
  <2>1. PICK m0 \in TR!Messages :
          /\ EnConnexion(m0)
          /\ q # m0.vers => attente'[q] = attente[q]
          /\ ~ EnAttente(m0) => Distincts(attente'[m0.vers])
    BY <1>4, EffetConnecter DEF InvReseau
  <2>2. ~ EnAttente(m0)
    BY <2>1 DEF InvReseau, InvLieux
  <2>3. UNCHANGED <<aEcrire, pipeEnvoi>>
    BY <1>4 DEF TR!Connecter
  <2> QED
    BY <1>0, <2>1, <2>2, <2>3
<1>5. ASSUME NEW p \in TR!Proc, TR!Envoyer(p)
      PROVE  But
  BY <1>0, <1>5 DEF TR!Envoyer
<1>6. ASSUME NEW p \in TR!Proc, TR!Accepter(p)
      PROVE  But
  <2>1. Distincts(attente'[q]) /\ UNCHANGED <<aEcrire, pipeEnvoi>>
    BY <1>6, EffetAccepter DEF InvReseau
  <2> QED
    BY <1>0, <2>1
<1>7. ASSUME NEW p \in TR!Proc, NEW m0 \in workers[p], TR!Travailler(p, m0)
      PROVE  But
  BY <1>0, <1>7 DEF TR!Travailler
<1>8. CASE UNCHANGED TR!vars
  BY <1>0, <1>8 DEF TR!vars
<1> QED
  BY <1>1, <1>2, <1>3, <1>4, <1>5, <1>6, <1>7, <1>8 DEF TR!Next, TR!Calcul, TR!Client, TR!Worker

\* What arrived only grows at its end.
LEMMA PasRecus ==
  ASSUME InvReseau, [TR!Next]_TR!vars, NEW q \in TR!Proc
  PROVE  /\ Recus(q) \in Seq(TR!Messages)
         /\ Recus(q)' = Recus(q) \/ \E m \in TR!Messages : Recus(q)' = Append(Recus(q), m)
<1>0. Recus(q) \in Seq(TR!Messages)
  <2>1. lus[q] \in Seq(TR!Messages) /\ pipeReception[q] \in Seq(TR!Messages)
    BY DEF InvReseau, TR!TypeOK
  <2> QED
    BY <2>1, ConcatProperties DEF Recus
<1>1. ASSUME NEW p \in TR!Proc, TR!Lire(p)
      PROVE  Recus(q)' = Recus(q)
  BY <1>1, EffetLire DEF InvReseau
<1>2. ASSUME UNCHANGED <<lus, pipeReception>>
      PROVE  Recus(q)' = Recus(q)
  BY <1>2 DEF Recus
<1>3. ASSUME NEW p \in TR!Proc, NEW m0 \in workers[p], TR!Travailler(p, m0)
      PROVE  Recus(q)' = Recus(q) \/ \E m \in TR!Messages : Recus(q)' = Append(Recus(q), m)
  <2>1. m0 \in TR!Messages
    BY <1>3 DEF InvReseau, TR!TypeOK
  <2>2. Recus(p)' = Append(Recus(p), m0) /\ \A r \in TR!Proc : r # p => Recus(r)' = Recus(r)
    BY <1>3, <2>1, EffetTravailler DEF InvReseau
  <2> QED
    BY <2>1, <2>2
<1> QED
  BY <1>0, <1>1, <1>2, <1>3
  DEF TR!Next, TR!Calcul, TR!Client, TR!Worker, TR!Ecrire, TR!ClientLire, TR!Connecter, TR!Envoyer, TR!Accepter, TR!vars

LEMMA PasReseau ==
  ASSUME InvReseau, [TR!Next]_TR!vars
  PROVE  InvReseau'
<1>1. InvLieux'
  BY PasLieux DEF InvLieux, Lieux
<1>2. InvAdresses'
  BY PasAdresses DEF InvAdresses
<1>3. Recus(1)' # <<>>
  <2>1. Recus(1) # <<>> /\ 1 \in TR!Proc
    BY UnMessage DEF InvReseau, InvDistincts
  <2>2. \A m \in TR!Messages : Recus(1) \in Seq(TR!Messages) => Append(Recus(1), m) # <<>>
    BY ElementsAjout
  <2> QED
    BY <2>1, <2>2, PasRecus
<1>4. InvDistincts'
  BY <1>3, PasDistincts DEF InvDistincts
<1> QED
  BY <1>1, <1>2, <1>4, PasTypeReseau DEF InvReseau

LEMMA InitialementReseau ==
  ASSUME TR!Init
  PROVE  InvReseau
<1>1. <<>> \in Seq(TR!Messages) /\ <<TR!Amorce>> \in Seq(TR!Messages) /\ 0 \in 0 .. MaxEnvois
        /\ 0 \in 0 .. MaxThreads
  BY UnMessage, EmptySeq, TransportHypothese
<1>2. TR!TypeOK
  BY <1>1 DEF TR!Init, TR!TypeOK
<1>3. TR!Elements(<<TR!Amorce>>) = {TR!Amorce} /\ <<>> \o <<TR!Amorce>> = <<TR!Amorce>>
        /\ <<>> \o <<>> = <<>> /\ <<TR!Amorce>> # <<>>
  BY UnMessage DEF TR!Elements
<1>4. /\ Recus(1) = <<TR!Amorce>>
      /\ \A q \in TR!Proc : Recus(q) = IF q = 1 THEN <<TR!Amorce>> ELSE <<>>
  BY <1>3, UnMessage DEF TR!Init, Recus
<1>5. \A m \in TR!Messages :
        /\ ~ AEcrire(m) /\ ~ EnTransit(m)
        /\ Arrive(m) => m = TR!Amorce
  <2> TAKE m \in TR!Messages
  <2>1. m.de \in TR!Proc /\ m.vers \in TR!Proc
    BY UnMessage
  <2>2. ~ AEcrire(m) /\ ~ DansPipe(m) /\ ~ EnAttente(m)
    BY <2>1, ElementsVide DEF TR!Init, AEcrire, DansPipe, EnAttente
  <2>3. ~ EnConnexion(m) /\ ~ ChezWorker(m) /\ ~ Perdu(m)
    BY <2>1 DEF TR!Init, EnConnexion, ChezWorker, Perdu
  <2>4. Arrive(m) => m = TR!Amorce
    BY <1>3, <1>4, <2>1, ElementsVide DEF Arrive
  <2> QED
    BY <2>2, <2>3, <2>4 DEF EnTransit
<1>6. InvLieux
  <2>1. TR!Amorce.id = 0 /\ TR!Amorce.de = 1 /\ envois[1] = 0
    <3>1. TR!Amorce.id = 0 /\ TR!Amorce.de = 1
      BY DEF TR!Amorce
    <3> QED
      BY <3>1, UnMessage DEF TR!Init
  <2> QED
    BY <1>5, <2>1 DEF InvLieux, EnTransit
<1>7. InvAdresses
  BY ElementsVide DEF TR!Init, InvAdresses
<1>8. InvDistincts
  <2>1. Distincts(<<>>)
    BY DEF Distincts
  <2>2. \A p \in TR!Proc : aEcrire[p] = <<>> /\ pipeEnvoi[p] = <<>> /\ attente[p] = <<>>
    BY DEF TR!Init
  <2>3. Recus(1) # <<>>
    BY <1>3, <1>4
  <2> QED
    BY <2>1, <2>2, <2>3 DEF InvDistincts
<1> QED
  BY <1>2, <1>6, <1>7, <1>8 DEF InvReseau

(* Each message is in one place, in the hands of its sender or on its way to
   its receiver, whatever the threads do (client.c:21-64, serveur.c:35-71). *)
THEOREM TransportCorrect == TR!Spec => []InvReseau
<1>1. TR!Init => InvReseau
  BY InitialementReseau
<1>2. InvReseau /\ [TR!Next]_TR!vars => InvReseau'
  BY PasReseau
<1> QED
  BY <1>1, <1>2, PTL DEF TR!Spec
-----------------------------------------------------------------------------
(* The channel *)

\* What the abstract channel carries is what is in one of the places.
LEMMA TransitEst ==
  InvReseau => \A q \in TR!Proc : TR!transitAbstrait[q] = {m \in TR!Messages : m.vers = q /\ EnTransit(m)}
<1> SUFFICES ASSUME InvReseau, NEW q \in TR!Proc
             PROVE  TR!EnVol(q) \cup perdus[q] = {m \in TR!Messages : m.vers = q /\ EnTransit(m)}
  BY DEF TR!transitAbstrait
<1>1. /\ \A p \in TR!Proc : pipeEnvoi[p] \in Seq(TR!Messages)
      /\ attente[q] \in Seq(TR!Messages) /\ workers[q] \subseteq TR!Messages
      /\ perdus[q] \subseteq TR!Messages
      /\ \A p \in TR!Proc : \A m \in TR!Elements(pipeEnvoi[p]) : m.de = p
      /\ \A p \in TR!Proc : client[p].etat # "libre" => client[p].msg \in TR!Messages
           /\ client[p].msg.de = p
      /\ \A m \in TR!Elements(attente[q]) : m.vers = q
      /\ \A m \in workers[q] \cup perdus[q] : m.vers = q
  BY DEF InvReseau, TR!TypeOK, InvAdresses
<1>2. ASSUME NEW x \in TR!EnVol(q) \cup perdus[q]
      PROVE  x \in TR!Messages /\ x.vers = q /\ EnTransit(x)
  <2>1. ASSUME NEW p \in TR!Proc, x \in TR!Elements(pipeEnvoi[p]), x.vers = q
        PROVE  x \in TR!Messages /\ x.vers = q /\ EnTransit(x)
    <3>1. x \in TR!Messages /\ x.de = p
      BY <1>1, <2>1, ElementsMessages
    <3> QED
      BY <2>1, <3>1 DEF EnTransit, DansPipe
  <2>2. ASSUME NEW p \in TR!Proc, client[p].etat = "connexion", client[p].msg.vers = q, x = client[p].msg
        PROVE  x \in TR!Messages /\ x.vers = q /\ EnTransit(x)
    BY <1>1, <2>2 DEF EnTransit, EnConnexion
  <2>3. CASE x \in TR!Elements(attente[q])
    BY <1>1, <2>3, ElementsMessages DEF EnTransit, EnAttente
  <2>4. CASE x \in workers[q]
    BY <1>1, <2>4 DEF EnTransit, ChezWorker
  <2>5. CASE x \in perdus[q]
    BY <1>1, <2>5 DEF EnTransit, Perdu
  <2> QED
    BY <2>1, <2>2, <2>3, <2>4, <2>5 DEF TR!EnVol
<1>3. ASSUME NEW m \in TR!Messages, m.vers = q, EnTransit(m)
      PROVE  m \in TR!EnVol(q) \cup perdus[q]
  <2>0. m.de \in TR!Proc
    BY UnMessage
  <2>1. CASE DansPipe(m)
    BY <1>3, <2>0, <2>1 DEF DansPipe, TR!EnVol
  <2>2. CASE EnConnexion(m)
    BY <1>3, <2>0, <2>2 DEF EnConnexion, TR!EnVol
  <2>3. CASE EnAttente(m)
    BY <1>3, <2>3 DEF EnAttente, TR!EnVol
  <2>4. CASE ChezWorker(m)
    BY <1>3, <2>4 DEF ChezWorker, TR!EnVol
  <2>5. CASE Perdu(m)
    BY <1>3, <2>5 DEF Perdu
  <2> QED
    BY <1>3, <2>1, <2>2, <2>3, <2>4, <2>5 DEF EnTransit
<1> QED
  BY <1>2, <1>3

\* Writing in the pipe puts a message on its way.
LEMMA TransitEcrire ==
  ASSUME InvReseau, NEW p \in TR!Proc, TR!Ecrire(p)
  PROVE  /\ \A q \in TR!Proc : Recus(q)' = Recus(q)
         /\ \E m0 \in TR!Messages :
              /\ ~ EnTransit(m0) /\ ~ Arrive(m0)
              /\ \A m \in TR!Messages : EnTransit(m)' <=> EnTransit(m) \/ m = m0
<1>1. PICK m0 \in TR!Messages :
        /\ AEcrire(m0)
        /\ \A m \in TR!Messages : DansPipe(m)' <=> DansPipe(m) \/ m = m0
  BY EffetEcrire DEF InvReseau
<1>2. UNCHANGED <<pipeReception, client, attente, workers, lus, perdus>>
  BY DEF TR!Ecrire
<1>3. ~ EnTransit(m0) /\ ~ Arrive(m0)
  BY <1>1 DEF InvReseau, InvLieux
<1>4. \A m \in TR!Messages : EnTransit(m)' <=> EnTransit(m) \/ m = m0
  BY <1>1, <1>2, Inchange DEF EnTransit
<1> QED
  BY <1>2, <1>3, <1>4 DEF Recus

\* The worker ends the way of a message.
LEMMA TransitTravailler ==
  ASSUME InvReseau, NEW q \in TR!Proc, NEW m0 \in workers[q], TR!Travailler(q, m0)
  PROVE  /\ m0 \in TR!Messages /\ m0.vers = q /\ EnTransit(m0)
         /\ Recus(q)' = Append(Recus(q), m0) /\ \A r \in TR!Proc : r # q => Recus(r)' = Recus(r)
         /\ \A m \in TR!Messages : EnTransit(m)' <=> EnTransit(m) /\ m # m0
<1>0. m0 \in TR!Messages
  BY DEF InvReseau, TR!TypeOK
<1>1. /\ m0.vers = q /\ ChezWorker(m0)
      /\ Recus(q)' = Append(Recus(q), m0) /\ \A r \in TR!Proc : r # q => Recus(r)' = Recus(r)
      /\ \A m \in TR!Messages : ChezWorker(m)' <=> ChezWorker(m) /\ m # m0
  BY <1>0, EffetTravailler DEF InvReseau
<1>2. UNCHANGED <<pipeEnvoi, client, attente, perdus>>
  BY DEF TR!Travailler
<1>3. ~ DansPipe(m0) /\ ~ EnConnexion(m0) /\ ~ EnAttente(m0) /\ ~ Perdu(m0)
  BY <1>0, <1>1 DEF InvReseau, InvLieux
<1>4. \A m \in TR!Messages : EnTransit(m)' <=> EnTransit(m) /\ m # m0
  BY <1>0, <1>1, <1>2, <1>3, Inchange DEF EnTransit
<1> QED
  BY <1>0, <1>1, <1>4 DEF EnTransit

\* The other steps move the messages inside the channel.
LEMMA TransitAutre ==
  ASSUME InvReseau,
         (\E p \in TR!Proc : TR!Lire(p) \/ TR!Client(p) \/ TR!Accepter(p)) \/ UNCHANGED TR!vars
  PROVE  /\ \A q \in TR!Proc : Recus(q)' = Recus(q)
         /\ \A m \in TR!Messages : EnTransit(m)' <=> EnTransit(m)
<1>1. ASSUME NEW p \in TR!Proc, TR!Lire(p)
      PROVE  \A m \in TR!Messages : EnTransit(m)' <=> EnTransit(m)
  BY <1>1, Inchange DEF TR!Lire, EnTransit
<1>2. ASSUME NEW p \in TR!Proc, TR!ClientLire(p)
      PROVE  \A m \in TR!Messages : EnTransit(m)' <=> EnTransit(m)
  <2>1. PICK m0 \in TR!Messages :
          /\ DansPipe(m0)
          /\ \A m \in TR!Messages : DansPipe(m)' <=> DansPipe(m) /\ m # m0
          /\ \A m \in TR!Messages : EnConnexion(m)' <=> EnConnexion(m) \/ m = m0
    BY <1>2, EffetClientLire DEF InvReseau
  <2> QED
    BY <1>2, <2>1, Inchange DEF TR!ClientLire, EnTransit
<1>3. ASSUME NEW p \in TR!Proc, TR!Connecter(p)
      PROVE  \A m \in TR!Messages : EnTransit(m)' <=> EnTransit(m)
  <2>1. PICK m0 \in TR!Messages :
          /\ EnConnexion(m0)
          /\ \A m \in TR!Messages : EnConnexion(m)' <=> EnConnexion(m) /\ m # m0
          /\ \A m \in TR!Messages : EnAttente(m)' <=> EnAttente(m) \/ m = m0
    BY <1>3, EffetConnecter DEF InvReseau
  <2>2. UNCHANGED <<pipeEnvoi, workers, perdus>>
    BY <1>3 DEF TR!Connecter
  <2> QED
    BY <2>1, <2>2, Inchange DEF EnTransit
<1>4. ASSUME NEW p \in TR!Proc, TR!Envoyer(p)
      PROVE  \A m \in TR!Messages : EnTransit(m)' <=> EnTransit(m)
  <2>1. \A m \in TR!Messages : EnConnexion(m)' <=> EnConnexion(m)
    BY <1>4, EffetEnvoyer DEF InvReseau
  <2> QED
    BY <1>4, <2>1, Inchange DEF TR!Envoyer, EnTransit
<1>5. ASSUME NEW p \in TR!Proc, TR!Accepter(p)
      PROVE  \A m \in TR!Messages : EnTransit(m)' <=> EnTransit(m)
  <2>1. PICK m0 \in TR!Messages :
          /\ EnAttente(m0)
          /\ \A m \in TR!Messages : EnAttente(m)' <=> EnAttente(m) /\ m # m0
          /\ \/ /\ \A m \in TR!Messages : ChezWorker(m)' <=> ChezWorker(m) \/ m = m0
                /\ \A m \in TR!Messages : Perdu(m)' <=> Perdu(m)
             \/ /\ \A m \in TR!Messages : ChezWorker(m)' <=> ChezWorker(m)
                /\ \A m \in TR!Messages : Perdu(m)' <=> Perdu(m) \/ m = m0
    BY <1>5, EffetAccepter DEF InvReseau
  <2>2. UNCHANGED <<pipeEnvoi, client>>
    BY <1>5 DEF TR!Accepter
  <2> QED
    BY <2>1, <2>2, Inchange DEF EnTransit
<1>6. ASSUME UNCHANGED TR!vars
      PROVE  \A m \in TR!Messages : EnTransit(m)' <=> EnTransit(m)
  BY <1>6, Inchange DEF TR!vars, EnTransit
<1>7. \A m \in TR!Messages : EnTransit(m)' <=> EnTransit(m)
  BY <1>1, <1>2, <1>3, <1>4, <1>5, <1>6 DEF TR!Client
<1>8. ASSUME NEW p \in TR!Proc, TR!Lire(p)
      PROVE  \A q \in TR!Proc : Recus(q)' = Recus(q)
  BY <1>8, EffetLire DEF InvReseau
<1>9. ASSUME UNCHANGED <<lus, pipeReception>>
      PROVE  \A q \in TR!Proc : Recus(q)' = Recus(q)
  BY <1>9 DEF Recus
<1>10. \A q \in TR!Proc : Recus(q)' = Recus(q)
  BY <1>8, <1>9 DEF TR!Client, TR!ClientLire, TR!Connecter, TR!Envoyer, TR!Accepter, TR!vars
<1> QED
  BY <1>7, <1>10

\* What arrived, without the message of main
LEMMA ArrivesEst ==
  \A q \in TR!Proc : TR!arrivesAbstraits[q] = IF q = 1 THEN Tail(Recus(q)) ELSE Recus(q)
BY DEF TR!arrivesAbstraits, Recus

LEMMA PasCanal ==
  ASSUME InvReseau, InvReseau', [TR!Next]_TR!vars
  PROVE  [TR!CanalAbstrait!Next]_<<TR!transitAbstrait, TR!arrivesAbstraits>>
<1>1. \A q \in TR!Proc : TR!transitAbstrait[q] = {m \in TR!Messages : m.vers = q /\ EnTransit(m)}
  BY TransitEst
<1>2. \A q \in TR!Proc : TR!transitAbstrait'[q] = {m \in TR!Messages : m.vers = q /\ EnTransit(m)'}
  <2>1. (InvReseau => \A q \in TR!Proc : TR!transitAbstrait[q] = {m \in TR!Messages : m.vers = q
          /\ EnTransit(m)})'
    BY TransitEst, PTL
  <2> QED
    BY <2>1
<1>3. \A q \in TR!Proc : TR!arrivesAbstraits'[q] = IF q = 1 THEN Tail(Recus(q)') ELSE Recus(q)'
  BY DEF TR!arrivesAbstraits, Recus
<1>4. /\ TR!transitAbstrait = [q \in TR!Proc |-> TR!transitAbstrait[q]]
      /\ TR!transitAbstrait' = [q \in TR!Proc |-> TR!transitAbstrait'[q]]
      /\ TR!arrivesAbstraits = [q \in TR!Proc |-> TR!arrivesAbstraits[q]]
      /\ TR!arrivesAbstraits' = [q \in TR!Proc |-> TR!arrivesAbstraits'[q]]
  BY DEF TR!transitAbstrait, TR!arrivesAbstraits
<1>5. ASSUME \A q \in TR!Proc : Recus(q)' = Recus(q)
      PROVE  TR!arrivesAbstraits' = TR!arrivesAbstraits
  <2>1. ASSUME NEW q \in TR!Proc
        PROVE  TR!arrivesAbstraits'[q] = TR!arrivesAbstraits[q]
    <3>1. CASE q = 1
      BY <1>3, <1>5, <3>1, ArrivesEst
    <3>2. CASE q # 1
      BY <1>3, <1>5, <3>2, ArrivesEst
    <3> QED
      BY <3>1, <3>2
  <2> QED
    BY <1>4, <2>1
<1>6. ASSUME NEW p \in TR!Proc, TR!Ecrire(p)
      PROVE  TR!CanalAbstrait!Next
  <2>1. PICK m0 \in TR!Messages :
          /\ ~ EnTransit(m0) /\ ~ Arrive(m0)
          /\ \A m \in TR!Messages : EnTransit(m)' <=> EnTransit(m) \/ m = m0
    BY <1>6, TransitEcrire
  <2>2. TR!arrivesAbstraits' = TR!arrivesAbstraits
    BY <1>5, <1>6, TransitEcrire
  <2> DEFINE q0 == m0.vers
  <2>3. q0 \in TR!Proc
    BY UnMessage
  <2>4. m0 \notin TR!transitAbstrait[q0]
    BY <1>1, <2>1, <2>3
  <2>5. \A i \in DOMAIN TR!arrivesAbstraits[q0] : TR!arrivesAbstraits[q0][i] # m0
    <3>1. TR!Elements(TR!arrivesAbstraits[q0]) \subseteq TR!Elements(Recus(q0))
      <4>1. Recus(q0) \in Seq(TR!Messages)
        BY <2>3, PasRecus
      <4>2. q0 = 1 => Recus(q0) # <<>>
        BY DEF InvReseau, InvDistincts
      <4>3. q0 = 1 => TR!Elements(Tail(Recus(q0))) \subseteq TR!Elements(Recus(q0))
        BY <4>1, <4>2, ElementsReste
      <4> QED
        BY <2>3, <4>3, ArrivesEst
    <3>2. m0 \notin TR!Elements(Recus(q0))
      BY <2>1 DEF Arrive
    <3> QED
      BY <3>1, <3>2 DEF TR!Elements
  <2>6. TR!transitAbstrait' = [TR!transitAbstrait EXCEPT ![q0] = @ \cup {m0}]
    <3>1. TR!transitAbstrait'[q0] = TR!transitAbstrait[q0] \cup {m0}
      BY <1>1, <1>2, <2>1, <2>3
    <3>2. \A q \in TR!Proc : q # q0 => TR!transitAbstrait'[q] = TR!transitAbstrait[q]
      BY <1>1, <1>2, <2>1
    <3> HIDE DEF q0
    <3> QED
      BY <1>4, <2>3, <3>1, <3>2
  <2>7. TR!CanalAbstrait!Emettre(q0, m0)
    <3> HIDE DEF q0
    <3> QED
      BY <2>2, <2>4, <2>5, <2>6 DEF TR!CanalAbstrait!Emettre
  <2> QED
    BY <2>3, <2>7 DEF TR!CanalAbstrait!Next
<1>7. ASSUME NEW q0 \in TR!Proc, NEW m0 \in workers[q0], TR!Travailler(q0, m0)
      PROVE  TR!CanalAbstrait!Next
  <2>1. /\ m0 \in TR!Messages /\ m0.vers = q0 /\ EnTransit(m0)
        /\ Recus(q0)' = Append(Recus(q0), m0) /\ \A r \in TR!Proc : r # q0 => Recus(r)' = Recus(r)
        /\ \A m \in TR!Messages : EnTransit(m)' <=> EnTransit(m) /\ m # m0
    BY <1>7, TransitTravailler
  <2>2. m0 \in TR!transitAbstrait[q0]
    BY <1>1, <2>1
  <2>3. TR!transitAbstrait' = [TR!transitAbstrait EXCEPT ![q0] = @ \ {m0}]
    <3>1. TR!transitAbstrait'[q0] = TR!transitAbstrait[q0] \ {m0}
      BY <1>1, <1>2, <2>1
    <3>2. \A q \in TR!Proc : q # q0 => TR!transitAbstrait'[q] = TR!transitAbstrait[q]
      BY <1>1, <1>2, <2>1
    <3> QED
      BY <1>4, <3>1, <3>2
  <2>4. TR!arrivesAbstraits' = [TR!arrivesAbstraits EXCEPT ![q0] = Append(@, m0)]
    <3>1. TR!arrivesAbstraits'[q0] = Append(TR!arrivesAbstraits[q0], m0)
      <4>1. Recus(q0) \in Seq(TR!Messages) /\ (q0 = 1 => Recus(q0) # <<>>)
        BY PasRecus DEF InvReseau, InvDistincts
      <4>2. q0 = 1 => Tail(Append(Recus(q0), m0)) = Append(Tail(Recus(q0)), m0)
        BY <2>1, <4>1, ResteAjout
      <4>3. CASE q0 = 1
        BY <1>3, <2>1, <4>2, <4>3, ArrivesEst
      <4>4. CASE q0 # 1
        BY <1>3, <2>1, <4>4, ArrivesEst
      <4> QED
        BY <4>3, <4>4
    <3>2. \A q \in TR!Proc : q # q0 => TR!arrivesAbstraits'[q] = TR!arrivesAbstraits[q]
      BY <1>3, <2>1, ArrivesEst
    <3> QED
      BY <1>4, <3>1, <3>2
  <2>5. TR!CanalAbstrait!Livrer(q0, m0)
    BY <2>2, <2>3, <2>4 DEF TR!CanalAbstrait!Livrer
  <2> QED
    BY <2>1, <2>5 DEF TR!CanalAbstrait!Next
<1>8. ASSUME (\E p \in TR!Proc : TR!Lire(p) \/ TR!Client(p) \/ TR!Accepter(p)) \/ UNCHANGED TR!vars
      PROVE  UNCHANGED <<TR!transitAbstrait, TR!arrivesAbstraits>>
  <2>1. /\ \A q \in TR!Proc : Recus(q)' = Recus(q)
        /\ \A m \in TR!Messages : EnTransit(m)' <=> EnTransit(m)
    BY <1>8, TransitAutre
  <2>2. \A q \in TR!Proc : TR!transitAbstrait'[q] = TR!transitAbstrait[q]
    BY <1>1, <1>2, <2>1
  <2>3. TR!transitAbstrait' = TR!transitAbstrait
    BY <1>4, <2>2
  <2> QED
    BY <1>5, <2>1, <2>3
<1> QED
  BY <1>6, <1>7, <1>8 DEF TR!Next, TR!Calcul, TR!Worker

LEMMA InitCanal == TR!Init => TR!CanalAbstrait!Init
<1> SUFFICES ASSUME TR!Init PROVE TR!CanalAbstrait!Init
  OBVIOUS
<1>1. \A q \in TR!Proc : TR!EnVol(q) \cup perdus[q] = {}
  BY ElementsVide DEF TR!Init, TR!EnVol
<1>2. \A q \in TR!Proc : (IF q = 1 THEN Tail(lus[q] \o pipeReception[q]) ELSE lus[q] \o pipeReception[q]) = <<>>
  <2>1. Tail(<<>> \o <<TR!Amorce>>) = <<>> /\ <<>> \o <<>> = <<>>
    OBVIOUS
  <2> QED
    BY <2>1 DEF TR!Init
<1> QED
  BY <1>1, <1>2 DEF TR!CanalAbstrait!Init, TR!transitAbstrait, TR!arrivesAbstraits

(* Pipes, connections, backlogs and workers together are a channel that
   neither repeats nor invents a message, for every number of processes and
   every bound on the queues and the threads (client.c:21-64, serveur.c:35-71). *)
THEOREM RaffinementCanal == TR!Spec => ImplementeCanal
<1>1. TR!Init => TR!CanalAbstrait!Init
  BY InitCanal
<1>2. InvReseau /\ InvReseau' /\ [TR!Next]_TR!vars
        => [TR!CanalAbstrait!Next]_<<TR!transitAbstrait, TR!arrivesAbstraits>>
  BY PasCanal
<1> QED
  BY <1>1, <1>2, TransportCorrect, PTL DEF TR!Spec, ImplementeCanal, TR!ImplementeCanal,
     TR!CanalAbstrait!Spec
=============================================================================
