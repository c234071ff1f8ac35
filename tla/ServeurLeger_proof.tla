------------------------- MODULE ServeurLeger_proof -------------------------
(***************************************************************************)
(* Proofs about ServeurLeger, for every number of entries, clients and     *)
(* signals.                                                                *)
(***************************************************************************)
EXTENDS ServeurLeger, FiniteSetTheorems, TLAPS

(* Every step changes the number of units by what it takes or gives. *)
LEMMA PorteursFinis == ASSUME TypeOK PROVE IsFiniteSet(Porteurs) /\ Cardinality(Porteurs) \in Nat
<1>1. Porteurs \subseteq Clients
  BY DEF Porteurs
<1>2. IsFiniteSet(Porteurs)
  BY <1>1, ServeurHypothese, FS_Subset
<1> QED
  BY <1>2, FS_CardinalityType

(* A thread that takes a unit, or goes on without one. *)
LEMMA PorteurEntre ==
  ASSUME TypeOK, NEW c \in Clients, thread[c] = "semaphore",
         thread' = [thread EXCEPT ![c] = "lecture"]
  PROVE  Cardinality(Porteurs') = Cardinality(Porteurs) + 1
<1>1. Porteurs' = Porteurs \cup {c} /\ c \notin Porteurs
  BY DEF Porteurs, TypeOK
<1> QED
  BY <1>1, PorteursFinis, FS_AddElement

(* A thread that gives its unit back. *)
LEMMA PorteurSort ==
  ASSUME TypeOK, NEW c \in Clients, thread[c] = "rendre",
         thread' = [thread EXCEPT ![c] = "fini"]
  PROVE  Cardinality(Porteurs') = Cardinality(Porteurs) - 1
<1>1. Porteurs' = Porteurs \ {c} /\ c \in Porteurs
  BY DEF Porteurs, TypeOK
<1> QED
  BY <1>1, PorteursFinis, FS_RemoveElement

-----------------------------------------------------------------------------
(* The steps.  One lemma per part of the invariant, one case per action. *)

(* Types are preserved. *)
LEMMA PasType ==
  ASSUME Inv, [Next]_vars
  PROVE  TypeOK'
<1> USE ServeurHypothese DEF Inv, TypeOK, Entrees, EnService
<1>1. CASE UNCHANGED vars
  BY <1>1 DEF CompteExact, vars, varsMain
<1>2. CASE Accepter
  BY <1>2 DEF CompteExact, Accepter, varsMain
<1>3. CASE Prendre
  BY <1>3 DEF CompteExact, Prendre, varsMain
<1>4. CASE Chercher
  BY <1>4 DEF CompteExact, Chercher, EntreeLibre, varsMain
<1>5. CASE Affecter
  BY <1>5 DEF CompteExact, Affecter, varsMain
<1>6. CASE Deborder
  BY <1>6 DEF CompteExact, Deborder, varsMain
<1>7. CASE Rendre
  BY <1>7, PorteursFinis DEF CompteExact, Rendre, varsMain
<1>8. CASE CreerThread
  BY <1>8 DEF CompteExact, CreerThread, varsMain
<1>9. CASE EchouerThread
  BY <1>9 DEF CompteExact, EchouerThread, varsMain
<1>10. CASE Tester
  BY <1>10 DEF CompteExact, Tester, Continuer, varsMain
<1>11. CASE Sortir
  BY <1>11 DEF CompteExact, Sortir, varsMain
<1>12. CASE SignalSansEffet
  BY <1>12 DEF CompteExact, SignalSansEffet, Signal, SignalAilleurs, varsMain
<1>13. CASE SignalAccept
  BY <1>13 DEF CompteExact, SignalAccept, Signal, SignalAilleurs, varsMain
<1>14. CASE SignalSemaphore
  BY <1>14 DEF CompteExact, SignalSemaphore, Signal, SignalAilleurs, varsMain
<1>15. ASSUME NEW c \in Clients, SignalSemaphoreT(c)
      PROVE  TypeOK'
  BY <1>15 DEF CompteExact, SignalSemaphoreT, Signal, SignalAilleurs, varsMain
<1>16. ASSUME NEW c \in Clients, SignalLecture(c)
      PROVE  TypeOK'
  BY <1>16 DEF CompteExact, SignalLecture, Signal, SignalAilleurs, varsMain
<1>17. ASSUME NEW c \in Clients, Connecter(c)
      PROVE  TypeOK'
  BY <1>17 DEF CompteExact, Connecter, varsMain
<1>18. ASSUME NEW c \in Clients, Demander(c)
      PROVE  TypeOK'
  BY <1>18 DEF CompteExact, Demander, varsMain
<1>19. ASSUME NEW c \in Clients, EnService, PrendreT(c)
      PROVE  TypeOK'
  BY <1>19 DEF CompteExact, PrendreT, varsMain
<1>20. ASSUME NEW c \in Clients, EnService, LireRequete(c)
      PROVE  TypeOK'
  BY <1>20 DEF CompteExact, LireRequete, varsMain
<1>21. ASSUME NEW c \in Clients, EnService, Repondre(c)
      PROVE  TypeOK'
  BY <1>21 DEF CompteExact, Repondre, varsMain
<1>22. ASSUME NEW c \in Clients, EnService, Fermer(c)
      PROVE  TypeOK'
  BY <1>22 DEF CompteExact, Fermer, varsMain
<1>23. ASSUME NEW c \in Clients, EnService, Liberer(c)
      PROVE  TypeOK'
  BY <1>23 DEF CompteExact, Liberer, varsMain
<1>24. ASSUME NEW c \in Clients, EnService, RendreT(c)
      PROVE  TypeOK'
  <2>1. Cardinality(Porteurs) \in Nat /\ Cardinality(Porteurs) # 0
    <3>1. c \in Porteurs
      BY <1>24 DEF Porteurs, RendreT
    <3> QED
      BY <3>1, PorteursFinis, FS_EmptySet
  <2> QED
    BY <1>24, <2>1 DEF CompteExact, RendreT, varsMain
<1> QED
  BY <1>1, <1>2, <1>3, <1>4, <1>5, <1>6, <1>7, <1>8, <1>9, <1>10, <1>11, <1>12, <1>13, <1>14, <1>15, <1>16, <1>17, <1>18, <1>19, <1>20, <1>21, <1>22, <1>23, <1>24
  DEF Next, Principal, Interruption, TraiterRequete

(* A new connection was never seen before: it has no thread and is in the
   backlog once. *)
LEMMA PasAttente ==
  ASSUME Inv, [Next]_vars
  PROVE  InvAttente'
<1> USE ServeurHypothese, LibreHypothese DEF Inv, TypeOK
<1>1. CASE UNCHANGED vars
  BY <1>1 DEF InvAttente, vars, varsMain
<1>2. CASE Accepter
  BY <1>2 DEF InvAttente, Accepter, varsMain
<1>3. CASE Prendre
  BY <1>3 DEF InvAttente, Prendre, varsMain
<1>4. CASE Chercher
  BY <1>4 DEF InvAttente, Chercher, EntreeLibre, varsMain
<1>5. CASE Affecter
  BY <1>5 DEF InvAttente, Affecter, varsMain
<1>6. CASE Deborder
  BY <1>6 DEF InvAttente, Deborder, varsMain
<1>7. CASE Rendre
  BY <1>7 DEF InvAttente, Rendre, varsMain
<1>8. CASE CreerThread
  BY <1>8 DEF InvAttente, CreerThread, varsMain
<1>9. CASE EchouerThread
  BY <1>9 DEF InvAttente, EchouerThread, varsMain
<1>10. CASE Tester
  BY <1>10 DEF InvAttente, Tester, Continuer, varsMain
<1>11. CASE Sortir
  BY <1>11 DEF InvAttente, Sortir, varsMain
<1>12. CASE SignalSansEffet
  BY <1>12 DEF InvAttente, SignalSansEffet, Signal, SignalAilleurs, varsMain
<1>13. CASE SignalAccept
  BY <1>13 DEF InvAttente, SignalAccept, Signal, SignalAilleurs, varsMain
<1>14. CASE SignalSemaphore
  BY <1>14 DEF InvAttente, SignalSemaphore, Signal, SignalAilleurs, varsMain
<1>15. ASSUME NEW c \in Clients, SignalSemaphoreT(c)
      PROVE  InvAttente'
  BY <1>15 DEF InvAttente, SignalSemaphoreT, Signal, SignalAilleurs, varsMain
<1>16. ASSUME NEW c \in Clients, SignalLecture(c)
      PROVE  InvAttente'
  BY <1>16 DEF InvAttente, SignalLecture, Signal, SignalAilleurs, varsMain
<1>17. ASSUME NEW c \in Clients, Connecter(c)
      PROVE  InvAttente'
  BY <1>17 DEF InvAttente, Connecter, varsMain
<1>18. ASSUME NEW c \in Clients, Demander(c)
      PROVE  InvAttente'
  BY <1>18 DEF InvAttente, Demander, varsMain
<1>19. ASSUME NEW c \in Clients, EnService, PrendreT(c)
      PROVE  InvAttente'
  BY <1>19 DEF InvAttente, PrendreT, varsMain
<1>20. ASSUME NEW c \in Clients, EnService, LireRequete(c)
      PROVE  InvAttente'
  BY <1>20 DEF InvAttente, LireRequete, varsMain
<1>21. ASSUME NEW c \in Clients, EnService, Repondre(c)
      PROVE  InvAttente'
  BY <1>21 DEF InvAttente, Repondre, varsMain
<1>22. ASSUME NEW c \in Clients, EnService, Fermer(c)
      PROVE  InvAttente'
  BY <1>22 DEF InvAttente, Fermer, varsMain
<1>23. ASSUME NEW c \in Clients, EnService, Liberer(c)
      PROVE  InvAttente'
  BY <1>23 DEF InvAttente, Liberer, varsMain
<1>24. ASSUME NEW c \in Clients, EnService, RendreT(c)
      PROVE  InvAttente'
  BY <1>24 DEF InvAttente, RendreT, varsMain
<1> QED
  BY <1>1, <1>2, <1>3, <1>4, <1>5, <1>6, <1>7, <1>8, <1>9, <1>10, <1>11, <1>12, <1>13, <1>14, <1>15, <1>16, <1>17, <1>18, <1>19, <1>20, <1>21, <1>22, <1>23, <1>24
  DEF Next, Principal, Interruption, TraiterRequete

(* Nobody but the main thread takes an entry. *)
LEMMA PasPrincipal ==
  ASSUME Inv, [Next]_vars
  PROVE  InvPrincipal'
<1> USE ServeurHypothese, LibreHypothese DEF Inv, TypeOK, InvAttente, InvThreads
<1>1. CASE UNCHANGED vars
  BY <1>1 DEF InvPrincipal, vars, varsMain
<1>2. CASE Accepter
  <2>1. newsockfd' = attente[1] /\ 1 \in 1 .. Len(attente) /\ attente[1] \in Clients
    BY <1>2 DEF Accepter
  <2>2. thread[attente[1]] = "aucun"
    BY <2>1
  <2> QED
    BY <1>2, <2>1, <2>2 DEF InvPrincipal, Accepter
<1>3. CASE Prendre
  BY <1>3 DEF InvPrincipal, Prendre, varsMain
<1>4. CASE Chercher
  BY <1>4 DEF InvPrincipal, Chercher, EntreeLibre, varsMain
<1>5. CASE Affecter
  BY <1>5 DEF InvPrincipal, Affecter, varsMain
<1>6. CASE Deborder
  BY <1>6 DEF InvPrincipal, Deborder, varsMain
<1>7. CASE Rendre
  BY <1>7 DEF InvPrincipal, Rendre, varsMain
<1>8. CASE CreerThread
  BY <1>8 DEF InvPrincipal, CreerThread, varsMain
<1>9. CASE EchouerThread
  BY <1>9 DEF InvPrincipal, EchouerThread, varsMain
<1>10. CASE Tester
  BY <1>10 DEF InvPrincipal, Tester, Continuer, varsMain
<1>11. CASE Sortir
  BY <1>11 DEF InvPrincipal, Sortir, varsMain
<1>12. CASE SignalSansEffet
  BY <1>12 DEF InvPrincipal, SignalSansEffet, Signal, SignalAilleurs, varsMain
<1>13. CASE SignalAccept
  BY <1>13 DEF InvPrincipal, SignalAccept, Signal, SignalAilleurs, varsMain
<1>14. CASE SignalSemaphore
  BY <1>14 DEF InvPrincipal, SignalSemaphore, Signal, SignalAilleurs, varsMain
<1>15. ASSUME NEW c \in Clients, SignalSemaphoreT(c)
      PROVE  InvPrincipal'
  BY <1>15 DEF InvPrincipal, SignalSemaphoreT, Signal, SignalAilleurs, varsMain
<1>16. ASSUME NEW c \in Clients, SignalLecture(c)
      PROVE  InvPrincipal'
  BY <1>16 DEF InvPrincipal, SignalLecture, Signal, SignalAilleurs, varsMain
<1>17. ASSUME NEW c \in Clients, Connecter(c)
      PROVE  InvPrincipal'
  BY <1>17 DEF InvPrincipal, Connecter, varsMain
<1>18. ASSUME NEW c \in Clients, Demander(c)
      PROVE  InvPrincipal'
  BY <1>18 DEF InvPrincipal, Demander, varsMain
<1>19. ASSUME NEW c \in Clients, EnService, PrendreT(c)
      PROVE  InvPrincipal'
  BY <1>19 DEF InvPrincipal, PrendreT, varsMain
<1>20. ASSUME NEW c \in Clients, EnService, LireRequete(c)
      PROVE  InvPrincipal'
  BY <1>20 DEF InvPrincipal, LireRequete, varsMain
<1>21. ASSUME NEW c \in Clients, EnService, Repondre(c)
      PROVE  InvPrincipal'
  BY <1>21 DEF InvPrincipal, Repondre, varsMain
<1>22. ASSUME NEW c \in Clients, EnService, Fermer(c)
      PROVE  InvPrincipal'
  BY <1>22 DEF InvPrincipal, Fermer, varsMain
<1>23. ASSUME NEW c \in Clients, EnService, Liberer(c)
      PROVE  InvPrincipal'
  BY <1>23 DEF InvPrincipal, Liberer, varsMain
<1>24. ASSUME NEW c \in Clients, EnService, RendreT(c)
      PROVE  InvPrincipal'
  BY <1>24 DEF InvPrincipal, RendreT, varsMain
<1> QED
  BY <1>1, <1>2, <1>3, <1>4, <1>5, <1>6, <1>7, <1>8, <1>9, <1>10, <1>11, <1>12, <1>13, <1>14, <1>15, <1>16, <1>17, <1>18, <1>19, <1>20, <1>21, <1>22, <1>23, <1>24
  DEF Next, Principal, Interruption, TraiterRequete

(* No other thread frees the entry of a thread. *)
LEMMA PasThreads ==
  ASSUME Inv, [Next]_vars
  PROVE  InvThreads'
<1> USE ServeurHypothese, LibreHypothese DEF Inv, TypeOK, InvPrincipal, Entrees, Aucune
<1>1. CASE UNCHANGED vars
  BY <1>1 DEF InvThreads, vars, varsMain
<1>2. CASE Accepter
  BY <1>2 DEF InvThreads, Accepter, varsMain
<1>3. CASE Prendre
  BY <1>3 DEF InvThreads, Prendre, varsMain
<1>4. CASE Chercher
  BY <1>4 DEF InvThreads, Chercher, EntreeLibre, varsMain
<1>5. CASE Affecter
  BY <1>5 DEF InvThreads, Affecter, varsMain
<1>6. CASE Deborder
  BY <1>6 DEF InvThreads, Deborder, varsMain
<1>7. CASE Rendre
  BY <1>7 DEF InvThreads, Rendre, varsMain
<1>8. CASE CreerThread
  BY <1>8 DEF InvThreads, CreerThread, varsMain
<1>9. CASE EchouerThread
  BY <1>9 DEF InvThreads, EchouerThread, varsMain
<1>10. CASE Tester
  BY <1>10 DEF InvThreads, Tester, Continuer, varsMain
<1>11. CASE Sortir
  BY <1>11 DEF InvThreads, Sortir, varsMain
<1>12. CASE SignalSansEffet
  BY <1>12 DEF InvThreads, SignalSansEffet, Signal, SignalAilleurs, varsMain
<1>13. CASE SignalAccept
  BY <1>13 DEF InvThreads, SignalAccept, Signal, SignalAilleurs, varsMain
<1>14. CASE SignalSemaphore
  BY <1>14 DEF InvThreads, SignalSemaphore, Signal, SignalAilleurs, varsMain
<1>15. ASSUME NEW c \in Clients, SignalSemaphoreT(c)
      PROVE  InvThreads'
  BY <1>15 DEF InvThreads, SignalSemaphoreT, Signal, SignalAilleurs, varsMain
<1>16. ASSUME NEW c \in Clients, SignalLecture(c)
      PROVE  InvThreads'
  BY <1>16 DEF InvThreads, SignalLecture, Signal, SignalAilleurs, varsMain
<1>17. ASSUME NEW c \in Clients, Connecter(c)
      PROVE  InvThreads'
  BY <1>17 DEF InvThreads, Connecter, varsMain
<1>18. ASSUME NEW c \in Clients, Demander(c)
      PROVE  InvThreads'
  BY <1>18 DEF InvThreads, Demander, varsMain
<1>19. ASSUME NEW c \in Clients, EnService, PrendreT(c)
      PROVE  InvThreads'
  BY <1>19 DEF InvThreads, PrendreT, varsMain
<1>20. ASSUME NEW c \in Clients, EnService, LireRequete(c)
      PROVE  InvThreads'
  BY <1>20 DEF InvThreads, LireRequete, varsMain
<1>21. ASSUME NEW c \in Clients, EnService, Repondre(c)
      PROVE  InvThreads'
  BY <1>21 DEF InvThreads, Repondre, varsMain
<1>22. ASSUME NEW c \in Clients, EnService, Fermer(c)
      PROVE  InvThreads'
  BY <1>22 DEF InvThreads, Fermer, varsMain
<1>23. ASSUME NEW c \in Clients, EnService, Liberer(c)
      PROVE  InvThreads'
  BY <1>23 DEF InvThreads, Liberer, varsMain
<1>24. ASSUME NEW c \in Clients, EnService, RendreT(c)
      PROVE  InvThreads'
  BY <1>24 DEF InvThreads, RendreT, varsMain
<1> QED
  BY <1>1, <1>2, <1>3, <1>4, <1>5, <1>6, <1>7, <1>8, <1>9, <1>10, <1>11, <1>12, <1>13, <1>14, <1>15, <1>16, <1>17, <1>18, <1>19, <1>20, <1>21, <1>22, <1>23, <1>24
  DEF Next, Principal, Interruption, TraiterRequete

(* Units of the semaphore. *)
LEMMA PasCompte ==
  ASSUME Inv, [Next]_vars
  PROVE  interrompus' <= signaux' /\ CompteExact'
<1> USE ServeurHypothese, PorteursFinis DEF Inv, TypeOK, EnService
<1>1. CASE UNCHANGED vars
  <2>1. Porteurs' = Porteurs
    BY <1>1 DEF Porteurs, vars
  <2> QED
    BY <1>1, <2>1 DEF CompteExact, vars, varsMain
<1>2. CASE Accepter
  <2>1. Porteurs' = Porteurs
    BY <1>2 DEF Porteurs, Accepter
  <2> QED
    BY <1>2, <2>1 DEF CompteExact, Accepter, varsMain
<1>3. CASE Prendre
  <2>1. Porteurs' = Porteurs
    BY <1>3 DEF Porteurs, Prendre
  <2> QED
    BY <1>3, <2>1 DEF CompteExact, Prendre, varsMain
<1>4. CASE Chercher
  <2>1. Porteurs' = Porteurs
    BY <1>4 DEF Porteurs, Chercher, EntreeLibre
  <2> QED
    BY <1>4, <2>1 DEF CompteExact, Chercher, EntreeLibre, varsMain
<1>5. CASE Affecter
  <2>1. Porteurs' = Porteurs
    BY <1>5 DEF Porteurs, Affecter
  <2> QED
    BY <1>5, <2>1 DEF CompteExact, Affecter, varsMain
<1>6. CASE Deborder
  BY <1>6 DEF CompteExact, Deborder
<1>7. CASE Rendre
  <2>1. Porteurs' = Porteurs
    BY <1>7 DEF Porteurs, Rendre
  <2> QED
    BY <1>7, <2>1 DEF CompteExact, Rendre, varsMain
<1>8. CASE CreerThread
  <2>1. Porteurs' = Porteurs
    BY <1>8 DEF Porteurs, InvPrincipal, CreerThread
  <2> QED
    BY <1>8, <2>1 DEF CompteExact, CreerThread, varsMain
<1>9. CASE EchouerThread
  <2>1. Porteurs' = Porteurs
    BY <1>9 DEF Porteurs, EchouerThread
  <2> QED
    BY <1>9, <2>1 DEF CompteExact, EchouerThread, varsMain
<1>10. CASE Tester
  <2>1. Porteurs' = Porteurs
    BY <1>10 DEF Porteurs, Tester, Continuer
  <2> QED
    BY <1>10, <2>1 DEF CompteExact, Tester, Continuer, varsMain
<1>11. CASE Sortir
  BY <1>11 DEF CompteExact, Sortir
<1>12. CASE SignalSansEffet
  <2>1. Porteurs' = Porteurs
    BY <1>12 DEF Porteurs, SignalSansEffet, Signal, SignalAilleurs
  <2> QED
    BY <1>12, <2>1 DEF CompteExact, SignalSansEffet, Signal, SignalAilleurs, varsMain
<1>13. CASE SignalAccept
  <2>1. Porteurs' = Porteurs
    BY <1>13 DEF Porteurs, SignalAccept, Signal, SignalAilleurs
  <2> QED
    BY <1>13, <2>1 DEF CompteExact, SignalAccept, Signal, SignalAilleurs, varsMain
<1>14. CASE SignalSemaphore
  <2>1. Porteurs' = Porteurs
    BY <1>14 DEF Porteurs, SignalSemaphore, Signal, SignalAilleurs
  <2> QED
    BY <1>14, <2>1 DEF CompteExact, SignalSemaphore, Signal, SignalAilleurs, varsMain
<1>15. ASSUME NEW c \in Clients, SignalSemaphoreT(c)
      PROVE  interrompus' <= signaux' /\ CompteExact'
  <2>1. Cardinality(Porteurs') = Cardinality(Porteurs) + 1
    BY <1>15, PorteurEntre DEF SignalSemaphoreT
  <2> QED
    BY <1>15, <2>1 DEF CompteExact, SignalSemaphoreT, Signal, SignalAilleurs, varsMain
<1>16. ASSUME NEW c \in Clients, SignalLecture(c)
      PROVE  interrompus' <= signaux' /\ CompteExact'
  <2>1. Porteurs' = Porteurs
    BY <1>16 DEF Porteurs, SignalLecture, Signal, SignalAilleurs
  <2> QED
    BY <1>16, <2>1 DEF CompteExact, SignalLecture, Signal, SignalAilleurs, varsMain
<1>17. ASSUME NEW c \in Clients, Connecter(c)
      PROVE  interrompus' <= signaux' /\ CompteExact'
  <2>1. Porteurs' = Porteurs
    BY <1>17 DEF Porteurs, Connecter
  <2> QED
    BY <1>17, <2>1 DEF CompteExact, Connecter, varsMain
<1>18. ASSUME NEW c \in Clients, Demander(c)
      PROVE  interrompus' <= signaux' /\ CompteExact'
  <2>1. Porteurs' = Porteurs
    BY <1>18 DEF Porteurs, Demander
  <2> QED
    BY <1>18, <2>1 DEF CompteExact, Demander, varsMain
<1>19. ASSUME NEW c \in Clients, EnService, PrendreT(c)
      PROVE  interrompus' <= signaux' /\ CompteExact'
  <2>1. Cardinality(Porteurs') = Cardinality(Porteurs) + 1
    BY <1>19, PorteurEntre DEF PrendreT
  <2> QED
    BY <1>19, <2>1 DEF CompteExact, PrendreT, varsMain
<1>20. ASSUME NEW c \in Clients, EnService, LireRequete(c)
      PROVE  interrompus' <= signaux' /\ CompteExact'
  <2>1. Porteurs' = Porteurs
    BY <1>20 DEF Porteurs, LireRequete
  <2> QED
    BY <1>20, <2>1 DEF CompteExact, LireRequete, varsMain
<1>21. ASSUME NEW c \in Clients, EnService, Repondre(c)
      PROVE  interrompus' <= signaux' /\ CompteExact'
  <2>1. Porteurs' = Porteurs
    BY <1>21 DEF Porteurs, Repondre
  <2> QED
    BY <1>21, <2>1 DEF CompteExact, Repondre, varsMain
<1>22. ASSUME NEW c \in Clients, EnService, Fermer(c)
      PROVE  interrompus' <= signaux' /\ CompteExact'
  <2>1. Porteurs' = Porteurs
    BY <1>22 DEF Porteurs, Fermer
  <2> QED
    BY <1>22, <2>1 DEF CompteExact, Fermer, varsMain
<1>23. ASSUME NEW c \in Clients, EnService, Liberer(c)
      PROVE  interrompus' <= signaux' /\ CompteExact'
  <2>1. Porteurs' = Porteurs
    BY <1>23 DEF Porteurs, Liberer
  <2> QED
    BY <1>23, <2>1 DEF CompteExact, Liberer, varsMain
<1>24. ASSUME NEW c \in Clients, EnService, RendreT(c)
      PROVE  interrompus' <= signaux' /\ CompteExact'
  <2>1. Cardinality(Porteurs') = Cardinality(Porteurs) - 1
    BY <1>24, PorteurSort DEF RendreT
  <2> QED
    BY <1>24, <2>1 DEF CompteExact, RendreT, varsMain
<1> QED
  BY <1>1, <1>2, <1>3, <1>4, <1>5, <1>6, <1>7, <1>8, <1>9, <1>10, <1>11, <1>12, <1>13, <1>14, <1>15, <1>16, <1>17, <1>18, <1>19, <1>20, <1>21, <1>22, <1>23, <1>24
  DEF Next, Principal, Interruption, TraiterRequete
-----------------------------------------------------------------------------
(* The theorems. *)

LEMMA InitialementVrai == Init => Inv
<1> SUFFICES ASSUME Init PROVE Inv
  OBVIOUS
<1> USE ServeurHypothese, LibreHypothese DEF Init
<1>1. TypeOK
  <2>1. semaphore \in 0 .. MAX_CONNEXIONS + MaxSignaux /\ i \in 1 .. MAX_CONNEXIONS + 1
        /\ signaux \in 0 .. MaxSignaux /\ interrompus \in 0 .. MaxSignaux
    OBVIOUS
  <2>2. attente \in Seq(Clients)
    OBVIOUS
  <2>3. /\ descripteur \in [Entrees -> Clients \cup {Libre}]
        /\ entree \in [Clients -> Entrees \cup {Aucune}]
        /\ indice \in Entrees \cup {Aucune}
    OBVIOUS
  <2>4. /\ client \in [Clients -> {"dehors", "connecte", "demande", "repondu", "coupe"}]
        /\ thread \in [Clients -> {"aucun", "semaphore", "lecture", "reponse", "fermeture",
                                  "liberation", "rendre", "fini"}]
    OBVIOUS
  <2> QED
    BY <2>1, <2>2, <2>3, <2>4 DEF TypeOK
<1>2. InvAttente /\ InvPrincipal /\ InvThreads /\ interrompus <= signaux
  BY DEF InvAttente, InvPrincipal, InvThreads
<1>3. CompteExact
  <2>1. Porteurs = {}
    BY DEF Porteurs
  <2>2. Cardinality(Porteurs) = 0
    BY <2>1, FS_EmptySet
  <2> QED
    BY <2>2 DEF CompteExact
<1> QED
  BY <1>1, <1>2, <1>3 DEF Inv

(* The invariant holds in every reachable state (lines 33-79, 132-192). *)
THEOREM InvariantInductif == Spec => []Inv
<1>1. Inv /\ [Next]_vars => Inv'
  <2> SUFFICES ASSUME Inv, [Next]_vars PROVE Inv'
    OBVIOUS
  <2>1. TypeOK' /\ InvAttente' /\ InvPrincipal' /\ InvThreads' /\ interrompus' <= signaux' /\ CompteExact'
    BY PasType, PasAttente, PasPrincipal, PasThreads, PasCompte
  <2> QED
    BY <2>1 DEF Inv
<1> QED
  BY InitialementVrai, <1>1, PTL DEF Spec

(* An entry belongs to its thread until the thread frees it, however many
   signals disturb the semaphore (lines 70-72, 159-163). *)
THEOREM EntreeCorrecte == Spec => []EntreeExclusive
<1>1. Inv => EntreeExclusive
  BY DEF Inv, InvThreads, EntreeExclusive
<1> QED
  BY <1>1, InvariantInductif, PTL

(* The semaphore counts the threads that hold a unit, but for the interrupted
   waits (lines 37, 74, 157, 165). *)
THEOREM CompteCorrect == Spec => []CompteExact
<1>1. Inv => CompteExact
  BY DEF Inv
<1> QED
  BY <1>1, InvariantInductif, PTL
=============================================================================
