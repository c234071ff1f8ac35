------------------------------- MODULE Calcul -------------------------------
(***************************************************************************)
(* The distributed critical section of projet/: N processes, each running  *)
(* the loop of the calcul thread (projet/calcul.c)                         *)
(*                                                                         *)
(*     read one message; handle it; execute one random action              *)
(*                                                                         *)
(* over the client and serveur threads.  A process that wants the critical *)
(* section broadcasts REQUEST, enters when it has counted N REPLYs, and    *)
(* broadcasts RELEASE.  Every process, the requester included, answers a   *)
(* REQUEST as soon as it has stored it in its queue, whatever it wants     *)
(* itself.                                                                 *)
(*                                                                         *)
(* Network.  A message goes through the sender's pipe, one TCP connection  *)
(* and a worker thread of the receiver; workers run concurrently, so two   *)
(* messages may reach the receiver's pipe in any order, even when they     *)
(* come from one sender.  reseau[q] is the set of messages on their way to *)
(* q, read in any order.  The fields de and tour make messages distinct;   *)
(* the program transmits them with REQUEST only (RequestPort, horloge) and *)
(* the handlers of the other types do not read them, except to update the  *)
(* history variables.                                                      *)
(***************************************************************************)
EXTENDS FileRequetes, FiniteSets

CONSTANTS
  N,              \* nbServeurs: ports listed before the first 0
  MaxHorloge,     \* bound on the clock, in the guards only
  PileInitiale    \* values the uninitialised array may start with

NOMBRE_DE_SERVERS_MAX == 10

\* With 10 ports no entry is 0 and nbServeurs is never assigned: calcul
\* needs a port fewer than the array has entries.
ASSUME NHypothese == N \in Nat \ {0} /\ N < NOMBRE_DE_SERVERS_MAX
ASSUME MaxHorlogeHypothese == MaxHorloge \in Nat \ {0}
ASSUME PileHypothese == PileInitiale \subseteq Files
\* The guards' bound keeps every index used inside the array.
ASSUME PlaceHypothese == N * MaxHorloge + 1 < TailleQueue

Proc == 1 .. N
Premier == 1                        \* the process main forks with isFirst = 1

Types == {"MESSAGE", "REQUEST", "REPLY", "RELEASE"}
Messages == [type : Types, de : Proc, tour : 0 .. MaxHorloge]
Requetes == [de : Proc, tour : 1 .. MaxHorloge]

Msg(type, p, t) == [type |-> type, de |-> p, tour |-> t]
Req(p, t) == [de |-> p, tour |-> t]

VARIABLES
  \* The calcul thread of each process
  pc,             \* "lecture", "section" or "action"
  horloge, wantSC, compteurReply, queue, queueIndex,
  \* The network
  reseau,
  \* History: what happened, read by no guard
  demande,        \* clock of the latest REQUEST of each process, 0 if none
  repondants,     \* who replied to the current REQUEST
  enregistrees,   \* requests a process stored and saw no RELEASE of
  liberees,       \* requests a process stored, then saw the RELEASE of
  perdues         \* requests for which the insertion loop found no slot

code == <<pc, horloge, wantSC, compteurReply, queue, queueIndex>>
histoire == <<demande, repondants, enregistrees, liberees, perdues>>
vars == <<code, reseau, histoire>>

Init ==
  /\ pc = [p \in Proc |-> "lecture"]
  /\ horloge = [p \in Proc |-> 0]
  /\ wantSC = [p \in Proc |-> FALSE]
  /\ compteurReply = [p \in Proc |-> 0]
  /\ queue \in [Proc -> PileInitiale]
  /\ queueIndex = [p \in Proc |-> 0]
  /\ reseau = [p \in Proc |-> IF p = Premier THEN {Msg("MESSAGE", p, 0)} ELSE {}]
  /\ demande = [p \in Proc |-> 0]
  /\ repondants = [p \in Proc |-> {}]
  /\ enregistrees = [p \in Proc |-> {}]
  /\ liberees = [p \in Proc |-> {}]
  /\ perdues = [p \in Proc |-> {}]
-----------------------------------------------------------------------------
Sans(p, m) == [reseau EXCEPT ![p] = @ \ {m}]
Vers(res, q, m) == [res EXCEPT ![q] = @ \cup {m}]
VersTous(m) == [q \in Proc |-> reseau[q] \cup {m}]

Lire(p, m, type) ==
  /\ pc[p] = "lecture"
  /\ m \in reseau[p]
  /\ m.type = type

\* Mutant of DernierReply: one REPLY too many
DernierReplyJamais(p) == compteurReply[p] + 1 > N

DernierReply(p) == compteurReply[p] + 1 = N

\* A REPLY is counted when the process wants the section, ignored otherwise;
\* nothing checks which request it answers.
RecevoirReply(p, m) ==
  /\ Lire(p, m, "REPLY")
  /\ reseau' = Sans(p, m)
  /\ IF wantSC[p]
       THEN /\ compteurReply' = [compteurReply EXCEPT ![p] = @ + 1]
            /\ repondants' = [repondants EXCEPT ![p] = @ \cup {m.de}]
            /\ pc' = [pc EXCEPT ![p] = IF DernierReply(p) THEN "section" ELSE "action"]
       ELSE /\ pc' = [pc EXCEPT ![p] = "action"]
            /\ UNCHANGED <<compteurReply, repondants>>
  /\ UNCHANGED <<horloge, wantSC, queue, queueIndex, demande, enregistrees, liberees, perdues>>

Retirer(p) ==
  /\ queue' = [queue EXCEPT ![p] = RetirerPremiere(@, queueIndex[p])]
  /\ queueIndex' = [queueIndex EXCEPT ![p] = @ - 1]

\* A RELEASE removes the first element, whoever put it there.
RecevoirRelease(p, m) ==
  /\ Lire(p, m, "RELEASE")
  /\ reseau' = Sans(p, m)
  /\ Retirer(p)
  /\ enregistrees' = [enregistrees EXCEPT ![p] = @ \ {Req(m.de, m.tour)}]
  /\ liberees' = [liberees EXCEPT ![p] = @ \cup {Req(m.de, m.tour)}]
  /\ pc' = [pc EXCEPT ![p] = "action"]
  /\ UNCHANGED <<horloge, wantSC, compteurReply, demande, repondants, perdues>>

\* A REQUEST is stored and answered when the loop finds a slot...
StockerRequest(p, m) ==
  /\ Lire(p, m, "REQUEST")
  /\ PlacesPossibles(queue[p], queueIndex[p], m.tour) # {}
  /\ queue' = [queue EXCEPT ![p] =
                 Ranger(@, queueIndex[p], [pid |-> m.de, horloge |-> m.tour])]
  /\ queueIndex' = [queueIndex EXCEPT ![p] = @ + 1]
  /\ reseau' = Vers(Sans(p, m), m.de, Msg("REPLY", p, m.tour))
  /\ enregistrees' = [enregistrees EXCEPT ![p] = @ \cup {Req(m.de, m.tour)}]
  /\ pc' = [pc EXCEPT ![p] = "action"]
  /\ UNCHANGED <<horloge, wantSC, compteurReply, demande, repondants, liberees, perdues>>

\* Mutant of PerdreRequest: the REPLY is sent after the loop
PerdreRequestAvecReply(p, m) ==
  /\ Lire(p, m, "REQUEST")
  /\ PlacesPossibles(queue[p], queueIndex[p], m.tour) = {}
  /\ reseau' = Vers(Sans(p, m), m.de, Msg("REPLY", p, m.tour))
  /\ perdues' = [perdues EXCEPT ![p] = @ \cup {Req(m.de, m.tour)}]
  /\ pc' = [pc EXCEPT ![p] = "action"]
  /\ UNCHANGED <<horloge, wantSC, compteurReply, queue, queueIndex,
                 demande, repondants, enregistrees, liberees>>

\* ... and forgotten without an answer when it finds none.
PerdreRequest(p, m) ==
  /\ Lire(p, m, "REQUEST")
  /\ PlacesPossibles(queue[p], queueIndex[p], m.tour) = {}
  /\ reseau' = Sans(p, m)
  /\ perdues' = [perdues EXCEPT ![p] = @ \cup {Req(m.de, m.tour)}]
  /\ pc' = [pc EXCEPT ![p] = "action"]
  /\ UNCHANGED <<horloge, wantSC, compteurReply, queue, queueIndex,
                 demande, repondants, enregistrees, liberees>>

RecevoirMessage(p, m) ==
  /\ Lire(p, m, "MESSAGE")
  /\ reseau' = Sans(p, m)
  /\ pc' = [pc EXCEPT ![p] = "action"]
  /\ UNCHANGED <<horloge, wantSC, compteurReply, queue, queueIndex, histoire>>

\* Mutant of DiffuserRelease: the loop stops one port early
DiffuserReleaseSaufDernier(p) ==
  [q \in Proc |-> IF q < N THEN reseau[q] \cup {Msg("RELEASE", p, demande[p])} ELSE reseau[q]]

DiffuserRelease(p) == VersTous(Msg("RELEASE", p, demande[p]))

\* Mutants of Reset: one of the two assignments is missing
ResetSansCompteur(p) ==
  /\ wantSC' = [wantSC EXCEPT ![p] = FALSE]
  /\ UNCHANGED compteurReply
ResetSansAttente(p) ==
  /\ compteurReply' = [compteurReply EXCEPT ![p] = 0]
  /\ UNCHANGED wantSC

Reset(p) ==
  /\ compteurReply' = [compteurReply EXCEPT ![p] = 0]
  /\ wantSC' = [wantSC EXCEPT ![p] = FALSE]

\* The end of the critical section: the RELEASE loop and the reset.
SectionCritique(p) ==
  /\ pc[p] = "section"
  /\ reseau' = DiffuserRelease(p)
  /\ Reset(p)
  /\ repondants' = [repondants EXCEPT ![p] = {}]
  /\ pc' = [pc EXCEPT ![p] = "action"]
  /\ UNCHANGED <<horloge, queue, queueIndex, demande, enregistrees, liberees, perdues>>

\* pickAction = 0.  The clock stops counting at MaxHorloge so that the bound
\* never blocks a process.
ActionLocale(p) ==
  /\ pc[p] = "action"
  /\ horloge' = [horloge EXCEPT ![p] = IF @ < MaxHorloge THEN @ + 1 ELSE @]
  /\ pc' = [pc EXCEPT ![p] = "lecture"]
  /\ UNCHANGED <<wantSC, compteurReply, queue, queueIndex, reseau, histoire>>

\* pickAction = 1: a text message to a random process, itself included.
EnvoiMessage(p) ==
  /\ pc[p] = "action"
  /\ horloge[p] < MaxHorloge
  /\ horloge' = [horloge EXCEPT ![p] = @ + 1]
  /\ \E q \in Proc : reseau' = Vers(reseau, q, Msg("MESSAGE", p, horloge[p] + 1))
  /\ pc' = [pc EXCEPT ![p] = "lecture"]
  /\ UNCHANGED <<wantSC, compteurReply, queue, queueIndex, histoire>>

\* pickAction = 2: a new request...
DemandeSC(p) ==
  /\ pc[p] = "action"
  /\ ~ wantSC[p]
  /\ horloge[p] < MaxHorloge
  /\ horloge' = [horloge EXCEPT ![p] = @ + 1]
  /\ wantSC' = [wantSC EXCEPT ![p] = TRUE]
  /\ reseau' = VersTous(Msg("REQUEST", p, horloge[p] + 1))
  /\ demande' = [demande EXCEPT ![p] = horloge[p] + 1]
  /\ pc' = [pc EXCEPT ![p] = "lecture"]
  /\ UNCHANGED <<compteurReply, queue, queueIndex, repondants, enregistrees, liberees, perdues>>

\* ... or nothing, when one is pending.
DemandeEnCours(p) ==
  /\ pc[p] = "action"
  /\ wantSC[p]
  /\ pc' = [pc EXCEPT ![p] = "lecture"]
  /\ UNCHANGED <<horloge, wantSC, compteurReply, queue, queueIndex, reseau, histoire>>

Lecture(p) ==
  \E m \in reseau[p] :
    \/ RecevoirReply(p, m)
    \/ RecevoirRelease(p, m)
    \/ StockerRequest(p, m)
    \/ PerdreRequest(p, m)
    \/ RecevoirMessage(p, m)

Action(p) == ActionLocale(p) \/ EnvoiMessage(p) \/ DemandeSC(p) \/ DemandeEnCours(p)

Etape(p) == Lecture(p) \/ SectionCritique(p) \/ Action(p)

Next == \E p \in Proc : Etape(p)

Spec == Init /\ [][Next]_vars

\* The scheduler runs every thread that is not blocked in read().
FairSpec == Spec /\ \A p \in Proc : WF_vars(Etape(p))
-----------------------------------------------------------------------------
TypeOK ==
  /\ pc \in [Proc -> {"lecture", "section", "action"}]
  /\ horloge \in [Proc -> 0 .. MaxHorloge]
  /\ wantSC \in [Proc -> BOOLEAN]
  /\ compteurReply \in [Proc -> 0 .. N]
  /\ queue \in [Proc -> Files]
  /\ queueIndex \in [Proc -> Int]
  /\ reseau \in [Proc -> SUBSET Messages]
  /\ demande \in [Proc -> 0 .. MaxHorloge]
  /\ repondants \in [Proc -> SUBSET Proc]
  /\ enregistrees \in [Proc -> SUBSET Requetes]
  /\ liberees \in [Proc -> SUBSET Requetes]
  /\ perdues \in [Proc -> SUBSET Requetes]

\* The current (or latest) request of p
Courante(p) == Req(p, demande[p])

(* A process in its critical section has its request in the books of every
   process: the count of anonymous REPLYs (calcul.c:51-55) really means that
   everybody stored this request, and nobody has been told of its release. *)
AccordDeTous ==
  \A p, q \in Proc : pc[p] = "section" => Courante(p) \in enregistrees[q]

(* A RELEASE never overtakes the REQUEST it releases, although the worker
   threads may reorder two messages of one sender: the handler
   (calcul.c:77-86) has no test for an empty queue. *)
ReleaseApresRequest ==
  \A q \in Proc : \A m \in reseau[q] :
    m.type = "RELEASE" => Req(m.de, m.tour) \in enregistrees[q]

(* A REPLY in transit always answers the request its receiver is waiting on:
   none is left over from an earlier request, to be counted for the next one
   or to be dropped by the test on wantSC (calcul.c:51). *)
PasDeReplyTardif ==
  \A p \in Proc : \A m \in reseau[p] :
    m.type = "REPLY" => wantSC[p] /\ m.tour = demande[p]

(* From the REQUEST broadcast to the reset, every process is at exactly one
   stage with respect to the request of p: it has still to read it, its answer
   is on the way, its answer was counted, or it forgot the request.  Hence
   nobody answers twice or is counted twice, and compteurReply = nbServeurs
   (calcul.c:55) can only mean that all have answered. *)
UneSeuleEtape ==
  \A p \in Proc : wantSC[p] =>
    LET aLire == {q \in Proc : Msg("REQUEST", p, demande[p]) \in reseau[q]}
        enRoute == {q \in Proc : Msg("REPLY", q, demande[p]) \in reseau[p]}
        oubli == {q \in Proc : Courante(p) \in perdues[q]}
    IN  /\ aLire \cup enRoute \cup repondants[p] \cup oubli = Proc
        /\ aLire \cap (enRoute \cup repondants[p] \cup oubli) = {}
        /\ enRoute \cap (repondants[p] \cup oubli) = {}
        /\ repondants[p] \cap oubli = {}

(* queueIndex counts the stored requests whose RELEASE was not seen, so it
   never goes below 0 nor past the array; it does so although RELEASE removes
   the first element, whoever it belongs to (calcul.c:79-85, 99). *)
IndexExact ==
  \A q \in Proc : queueIndex[q] = Cardinality(enregistrees[q])

(* On a stack that happened to be zero, a request is forgotten only because of
   what an earlier RELEASE left in the array past queueIndex (calcul.c:80-85
   and the test of calcul.c:97): the process had stored an older request, and
   processed at least one RELEASE. *)
PerteExpliquee ==
  \A q \in Proc : \A r \in perdues[q] :
    /\ liberees[q] # {}
    /\ \E s \in enregistrees[q] \cup liberees[q] : s.tour < r.tour

(* A process that wants the section enters it, unless a process forgot its
   request: no set of processes waits on one another (calcul.c:153-171, 51-75). *)
DemandeAboutit ==
  \A p \in Proc :
    wantSC[p] ~> (pc[p] = "section" \/ \E q \in Proc : Courante(p) \in perdues[q])

(* A stored request is released everywhere once its owner entered: no process
   keeps it, or its share of queueIndex, for ever (calcul.c:61-73, 77-86). *)
LiberationAboutit ==
  \A p \in Proc : \A t \in 1 .. MaxHorloge :
    (pc[p] = "section" /\ demande[p] = t) ~> \A q \in Proc : Req(p, t) \in liberees[q]
-----------------------------------------------------------------------------
(* The abstract view of a process: at rest, waiting or in the section, and who
   has its current request in the books. *)
etatAbstrait ==
  [p \in Proc |-> IF pc[p] = "section" THEN "section"
                  ELSE IF wantSC[p] THEN "attente" ELSE "repos"]
accordsAbstraits ==
  [p \in Proc |-> IF wantSC[p] THEN {q \in Proc : Courante(p) \in enregistrees[q]} ELSE {}]

AccordAbstrait == INSTANCE Accord WITH etat <- etatAbstrait, accords <- accordsAbstraits

(* The program implements Accord: counting anonymous REPLYs and testing wantSC
   is enough to enter only with everybody's agreement to the request at hand. *)
ImplementeAccord == AccordAbstrait!Spec
-----------------------------------------------------------------------------
(* The inductive invariant behind the properties above (proved in
   Calcul_proof). *)

InvHorloge ==
  \A p \in Proc : demande[p] <= horloge[p] /\ (wantSC[p] => demande[p] >= 1)

InvRequest ==
  \A q \in Proc : \A m \in reseau[q] : m.type = "REQUEST" =>
    /\ wantSC[m.de]
    /\ m.tour = demande[m.de]
    /\ q \notin repondants[m.de]
    /\ Msg("REPLY", q, m.tour) \notin reseau[m.de]
    /\ Req(m.de, m.tour) \notin enregistrees[q] \cup liberees[q] \cup perdues[q]

InvReply ==
  \A p \in Proc : \A m \in reseau[p] : m.type = "REPLY" =>
    /\ wantSC[p]
    /\ m.tour = demande[p]
    /\ m.de \notin repondants[p]
    /\ Courante(p) \in enregistrees[m.de]

InvRelease ==
  \A q \in Proc : \A m \in reseau[q] : m.type = "RELEASE" =>
    /\ Req(m.de, m.tour) \in enregistrees[q]
    /\ \/ m.tour < demande[m.de]
       \/ m.tour = demande[m.de] /\ ~ wantSC[m.de]

InvRepondants ==
  \A p \in Proc :
    /\ \A q \in repondants[p] : wantSC[p] /\ Courante(p) \in enregistrees[q]
    /\ IsFiniteSet(repondants[p])
    /\ compteurReply[p] = Cardinality(repondants[p])
    /\ IF pc[p] = "section" THEN wantSC[p] /\ repondants[p] = Proc
                            ELSE compteurReply[p] < N

InvRegistres ==
  \A q \in Proc :
    /\ IsFiniteSet(enregistrees[q])
    /\ queueIndex[q] = Cardinality(enregistrees[q])
    /\ perdues[q] \cap enregistrees[q] = {}
    /\ \A r \in enregistrees[q] \cup liberees[q] \cup perdues[q] : r.tour <= demande[r.de]

InvStades ==
  \A p, q \in Proc : wantSC[p] =>
    \/ Msg("REQUEST", p, demande[p]) \in reseau[q]
    \/ Msg("REPLY", q, demande[p]) \in reseau[p]
    \/ q \in repondants[p]
    \/ Courante(p) \in perdues[q]

(* The state the proofs start from: who asked, who answered and who stored
   what agree with the messages in transit and with the two counters. *)
Inv ==
  /\ TypeOK
  /\ InvHorloge
  /\ InvRequest
  /\ InvReply
  /\ InvRelease
  /\ InvRepondants
  /\ InvRegistres
  /\ InvStades
-----------------------------------------------------------------------------
(* What the comments of calcul.c and TODO.md say, and the code does not do. *)

(* calcul.c:57 "Section critique": at most one process at a time is in it. *)
ExclusionMutuelle ==
  \A p, q \in Proc : pc[p] = "section" /\ pc[q] = "section" => p = q

(* TODO.md:8-13: a process waiting for the section reads the REPLYs, then
   "Fais SC": whoever asks enters. *)
SectionObtenue == \A p \in Proc : wantSC[p] ~> pc[p] = "section"
=============================================================================
