--------------------------- MODULE Demarrage_proof ---------------------------
(***************************************************************************)
(* Proofs about Demarrage, for every number of processes, of messages and  *)
(* of failed calls.                                                        *)
(***************************************************************************)
EXTENDS Demarrage, FiniteSetTheorems, SequenceTheorems, TLAPS

\* Before the first process is launched, nobody has anything to say, unless a
\* failed call invented it; and while main forks it is not launched, when the
\* second is long enough.
Silence ==
  connexions = {} /\ \A p \in Proc : envoi[p] = <<>> /\ (p # Premier => reception[p] = <<>>)

InvSommeil ==
  /\ vie[Premier] \in {"absent", "prepare", "sommeil"} => Silence
  /\ env.sommeilSuffit /\ main = "fork" => Silence /\ vie[Premier] # "lance" /\ refus = {}
  /\ env.sommeilSuffit /\ vie[Premier] = "lance" =>
       \A q \in Proc \ {Premier} : ecoute[q] \/ vie[q] \in {"absent", "mort"}

\* The processes are born in order, and one that listens is launched.
InvVies ==
  /\ \E k \in 0 .. N : Nes = 1 .. k
  /\ \A p \in Proc : ecoute[p] => vie[p] = "lance"
  /\ echecs = <<>> => InvSommeil

\* A process that listens has a serveur thread.
InvServeur == \A p \in Proc : ecoute[p] => lances[p] # 0 /\ <<"serveur", p>> \notin ToSet(echecs)

\* A process that has not made its pipes has nothing to read.
InvVides == \A p \in Proc : vie[p] \in {"absent", "prepare"} => reception[p] = <<>>

\* Before the first refusal nobody dies but by the environment, CTRL-C or a
\* call that failed.
InvMorts ==
  env.traceServie /\ env.portsOccupes = {} /\ ~ sigint /\ echecs = <<>> /\ refus = {}
    => Morts = {}

\* Nothing can have invented a message yet.
RienInvente == Morts = {} /\ \A p \in Proc, a \in Inventifs : <<a, p>> \notin ToSet(echecs)

\* Where a message is says whose it is; a port that nobody has is the answer to
\* a phantom.
InvMessages ==
  \A p \in Proc :
    /\ \A m \in ToSet(envoi[p]) : m.de = p /\ (RienInvente => m.vers \in Proc)
    /\ \A m \in ToSet(reception[p]) : m \in Messages => m.vers = p
    /\ client[p] # Rien => client[p].de = p

IInv == Inv /\ InvVies /\ InvServeur /\ InvVides /\ InvMorts /\ InvMessages
-----------------------------------------------------------------------------
(* What the operations on sequences do to the set of their elements *)

LEMMA EnsembleVide == ToSet(<<>>) = {}
BY DEF ToSet

LEMMA EnsembleAjout ==
  ASSUME NEW S, NEW s \in Seq(S), NEW e \in S
  PROVE  ToSet(Append(s, e)) = ToSet(s) \cup {e}
<1>1. Append(s, e) \in Seq(S) /\ Len(Append(s, e)) = Len(s) + 1
  BY AppendProperties
<1>2. Len(s) \in Nat /\ DOMAIN s = 1 .. Len(s) /\ DOMAIN Append(s, e) = 1 .. Len(s) + 1
  BY <1>1, LenProperties
<1>3. (\A i \in 1 .. Len(s) : Append(s, e)[i] = s[i]) /\ Append(s, e)[Len(s) + 1] = e
  BY AppendProperties
<1> QED
  BY <1>2, <1>3 DEF ToSet

LEMMA EnsembleRetrait ==
  ASSUME NEW S, NEW s \in Seq(S), s # <<>>
  PROVE  /\ Head(s) \in S /\ Tail(s) \in Seq(S)
         /\ ToSet(s) = {Head(s)} \cup ToSet(Tail(s))
<1>1. /\ Head(s) \in S /\ Tail(s) \in Seq(S) /\ Len(Tail(s)) = Len(s) - 1
      /\ \A i \in 1 .. Len(Tail(s)) : Tail(s)[i] = s[i + 1]
  BY HeadTailProperties
<1>2. Len(s) \in Nat /\ Len(s) # 0 /\ DOMAIN s = 1 .. Len(s) /\ DOMAIN Tail(s) = 1 .. Len(s) - 1
  BY <1>1, LenProperties, EmptySeq
<1>3. Head(s) = s[1]
  OBVIOUS
<1>4. \A i \in 2 .. Len(s) : i - 1 \in 1 .. Len(s) - 1 /\ s[i] = Tail(s)[i - 1]
  BY <1>1, <1>2
<1>5. ASSUME NEW x \in ToSet(s)
      PROVE  x \in {Head(s)} \cup ToSet(Tail(s))
  <2>1. PICK i \in 1 .. Len(s) : x = s[i]
    BY <1>2 DEF ToSet
  <2>2. i = 1 \/ i \in 2 .. Len(s)
    BY <1>2
  <2> QED
    BY <1>2, <1>3, <1>4, <2>1, <2>2 DEF ToSet
<1>6. {Head(s)} \cup ToSet(Tail(s)) \subseteq ToSet(s)
  BY <1>1, <1>2, <1>3 DEF ToSet
<1> QED
  BY <1>1, <1>5, <1>6

LEMMA EnsembleConcat ==
  ASSUME NEW S, NEW s \in Seq(S), NEW t \in Seq(S)
  PROVE  s \o t \in Seq(S) /\ ToSet(s \o t) = ToSet(s) \cup ToSet(t)
<1>1. s \o t \in Seq(S)
  BY ConcatProperties
<1>2. Range(s \o t) = Range(s) \cup Range(t)
  BY RangeConcatenation
<1>3. ToSet(s \o t) = Range(s \o t) /\ ToSet(s) = Range(s) /\ ToSet(t) = Range(t)
  BY DEF ToSet, Range
<1> QED
  BY <1>1, <1>2, <1>3

(* What calcul writes for a message is from its own process, to a port it knows
   unless the message is a phantom. *)
LEMMA LotEcrit ==
  ASSUME NEW p \in Proc, NEW m, NEW k \in Nat \ {0}, NEW lot \in Lots(p, m, k)
  PROVE  /\ lot \in Seq(Messages)
         /\ \A e \in ToSet(lot) : e.de = p /\ (m # Fantome => e.vers \in Proc)
         /\ lot # <<>> => k <= MaxEnvois
<1> USE DemarrageHypothese DEF Proc, Messages, Message
<1>1. CASE lot = <<>>
  BY <1>1, EnsembleVide, EmptySeq
<1>2. CASE k <= MaxEnvois /\ lot = Diffusion(p, k)
  <2>1. /\ \A q \in 1 .. N : Message(p, q, k) \in Messages
        /\ \A q \in 1 .. N : Message(p, q, k).de = p /\ Message(p, q, k).vers = q
    BY <1>2
  <2>2. lot \in [1 .. N -> Messages]
    BY <1>2, <2>1 DEF Diffusion
  <2>3. lot \in Seq(Messages)
    <3> HIDE DEF Messages, Proc, Message
    <3>1. N \in Nat
      BY DemarrageHypothese
    <3> QED
      BY <2>2, <3>1, SeqDef
  <2>4. \A e \in ToSet(lot) : \E q \in 1 .. N : e = Message(p, q, k)
    BY <1>2 DEF Diffusion, ToSet
  <2> QED
    BY <1>2, <2>1, <2>3, <2>4
<1>3. CASE k <= MaxEnvois /\ \E q \in Destinataires(m) : lot = <<Message(p, q, k)>>
  <2>1. PICK q \in Destinataires(m) : lot = <<Message(p, q, k)>>
    BY <1>3
  <2>2. Message(p, q, k) \in Messages /\ (m # Fantome => q \in Proc)
    BY <1>3 DEF Destinataires
  <2>3. lot \in Seq(Messages) /\ ToSet(lot) = {Message(p, q, k)}
    BY <2>1, <2>2 DEF ToSet
  <2> QED
    BY <1>3, <2>2, <2>3
<1> QED
  BY <1>1, <1>2, <1>3 DEF Lots

\* A message is no phantom, and the first one is neither.
LEMMA MessagesDistincts ==
  /\ Fantome \notin Messages /\ Rien \notin Messages /\ Amorce \notin Messages /\ Amorce # Fantome
BY DEF Fantome, Rien, Amorce, Messages, Premier, Inconnu, Proc

\* What Lire does to the messages
LEMMA LireMene ==
  ASSUME TypeOK, NEW p \in Proc, Lire(p)
  PROVE  /\ Tourne(p, "calcul")
         /\ reception[p] # <<>> /\ Head(reception[p]) \in Messages \cup {Amorce, Fantome}
         /\ reception' = [reception EXCEPT ![p] = Tail(reception[p])]
         /\ Tail(reception[p]) \in Seq(Messages \cup {Amorce, Fantome})
         /\ ToSet(reception[p]) = {Head(reception[p])} \cup ToSet(Tail(reception[p]))
         /\ lus' = IF Head(reception[p]) = Fantome THEN lus ELSE lus \cup {Head(reception[p])}
         /\ envois'  \in [Proc -> 0 .. MaxEnvois] /\ aTracer' \in [Proc -> BOOLEAN]
         /\ \E ajout \in Seq(Messages) :
              /\ envoi' = [envoi EXCEPT ![p] = envoi[p] \o ajout]
              /\ ecrits' = ecrits \cup ToSet(ajout)
              /\ \A m \in ToSet(ajout) : m.de = p /\ (Head(reception[p]) # Fantome => m.vers \in Proc)
         /\ UNCHANGED <<env, main, sigint, vie, lances, ecoute, client, connexions, echecs, refus>>
<1> DEFINE m == Head(reception[p])
<1>1. reception[p] \in Seq(Messages \cup {Amorce, Fantome}) /\ reception[p] # <<>>
  BY DEF TypeOK, Lire
<1>2. /\ m \in Messages \cup {Amorce, Fantome} /\ Tail(reception[p]) \in Seq(Messages \cup {Amorce, Fantome})
      /\ ToSet(reception[p]) = {m} \cup ToSet(Tail(reception[p]))
  BY <1>1, EnsembleRetrait
<1>3. PICK reaction \in Lots(p, m, envois[p] + 1) :
        \E action \in Lots(p, Amorce, Apres(envois[p], reaction) + 1) :
          /\ envoi' = [envoi EXCEPT ![p] = @ \o reaction \o action]
          /\ envois' = [envois EXCEPT ![p] = Apres(Apres(@, reaction), action)]
          /\ ecrits' = ecrits \cup ToSet(reaction) \cup ToSet(action)
  BY DEF Lire
<1>4. PICK action \in Lots(p, Amorce, Apres(envois[p], reaction) + 1) :
        /\ envoi' = [envoi EXCEPT ![p] = @ \o reaction \o action]
        /\ envois' = [envois EXCEPT ![p] = Apres(Apres(@, reaction), action)]
        /\ ecrits' = ecrits \cup ToSet(reaction) \cup ToSet(action)
  BY <1>3
<1>5. envois[p] \in 0 .. MaxEnvois
  BY DEF TypeOK
<1>6. /\ reaction \in Seq(Messages)
      /\ \A e \in ToSet(reaction) : e.de = p /\ (m # Fantome => e.vers \in Proc)
      /\ reaction # <<>> => envois[p] + 1 <= MaxEnvois
  BY <1>5, LotEcrit
<1>7. Apres(envois[p], reaction) \in 0 .. MaxEnvois
  BY <1>5, <1>6, DemarrageHypothese DEF Apres
<1>8. /\ action \in Seq(Messages)
      /\ \A e \in ToSet(action) : e.de = p /\ e.vers \in Proc
      /\ action # <<>> => Apres(envois[p], reaction) + 1 <= MaxEnvois
  BY <1>7, LotEcrit, MessagesDistincts
<1>9. Apres(Apres(envois[p], reaction), action) \in 0 .. MaxEnvois
  BY <1>7, <1>8, DemarrageHypothese DEF Apres
<1>10. envois' \in [Proc -> 0 .. MaxEnvois]
  BY <1>4, <1>9 DEF TypeOK
<1>11. /\ reaction \o action \in Seq(Messages)
       /\ ToSet(reaction \o action) = ToSet(reaction) \cup ToSet(action)
       /\ envoi[p] \o reaction \o action = envoi[p] \o (reaction \o action)
  <2>1. envoi[p] \in Seq(Messages) /\ reaction \in Seq(Messages) /\ action \in Seq(Messages)
    BY <1>6, <1>8 DEF TypeOK
  <2>2. envoi[p] \o reaction \o action = envoi[p] \o (reaction \o action)
    <3>1. \A s, u, v \in Seq(Messages) : s \o u \o v = s \o (u \o v)
      BY ConcatAssociative
    <3> QED
      BY <2>1, <3>1, Zenon
  <2>3. /\ reaction \o action \in Seq(Messages)
        /\ ToSet(reaction \o action) = ToSet(reaction) \cup ToSet(action)
    BY <2>1, EnsembleConcat
  <2> QED
    BY <2>2, <2>3
<1>12. /\ envoi' = [envoi EXCEPT ![p] = envoi[p] \o (reaction \o action)]
       /\ ecrits' = ecrits \cup ToSet(reaction \o action)
       /\ \A e \in ToSet(reaction \o action) : e.de = p /\ (m # Fantome => e.vers \in Proc)
  BY <1>4, <1>6, <1>8, <1>11
<1>13. aTracer' \in [Proc -> BOOLEAN]
  BY DEF Lire, TypeOK
<1> QED
  BY <1>1, <1>2, <1>10, <1>11, <1>12, <1>13 DEF Lire
-----------------------------------------------------------------------------
(* The steps, by what they do to the processes *)

\* No failure is forgotten, and a serveur thread is missing from the start.
Retenus ==
  /\ echecs' \in Seq(Appels \X Proc)
  /\ ToSet(echecs) \subseteq ToSet(echecs')
  /\ echecs' = <<>> => echecs = <<>>
  /\ \A p \in Proc :
       <<"serveur", p>> \in ToSet(echecs') => lances[p] = 0 \/ <<"serveur", p>> \in ToSet(echecs)

LEMMA EchecsRetenus ==
  ASSUME TypeOK
  PROVE  /\ UNCHANGED echecs => Retenus
         /\ \A a \in Appels, p \in Proc :
              Echouer(a, p) /\ (a = "serveur" => lances[p] = 0)
                => Retenus /\ <<a, p>> \in ToSet(echecs') /\ echecs' # <<>>
<1>1. echecs \in Seq(Appels \X Proc)
  BY DEF TypeOK
<1>2. UNCHANGED echecs => Retenus
  BY <1>1 DEF Retenus
<1>3. ASSUME NEW a \in Appels, NEW p \in Proc, Echouer(a, p), a = "serveur" => lances[p] = 0
      PROVE  Retenus /\ <<a, p>> \in ToSet(echecs') /\ echecs' # <<>>
  <2>1. echecs' = Append(echecs, <<a, p>>) /\ <<a, p>> \in Appels \X Proc
    BY <1>3 DEF Echouer
  <2>2. echecs' \in Seq(Appels \X Proc) /\ echecs' # <<>>
    BY <1>1, <2>1, AppendProperties
  <2>3. ToSet(echecs') = ToSet(echecs) \cup {<<a, p>>}
    BY <1>1, <2>1, EnsembleAjout
  <2> QED
    BY <1>3, <2>2, <2>3 DEF Retenus
<1> QED
  BY <1>2, <1>3

\* Nothing happens to the processes, their listening or their messages; a
\* thread may be missing.
Calme ==
  /\ UNCHANGED <<env, vie, ecoute, reception, envoi, client, connexions, envois, traces>>
  /\ main' \in {"fork", "sommeil", "fini"} /\ sigint' \in BOOLEAN
  /\ lances' \in [Proc -> 0 .. Len(Threads)] /\ aTracer' \in [Proc -> BOOLEAN]
  /\ \A p \in Proc : lances[p] # 0 => lances'[p] # 0
  /\ Retenus
  /\ sigint => sigint'
  /\ main' = "fork" => main = "fork"

\* A process exits: the environment, CTRL-C or a failure did it, or a refusal.
Deces(p) ==
  /\ vie[p] \in {"prepare", "sommeil", "lance"}
  /\ Mourir(p)
  /\ UNCHANGED <<env, main, sigint, lances, envois, ecrits, lus>>
  /\ Retenus
  /\ \/ /\ refus' = refus
        /\ sigint \/ p \in env.portsOccupes \/ ~ env.traceServie \/ echecs' # <<>>
     \/ EchouerConnect(p)

\* A receiver loses connections, invents a message, or both.
Perdre(q) ==
  /\ ecoute[q]
  /\ UNCHANGED <<env, main, sigint, vie, lances, ecoute, envoi, client, aTracer, envois, traces>>
  /\ Retenus /\ echecs' # <<>>
  /\ connexions' \subseteq connexions
  /\ \A c \in connexions \ connexions' : c.msg.vers = q
  /\ \E a \in {"accept", "recv", "worker"} : <<a, q>> \in ToSet(echecs')
  /\ \/ UNCHANGED reception
     \/ /\ reception' = [reception EXCEPT ![q] = Append(@, Fantome)]
        /\ \E a \in {"accept", "recv"} : <<a, q>> \in ToSet(echecs')

LEMMA PerdreMene ==
  ASSUME TypeOK, NEW q \in Proc
  PROVE  /\ EchouerAccept(q) => Perdre(q)
         /\ \A c \in connexions : EchouerRecv(q, c) \/ ManquerWorker(q, c) => Perdre(q)
<1>1. ASSUME NEW a \in {"accept", "recv", "worker"}, Echouer(a, q)
      PROVE  Retenus /\ echecs' # <<>> /\ <<a, q>> \in ToSet(echecs')
  BY <1>1, EchecsRetenus DEF Appels
<1>2. EchouerAccept(q) => Perdre(q)
  BY <1>1 DEF EchouerAccept, Perdre
<1>3. \A c \in connexions : EchouerRecv(q, c) => Perdre(q)
  BY <1>1 DEF EchouerRecv, Perdre
<1>4. \A c \in connexions : ManquerWorker(q, c) => Perdre(q)
  BY <1>1 DEF ManquerWorker, Perdre
<1> QED
  BY <1>2, <1>3, <1>4

LEMMA LesPas ==
  ASSUME TypeOK, [Next]_vars
  PROVE  \/ Calme \/ Forker
         \/ \E p \in Proc : \/ Deces(p) \/ Preparer(p) \/ (p = Premier /\ Reveiller) \/ Ecouter(p)
                            \/ Worker(p) \/ Lire(p) \/ Connecter(p) \/ Envoyer(p)
                            \/ Perdre(p) \/ EchouerEnvoyer(p)
<1>1. CASE UNCHANGED vars
  BY <1>1, EchecsRetenus DEF vars, traces, Calme, TypeOK
<1>2. CASE EchouerFork \/ FinirMain \/ AppuyerCtrlC
  BY <1>2, EchecsRetenus DEF EchouerFork, FinirMain, AppuyerCtrlC, traces, Calme, TypeOK
<1>3. ASSUME NEW p \in Proc, CreerThread(p) \/ ManquerThread(p) PROVE Calme
  <2>1. /\ Len(Threads) = 4
        /\ \A i \in 0 .. 3 : Threads[i + 1] \in Appels /\ (Threads[i + 1] = "serveur" => i = 0)
    BY DEF Threads, Appels
  <2>2. lances[p] \in 0 .. 3 /\ lances' = [lances EXCEPT ![p] = lances[p] + 1]
    BY <1>3, <2>1 DEF CreerThread, ManquerThread, TypeOK
  <2>3. lances' \in [Proc -> 0 .. Len(Threads)] /\ \A q \in Proc : lances[q] # 0 => lances'[q] # 0
    BY <2>1, <2>2 DEF TypeOK
  <2>4. UNCHANGED echecs \/ Echouer(Threads[lances[p] + 1], p)
    BY <1>3 DEF CreerThread, ManquerThread
  <2>5. Retenus
    BY <2>1, <2>2, <2>4, EchecsRetenus
  <2>6. UNCHANGED <<env, main, sigint, vie, ecoute, reception, envoi, client, connexions, aTracer, envois, traces>>
    BY <1>3 DEF CreerThread, ManquerThread
  <2> QED
    BY <2>3, <2>5, <2>6 DEF traces, Calme, TypeOK
<1>4. ASSUME NEW p \in Proc, Tracer(p) PROVE Calme
  BY <1>4, EchecsRetenus DEF Tracer, traces, Calme, TypeOK
<1>5. ASSUME NEW p \in Proc, Interrompre(p) \/ EchouerBind(p) \/ EchouerTrace(p) \/ EchouerConnect(p)
      PROVE  Deces(p)
  BY <1>5, EchecsRetenus DEF Interrompre, EchouerBind, EchouerTrace, EchouerConnect, Tourne, traces, Deces
<1>6. ASSUME NEW p \in Proc, EchouerEcoute(p) \/ EchouerSocket(p) \/ EchouerClnt(p)
      PROVE  Deces(p)
  <2>1. Echouer("socket", p) \/ Echouer("clnt_create", p)
    BY <1>6 DEF EchouerEcoute, EchouerSocket, EchouerClnt
  <2>2. Retenus /\ echecs' # <<>>
    BY <2>1, EchecsRetenus DEF Appels
  <2>3. /\ vie[p] = "lance" /\ Mourir(p)
        /\ UNCHANGED <<env, main, sigint, lances, envois, traces>>
    BY <1>6 DEF EchouerEcoute, EchouerSocket, EchouerClnt, Tourne
  <2> QED
    BY <2>2, <2>3 DEF Deces, traces
<1>7. ASSUME NEW p \in Proc, JoindreAbsent(p) PROVE Deces(p)
  <2>1. echecs # <<>>
    BY <1>7, EnsembleVide DEF JoindreAbsent, Echoue
  <2> QED
    BY <1>7, <2>1, EchecsRetenus DEF JoindreAbsent, Deces, traces
<1> QED
  BY <1>1, <1>2, <1>3, <1>4, <1>5, <1>6, <1>7, PerdreMene
     DEF Next, Main, Lancement, Serveur, Client, Trace, Panne

\* Forker gives birth to the next process.
LEMMA ForkerMene ==
  ASSUME TypeOK, \E k \in 0 .. N : Nes = 1 .. k, Forker
  PROVE  \E p \in Proc :
           /\ vie[p] = "absent" /\ vie' = [vie EXCEPT ![p] = "prepare"]
           /\ Nes = 1 .. p - 1 /\ Nes' = 1 .. p
           /\ main' = IF p = N THEN "sommeil" ELSE main
<1>1. PICK k \in 0 .. N : Nes = 1 .. k
  OBVIOUS
<1>2. Cardinality(Nes) = k
  BY <1>1, FS_Interval, DemarrageHypothese
<1>3. k # N
  BY <1>1 DEF Forker, Proc
<1>4. k + 1 \in Proc /\ k + 1 \notin Nes
  BY <1>1, <1>3, DemarrageHypothese DEF Proc
<1>5. vie[k + 1] = "absent" /\ vie' = [vie EXCEPT ![k + 1] = "prepare"]
  BY <1>2, <1>4 DEF Nes, Forker
<1>6. Nes' = Nes \cup {k + 1}
  BY <1>4, <1>5 DEF Nes, TypeOK
<1>7. Nes = 1 .. (k + 1) - 1 /\ Nes' = 1 .. k + 1
  BY <1>1, <1>6, DemarrageHypothese
<1> QED
  BY <1>2, <1>4, <1>5, <1>7 DEF Forker

\* Who is born and who is dead, after each step
LEMMA NaissancesMorts ==
  ASSUME TypeOK
  PROVE  /\ UNCHANGED vie => Nes' = Nes /\ Morts' = Morts
         /\ \A p \in Proc : Deces(p) => Nes' = Nes /\ Morts' = Morts \cup {p}
         /\ \A p \in Proc : Preparer(p) => Nes' = Nes /\ Morts' = Morts
         /\ Reveiller => Nes' = Nes /\ Morts' = Morts
         /\ \A p \in Proc : vie[p] = "absent" /\ vie' = [vie EXCEPT ![p] = "prepare"] => Morts' = Morts
<1> USE DEF Nes, Morts, TypeOK
<1>1. UNCHANGED vie => Nes' = Nes /\ Morts' = Morts
  OBVIOUS
<1>2. \A p \in Proc : Deces(p) => Nes' = Nes /\ Morts' = Morts \cup {p}
  BY DEF Deces, Mourir
<1>3. \A p \in Proc : Preparer(p) => Nes' = Nes /\ Morts' = Morts
  BY DEF Preparer
<1>4. Reveiller => Nes' = Nes /\ Morts' = Morts
  BY DEF Reveiller
<1>5. \A p \in Proc : vie[p] = "absent" /\ vie' = [vie EXCEPT ![p] = "prepare"] => Morts' = Morts
  OBVIOUS
<1> QED
  BY <1>1, <1>2, <1>3, <1>4, <1>5

LEMMA InitInv ==
  Init => IInv
<1> SUFFICES ASSUME Init PROVE IInv
  OBVIOUS
<1> USE DEF Init
<1>1. TypeOK
  <2>1. lances \in [Proc -> 0 .. Len(Threads)] /\ envois \in [Proc -> 0 .. MaxEnvois]
    BY DemarrageHypothese DEF Threads
  <2>2. \A S : <<>> \in Seq(S)
    OBVIOUS
  <2>3. /\ reception \in [Proc -> Seq(Messages \cup {Amorce, Fantome})]
        /\ envoi \in [Proc -> Seq(Messages)]
    BY <2>2
  <2>4. echecs \in Seq(Appels \X Proc)
    BY <2>2
  <2> QED
    BY <2>1, <2>3, <2>4 DEF TypeOK
<1>2. Nes = {} /\ Morts = {} /\ Premier \in Proc
  BY DemarrageHypothese DEF Nes, Morts, Premier, Proc
<1>3. FantomeJustifie
  BY EnsembleVide DEF FantomeJustifie
<1>4. PerteJustifiee /\ PremierRefus
  BY <1>2 DEF PerteJustifiee, PremierRefus
<1>5. Nes = 1 .. 0 /\ 0 \in 0 .. N
  BY <1>2, DemarrageHypothese
<1>6. InvVies
  BY <1>2, <1>5 DEF InvVies, InvSommeil, Silence
<1>7. InvServeur /\ InvVides /\ InvMorts /\ InvMessages
  BY <1>2, EnsembleVide DEF InvServeur, InvVides, InvMorts, InvMessages
<1> QED
  BY <1>1, <1>3, <1>4, <1>6, <1>7 DEF IInv, Inv
-----------------------------------------------------------------------------
(* Every step keeps the types *)

LEMMA PasType ==
  ASSUME IInv, [Next]_vars
  PROVE  TypeOK'
<1> USE DEF TypeOK
<1>1. TypeOK /\ InvVies
  BY DEF IInv, Inv
<1>2. CASE Calme
  BY <1>1, <1>2 DEF Calme, Retenus, traces
<1>3. CASE Forker
  <2>1. PICK p \in Proc : vie' = [vie EXCEPT ![p] = "prepare"] /\ main' \in {"sommeil", main}
    BY <1>1, <1>3, ForkerMene DEF InvVies
  <2> QED
    BY <1>1, <1>3, <2>1 DEF Forker, traces
<1>4. ASSUME NEW p \in Proc, Deces(p) PROVE TypeOK'
  <2>1. /\ reception' \in [Proc -> Seq(Messages \cup {Amorce, Fantome})]
        /\ envoi' \in [Proc -> Seq(Messages)]
    BY <1>1, <1>4 DEF Deces, Mourir
  <2>2. connexions' \subseteq [msg : Messages, etat : {"ouverte", "fermee", "envoyee"}]
    BY <1>1, <1>4 DEF Deces, Mourir, Fermee
  <2>3. refus' \subseteq Proc \X (Proc \cup {Inconnu})
    <3>1. CASE refus' = refus
      BY <1>1, <3>1
    <3>2. CASE EchouerConnect(p)
      <4>1. Head(envoi[p]) \in Messages
        BY <1>1, <3>2, EnsembleRetrait DEF EchouerConnect
      <4>2. Head(envoi[p]).vers \in Proc \cup {Inconnu}
        BY <4>1 DEF Messages
      <4>3. refus' = refus \cup {<<p, Head(envoi[p]).vers>>}
        BY <3>2 DEF EchouerConnect
      <4> QED
        BY <1>1, <4>2, <4>3
    <3> QED
      BY <1>4, <3>1, <3>2 DEF Deces
  <2>4. /\ vie' \in [Proc -> {"absent", "prepare", "sommeil", "lance", "mort"}]
        /\ ecoute' \in [Proc -> BOOLEAN] /\ aTracer' \in [Proc -> BOOLEAN]
        /\ client' \in [Proc -> Messages \cup {Rien}]
    BY <1>1, <1>4 DEF Deces, Mourir
  <2> QED
    BY <1>1, <1>4, <2>1, <2>2, <2>3, <2>4 DEF Deces, Retenus
<1>5. ASSUME NEW p \in Proc, Preparer(p) PROVE TypeOK'
  <2>1. reception' \in [Proc -> Seq(Messages \cup {Amorce, Fantome})]
    <3>1. <<Amorce>> \in Seq(Messages \cup {Amorce, Fantome})
      OBVIOUS
    <3> QED
      BY <1>1, <1>5, <3>1 DEF Preparer
  <2> QED
    BY <1>1, <1>5, <2>1 DEF Preparer, traces
<1>6. CASE Reveiller
  BY <1>1, <1>6 DEF Reveiller, traces
<1>7. ASSUME NEW p \in Proc, Ecouter(p) PROVE TypeOK'
  BY <1>1, <1>7 DEF Ecouter, traces
<1>8. ASSUME NEW q \in Proc, NEW c \in connexions, Livrer(q, c) PROVE TypeOK'
  <2>1. Recu(c) \in Messages \cup {Amorce, Fantome}
    BY <1>1 DEF Recu
  <2>2. reception' \in [Proc -> Seq(Messages \cup {Amorce, Fantome})]
    BY <1>1, <1>8, <2>1, AppendProperties DEF Livrer
  <2> QED
    BY <1>1, <1>8, <2>2 DEF Livrer, traces
<1>9. ASSUME NEW p \in Proc, Lire(p) PROVE TypeOK'
  <2>1. /\ Head(reception[p]) \in Messages \cup {Amorce, Fantome}
        /\ reception' = [reception EXCEPT ![p] = Tail(reception[p])]
        /\ Tail(reception[p]) \in Seq(Messages \cup {Amorce, Fantome})
        /\ lus' = IF Head(reception[p]) = Fantome THEN lus ELSE lus \cup {Head(reception[p])}
        /\ envois'  \in [Proc -> 0 .. MaxEnvois] /\ aTracer' \in [Proc -> BOOLEAN]
        /\ UNCHANGED <<env, main, sigint, vie, lances, ecoute, client, connexions, echecs, refus>>
    BY <1>1, <1>9, LireMene
  <2>2. PICK ajout \in Seq(Messages) :
          envoi' = [envoi EXCEPT ![p] = envoi[p] \o ajout] /\ ecrits' = ecrits \cup ToSet(ajout)
    BY <1>1, <1>9, LireMene
  <2>3. envoi[p] \o ajout \in Seq(Messages) /\ ToSet(ajout) \subseteq Messages
    <3>1. envoi[p] \in Seq(Messages)
      BY <1>1
    <3>2. envoi[p] \o ajout \in Seq(Messages)
      BY <3>1, ConcatProperties
    <3> QED
      BY <3>2 DEF ToSet
  <2>4. envoi' \in [Proc -> Seq(Messages)] /\ reception' \in [Proc -> Seq(Messages \cup {Amorce, Fantome})]
    BY <1>1, <2>1, <2>2, <2>3
  <2>5. ecrits' \subseteq Messages /\ lus' \subseteq Messages \cup {Amorce}
    BY <1>1, <2>1, <2>2, <2>3
  <2> QED
    BY <1>1, <2>1, <2>4, <2>5
<1>10. ASSUME NEW p \in Proc, Connecter(p) PROVE TypeOK'
  <2>1. Head(envoi[p]) \in Messages /\ Tail(envoi[p]) \in Seq(Messages)
    BY <1>1, <1>10, EnsembleRetrait DEF Connecter
  <2>2. /\ connexions' \subseteq [msg : Messages, etat : {"ouverte", "fermee", "envoyee"}]
        /\ client' \in [Proc -> Messages \cup {Rien}] /\ envoi' \in [Proc -> Seq(Messages)]
    BY <1>1, <1>10, <2>1 DEF Connecter
  <2> QED
    BY <1>1, <1>10, <2>2 DEF Connecter, traces
<1>11. ASSUME NEW p \in Proc, Envoyer(p) PROVE TypeOK'
  <2>1. connexions' \subseteq [msg : Messages, etat : {"ouverte", "fermee", "envoyee"}]
    BY <1>1, <1>11 DEF Envoyer, Envoyee
  <2> QED
    BY <1>1, <1>11, <2>1 DEF Envoyer, traces
<1>12. ASSUME NEW q \in Proc, Perdre(q) PROVE TypeOK'
  <2>1. reception' \in [Proc -> Seq(Messages \cup {Amorce, Fantome})]
    <3>1. reception[q] \in Seq(Messages \cup {Amorce, Fantome}) /\ Fantome \in Messages \cup {Amorce, Fantome}
      BY <1>1
    <3>2. Append(reception[q], Fantome) \in Seq(Messages \cup {Amorce, Fantome})
      BY <3>1, AppendProperties
    <3> QED
      BY <1>1, <1>12, <3>2 DEF Perdre
  <2>2. connexions' \subseteq [msg : Messages, etat : {"ouverte", "fermee", "envoyee"}]
    BY <1>1, <1>12 DEF Perdre
  <2> QED
    BY <1>1, <1>12, <2>1, <2>2 DEF Perdre, Retenus, traces
<1>13. ASSUME NEW p \in Proc, EchouerEnvoyer(p) PROVE TypeOK'
  <2>1. connexions' \subseteq [msg : Messages, etat : {"ouverte", "fermee", "envoyee"}]
    BY <1>1, <1>13 DEF EchouerEnvoyer, Fermee
  <2>2. Echouer("send", p) /\ "send" \in Appels /\ "send" # "serveur"
    BY <1>13 DEF EchouerEnvoyer, Appels
  <2>3. echecs' \in Seq(Appels \X Proc)
    BY <1>1, <2>2, EchecsRetenus DEF Retenus
  <2> QED
    BY <1>1, <1>13, <2>1, <2>3 DEF EchouerEnvoyer, traces
<1> QED
  BY <1>1, <1>2, <1>3, <1>4, <1>5, <1>6, <1>7, <1>8, <1>9, <1>10, <1>11, <1>12, <1>13, LesPas DEF Worker
-----------------------------------------------------------------------------
(* Every step keeps the order in which processes start *)

LEMMA PasSommeil ==
  ASSUME IInv, [Next]_vars, echecs' = <<>>
  PROVE  InvSommeil'
<1> USE DEF Proc
<1>1. TypeOK /\ InvVies /\ Premier \in Proc
  BY DemarrageHypothese DEF IInv, Inv, Premier
<1>a. Retenus => InvSommeil /\ ToSet(echecs) = {}
  BY <1>1, EnsembleVide DEF Retenus, InvVies
<1>b. UNCHANGED echecs => InvSommeil /\ ToSet(echecs) = {}
  BY <1>1, EnsembleVide DEF InvVies
<1>2. CASE Calme
  BY <1>1, <1>a, <1>2 DEF Calme, traces, InvSommeil, Silence
<1>3. CASE Forker
  <2>1. PICK p \in Proc : vie[p] = "absent" /\ vie' = [vie EXCEPT ![p] = "prepare"]
    BY <1>1, <1>3, ForkerMene DEF InvVies
  <2>2. /\ main = "fork" /\ InvSommeil
        /\ UNCHANGED <<env, ecoute, reception, envoi, connexions, refus>>
    BY <1>3, <1>b DEF Forker, traces
  <2>3. Silence' <=> Silence
    BY <2>2 DEF Silence
  <2>4. vie'[Premier] = IF p = Premier THEN "prepare" ELSE vie[Premier]
    BY <1>1, <2>1 DEF TypeOK
  <2>5. env.sommeilSuffit => vie[Premier] # "lance" /\ Silence /\ refus = {}
    BY <1>1, <2>2 DEF InvSommeil
  <2>6. vie'[Premier] \in {"absent", "prepare", "sommeil"} => Silence'
    BY <1>1, <2>1, <2>2, <2>3, <2>4 DEF InvSommeil
  <2> QED
    BY <2>2, <2>3, <2>4, <2>5, <2>6 DEF InvSommeil
<1>4. ASSUME NEW p \in Proc, Deces(p) PROVE InvSommeil'
  <2>1. /\ env' = env /\ main' = main /\ InvSommeil
        /\ vie' = [vie EXCEPT ![p] = "mort"] /\ ecoute' = [ecoute EXCEPT ![p] = FALSE]
        /\ vie[p] \in {"prepare", "sommeil", "lance"}
    BY <1>a, <1>4 DEF Deces, Mourir
  <2>2. Silence => Silence'
    BY <1>1, <1>4 DEF Silence, Deces, Mourir, TypeOK
  <2>3. Silence => refus' = refus
    BY <1>4 DEF Silence, Deces, EchouerConnect
  <2>4. \A q \in Proc : /\ q # p => vie'[q] = vie[q] /\ ecoute'[q] = ecoute[q]
                        /\ vie'[p] = "mort" /\ ~ ecoute'[p]
    BY <1>1, <2>1 DEF TypeOK
  <2> QED
    BY <1>1, <2>1, <2>2, <2>3, <2>4 DEF InvSommeil
<1>5. ASSUME NEW p \in Proc, Preparer(p) PROVE InvSommeil'
  <2>1. InvSommeil
    BY <1>5, <1>b DEF Preparer
  <2>2. /\ vie[p] = "prepare" /\ UNCHANGED <<env, main, ecoute, envoi, connexions, refus>>
        /\ vie'[p] = IF p = Premier THEN "sommeil" ELSE "lance"
        /\ \A q \in Proc : q # p => vie'[q] = vie[q]
        /\ \A q \in Proc : q # Premier => reception'[q] = reception[q]
    BY <1>1, <1>5 DEF Preparer, traces, TypeOK
  <2>3. Silence => Silence'
    BY <2>2 DEF Silence
  <2> QED
    BY <1>1, <2>1, <2>2, <2>3 DEF InvSommeil
<1>6. CASE Reveiller
  <2>1. InvSommeil /\ \A q \in Proc : ~ Echoue("serveur", q)
    BY <1>6, <1>b DEF Reveiller, Echoue
  <2>2. /\ SommeilFini /\ UNCHANGED <<env, main, ecoute, reception, envoi, connexions, refus>>
        /\ vie'[Premier] = "lance"
        /\ \A q \in Proc : q # Premier => vie'[q] = vie[q]
    BY <1>1, <1>6 DEF Reveiller, traces, TypeOK
  <2> QED
    BY <1>1, <2>1, <2>2 DEF InvSommeil, SommeilFini
<1>7. ASSUME NEW p \in Proc, Ecouter(p) PROVE InvSommeil'
  <2>1. InvSommeil
    BY <1>7, <1>b DEF Ecouter
  <2>2. /\ UNCHANGED <<env, main, vie, reception, envoi, connexions, refus>>
        /\ ecoute'[p] /\ \A q \in Proc : q # p => ecoute'[q] = ecoute[q]
    BY <1>1, <1>7 DEF Ecouter, traces, TypeOK
  <2> QED
    BY <1>1, <2>1, <2>2 DEF InvSommeil, Silence
<1>8. ASSUME NEW q \in Proc, NEW c \in connexions, Livrer(q, c) PROVE InvSommeil'
  <2>1. UNCHANGED <<env, main, vie, ecoute, refus>> /\ InvSommeil
    BY <1>8, <1>b DEF Livrer, traces
  <2>2. ~ Silence
    BY DEF Silence
  <2> QED
    BY <1>1, <2>1, <2>2 DEF InvSommeil
<1>9. ASSUME NEW p \in Proc, Lire(p) PROVE InvSommeil'
  <2>1. /\ UNCHANGED <<env, main, vie, ecoute, refus>> /\ InvSommeil
        /\ vie[p] = "lance" /\ reception[p] # <<>>
    BY <1>9, <1>b DEF Lire, Tourne
  <2>2. p # Premier => ~ Silence
    BY <2>1 DEF Silence
  <2> QED
    BY <1>1, <2>1, <2>2 DEF InvSommeil
<1>10. ASSUME NEW p \in Proc, Connecter(p) PROVE InvSommeil'
  <2>1. /\ UNCHANGED <<env, main, vie, ecoute, refus>> /\ InvSommeil
        /\ envoi[p] # <<>>
    BY <1>10, <1>b DEF Connecter, traces
  <2>2. ~ Silence
    BY <2>1 DEF Silence
  <2> QED
    BY <1>1, <2>1, <2>2 DEF InvSommeil
<1>11. ASSUME NEW p \in Proc, Envoyer(p) PROVE InvSommeil'
  <2>1. UNCHANGED <<env, main, vie, ecoute, reception, envoi, refus>> /\ InvSommeil
    BY <1>11, <1>b DEF Envoyer, traces
  <2>2. Silence => Silence'
    BY <1>11, <2>1 DEF Silence, Envoyer
  <2> QED
    BY <1>1, <2>1, <2>2 DEF InvSommeil
<1>12. ASSUME NEW p \in Proc, Perdre(p) \/ EchouerEnvoyer(p) PROVE FALSE
  <2>1. ~ Perdre(p)
    BY DEF Perdre
  <2>2. "send" \in Appels /\ "send" # "serveur"
    BY DEF Appels
  <2> QED
    BY <1>1, <1>12, <2>1, <2>2, EchecsRetenus DEF EchouerEnvoyer
<1> QED
  BY <1>1, <1>2, <1>3, <1>4, <1>5, <1>6, <1>7, <1>8, <1>9, <1>10, <1>11, <1>12, LesPas DEF Worker

LEMMA PasVies ==
  ASSUME IInv, [Next]_vars
  PROVE  InvVies'
<1> DEFINE Nees == \E k \in 0 .. N : Nes = 1 .. k
           Ecoutent == \A p \in Proc : ecoute[p] => vie[p] = "lance"
<1>1. TypeOK /\ Nees /\ Ecoutent
  BY DEF IInv, Inv, InvVies
<1>2. ASSUME UNCHANGED <<vie, ecoute>> PROVE Nees' /\ Ecoutent'
  BY <1>1, <1>2, NaissancesMorts
<1>3. ASSUME Forker PROVE Nees' /\ Ecoutent'
  <2>1. PICK p \in Proc :
          vie[p] = "absent" /\ vie' = [vie EXCEPT ![p] = "prepare"] /\ Nes' = 1 .. p
    BY <1>1, <1>3, ForkerMene
  <2>2. p \in 0 .. N
    BY DemarrageHypothese DEF Proc
  <2>3. Ecoutent'
    BY <1>1, <1>3, <2>1 DEF Forker, TypeOK
  <2> QED
    BY <2>1, <2>2, <2>3
<1>4. ASSUME NEW p \in Proc, Deces(p) PROVE Nees' /\ Ecoutent'
  <2>1. Nees'
    BY <1>1, <1>4, NaissancesMorts
  <2>2. Ecoutent'
    BY <1>1, <1>4 DEF Deces, Mourir, TypeOK
  <2> QED
    BY <2>1, <2>2
<1>5. ASSUME NEW p \in Proc, Preparer(p) PROVE Nees' /\ Ecoutent'
  <2>1. Nees'
    BY <1>1, <1>5, NaissancesMorts
  <2>2. Ecoutent'
    BY <1>1, <1>5 DEF Preparer, TypeOK
  <2> QED
    BY <2>1, <2>2
<1>6. ASSUME Reveiller PROVE Nees' /\ Ecoutent'
  <2>1. Nees'
    BY <1>1, <1>6, NaissancesMorts
  <2>2. Ecoutent'
    BY <1>1, <1>6 DEF Reveiller, TypeOK
  <2> QED
    BY <2>1, <2>2
<1>7. ASSUME NEW p \in Proc, Ecouter(p) PROVE Nees' /\ Ecoutent'
  <2>1. Nees'
    BY <1>1, <1>7, NaissancesMorts DEF Ecouter
  <2>2. Ecoutent'
    BY <1>1, <1>7 DEF Ecouter, Tourne, TypeOK
  <2> QED
    BY <2>1, <2>2
<1>8. ASSUME NEW p \in Proc, Worker(p) \/ Lire(p) \/ Connecter(p) \/ Envoyer(p) \/ Perdre(p) \/ EchouerEnvoyer(p)
      PROVE  Nees' /\ Ecoutent'
  BY <1>2, <1>8 DEF Worker, Livrer, Lire, Connecter, Envoyer, Perdre, EchouerEnvoyer
<1>9. ASSUME Calme PROVE Nees' /\ Ecoutent'
  BY <1>2, <1>9 DEF Calme
<1>10. Nees' /\ Ecoutent'
  BY <1>1, <1>3, <1>4, <1>5, <1>6, <1>7, <1>8, <1>9, LesPas
<1> QED
  BY <1>10, PasSommeil DEF InvVies

LEMMA PasServeur ==
  ASSUME IInv, [Next]_vars
  PROVE  InvServeur'
<1>1. TypeOK /\ InvServeur
  BY DEF IInv, Inv
<1>2. ASSUME Retenus, \A p \in Proc : (ecoute'[p] => ecoute[p]) /\ (lances[p] # 0 => lances'[p] # 0)
      PROVE  InvServeur'
  BY <1>1, <1>2 DEF InvServeur, Retenus
<1>3. UNCHANGED echecs => Retenus
  BY <1>1, EchecsRetenus
<1>4. CASE Calme \/ Forker \/ Reveiller
  BY <1>2, <1>3, <1>4 DEF Calme, Forker, Reveiller
<1>5. ASSUME NEW p \in Proc, Deces(p) PROVE InvServeur'
  BY <1>1, <1>2, <1>5 DEF Deces, Mourir, TypeOK
<1>6. ASSUME NEW p \in Proc,
             Preparer(p) \/ Worker(p) \/ Lire(p) \/ Connecter(p) \/ Envoyer(p) \/ Perdre(p)
      PROVE  InvServeur'
  BY <1>2, <1>3, <1>6 DEF Preparer, Worker, Livrer, Lire, Connecter, Envoyer, Perdre
<1>7. ASSUME NEW p \in Proc, Ecouter(p) PROVE InvServeur'
  <2>1. lances[p] # 0 /\ <<"serveur", p>> \notin ToSet(echecs)
    <3>1. lances[p] \in Nat /\ \E i \in 1 .. lances[p] : TRUE
      BY <1>1, <1>7 DEF Ecouter, Tourne, TypeOK
    <3> QED
      BY <1>7, <3>1 DEF Ecouter, Tourne, Echoue
  <2> QED
    BY <1>1, <1>7, <2>1 DEF Ecouter, InvServeur, TypeOK
<1>8. ASSUME NEW p \in Proc, EchouerEnvoyer(p) PROVE InvServeur'
  <2>1. "send" \in Appels /\ "send" # "serveur"
    BY DEF Appels
  <2>2. Retenus
    BY <1>1, <1>8, <2>1, EchecsRetenus DEF EchouerEnvoyer
  <2> QED
    BY <1>2, <1>8, <2>2 DEF EchouerEnvoyer
<1> QED
  BY <1>1, <1>4, <1>5, <1>6, <1>7, <1>8, LesPas

LEMMA PasVides ==
  ASSUME IInv, [Next]_vars
  PROVE  InvVides'
<1>1. TypeOK /\ InvVies /\ InvVides
  BY DEF IInv, Inv
<1>2. CASE Calme
  BY <1>1, <1>2 DEF Calme, InvVides
<1>3. CASE Forker
  <2>1. PICK p \in Proc : vie[p] = "absent" /\ vie' = [vie EXCEPT ![p] = "prepare"]
    BY <1>1, <1>3, ForkerMene DEF InvVies
  <2> QED
    BY <1>1, <1>3, <2>1 DEF Forker, InvVides, TypeOK
<1>4. ASSUME NEW p \in Proc, Deces(p) PROVE InvVides'
  BY <1>1, <1>4 DEF Deces, Mourir, InvVides, TypeOK
<1>5. ASSUME NEW p \in Proc, Preparer(p) PROVE InvVides'
  <2>1. \A q \in Proc : vie'[q] \in {"absent", "prepare"} =>
                          vie[q] \in {"absent", "prepare"} /\ reception'[q] = reception[q]
    BY <1>1, <1>5 DEF Preparer, TypeOK
  <2> QED
    BY <1>1, <2>1 DEF InvVides
<1>6. CASE Reveiller
  BY <1>1, <1>6 DEF Reveiller, InvVides, TypeOK
<1>7. ASSUME NEW p \in Proc, Ecouter(p) \/ Connecter(p) \/ Envoyer(p) \/ EchouerEnvoyer(p) PROVE InvVides'
  BY <1>1, <1>7 DEF Ecouter, Connecter, Envoyer, EchouerEnvoyer, InvVides
<1>8. ASSUME NEW q \in Proc, NEW c \in connexions, Livrer(q, c) PROVE InvVides'
  BY <1>1, <1>8 DEF Livrer, InvVies, InvVides, TypeOK
<1>9. ASSUME NEW p \in Proc, Lire(p) PROVE InvVides'
  BY <1>1, <1>9 DEF Lire, Tourne, InvVides, TypeOK
<1>10. ASSUME NEW q \in Proc, Perdre(q) PROVE InvVides'
  BY <1>1, <1>10 DEF Perdre, InvVies, InvVides, TypeOK
<1> QED
  BY <1>2, <1>3, <1>4, <1>5, <1>6, <1>7, <1>8, <1>9, <1>10, <1>1, LesPas DEF Worker
-----------------------------------------------------------------------------
(* Deaths, and where messages are *)

LEMMA PasMorts ==
  ASSUME IInv, [Next]_vars
  PROVE  InvMorts'
<1>1. TypeOK /\ InvMorts
  BY DEF IInv, Inv
<1>2. ASSUME Morts' = Morts, UNCHANGED <<env, refus>>, sigint => sigint', echecs' = <<>> => echecs = <<>>
      PROVE  InvMorts'
  BY <1>1, <1>2 DEF InvMorts, TypeOK
<1>3. CASE Forker
  <2>1. Morts' = Morts
    BY <1>1, <1>3, ForkerMene, NaissancesMorts DEF IInv, InvVies
  <2> QED
    BY <1>1, <1>2, <1>3, <2>1 DEF Forker, traces
<1>4. ASSUME NEW p \in Proc, Deces(p) PROVE InvMorts'
  <2>1. env' = env /\ sigint' = sigint
    BY <1>4 DEF Deces
  <2>2. CASE sigint \/ p \in env.portsOccupes \/ ~ env.traceServie \/ echecs' # <<>>
    BY <2>1, <2>2 DEF InvMorts
  <2>3. CASE EchouerConnect(p)
    BY <2>3 DEF InvMorts, EchouerConnect
  <2> QED
    BY <1>4, <2>2, <2>3 DEF Deces
<1>5. CASE Calme
  BY <1>1, <1>2, <1>5, NaissancesMorts DEF Calme, Retenus, traces
<1>6. ASSUME NEW p \in Proc, Preparer(p) PROVE InvMorts'
  BY <1>1, <1>2, <1>6, NaissancesMorts DEF Preparer, traces
<1>7. CASE Reveiller
  BY <1>1, <1>2, <1>7, NaissancesMorts DEF Reveiller, traces
<1>8. ASSUME NEW p \in Proc, Ecouter(p) \/ Worker(p) \/ Lire(p) \/ Connecter(p) \/ Envoyer(p) PROVE InvMorts'
  BY <1>1, <1>2, <1>8, NaissancesMorts DEF Ecouter, Worker, Livrer, Lire, Connecter, Envoyer, traces
<1>9. ASSUME NEW p \in Proc, Perdre(p) PROVE InvMorts'
  BY <1>9 DEF InvMorts, Perdre
<1>10. ASSUME NEW p \in Proc, EchouerEnvoyer(p) PROVE InvMorts'
  <2>1. "send" \in Appels /\ "send" # "serveur"
    BY DEF Appels
  <2>2. echecs' # <<>>
    BY <1>1, <1>10, <2>1, EchecsRetenus DEF EchouerEnvoyer
  <2> QED
    BY <2>2 DEF InvMorts
<1> QED
  BY <1>1, <1>3, <1>4, <1>5, <1>6, <1>7, <1>8, <1>9, <1>10, LesPas

\* Guilt is not forgotten.
LEMMA FautesRetenues ==
  ASSUME TypeOK, InvVies, [Next]_vars
  PROVE  /\ \A p : EmetteurFautif(p) => EmetteurFautif(p)'
         /\ \A p : RecepteurFautif(p) => RecepteurFautif(p)'
         /\ \A m : PerteExcusable(m) => PerteExcusable(m)'
         /\ RienInvente' => RienInvente
<1>1. Morts \subseteq Morts' /\ ToSet(echecs) \subseteq ToSet(echecs')
  <2>1. CASE Calme
    BY <2>1, NaissancesMorts DEF Calme, Retenus
  <2>2. CASE Forker
    BY <2>2, ForkerMene, NaissancesMorts DEF InvVies, Forker
  <2>3. ASSUME NEW p \in Proc, Deces(p) PROVE Morts \subseteq Morts' /\ ToSet(echecs) \subseteq ToSet(echecs')
    BY <2>3, NaissancesMorts DEF Deces, Retenus
  <2>4. ASSUME NEW p \in Proc, Preparer(p) PROVE Morts \subseteq Morts' /\ ToSet(echecs) \subseteq ToSet(echecs')
    BY <2>4, NaissancesMorts DEF Preparer
  <2>5. CASE Reveiller
    BY <2>5, NaissancesMorts DEF Reveiller
  <2>6. ASSUME NEW p \in Proc, Ecouter(p) \/ Worker(p) \/ Lire(p) \/ Connecter(p) \/ Envoyer(p)
        PROVE  Morts \subseteq Morts' /\ ToSet(echecs) \subseteq ToSet(echecs')
    BY <2>6, NaissancesMorts DEF Ecouter, Worker, Livrer, Lire, Connecter, Envoyer
  <2>7. ASSUME NEW p \in Proc, Perdre(p) PROVE Morts \subseteq Morts' /\ ToSet(echecs) \subseteq ToSet(echecs')
    BY <2>7, NaissancesMorts DEF Perdre, Retenus
  <2>8. ASSUME NEW p \in Proc, EchouerEnvoyer(p) PROVE Morts \subseteq Morts' /\ ToSet(echecs) \subseteq ToSet(echecs')
    <3>1. "send" \in Appels /\ "send" # "serveur"
      BY DEF Appels
    <3>2. Retenus
      BY <2>8, <3>1, EchecsRetenus DEF EchouerEnvoyer
    <3> QED
      BY <2>8, <3>2, NaissancesMorts DEF EchouerEnvoyer, Retenus
  <2> QED
    BY <2>1, <2>2, <2>3, <2>4, <2>5, <2>6, <2>7, <2>8, LesPas
<1> QED
  BY <1>1 DEF PerteExcusable, EmetteurFautif, RecepteurFautif, Echoue, RienInvente

\* As long as nothing invented a message nobody is to blame for one.
LEMMA SansFaute ==
  RienInvente => \A p \in Proc : ~ EmetteurFautif(p) /\ ~ RecepteurFautif(p)
BY DEF RienInvente, Inventifs, EmetteurFautif, RecepteurFautif, Echoue

\* What a step must do to messages for them to be accounted for
LEMMA MessagesSuivis ==
  ASSUME IInv, [Next]_vars
  PROVE  /\ (\A p \in Proc :
               /\ \A m \in ToSet(envoi'[p]) :
                    m \in ToSet(envoi[p]) \/ (m.de = p /\ (RienInvente' => m.vers \in Proc))
               /\ \A m \in ToSet(reception'[p]) :
                    m \in ToSet(reception[p]) \/ m \notin Messages \/ m.vers = p
               /\ client'[p] = client[p] \/ client'[p] = Rien \/ client'[p].de = p)
             => InvMessages'
         /\ (/\ \A c \in connexions' : c.etat = "fermee" => c \in connexions \/ EmetteurFautif(c.msg.de)'
             /\ \A q \in Proc : Fantome \in ToSet(reception'[q]) =>
                  Fantome \in ToSet(reception[q]) \/ RecepteurFautif(q)' \/ \E p \in Proc : EmetteurFautif(p)')
             => FantomeJustifie'
         /\ (/\ \A m \in ecrits' : m \in ecrits \/ m \in EnRoute'
             /\ \A m \in Messages : m \in EnRoute => m \in EnRoute' \/ m \in lus' \/ PerteExcusable(m)'
             /\ lus \subseteq lus')
             => PerteJustifiee'
<1>1. /\ TypeOK /\ InvVies /\ InvMessages /\ FantomeJustifie /\ PerteJustifiee
      /\ ecrits \subseteq Messages
  BY DEF IInv, Inv, TypeOK
<1>2. /\ \A p : EmetteurFautif(p) => EmetteurFautif(p)'
      /\ \A p : RecepteurFautif(p) => RecepteurFautif(p)'
      /\ \A m : PerteExcusable(m) => PerteExcusable(m)'
      /\ RienInvente' => RienInvente
  BY <1>1, FautesRetenues
<1>3. ASSUME \A p \in Proc :
               /\ \A m \in ToSet(envoi'[p]) :
                    m \in ToSet(envoi[p]) \/ (m.de = p /\ (RienInvente' => m.vers \in Proc))
               /\ \A m \in ToSet(reception'[p]) :
                    m \in ToSet(reception[p]) \/ m \notin Messages \/ m.vers = p
               /\ client'[p] = client[p] \/ client'[p] = Rien \/ client'[p].de = p
      PROVE  InvMessages'
  BY <1>1, <1>2, <1>3 DEF InvMessages
<1>4. ASSUME \A c \in connexions' : c.etat = "fermee" => c \in connexions \/ EmetteurFautif(c.msg.de)',
             \A q \in Proc : Fantome \in ToSet(reception'[q]) =>
               Fantome \in ToSet(reception[q]) \/ RecepteurFautif(q)' \/ \E p \in Proc : EmetteurFautif(p)'
      PROVE  FantomeJustifie'
  BY <1>1, <1>2, <1>4 DEF FantomeJustifie
<1>5. ASSUME \A m \in ecrits' : m \in ecrits \/ m \in EnRoute',
             \A m \in Messages : m \in EnRoute => m \in EnRoute' \/ m \in lus' \/ PerteExcusable(m)',
             lus \subseteq lus'
      PROVE  PerteJustifiee'
  BY <1>1, <1>2, <1>5 DEF PerteJustifiee
<1> QED
  BY <1>3, <1>4, <1>5

LEMMA PasMessages ==
  ASSUME IInv, [Next]_vars
  PROVE  InvMessages' /\ FantomeJustifie' /\ PerteJustifiee'
<1> DEFINE But == InvMessages' /\ FantomeJustifie' /\ PerteJustifiee'
<1>1. /\ TypeOK /\ InvVies /\ InvVides /\ InvMessages /\ FantomeJustifie /\ PerteJustifiee
      /\ Fantome \notin Messages /\ Amorce \notin Messages /\ Amorce # Fantome
  BY MessagesDistincts DEF IInv, Inv
<1>a. \A m : m \in EnRoute <=>
              \/ \E q \in Proc : m \in ToSet(envoi[q]) \/ m \in ToSet(reception[q])
              \/ \E c \in connexions : m = c.msg
  BY Zenon DEF EnRoute
<1>b. \A m : m \in EnRoute' <=>
              \/ \E q \in Proc : m \in ToSet(envoi'[q]) \/ m \in ToSet(reception'[q])
              \/ \E c \in connexions' : m = c.msg
  BY Zenon DEF EnRoute
<1>2. ASSUME UNCHANGED <<reception, envoi, client, connexions, ecrits, lus>> PROVE But
  BY <1>a, <1>b, <1>2, MessagesSuivis
<1>3. ASSUME Calme \/ Forker \/ Reveiller PROVE But
  BY <1>2, <1>3 DEF Calme, Forker, Reveiller, traces
<1>4. ASSUME NEW p \in Proc, Deces(p) PROVE But
  <2>1. /\ UNCHANGED <<ecrits, lus>>
        /\ \A q \in Proc : q # p => envoi'[q] = envoi[q] /\ reception'[q] = reception[q]
        /\ ToSet(envoi'[p]) = {} /\ ToSet(reception'[p]) = {} /\ client'[p] = Rien
        /\ \A q \in Proc : q # p => client'[q] = client[q]
        /\ connexions' = {IF c.msg.de = p THEN Fermee(c) ELSE c :
                            c \in {d \in connexions : d.msg.vers # p}}
    BY <1>1, <1>4, EnsembleVide DEF Deces, Mourir, TypeOK
  <2>2. p \in Morts'
    BY <1>1, <1>4, NaissancesMorts
  <2>3. EmetteurFautif(p)' /\ \A m : m.de = p \/ m.vers = p => PerteExcusable(m)'
    BY <2>2 DEF EmetteurFautif, PerteExcusable
  <2>4. \A c \in connexions : Fermee(c).msg = c.msg
    BY <1>1 DEF Fermee, TypeOK
  <2>5. \A c \in connexions' : c \in connexions \/ c.msg.de = p
    BY <2>1, <2>4
  <2>6. InvMessages'
    BY <2>1, MessagesSuivis
  <2>7. FantomeJustifie'
    BY <2>1, <2>3, <2>5, MessagesSuivis
  <2>8. ASSUME NEW m \in Messages, m \in EnRoute PROVE m \in EnRoute' \/ PerteExcusable(m)'
    <3>1. ASSUME NEW q \in Proc, m \in ToSet(envoi[q]) \/ m \in ToSet(reception[q]), m.de # p, m.vers # p
          PROVE  m \in EnRoute'
      <4>1. q # p
        BY <1>1, <2>8, <3>1 DEF InvMessages
      <4> QED
        BY <1>b, <2>1, <3>1, <4>1
    <3>2. ASSUME NEW c \in connexions, m = c.msg, m.de # p, m.vers # p PROVE m \in EnRoute'
      <4>1. c \in connexions'
        BY <2>1, <3>2
      <4> QED
        BY <1>b, <3>2, <4>1
    <3> QED
      BY <1>a, <2>3, <2>8, <3>1, <3>2
  <2>9. PerteJustifiee'
    BY <2>1, <2>8, MessagesSuivis
  <2> QED
    BY <2>6, <2>7, <2>9
<1>5. ASSUME NEW p \in Proc, Preparer(p) PROVE But
  <2>1. UNCHANGED <<envoi, client, connexions, ecrits, lus>>
    BY <1>5 DEF Preparer, traces
  <2>2. \A q \in Proc : reception'[q] = reception[q] \/ (q = p /\ reception'[q] = <<Amorce>>)
    BY <1>1, <1>5 DEF Preparer, TypeOK
  <2>3. ToSet(<<Amorce>>) = {Amorce} /\ ToSet(reception[p]) = {}
    BY <1>1, <1>5, EnsembleVide DEF InvVides, Preparer, ToSet
  <2>4. \A q \in Proc : ToSet(reception'[q]) \subseteq ToSet(reception[q]) \cup {Amorce}
                        /\ ToSet(reception[q]) \subseteq ToSet(reception'[q])
    BY <2>2, <2>3
  <2>5. InvMessages' /\ FantomeJustifie'
    BY <1>1, <2>1, <2>4, MessagesSuivis
  <2>6. \A m : m \in EnRoute => m \in EnRoute'
    BY <1>a, <1>b, <2>1, <2>4
  <2> QED
    BY <2>1, <2>5, <2>6, MessagesSuivis
<1>6. ASSUME NEW p \in Proc, Ecouter(p) PROVE But
  BY <1>2, <1>6 DEF Ecouter, traces
<1>7. ASSUME NEW q \in Proc, NEW c \in connexions, Livrer(q, c) PROVE But
  <2>1. /\ UNCHANGED <<envoi, client, ecrits, lus>>
        /\ connexions' = connexions \ {c} /\ c.msg.vers = q
        /\ reception'[q] = Append(reception[q], Recu(c))
        /\ \A r \in Proc : r # q => reception'[r] = reception[r]
    BY <1>1, <1>7 DEF Livrer, traces, TypeOK
  <2>2. /\ c.msg \in Messages /\ c.etat \in {"fermee", "envoyee"}
        /\ Recu(c) = IF c.etat = "envoyee" THEN c.msg ELSE Fantome
    BY <1>1, <1>7 DEF Livrer, Recu, TypeOK
  <2>3. ToSet(reception'[q]) = ToSet(reception[q]) \cup {Recu(c)}
    <3>1. Recu(c) \in Messages \cup {Amorce, Fantome} /\ reception[q] \in Seq(Messages \cup {Amorce, Fantome})
      BY <1>1, <2>2 DEF TypeOK
    <3> QED
      BY <2>1, <3>1, EnsembleAjout
  <2>4. c.etat = "fermee" => EmetteurFautif(c.msg.de)' /\ c.msg.de \in Proc
    <3>1. c.msg.de \in Proc
      BY <2>2 DEF Messages
    <3>2. c.etat = "fermee" => EmetteurFautif(c.msg.de)
      BY <1>1 DEF FantomeJustifie
    <3> QED
      BY <1>1, <3>1, <3>2, FautesRetenues
  <2>5. InvMessages'
    <3>1. \A r \in Proc : \A m \in ToSet(reception'[r]) :
            m \in ToSet(reception[r]) \/ m \notin Messages \/ m.vers = r
      BY <1>1, <2>1, <2>2, <2>3
    <3> QED
      BY <2>1, <3>1, MessagesSuivis
  <2>6. FantomeJustifie'
    BY <1>1, <2>1, <2>2, <2>3, <2>4, MessagesSuivis
  <2>7. c.etat = "fermee" => PerteExcusable(c.msg)'
    BY <2>4 DEF PerteExcusable
  <2>8. ASSUME NEW m, m \in EnRoute PROVE m \in EnRoute' \/ PerteExcusable(m)'
    <3>1. ASSUME NEW r \in Proc, m \in ToSet(envoi[r]) \/ m \in ToSet(reception[r]) PROVE m \in EnRoute'
      BY <1>b, <2>1, <2>3, <3>1
    <3>2. ASSUME NEW d \in connexions, m = d.msg, d # c PROVE m \in EnRoute'
      BY <1>b, <2>1, <3>2
    <3>3. ASSUME m = c.msg, c.etat # "fermee" PROVE m \in EnRoute'
      BY <1>b, <2>2, <2>3, <3>3
    <3> QED
      BY <1>a, <2>7, <2>8, <3>1, <3>2, <3>3
  <2>9. PerteJustifiee'
    BY <2>1, <2>8, MessagesSuivis
  <2> QED
    BY <2>5, <2>6, <2>9
<1>8. ASSUME NEW p \in Proc, Lire(p) PROVE But
  <2>1. /\ reception' = [reception EXCEPT ![p] = Tail(reception[p])]
        /\ ToSet(reception[p]) = {Head(reception[p])} \cup ToSet(Tail(reception[p]))
        /\ lus' = IF Head(reception[p]) = Fantome THEN lus ELSE lus \cup {Head(reception[p])}
        /\ UNCHANGED <<client, connexions>>
    BY <1>1, <1>8, LireMene
  <2>2. PICK ajout \in Seq(Messages) :
          /\ envoi' = [envoi EXCEPT ![p] = envoi[p] \o ajout]
          /\ ecrits' = ecrits \cup ToSet(ajout)
          /\ \A m \in ToSet(ajout) : m.de = p /\ (Head(reception[p]) # Fantome => m.vers \in Proc)
    BY <1>1, <1>8, LireMene
  <2>3. ToSet(envoi[p] \o ajout) = ToSet(envoi[p]) \cup ToSet(ajout)
    <3>1. envoi[p] \in Seq(Messages)
      BY <1>1 DEF TypeOK
    <3> QED
      BY <3>1, EnsembleConcat
  <2>4. /\ ToSet(envoi'[p]) = ToSet(envoi[p]) \cup ToSet(ajout)
        /\ ToSet(reception[p]) = {Head(reception[p])} \cup ToSet(reception'[p])
        /\ \A q \in Proc : q # p => envoi'[q] = envoi[q] /\ reception'[q] = reception[q]
    BY <1>1, <2>1, <2>2, <2>3 DEF TypeOK
  <2>5. RienInvente' => Head(reception[p]) # Fantome
    <3>1. RienInvente' => RienInvente
      BY <1>1, FautesRetenues
    <3>2. RienInvente => Fantome \notin ToSet(reception[p])
      BY <1>1, SansFaute DEF FantomeJustifie
    <3> QED
      BY <2>4, <3>1, <3>2
  <2>6. InvMessages'
    BY <2>1, <2>2, <2>4, <2>5, MessagesSuivis
  <2>7. FantomeJustifie'
    BY <2>1, <2>4, MessagesSuivis
  <2>8. ASSUME NEW m \in Messages, m \in EnRoute PROVE m \in EnRoute' \/ m \in lus'
    <3>1. ASSUME NEW r \in Proc, m \in ToSet(envoi[r]) PROVE m \in EnRoute'
      BY <1>b, <2>4, <3>1
    <3>2. ASSUME NEW r \in Proc, m \in ToSet(reception[r]) PROVE m \in EnRoute' \/ m \in lus'
      BY <1>1, <1>b, <2>1, <2>4, <3>2
    <3>3. ASSUME NEW d \in connexions, m = d.msg PROVE m \in EnRoute'
      BY <1>b, <2>1, <3>3
    <3> QED
      BY <1>a, <2>8, <3>1, <3>2, <3>3
  <2>9. lus \subseteq lus' /\ \A m \in ToSet(ajout) : m \in EnRoute'
    BY <1>b, <2>1, <2>4
  <2>10. PerteJustifiee'
    BY <2>2, <2>8, <2>9, MessagesSuivis
  <2> QED
    BY <2>6, <2>7, <2>10
<1>9. ASSUME NEW p \in Proc, Connecter(p) PROVE But
  <2>1. /\ UNCHANGED <<reception, ecrits, lus>>
        /\ connexions' = connexions \cup {[msg |-> Head(envoi[p]), etat |-> "ouverte"]}
        /\ envoi' = [envoi EXCEPT ![p] = Tail(envoi[p])]
        /\ client'[p] = Head(envoi[p]) /\ \A q \in Proc : q # p => client'[q] = client[q]
    BY <1>1, <1>9 DEF Connecter, traces, TypeOK
  <2>2. ToSet(envoi[p]) = {Head(envoi[p])} \cup ToSet(Tail(envoi[p]))
    BY <1>1, <1>9, EnsembleRetrait DEF Connecter, TypeOK
  <2>3. /\ ToSet(envoi[p]) = {Head(envoi[p])} \cup ToSet(envoi'[p])
        /\ \A q \in Proc : q # p => envoi'[q] = envoi[q]
    BY <1>1, <2>1, <2>2 DEF TypeOK
  <2>4. InvMessages'
    <3>1. Head(envoi[p]).de = p
      BY <1>1, <2>3 DEF InvMessages
    <3> QED
      BY <2>1, <2>3, <3>1, MessagesSuivis
  <2>5. FantomeJustifie'
    BY <2>1, MessagesSuivis
  <2>6. ASSUME NEW m, m \in EnRoute PROVE m \in EnRoute'
    <3>1. [msg |-> Head(envoi[p]), etat |-> "ouverte"] \in connexions'
      BY <2>1
    <3>2. Head(envoi[p]) \in EnRoute'
      BY <1>b, <3>1
    <3>3. ASSUME NEW r \in Proc, m \in ToSet(envoi[r]) \/ m \in ToSet(reception[r]) PROVE m \in EnRoute'
      BY <1>b, <2>1, <2>3, <3>2, <3>3
    <3>4. ASSUME NEW d \in connexions, m = d.msg PROVE m \in EnRoute'
      BY <1>b, <2>1, <3>4
    <3> QED
      BY <1>a, <2>6, <3>3, <3>4
  <2>7. PerteJustifiee'
    BY <2>1, <2>6, MessagesSuivis
  <2> QED
    BY <2>4, <2>5, <2>7
<1>10. ASSUME NEW p \in Proc, Envoyer(p) \/ EchouerEnvoyer(p) PROVE But
  <2>1. /\ UNCHANGED <<reception, envoi, ecrits, lus>>
        /\ \A q \in Proc : client'[q] = client[q] \/ client'[q] = Rien
        /\ \/ connexions' = {IF c.msg = client[p] THEN Envoyee(c) ELSE c : c \in connexions}
           \/ connexions' = {IF c.msg = client[p] THEN Fermee(c) ELSE c : c \in connexions}
              /\ Echouer("send", p)
    BY <1>1, <1>10 DEF Envoyer, EchouerEnvoyer, traces, TypeOK
  <2>2. /\ \A c \in connexions : Envoyee(c).msg = c.msg /\ Envoyee(c).etat = "envoyee"
        /\ \A c \in connexions : Fermee(c).msg = c.msg
    BY <1>1 DEF Envoyee, Fermee, TypeOK
  <2>3. InvMessages'
    BY <2>1, MessagesSuivis
  <2>4. Echouer("send", p) => EmetteurFautif(p)'
    <3>1. "send" \in Appels /\ "send" # "serveur"
      BY DEF Appels
    <3> QED
      BY <1>1, <3>1, EchecsRetenus DEF EmetteurFautif, Echoue
  <2>5. FantomeJustifie'
    <3>1. \A c \in connexions' : c.etat = "fermee" => c \in connexions \/ (Echouer("send", p) /\ c.msg = client[p])
      BY <2>1, <2>2
    <3>2. client[p] # Rien => client[p].de = p
      BY <1>1 DEF InvMessages
    <3>3. client[p] # Rien
      BY <1>10 DEF Envoyer, EchouerEnvoyer
    <3> QED
      BY <2>1, <2>4, <3>1, <3>2, <3>3, MessagesSuivis
  <2>6. ASSUME NEW m, m \in EnRoute PROVE m \in EnRoute'
    <3>1. ASSUME NEW r \in Proc, m \in ToSet(envoi[r]) \/ m \in ToSet(reception[r]) PROVE m \in EnRoute'
      BY <1>b, <2>1, <3>1
    <3>2. ASSUME NEW d \in connexions, m = d.msg PROVE m \in EnRoute'
      <4>1. \E c \in connexions' : c.msg = d.msg
        BY <2>1, <2>2
      <4> QED
        BY <1>b, <3>2, <4>1
    <3> QED
      BY <1>a, <2>6, <3>1, <3>2
  <2>7. PerteJustifiee'
    BY <2>1, <2>6, MessagesSuivis
  <2> QED
    BY <2>3, <2>5, <2>7
<1>11. ASSUME NEW q \in Proc, Perdre(q) PROVE But
  <2>1. /\ UNCHANGED <<envoi, client, ecrits, lus>> /\ connexions' \subseteq connexions
        /\ \A c \in connexions \ connexions' : c.msg.vers = q
        /\ \A r \in Proc : r # q => reception'[r] = reception[r]
        /\ \/ reception'[q] = reception[q]
           \/ reception'[q] = Append(reception[q], Fantome) /\ RecepteurFautif(q)'
    BY <1>1, <1>11 DEF Perdre, traces, TypeOK, RecepteurFautif, Echoue
  <2>2. ToSet(Append(reception[q], Fantome)) = ToSet(reception[q]) \cup {Fantome}
    <3>1. Fantome \in Messages \cup {Amorce, Fantome} /\ reception[q] \in Seq(Messages \cup {Amorce, Fantome})
      BY <1>1 DEF TypeOK
    <3> QED
      BY <3>1, EnsembleAjout
  <2>3. /\ \A r \in Proc : ToSet(reception[r]) \subseteq ToSet(reception'[r])
        /\ \A r \in Proc : \A m \in ToSet(reception'[r]) :
             m \in ToSet(reception[r]) \/ (m = Fantome /\ RecepteurFautif(r)')
    BY <2>1, <2>2
  <2>4. InvMessages'
    BY <1>1, <2>1, <2>3, MessagesSuivis
  <2>5. FantomeJustifie'
    BY <2>1, <2>3, MessagesSuivis
  <2>6. \A m : m.vers = q => PerteExcusable(m)'
    BY <1>11 DEF Perdre, PerteExcusable, RecepteurFautif, Echoue
  <2>7. ASSUME NEW m, m \in EnRoute PROVE m \in EnRoute' \/ PerteExcusable(m)'
    <3>1. ASSUME NEW r \in Proc, m \in ToSet(envoi[r]) \/ m \in ToSet(reception[r]) PROVE m \in EnRoute'
      BY <1>b, <2>1, <2>3, <3>1
    <3>2. ASSUME NEW d \in connexions, m = d.msg PROVE m \in EnRoute' \/ PerteExcusable(m)'
      BY <1>b, <2>1, <2>6, <3>2
    <3> QED
      BY <1>a, <2>7, <3>1, <3>2
  <2>8. PerteJustifiee'
    BY <2>1, <2>7, MessagesSuivis
  <2> QED
    BY <2>4, <2>5, <2>8
<1> QED
  BY <1>1, <1>3, <1>4, <1>5, <1>6, <1>7, <1>8, <1>9, <1>10, <1>11, LesPas DEF Worker
-----------------------------------------------------------------------------
(* The first refusal *)

LEMMA PasRefus ==
  ASSUME IInv, [Next]_vars
  PROVE  PremierRefus'
<1>1. TypeOK /\ InvVies /\ InvMorts /\ InvMessages /\ PremierRefus /\ Premier \in Proc
  BY DemarrageHypothese DEF IInv, Inv, Premier, Proc
<1>2. ASSUME UNCHANGED <<env, refus>>, Nes' = Nes, sigint => sigint', echecs' = <<>> => echecs = <<>>
      PROVE  PremierRefus'
  BY <1>1, <1>2 DEF PremierRefus, TypeOK
<1>3. CASE Calme
  BY <1>1, <1>2, <1>3, NaissancesMorts DEF Calme, Retenus, traces
\* main still forks when the last process is born: nobody was refused before.
<1>4. CASE Forker
  BY <1>1, <1>4 DEF Forker, traces, InvVies, InvSommeil, PremierRefus
<1>5. ASSUME NEW p \in Proc, Deces(p) PROVE PremierRefus'
  <2>1. Nes' = Nes /\ env' = env /\ sigint' = sigint /\ (echecs' = <<>> => echecs = <<>>)
    BY <1>1, <1>5, NaissancesMorts DEF Deces, Retenus
  <2>2. CASE refus' = refus
    BY <1>1, <1>2, <2>1, <2>2
  <2>3. CASE EchouerConnect(p)
    <3> DEFINE q == Head(envoi[p]).vers
    <3>1. refus' = refus \cup {<<p, q>>}
      BY <2>3 DEF EchouerConnect
    <3> SUFFICES ASSUME env.sommeilSuffit, Nes = Proc, env.traceServie, env.portsOccupes = {}, ~ sigint,
                        echecs = <<>>
                 PROVE  \E r \in Proc : <<r, Premier>> \in refus'
      BY <2>1 DEF PremierRefus
    <3>2. CASE refus # {}
      BY <1>1, <3>1, <3>2 DEF PremierRefus
    <3>3. CASE refus = {}
      <4>1. Morts = {} /\ RienInvente /\ InvSommeil
        BY <1>1, <3>3, EnsembleVide DEF InvMorts, InvVies, RienInvente
      <4>2. Head(envoi[p]) \in ToSet(envoi[p])
        BY <1>1, <2>3, EnsembleRetrait DEF EchouerConnect, TypeOK
      <4>3. q \in Proc /\ ~ ecoute[q]
        BY <1>1, <2>3, <4>1, <4>2 DEF InvMessages, EchouerConnect, Ecoute
      <4>4. vie[Premier] = "lance"
        <5>1. ~ Silence /\ vie[Premier] # "mort"
          BY <1>1, <2>3, <4>1 DEF Silence, EchouerConnect, Morts
        <5> QED
          BY <1>1, <4>1, <5>1 DEF InvSommeil, TypeOK
      <4>5. \A r \in Proc \ {Premier} : ecoute[r]
        <5>1. \A r \in Proc : vie[r] \notin {"absent", "mort"}
          BY <4>1 DEF Nes, Morts
        <5> QED
          BY <1>1, <4>1, <4>4, <5>1 DEF InvSommeil
      <4>6. q = Premier
        BY <4>3, <4>5
      <4> QED
        BY <3>1, <4>6
    <3> QED
      BY <3>2, <3>3
  <2> QED
    BY <1>5, <2>2, <2>3 DEF Deces
<1>6. ASSUME NEW p \in Proc, Preparer(p) PROVE PremierRefus'
  BY <1>1, <1>2, <1>6, NaissancesMorts DEF Preparer, traces
<1>7. CASE Reveiller
  BY <1>1, <1>2, <1>7, NaissancesMorts DEF Reveiller, traces
<1>8. ASSUME NEW p \in Proc, Ecouter(p) \/ Worker(p) \/ Lire(p) \/ Connecter(p) \/ Envoyer(p) PROVE PremierRefus'
  BY <1>1, <1>2, <1>8, NaissancesMorts DEF Ecouter, Worker, Livrer, Lire, Connecter, Envoyer, traces
<1>9. ASSUME NEW p \in Proc, Perdre(p) PROVE PremierRefus'
  BY <1>9 DEF PremierRefus, Perdre
<1>10. ASSUME NEW p \in Proc, EchouerEnvoyer(p) PROVE PremierRefus'
  <2>1. "send" \in Appels /\ "send" # "serveur"
    BY DEF Appels
  <2>2. echecs' # <<>>
    BY <1>1, <1>10, <2>1, EchecsRetenus DEF EchouerEnvoyer
  <2> QED
    BY <2>2 DEF PremierRefus
<1> QED
  BY <1>3, <1>4, <1>5, <1>6, <1>7, <1>8, <1>9, <1>10, <1>1, LesPas
-----------------------------------------------------------------------------
LEMMA PasInv ==
  IInv /\ [Next]_vars => IInv'
BY PasType, PasVies, PasServeur, PasVides, PasMorts, PasMessages, PasRefus DEF IInv, Inv

LEMMA Invariant == Spec => []IInv
BY InitInv, PasInv, PTL DEF Spec

(* However many processes, messages and failed calls there are: no phantom
   message but by a sender that died or failed, or a receiver whose accept() or
   recv() failed; no written message lost but for one of these reasons, or for
   want of a worker; and, with no failed call and a second that is long enough,
   a first refusal that is one to the first process (main.c:49-92,
   client.c:30-63, serveur.c:40-71). *)
THEOREM MortsEtPertes == Spec => []Inv
<1>1. IInv => Inv
  BY DEF IInv
<1> QED
  BY Invariant, <1>1, PTL

(* Once every process listens, each goes on listening as long as the trace
   server is there, nobody presses CTRL-C and no call fails that ends a process
   or invents a message: no connection is refused, for nobody is dead, so no
   phantom was read, so every message is for a port that a process has
   (client.c:32-45, serveur.c:29-52, trace_client.c:17-22). *)
THEOREM CompletDureVrai == Spec => CompletDure
<1>1. ASSUME IInv, [Next]_vars
      PROVE  [Complet /\ env.traceServie /\ ~ sigint
                /\ (\A p \in Proc, a \in Mortels \cup Inventifs : ~ Echoue(a, p)')
              => Complet']_vars
  <2> SUFFICES ASSUME Complet, env.traceServie, ~ sigint,
                      \A p \in Proc, a \in Mortels \cup Inventifs : ~ Echoue(a, p)'
               PROVE  Complet'
    OBVIOUS
  <2>1. TypeOK /\ InvVies /\ InvServeur /\ InvMessages
    BY <1>1 DEF IInv, Inv
  <2>2. \A p \in Proc : vie[p] = "lance" /\ ecoute[p]
    BY <2>1 DEF Complet, InvVies
  <2>3. Morts = {}
    BY <2>2 DEF Morts
  <2>4. \A p \in Proc, a \in Mortels \cup Inventifs : <<a, p>> \notin ToSet(echecs')
    BY DEF Echoue
  <2>5. \A p \in Proc : EchouerConnect(p) => FALSE
    <3> SUFFICES ASSUME NEW p \in Proc, EchouerConnect(p) PROVE FALSE
      OBVIOUS
    <3>1. Head(envoi[p]) \in ToSet(envoi[p])
      BY <2>1, EnsembleRetrait DEF EchouerConnect, TypeOK
    <3>2. UNCHANGED echecs
      BY DEF EchouerConnect
    <3>3. RienInvente
      BY <2>3, <2>4, <3>2 DEF RienInvente
    <3>4. Head(envoi[p]).vers \in Proc
      BY <2>1, <3>1, <3>3 DEF InvMessages
    <3> QED
      BY <2>2, <3>4 DEF EchouerConnect, Ecoute
  <2>6. \A p \in Proc, a \in Mortels : Echouer(a, p) => FALSE
    <3> SUFFICES ASSUME NEW p \in Proc, NEW a \in Mortels, Echouer(a, p) PROVE FALSE
      OBVIOUS
    <3>1. a \in Appels /\ a # "serveur"
      BY DEF Appels, Mortels
    <3> QED
      BY <2>1, <2>4, <3>1, EchecsRetenus
  <2>7. ASSUME NEW p \in Proc,
               \/ Interrompre(p) \/ EchouerBind(p) \/ EchouerTrace(p)
               \/ EchouerEcoute(p) \/ EchouerSocket(p) \/ EchouerClnt(p)
        PROVE  FALSE
    BY <2>2, <2>6, <2>7 DEF Interrompre, EchouerBind, EchouerTrace, EchouerEcoute, EchouerSocket, EchouerClnt, Mortels
  <2>8. ASSUME UNCHANGED ecoute PROVE Complet'
    BY <2>8 DEF Complet
  <2>9. CASE Main \/ UNCHANGED vars
    BY <2>8, <2>9 DEF Main, Forker, EchouerFork, FinirMain, AppuyerCtrlC, vars
  <2>10. ASSUME NEW p \in Proc, Ecouter(p) PROVE Complet'
    BY <2>2, <2>10 DEF Ecouter
  <2>11. ASSUME NEW p \in Proc, Lancement(p) \/ Worker(p) \/ Lire(p) \/ Connecter(p) \/ Envoyer(p) \/ Tracer(p)
         PROVE  Complet'
    BY <2>8, <2>11 DEF Lancement, Preparer, Reveiller, CreerThread, Worker, Livrer, Lire, Connecter, Envoyer, Tracer
  <2>12. ASSUME NEW p \in Proc,
                \/ ManquerThread(p) \/ EchouerAccept(p) \/ EchouerEnvoyer(p)
                \/ \E c \in connexions : EchouerRecv(p, c) \/ ManquerWorker(p, c)
         PROVE  Complet'
    BY <2>8, <2>12 DEF ManquerThread, EchouerAccept, EchouerEnvoyer, EchouerRecv, ManquerWorker
  <2>13. ASSUME NEW p \in Proc, JoindreAbsent(p) PROVE Complet'
    BY <2>1, <2>2, <2>13 DEF JoindreAbsent, Echoue, InvServeur
  <2> QED
    BY <1>1, <2>5, <2>7, <2>9, <2>10, <2>11, <2>12, <2>13 DEF Next, Serveur, Client, Trace, Panne
<1> QED
  BY Invariant, <1>1, PTL DEF Spec, CompletDure
=============================================================================
