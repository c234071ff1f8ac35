----------------------------- MODULE Demarrage ------------------------------
(***************************************************************************)
(* How the processes of projet/ start and stop (projet/main.c), and what   *)
(* that does to their traffic.                                             *)
(*                                                                         *)
(* main forks one process per port; the first one puts a message in its    *)
(* own pipe and sleeps one second, so that the others listen when it       *)
(* starts talking.  Each process then creates its serveur, client, calcul  *)
(* and trace threads in that order and lets them run.  Any thread ends the *)
(* whole process with exit(1) when a system call it needs fails: bind on a *)
(* busy port, connect to a process that does not listen, clnt_create       *)
(* without the trace server.                                               *)
(*                                                                         *)
(* Any other system call of these threads may fail too (echecs).  Some     *)
(* failures end the process (socket, listen, clnt_create); the others go   *)
(* unnoticed: accept() is not tested, a failed recv() does not stop the    *)
(* worker, the value of send() is not read, main compares pthread_create() *)
(* with -1, which it never returns, and serveur prints and goes on.        *)
(*                                                                         *)
(* A worker that received nothing, because recv() failed or because it     *)
(* returned 0 (its sender died before send()), writes its uninitialised    *)
(* buffer in the pipe all the same: a message nobody sent (Fantome).       *)
(*                                                                         *)
(* Queues are unbounded here, and the content of messages is left out:     *)
(* Transport has the first, Calcul the second.  pipe(), malloc() and the   *)
(* read() and write() calls on the pipes do not fail.                      *)
(***************************************************************************)
EXTENDS Integers, Sequences, FiniteSets, SequencesExt

CONSTANTS
  N,              \* ports in serveurs.conf
  MaxEnvois,      \* bound: times a calcul thread writes
  MaxEchecs       \* bound: system calls that fail

ASSUME DemarrageHypothese == N \in Nat \ {0} /\ MaxEnvois \in Nat /\ MaxEchecs \in Nat

Proc == 1 .. N
Premier == 1
Inconnu == 0                            \* a port none of the processes has
Threads == <<"serveur", "client", "calcul", "trace">>

\* What may fail without the environment being the cause: the creation of one
\* of the threads, of a worker, and the calls of the network
Appels == {"serveur", "client", "calcul", "trace", "worker",
           "socket", "accept", "recv", "send", "clnt_create"}

Message(p, q, k) == [de |-> p, vers |-> q, id |-> k]
Messages == [de : Proc, vers : Proc \cup {Inconnu}, id : 1 .. MaxEnvois]
Amorce == [de |-> Premier, vers |-> Premier, id |-> 0]
Fantome == [de |-> Inconnu, vers |-> Inconnu, id |-> 0]
Rien == [de |-> Inconnu, vers |-> Inconnu, id |-> -1]

\* What the system finds: ports that another program holds, whether the trace
\* server is registered, and whether a second is long enough
Environnements ==
  [portsOccupes : SUBSET Proc, traceServie : BOOLEAN, sommeilSuffit : BOOLEAN]

VARIABLES
  env,            \* the environment of this execution; it does not change
  main,           \* "fork", "sommeil" or "fini"
  sigint,         \* CTRL-C was pressed
  vie,            \* "absent", "prepare", "sommeil", "lance" or "mort"
  lances,         \* how many of its threads a process has tried to create
  ecoute,         \* its serveur thread listens
  reception,      \* its pipe from the workers to calcul
  envoi,          \* its pipe from calcul to client
  client,         \* the message its client thread has a connection for
  connexions,     \* open connections: [msg, etat]
  aTracer,        \* its trace pipe is not empty
  envois,         \* times its calcul thread wrote
  echecs,         \* the calls that failed, in order: pairs <<call, process>>
  ecrits, lus,    \* history: messages written and read by calcul threads
  refus           \* history: pairs <<p, q>>, p was refused a connection to q

traces == <<ecrits, lus, refus>>
vars == <<env, main, sigint, vie, lances, ecoute, reception, envoi, client, connexions,
          aTracer, envois, echecs, traces>>

Init ==
  /\ env \in Environnements
  /\ main = "fork"
  /\ sigint = FALSE
  /\ vie = [p \in Proc |-> "absent"]
  /\ lances = [p \in Proc |-> 0]
  /\ ecoute = [p \in Proc |-> FALSE]
  /\ reception = [p \in Proc |-> <<>>]
  /\ envoi = [p \in Proc |-> <<>>]
  /\ client = [p \in Proc |-> Rien]
  /\ connexions = {}
  /\ aTracer = [p \in Proc |-> FALSE]
  /\ envois = [p \in Proc |-> 0]
  /\ echecs = <<>>
  /\ ecrits = {} /\ lus = {} /\ refus = {}
-----------------------------------------------------------------------------
(* The system calls that fail *)

Echoue(appel, p) == <<appel, p>> \in ToSet(echecs)

Echouer(appel, p) ==
  /\ Len(echecs) < MaxEchecs
  /\ echecs' = Append(echecs, <<appel, p>>)
-----------------------------------------------------------------------------
(* The main program *)

Nes == {p \in Proc : vie[p] # "absent"}

Forker ==
  /\ main = "fork" /\ ~ sigint
  /\ Nes # Proc
  /\ vie' = [vie EXCEPT ![Cardinality(Nes) + 1] = "prepare"]
  /\ main' = IF Cardinality(Nes) + 1 = N THEN "sommeil" ELSE main
  /\ UNCHANGED <<env, sigint, lances, ecoute, reception, envoi, client, connexions, aTracer, envois, echecs, traces>>

\* fork fails: main exits, the processes already there go on.
EchouerFork ==
  /\ main = "fork" /\ ~ sigint
  /\ main' = "fini"
  /\ UNCHANGED <<env, sigint, vie, lances, ecoute, reception, envoi, client, connexions, aTracer, envois, echecs, traces>>

\* sleep(300) is over; nobody waits for the children.
FinirMain ==
  /\ main = "sommeil"
  /\ main' = "fini"
  /\ UNCHANGED <<env, sigint, vie, lances, ecoute, reception, envoi, client, connexions, aTracer, envois, echecs, traces>>

\* CTRL-C reaches main and the children, as long as main is in the foreground.
AppuyerCtrlC ==
  /\ main # "fini"
  /\ sigint' = TRUE
  /\ main' = "fini"
  /\ UNCHANGED <<env, vie, lances, ecoute, reception, envoi, client, connexions, aTracer, envois, echecs, traces>>
-----------------------------------------------------------------------------
(* The life of a process *)

Fermee(c) == [c EXCEPT !.etat = IF @ = "ouverte" THEN "fermee" ELSE @]

\* exit(): the pipes and the listening socket disappear, with the connections
\* to p; the peers of those p had opened see their end.
Mourir(p) ==
  /\ vie' = [vie EXCEPT ![p] = "mort"]
  /\ ecoute' = [ecoute EXCEPT ![p] = FALSE]
  /\ reception' = [reception EXCEPT ![p] = <<>>]
  /\ envoi' = [envoi EXCEPT ![p] = <<>>]
  /\ client' = [client EXCEPT ![p] = Rien]
  /\ aTracer' = [aTracer EXCEPT ![p] = FALSE]
  /\ connexions' = {IF c.msg.de = p THEN Fermee(c) ELSE c :
                      c \in {d \in connexions : d.msg.vers # p}}

\* Mutant of Interrompre: the first process was forked without the handler
\* and ignores the signal
InterrompreSaufPremier(p) ==
  /\ sigint
  /\ p # Premier
  /\ vie[p] \in {"prepare", "sommeil", "lance"}
  /\ Mourir(p)
  /\ UNCHANGED <<env, main, sigint, lances, envois, echecs, traces>>

\* The handler of SIGINT calls exit(0).
Interrompre(p) ==
  /\ sigint
  /\ vie[p] \in {"prepare", "sommeil", "lance"}
  /\ Mourir(p)
  /\ UNCHANGED <<env, main, sigint, lances, envois, echecs, traces>>

\* The pipes; the first process writes the initial message, then sleeps.
Preparer(p) ==
  /\ vie[p] = "prepare"
  /\ IF p = Premier
       THEN /\ reception' = [reception EXCEPT ![p] = <<Amorce>>]
            /\ vie' = [vie EXCEPT ![p] = "sommeil"]
       ELSE /\ vie' = [vie EXCEPT ![p] = "lance"]
            /\ UNCHANGED reception
  /\ UNCHANGED <<env, main, sigint, lances, ecoute, envoi, client, connexions, aTracer, envois, echecs, traces>>

\* The sleep says nothing about the others, unless it is long enough.
SommeilFini ==
  env.sommeilSuffit => /\ main # "fork"
                   /\ \A q \in Proc \ {Premier} :
                        ecoute[q] \/ vie[q] \in {"absent", "mort"} \/ Echoue("serveur", q)

Reveiller ==
  /\ vie[Premier] = "sommeil"
  /\ SommeilFini
  /\ vie' = [vie EXCEPT ![Premier] = "lance"]
  /\ UNCHANGED <<env, main, sigint, lances, ecoute, reception, envoi, client, connexions, aTracer, envois, echecs, traces>>

CreerThread(p) ==
  /\ vie[p] = "lance"
  /\ lances[p] < Len(Threads)
  /\ lances' = [lances EXCEPT ![p] = @ + 1]
  /\ UNCHANGED <<env, main, sigint, vie, ecoute, reception, envoi, client, connexions, aTracer, envois, echecs, traces>>

\* pthread_create() fails with a positive number: main takes it for a success.
ManquerThread(p) ==
  /\ vie[p] = "lance"
  /\ lances[p] < Len(Threads)
  /\ Echouer(Threads[lances[p] + 1], p)
  /\ lances' = [lances EXCEPT ![p] = @ + 1]
  /\ UNCHANGED <<env, main, sigint, vie, ecoute, reception, envoi, client, connexions, aTracer, envois, traces>>

\* Without a serveur thread, main joins a thread that does not exist: the
\* process may die of it, or wait for the next thread.
JoindreAbsent(p) ==
  /\ vie[p] = "lance"
  /\ lances[p] = Len(Threads)
  /\ Echoue("serveur", p)
  /\ Mourir(p)
  /\ UNCHANGED <<env, main, sigint, lances, envois, echecs, traces>>

\* A thread that exists in a process that has not exited
Tourne(p, thread) ==
  /\ vie[p] = "lance"
  /\ \E i \in 1 .. lances[p] : Threads[i] = thread
  /\ ~ Echoue(thread, p)
-----------------------------------------------------------------------------
(* The serveur thread and its workers *)

Ecouter(p) ==
  /\ Tourne(p, "serveur")
  /\ ~ ecoute[p]
  /\ p \notin env.portsOccupes
  /\ ecoute' = [ecoute EXCEPT ![p] = TRUE]
  /\ UNCHANGED <<env, main, sigint, vie, lances, reception, envoi, client, connexions, aTracer, envois, echecs, traces>>

EchouerBind(p) ==
  /\ Tourne(p, "serveur")
  /\ ~ ecoute[p]
  /\ p \in env.portsOccupes
  /\ Mourir(p)
  /\ UNCHANGED <<env, main, sigint, lances, envois, echecs, traces>>

\* socket() or listen() fails.
EchouerEcoute(p) ==
  /\ Tourne(p, "serveur")
  /\ ~ ecoute[p]
  /\ Echouer("socket", p)
  /\ Mourir(p)
  /\ UNCHANGED <<env, main, sigint, lances, envois, traces>>

\* What the worker writes in the pipe when recv() succeeds, even with nothing.
Recu(c) == IF c.etat = "envoyee" THEN c.msg ELSE Fantome

Livrer(q, c) ==
  /\ ecoute[q]
  /\ c.msg.vers = q
  /\ c.etat # "ouverte"
  /\ reception' = [reception EXCEPT ![q] = Append(@, Recu(c))]
  /\ connexions' = connexions \ {c}
  /\ UNCHANGED <<env, main, sigint, vie, lances, ecoute, envoi, client, aTracer, envois, echecs, traces>>

\* recv() fails on a connection, even with data to come: the worker writes its
\* buffer and closes.
EchouerRecv(q, c) ==
  /\ ecoute[q]
  /\ c.msg.vers = q
  /\ Echouer("recv", q)
  /\ reception' = [reception EXCEPT ![q] = Append(@, Fantome)]
  /\ connexions' = connexions \ {c}
  /\ UNCHANGED <<env, main, sigint, vie, lances, ecoute, envoi, client, aTracer, envois, traces>>

\* accept() returns -1, which a worker passes to recv().  The connection stays
\* in the backlog, or is lost when the system rejects the unassigned length
\* after it took the connection.
EchouerAccept(q) ==
  /\ ecoute[q]
  /\ Echouer("accept", q)
  /\ reception' = [reception EXCEPT ![q] = Append(@, Fantome)]
  /\ \/ UNCHANGED connexions
     \/ \E c \in connexions : c.msg.vers = q /\ connexions' = connexions \ {c}
  /\ UNCHANGED <<env, main, sigint, vie, lances, ecoute, envoi, client, aTracer, envois, traces>>

\* No worker for an accepted connection: it is forgotten with its message.
ManquerWorker(q, c) ==
  /\ ecoute[q]
  /\ c.msg.vers = q
  /\ Echouer("worker", q)
  /\ connexions' = connexions \ {c}
  /\ UNCHANGED <<env, main, sigint, vie, lances, ecoute, reception, envoi, client, aTracer, envois, traces>>
-----------------------------------------------------------------------------
(* The calcul thread, reduced to its traffic: what it writes in the REQUEST  *)
(* or RELEASE loop, in a REPLY, in a text message                            *)

Diffusion(p, k) == [q \in 1 .. N |-> Message(p, q, k)]

\* Mutant of Destinataires: the port is left unassigned
DestinatairesInconnus(m) == Proc \cup {Inconnu}

\* The port of a REPLY is read in the message: a phantom has any.
Destinataires(m) == IF m = Fantome THEN Proc \cup {Inconnu} ELSE Proc

Lots(p, m, k) ==
  {<<>>} \cup (IF k <= MaxEnvois
                THEN {Diffusion(p, k)} \cup {<<Message(p, q, k)>> : q \in Destinataires(m)}
                ELSE {})

Apres(k, lot) == IF lot = <<>> THEN k ELSE k + 1

\* A text message is always traced; whether another message or the action is
\* depends on the state of the section.
Lire(p) ==
  LET m == Head(reception[p]) IN
  /\ Tourne(p, "calcul")
  /\ reception[p] # <<>>
  /\ reception' = [reception EXCEPT ![p] = Tail(@)]
  /\ lus' = IF m = Fantome THEN lus ELSE lus \cup {m}
  /\ \E reaction \in Lots(p, m, envois[p] + 1) :
       \E action \in Lots(p, Amorce, Apres(envois[p], reaction) + 1) :
         /\ envoi' = [envoi EXCEPT ![p] = @ \o reaction \o action]
         /\ envois' = [envois EXCEPT ![p] = Apres(Apres(@, reaction), action)]
         /\ ecrits' = ecrits \cup ToSet(reaction) \cup ToSet(action)
  /\ \E t \in (IF m = Amorce THEN {TRUE} ELSE BOOLEAN) :
       aTracer' = [aTracer EXCEPT ![p] = @ \/ t]
  /\ UNCHANGED <<env, main, sigint, vie, lances, ecoute, client, connexions, echecs, refus>>
-----------------------------------------------------------------------------
(* The client thread *)

Ecoute(q) == q \in Proc /\ ecoute[q]

Connecter(p) ==
  LET m == Head(envoi[p]) IN
  /\ Tourne(p, "client")
  /\ client[p] = Rien
  /\ envoi[p] # <<>>
  /\ Ecoute(m.vers)
  /\ connexions' = connexions \cup {[msg |-> m, etat |-> "ouverte"]}
  /\ client' = [client EXCEPT ![p] = m]
  /\ envoi' = [envoi EXCEPT ![p] = Tail(@)]
  /\ UNCHANGED <<env, main, sigint, vie, lances, ecoute, reception, aTracer, envois, echecs, traces>>

EchouerConnect(p) ==
  LET m == Head(envoi[p]) IN
  /\ Tourne(p, "client")
  /\ client[p] = Rien
  /\ envoi[p] # <<>>
  /\ ~ Ecoute(m.vers)
  /\ Mourir(p)
  /\ refus' = refus \cup {<<p, m.vers>>}
  /\ UNCHANGED <<env, main, sigint, lances, envois, echecs, ecrits, lus>>

\* socket() fails, or connect() for another reason than a missing listener.
EchouerSocket(p) ==
  /\ Tourne(p, "client")
  /\ client[p] = Rien
  /\ envoi[p] # <<>>
  /\ Echouer("socket", p)
  /\ Mourir(p)
  /\ UNCHANGED <<env, main, sigint, lances, envois, traces>>

\* Mutant of Envoyee: close() comes before send()
EnvoyeeTropTard(c) == Fermee(c)

Envoyee(c) == [c EXCEPT !.etat = "envoyee"]

\* send() and close().  When the receiver died meanwhile the data is lost.
Envoyer(p) ==
  /\ Tourne(p, "client")
  /\ client[p] # Rien
  /\ connexions' = {IF c.msg = client[p] THEN Envoyee(c) ELSE c : c \in connexions}
  /\ client' = [client EXCEPT ![p] = Rien]
  /\ UNCHANGED <<env, main, sigint, vie, lances, ecoute, reception, envoi, aTracer, envois, echecs, traces>>

\* send() fails: close() follows all the same.
EchouerEnvoyer(p) ==
  /\ Tourne(p, "client")
  /\ client[p] # Rien
  /\ Echouer("send", p)
  /\ connexions' = {IF c.msg = client[p] THEN Fermee(c) ELSE c : c \in connexions}
  /\ client' = [client EXCEPT ![p] = Rien]
  /\ UNCHANGED <<env, main, sigint, vie, lances, ecoute, reception, envoi, aTracer, envois, traces>>
-----------------------------------------------------------------------------
(* The trace thread *)

Tracer(p) ==
  /\ Tourne(p, "trace")
  /\ aTracer[p]
  /\ env.traceServie
  /\ aTracer' = [aTracer EXCEPT ![p] = FALSE]
  /\ UNCHANGED <<env, main, sigint, vie, lances, ecoute, reception, envoi, client, connexions, envois, echecs, traces>>

EchouerTrace(p) ==
  /\ Tourne(p, "trace")
  /\ aTracer[p]
  /\ ~ env.traceServie
  /\ Mourir(p)
  /\ UNCHANGED <<env, main, sigint, lances, envois, echecs, traces>>

\* clnt_create() fails for another reason: the process exits as well.
EchouerClnt(p) ==
  /\ Tourne(p, "trace")
  /\ aTracer[p]
  /\ Echouer("clnt_create", p)
  /\ Mourir(p)
  /\ UNCHANGED <<env, main, sigint, lances, envois, traces>>

Main == Forker \/ EchouerFork \/ FinirMain \/ AppuyerCtrlC
Lancement(p) == Preparer(p) \/ (p = Premier /\ Reveiller) \/ CreerThread(p)
Serveur(p) == Ecouter(p) \/ EchouerBind(p)
Worker(p) == \E c \in connexions : Livrer(p, c)
Client(p) == Connecter(p) \/ EchouerConnect(p) \/ Envoyer(p)
Trace(p) == Tracer(p) \/ EchouerTrace(p)
Panne(p) ==
  \/ ManquerThread(p) \/ JoindreAbsent(p)
  \/ EchouerEcoute(p) \/ EchouerSocket(p) \/ EchouerClnt(p)
  \/ EchouerAccept(p) \/ EchouerEnvoyer(p)
  \/ \E c \in connexions : EchouerRecv(p, c) \/ ManquerWorker(p, c)

Next ==
  \/ Main
  \/ \E p \in Proc :
       \/ Interrompre(p) \/ Lancement(p) \/ Serveur(p) \/ Worker(p)
       \/ Lire(p) \/ Client(p) \/ Trace(p) \/ Panne(p)

Spec == Init /\ [][Next]_vars

\* Threads that can run do; a pending signal is delivered.  Nothing obliges
\* anybody to press CTRL-C, main to go on, or a call to fail.
FairSpec ==
  Spec /\ \A p \in Proc :
    /\ WF_vars(Interrompre(p)) /\ WF_vars(Lancement(p)) /\ WF_vars(Serveur(p))
    /\ WF_vars(Worker(p)) /\ WF_vars(Lire(p)) /\ WF_vars(Client(p)) /\ WF_vars(Trace(p))
-----------------------------------------------------------------------------
TypeOK ==
  /\ env \in Environnements
  /\ main \in {"fork", "sommeil", "fini"}
  /\ sigint \in BOOLEAN
  /\ vie \in [Proc -> {"absent", "prepare", "sommeil", "lance", "mort"}]
  /\ lances \in [Proc -> 0 .. Len(Threads)]
  /\ ecoute \in [Proc -> BOOLEAN]
  /\ reception \in [Proc -> Seq(Messages \cup {Amorce, Fantome})]
  /\ envoi \in [Proc -> Seq(Messages)]
  /\ client \in [Proc -> Messages \cup {Rien}]
  /\ connexions \subseteq [msg : Messages, etat : {"ouverte", "fermee", "envoyee"}]
  /\ aTracer \in [Proc -> BOOLEAN]
  /\ envois \in [Proc -> 0 .. MaxEnvois]
  /\ echecs \in Seq(Appels \X Proc)
  /\ ecrits \subseteq Messages /\ lus \subseteq Messages \cup {Amorce}
  /\ refus \subseteq Proc \X (Proc \cup {Inconnu})

Morts == {p \in Proc : vie[p] = "mort"}
Complet == \A p \in Proc : ecoute[p]

\* The failures that end a process, and those that invent a message
Mortels == {"socket", "clnt_create"}
Inventifs == {"accept", "recv", "send"}

(* Once every process listens, a death takes CTRL-C, the absence of the trace
   server, a failure that ends a process, or one that invents a message, for
   the REPLY to it may go to a port nobody has.  No refused connection, no
   thread or worker that could not be created stops anybody any more
   (client.c:32-45, serveur.c:29-52, trace_client.c:17-22). *)
CompletDure ==
  [][Complet /\ env.traceServie /\ ~ sigint
       /\ (\A p \in Proc, a \in Mortels \cup Inventifs : ~ Echoue(a, p)')
     => Complet']_vars

\* Who may be blamed for a message that did not leave, or did not arrive
EmetteurFautif(p) == p \in Morts \/ Echoue("send", p)
RecepteurFautif(q) == Echoue("accept", q) \/ Echoue("recv", q)

(* A phantom message, which the calcul thread takes for any of the four types,
   needs a sender that died or failed between connect() and close()
   (client.c:41-63), or a call of its receiver that failed (serveur.c:44,
   62-69); a connection closed with nothing on it says whose fault it is. *)
FantomeJustifie ==
  /\ \A c \in connexions : c.etat = "fermee" => EmetteurFautif(c.msg.de)
  /\ \A q \in Proc : Fantome \in ToSet(reception[q]) =>
       RecepteurFautif(q) \/ \E p \in Proc : EmetteurFautif(p)

\* Where a message written by a calcul thread can be
EnRoute ==
  (UNION {ToSet(envoi[p]) \cup ToSet(reception[p]) : p \in Proc})
    \cup {c.msg : c \in connexions}

PerteExcusable(m) ==
  EmetteurFautif(m.de) \/ m.vers \in Morts \/ RecepteurFautif(m.vers) \/ Echoue("worker", m.vers)

(* A written message is on its way, or read, or one of its two processes is
   dead, or its sender failed to send it, or its receiver to accept it, to
   receive it or to create a worker: nothing else loses a message between two
   processes that stay alive, neither exit(1) of a third one nor a thread that
   main could not create. *)
PerteJustifiee == \A m \in ecrits : m \in EnRoute \cup lus \/ PerteExcusable(m)

(* With a second that is long enough, and as long as no call fails, the first
   refused connection is one to the first process itself: the sleep comes
   before its own listen(), so it does not protect those who answer it, nor
   itself (main.c:49-92). *)
PremierRefus ==
  (/\ env.sommeilSuffit /\ env.traceServie /\ env.portsOccupes = {}
   /\ Nes = Proc /\ ~ sigint /\ echecs = <<>> /\ refus # {})
    => \E p \in Proc : <<p, Premier>> \in refus

(* What a death or a failed call costs, and what it takes: no phantom and no
   lost message without one at either end, and the first refusal is due to the
   first process (main.c:49-92, client.c:30-63, serveur.c:40-71). *)
Inv == TypeOK /\ FantomeJustifie /\ PerteJustifiee /\ PremierRefus

(* CTRL-C stops every process that exists (main.c:24-29, 108-115). *)
ArretComplet == sigint ~> \A p \in Proc : vie[p] \in {"absent", "mort"}
=============================================================================
