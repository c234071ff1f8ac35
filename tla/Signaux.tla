------------------------------ MODULE Signaux -------------------------------
(***************************************************************************)
(* The three programs of TP3: a parent sends a message to its child        *)
(* through a pipe and tells it with SIGUSR1; the child's handler reads the *)
(* message and answers SIGUSR2; the parent's handler ends the child.       *)
(*                                                                         *)
(*   "etudiant"  TP3_pipe_anonyme_signal.c: both wait in sigsuspend        *)
(*   "anonyme"   TP3_pipe_anonyme_signal_correction.c: pause, wait         *)
(*   "nomme"     TP3_pipe_nommé_signal_correction.c: a named pipe, whose   *)
(*               open() makes the two meet                                 *)
(*                                                                         *)
(* A signal that is pending twice is delivered once.  A signal with a      *)
(* handler interrupts the process anywhere; one without ends it.  The      *)
(* failures of pipe, fork, open and malloc are left out, and so is the     *)
(* final 0 that the student's handler writes one byte past its array.  The *)
(* pipe has room for the message: beyond its capacity (64 kB on Linux) the *)
(* student's parent would stay in write (line 103) and send no signal.     *)
(***************************************************************************)
EXTENDS Integers, Sequences

CONSTANT Longueurs      \* lengths of the student's message, its argument

ASSUME LongueursHypothese == Longueurs \subseteq Nat

Bonjour == 23           \* length of the message of the two others

Processus == {"pere", "fils"}
Signaux == {"USR1", "USR2", "QUIT", "TERM"}
Programmes == {"etudiant", "anonyme", "nomme"}
Rien == -1              \* nothing received
Autre == -2             \* something else than the message

VARIABLES
  env,            \* the program, whether the sleep is long enough, the length
  pos,            \* the step of main each process is at
  bloque,         \* it is in sigsuspend or wait
  gestionnaire,   \* where its handler is, "aucun" when it does not run
  mort,           \* "vivant", "sortie", the signal that ended it, or "indefini"
  armes,          \* processes that installed their handler
  attente,        \* pending signals
  tube,           \* what is in the pipe
  ouverts,        \* processes that opened the named pipe
  descripteur,    \* the child's variable has the descriptor of the pipe
  recu,           \* length of the message the child got
  prealables      \* history: handlers that ran before their process waited

vars == <<env, pos, bloque, gestionnaire, mort, armes, attente, tube, ouverts,
          descripteur, recu, prealables>>

Environnements ==
  {e \in [programme : Programmes, sommeilSuffit : BOOLEAN, longueur : Longueurs \cup {Bonjour}] :
     e.programme # "etudiant" => e.longueur = Bonjour}

Init ==
  /\ env \in Environnements
  /\ pos = [p \in Processus |-> 1]
  /\ bloque = [p \in Processus |-> FALSE]
  /\ gestionnaire = [p \in Processus |-> "aucun"]
  /\ mort = [p \in Processus |-> "vivant"]
  /\ armes = {}
  /\ attente = [p \in Processus |-> {}]
  /\ tube = <<>>
  /\ ouverts = {}
  /\ descripteur = (env.programme # "nomme")
  /\ recu = Rien
  /\ prealables = {}
-----------------------------------------------------------------------------
(* The two main functions, from fork() on *)

PereEtudiant == <<"armer", "taille", "texte", "sommeil", "tuer", "suspendre">>
PereAnonyme == <<"sommeil", "armer", "taille", "texte", "tuer", "attendre">>
PereNomme == <<"sommeil", "armer", "ouvrir", "taille", "texte", "tuer", "attendre">>
FilsEtudiant == <<"armer", "suspendre">>
FilsAnonyme == <<"armer", "boucle">>
\* Mutant of FilsNomme: the handler is installed after open()
FilsNommeTropTard == <<"ouvrir", "affecter", "armer", "boucle">>
FilsNomme == <<"armer", "ouvrir", "affecter", "boucle">>

Etapes(p) ==
  CASE env.programme = "etudiant" -> IF p = "pere" THEN PereEtudiant ELSE FilsEtudiant
    [] env.programme = "anonyme" -> IF p = "pere" THEN PereAnonyme ELSE FilsAnonyme
    [] env.programme = "nomme" -> IF p = "pere" THEN PereNomme ELSE FilsNomme

\* p executes step e of its main function, and no handler.
A(p, e) ==
  /\ mort[p] = "vivant" /\ gestionnaire[p] = "aucun" /\ ~ bloque[p]
  /\ pos[p] <= Len(Etapes(p))
  /\ Etapes(p)[pos[p]] = e

Avancer(p) == pos' = [pos EXCEPT ![p] = @ + 1]

Armer(p) ==
  /\ A(p, "armer")
  /\ armes' = armes \cup {p}
  /\ Avancer(p)
  /\ UNCHANGED <<env, bloque, gestionnaire, mort, attente, tube, ouverts, descripteur, recu, prealables>>

EcrireTaille ==
  /\ A("pere", "taille")
  /\ tube' = Append(tube, "taille")
  /\ Avancer("pere")
  /\ UNCHANGED <<env, bloque, gestionnaire, mort, armes, attente, ouverts, descripteur, recu, prealables>>

EcrireTexte ==
  /\ A("pere", "texte")
  /\ tube' = Append(tube, "texte")
  /\ Avancer("pere")
  /\ UNCHANGED <<env, bloque, gestionnaire, mort, armes, attente, ouverts, descripteur, recu, prealables>>

\* A sleep that is long enough lets the child install its handler.
SommeilFini == env.sommeilSuffit => "fils" \in armes

Dormir ==
  /\ A("pere", "sommeil")
  /\ SommeilFini
  /\ Avancer("pere")
  /\ UNCHANGED <<env, bloque, gestionnaire, mort, armes, attente, tube, ouverts, descripteur, recu, prealables>>

Envoyer(p, s) ==
  attente' = [attente EXCEPT ![p] = IF mort[p] = "vivant" THEN @ \cup {s} ELSE @]

Tuer ==
  /\ A("pere", "tuer")
  /\ Envoyer("fils", "USR1")
  /\ Avancer("pere")
  /\ UNCHANGED <<env, bloque, gestionnaire, mort, armes, tube, ouverts, descripteur, recu, prealables>>

\* open() of the named pipe: the call is made, then returns when both made it.
Ouvrir(p) ==
  /\ A(p, "ouvrir")
  /\ IF p \in ouverts
       THEN ouverts = Processus /\ Avancer(p) /\ UNCHANGED ouverts
       ELSE ouverts' = ouverts \cup {p} /\ UNCHANGED pos
  /\ UNCHANGED <<env, bloque, gestionnaire, mort, armes, attente, tube, descripteur, recu, prealables>>

\* descripteur = the result of open(): until then it is 0, standard input.
Affecter ==
  /\ A("fils", "affecter")
  /\ descripteur' = TRUE
  /\ Avancer("fils")
  /\ UNCHANGED <<env, bloque, gestionnaire, mort, armes, attente, tube, ouverts, recu, prealables>>

Suspendre(p) ==
  /\ A(p, "suspendre")
  /\ bloque' = [bloque EXCEPT ![p] = TRUE]
  /\ UNCHANGED <<env, pos, gestionnaire, mort, armes, attente, tube, ouverts, descripteur, recu, prealables>>

\* wait(): returns at once when the child is dead, when it dies otherwise.
Attendre ==
  /\ A("pere", "attendre")
  /\ IF mort["fils"] # "vivant"
       THEN Avancer("pere") /\ UNCHANGED bloque
       ELSE bloque' = [bloque EXCEPT !["pere"] = TRUE] /\ UNCHANGED pos
  /\ UNCHANGED <<env, gestionnaire, mort, armes, attente, tube, ouverts, descripteur, recu, prealables>>

FinAttente ==
  /\ mort["pere"] = "vivant" /\ gestionnaire["pere"] = "aucun"
  /\ bloque["pere"] /\ Etapes("pere")[pos["pere"]] = "attendre"
  /\ mort["fils"] # "vivant"
  /\ bloque' = [bloque EXCEPT !["pere"] = FALSE]
  /\ Avancer("pere")
  /\ UNCHANGED <<env, gestionnaire, mort, armes, attente, tube, ouverts, descripteur, recu, prealables>>

Sortir(p) ==
  /\ mort[p] = "vivant" /\ gestionnaire[p] = "aucun" /\ ~ bloque[p]
  /\ pos[p] > Len(Etapes(p))
  /\ mort' = [mort EXCEPT ![p] = "sortie"]
  /\ UNCHANGED <<env, pos, bloque, gestionnaire, armes, attente, tube, ouverts, descripteur, recu, prealables>>
-----------------------------------------------------------------------------
(* Signals *)

Gere(p) == IF p = "fils" THEN "USR1" ELSE "USR2"

Debut(p) == IF p = "fils" THEN "taille" ELSE "terminer"

\* A handler does not interrupt itself: its signal is masked while it runs.
Recevoir(p) ==
  /\ mort[p] = "vivant" /\ gestionnaire[p] = "aucun"
  /\ p \in armes /\ Gere(p) \in attente[p]
  /\ attente' = [attente EXCEPT ![p] = @ \ {Gere(p)}]
  /\ gestionnaire' = [gestionnaire EXCEPT ![p] = Debut(p)]
  /\ prealables' = IF bloque[p] THEN prealables ELSE prealables \cup {p}
  /\ UNCHANGED <<env, pos, bloque, mort, armes, tube, ouverts, descripteur, recu>>

Mourir(p, s) ==
  /\ mort[p] = "vivant"
  /\ s \in attente[p]
  /\ p \in armes => s # Gere(p)
  /\ mort' = [mort EXCEPT ![p] = s]
  /\ UNCHANGED <<env, pos, bloque, gestionnaire, armes, attente, tube, ouverts, descripteur, recu, prealables>>

\* The end of a handler: sigsuspend and wait return when one interrupted them.
Revenir(p) ==
  /\ gestionnaire' = [gestionnaire EXCEPT ![p] = "aucun"]
  /\ bloque' = [bloque EXCEPT ![p] = FALSE]
  /\ pos' = [pos EXCEPT ![p] = IF bloque[p] THEN @ + 1 ELSE @]
-----------------------------------------------------------------------------
(* The child's handler *)

LireTaille ==
  /\ mort["fils"] = "vivant" /\ gestionnaire["fils"] = "taille"
  /\ descripteur /\ tube # <<>>
  /\ tube' = Tail(tube)
  /\ gestionnaire' = [gestionnaire EXCEPT !["fils"] = "texte"]
  /\ UNCHANGED <<env, pos, bloque, mort, armes, attente, ouverts, descripteur, recu, prealables>>

\* The number of letters asked for: the student's program converts the first
\* byte of a size_t, a signed char, to size_t; the others send one unsigned char.
Char(x) == ((x + 128) % 256) - 128

Demande == IF env.programme = "etudiant" THEN Char(env.longueur) ELSE env.longueur % 256

\* A negative char makes an array too large for the stack: undefined.
LireTexte ==
  /\ mort["fils"] = "vivant" /\ gestionnaire["fils"] = "texte"
  /\ tube # <<>> \/ Demande <= 0
  /\ IF Demande < 0
       THEN /\ mort' = [mort EXCEPT !["fils"] = "indefini"]
            /\ UNCHANGED <<gestionnaire, recu, tube>>
       ELSE /\ gestionnaire' = [gestionnaire EXCEPT !["fils"] = "repondre"]
            /\ recu' = Demande
            /\ tube' = IF Demande = env.longueur THEN Tail(tube) ELSE tube
            /\ UNCHANGED mort
  /\ UNCHANGED <<env, pos, bloque, armes, attente, ouverts, descripteur, prealables>>

\* The descriptor is still 0: the handler reads the keyboard.
LireClavier ==
  /\ mort["fils"] = "vivant" /\ gestionnaire["fils"] = "taille"
  /\ ~ descripteur
  /\ gestionnaire' = [gestionnaire EXCEPT !["fils"] = "clavier"]
  /\ UNCHANGED <<env, pos, bloque, mort, armes, attente, tube, ouverts, descripteur, recu, prealables>>

\* Somebody types, or standard input is at its end.
Saisir ==
  /\ mort["fils"] = "vivant" /\ gestionnaire["fils"] = "clavier"
  /\ recu' = Autre
  /\ gestionnaire' = [gestionnaire EXCEPT !["fils"] = "repondre"]
  /\ UNCHANGED <<env, pos, bloque, mort, armes, attente, tube, ouverts, descripteur, prealables>>

\* Mutant of Repondre: no kill()
RepondreOubli ==
  /\ mort["fils"] = "vivant" /\ gestionnaire["fils"] = "repondre"
  /\ Revenir("fils")
  /\ UNCHANGED <<env, mort, armes, attente, tube, ouverts, descripteur, recu, prealables>>

Repondre ==
  /\ mort["fils"] = "vivant" /\ gestionnaire["fils"] = "repondre"
  /\ Envoyer("pere", "USR2")
  /\ Revenir("fils")
  /\ UNCHANGED <<env, mort, armes, tube, ouverts, descripteur, recu, prealables>>

\* The parent's handler
Terminer ==
  /\ mort["pere"] = "vivant" /\ gestionnaire["pere"] = "terminer"
  /\ Envoyer("fils", IF env.programme = "etudiant" THEN "QUIT" ELSE "TERM")
  /\ Revenir("pere")
  /\ UNCHANGED <<env, mort, armes, tube, ouverts, descripteur, recu, prealables>>

Pere ==
  \/ Armer("pere") \/ EcrireTaille \/ EcrireTexte \/ Dormir \/ Tuer \/ Ouvrir("pere")
  \/ Suspendre("pere") \/ Attendre \/ FinAttente \/ Sortir("pere")
  \/ Recevoir("pere") \/ Terminer \/ \E s \in Signaux : Mourir("pere", s)

Fils ==
  \/ Armer("fils") \/ Ouvrir("fils") \/ Affecter \/ Suspendre("fils") \/ Sortir("fils")
  \/ Recevoir("fils") \/ LireTaille \/ LireTexte \/ LireClavier \/ Repondre
  \/ \E s \in Signaux : Mourir("fils", s)

Next == Pere \/ Fils \/ Saisir

Spec == Init /\ [][Next]_vars

\* Both processes run, and a pending signal is delivered; nobody has to type.
FairSpec == Spec /\ WF_vars(Pere) /\ WF_vars(Fils)
-----------------------------------------------------------------------------
TypeOK ==
  /\ env \in Environnements
  /\ \A p \in Processus : pos[p] \in 1 .. Len(Etapes(p)) + 1
  /\ bloque \in [Processus -> BOOLEAN]
  /\ gestionnaire["fils"] \in {"aucun", "taille", "texte", "repondre", "clavier"}
  /\ gestionnaire["pere"] \in {"aucun", "terminer"}
  /\ mort \in [Processus -> {"vivant", "sortie", "indefini"} \cup Signaux]
  /\ armes \subseteq Processus /\ ouverts \subseteq Processus
  /\ attente \in [Processus -> SUBSET Signaux]
  /\ tube \in Seq({"taille", "texte"})
  /\ descripteur \in BOOLEAN /\ recu \in {Rien, Autre} \cup Nat
  /\ prealables \subseteq Processus

(* SIGUSR1 ends the child only when the sleep was too short, and never with the
   named pipe, where open() waits for a child that has its handler; SIGUSR2
   never ends the parent. *)
MortPrematuree ==
  /\ mort["fils"] = "USR1" => ~ env.sommeilSuffit /\ env.programme # "nomme"
  /\ mort["pere"] \in {"vivant", "sortie"}

(* The child does not end before it has the message: SIGQUIT or SIGTERM, its
   own exit, come after the answer of its handler, and the message is in the
   pipe when SIGUSR1 is sent. *)
MortApresReception ==
  /\ mort["fils"] \notin {"vivant", "USR1", "indefini"} => recu # Rien
  /\ gestionnaire["fils"] = "taille" /\ descripteur => tube # <<>>

(* The child gets the message whole, unless the student's is longer than 127
   letters, or the handler with the named pipe read the keyboard. *)
MessageEntier ==
  recu # Rien =>
    \/ recu = env.longueur
    \/ env.programme = "etudiant" /\ env.longueur > 127
    \/ env.programme = "nomme" /\ recu = Autre

(* Who may die early and what the child has by then, in the three programs
   (TP3_pipe_anonyme_signal.c:58-123 and the two corrections). *)
Inv == TypeOK /\ MortPrematuree /\ MortApresReception /\ MessageEntier

\* The child waits for the keyboard, in the handler
AuClavier == gestionnaire["fils"] = "clavier"

(* The child ends, unless its handler ran between the return of open() and the
   assignment of the descriptor (only with the named pipe). *)
FilsFinit == <>(mort["fils"] # "vivant" \/ (AuClavier /\ env.programme = "nomme"))

(* The parent ends too, unless the child never answered or, in the student's
   program, the answer came before sigsuspend: a lost wake-up.  wait() has
   none. *)
PereFinit ==
  <>(\/ mort["pere"] = "sortie"
     \/ AuClavier
     \/ /\ env.programme = "etudiant"
        /\ "pere" \in prealables \/ mort["fils"] \in {"USR1", "indefini"})
=============================================================================
