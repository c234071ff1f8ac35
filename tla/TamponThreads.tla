---------------------------- MODULE TamponThreads ----------------------------
(***************************************************************************)
(* TP2: the producer-consumer of TP1 with two threads of one process.  The *)
(* main thread produces the letters of the arguments, a second one takes   *)
(* nombreDeTours of them: loops on counters replace the final 0, which is  *)
(* never sent.                                                             *)
(*                                                                         *)
(* TP2_correction.c keeps its semaphores in the heap.  TP2_thread.c, the   *)
(* version of a student, passes its sem_t by value, so that every P and V  *)
(* acts on a copy, and its buffer is the constant "", which is read-only.  *)
(* Names of variables differ from those of ProducteurConsommateur: one run *)
(* executes the two programs one after the other.                          *)
(***************************************************************************)
EXTENDS Integers, Sequences

CONSTANTS
  N,        \* cells of the buffer, in 1 .. 127: cell 0 counts in a char
  Longueurs \* lengths of the string to send, that the arguments make

VARIABLES
  programme,         \* which of the two versions runs
  nombreDeTours,     \* the length of the string
  semaphore,         \* the counts of plein, vide and mutex
  bufferCommun,      \* cell 0 is the number of letters
  tourProducteur, tourConsommateur,
  producteur,        \* where the main thread is
  consommateur,      \* where the second thread is
  element,           \* caractereARetourner
  recue,             \* chaineRecue, a block of nombreDeTours bytes
  suivant            \* the byte of the heap that follows it

vars == <<programme, nombreDeTours, semaphore, bufferCommun, tourProducteur, tourConsommateur,
          producteur, consommateur, element, recue, suivant>>
memoire == <<bufferCommun, element, recue>>

\* Letter of a turn; 0 is a blank or a null byte.
Lettre(tour) == tour + 1

\* main builds the string with strcat in a block that it does not clear
\* (lines 310-318), and strlen of that block is nombreDeTours.  The model takes
\* the block as zero: it is among the first that the program allocates, in
\* pages that nothing has used, and nothing is freed before.  On memory used
\* before, the string would start with what is left there, and both blocks
\* would be too short.  The last strcat writes its 0 one byte past the block
\* all the same, on padding or on the size of the block of chaineRecue, which
\* is never freed.  After chaineRecue malloc leaves 0, or the size of the next
\* block when there is no room to spare.
Init ==
  /\ programme \in {"correction", "etudiant"} /\ nombreDeTours \in Longueurs
  /\ semaphore = [plein |-> 0, vide |-> N, mutex |-> 1]
  /\ bufferCommun = [i \in 0 .. N |-> 0]
  /\ tourProducteur = 0 /\ tourConsommateur = 0
  /\ producteur = "creer" /\ consommateur = "absent"
  /\ element = 0
  /\ recue = [i \in 0 .. nombreDeTours - 1 |-> 0]
  /\ suivant \in {0, -1}

P(s) ==
  /\ semaphore[s] > 0
  /\ semaphore' = IF programme = "etudiant" THEN semaphore ELSE [semaphore EXCEPT ![s] = @ - 1]

V(s) == semaphore' = IF programme = "etudiant" THEN semaphore ELSE [semaphore EXCEPT ![s] = @ + 1]

\* A step of one thread and what neither it nor the other one changes
Inchanges == UNCHANGED <<programme, nombreDeTours, tourProducteur, tourConsommateur, suivant>>
AvanceP(de, vers) == producteur = de /\ producteur' = vers /\ UNCHANGED consommateur /\ Inchanges
AvanceC(de, vers) == consommateur = de /\ consommateur' = vers /\ UNCHANGED producteur /\ Inchanges
-----------------------------------------------------------------------------
(* The main thread.  The test of the result of pthread_create is never true,
   since an error is a positive number: the program goes on without a
   consumer. *)

\* The student's loops test the letter after the turn, and no turn ends.
Encore(tour) == programme = "etudiant" \/ tour < nombreDeTours

Produire(tour) == IF Encore(tour) THEN "vide" ELSE "join"

\* Mutant of Consommer: while (tourConsommateur <= nombreDeTours)
ConsommerUnDePlus(tour) == IF tour <= nombreDeTours THEN "plein" ELSE "fin"

Consommer(tour) == IF Encore(tour) THEN "plein" ELSE "fin"

Creer ==
  /\ producteur = "creer"
  /\ consommateur' \in {Consommer(0), "absent"}
  /\ producteur' = Produire(0)
  /\ UNCHANGED <<programme, nombreDeTours, semaphore, memoire, tourProducteur, tourConsommateur, suivant>>

PrendreVide == AvanceP("vide", "mutex") /\ P("vide") /\ UNCHANGED memoire

\* Mutant of EntrerP: no P(mutex)
EntrerPSansMutex == AvanceP("mutex", "ecrire") /\ UNCHANGED <<semaphore, memoire>>

EntrerP == AvanceP("mutex", "ecrire") /\ P("mutex") /\ UNCHANGED memoire

AddElement ==
  /\ programme = "correction"
  /\ AvanceP("ecrire", "compter")
  /\ bufferCommun' = [bufferCommun EXCEPT ![N - bufferCommun[0]] = Lettre(tourProducteur)]
  /\ UNCHANGED <<semaphore, element, recue>>

\* The student's addElement writes before a constant: the process dies.
AddElementEtudiant ==
  /\ programme = "etudiant" /\ producteur = "ecrire"
  /\ producteur' = "mort" /\ consommateur' = "mort"
  /\ UNCHANGED <<programme, nombreDeTours, semaphore, memoire, tourProducteur, tourConsommateur, suivant>>

Compter ==
  /\ AvanceP("compter", "sortir")
  /\ bufferCommun' = [bufferCommun EXCEPT ![0] = @ + 1]
  /\ UNCHANGED <<semaphore, element, recue>>

SortirP == AvanceP("sortir", "signaler") /\ V("mutex") /\ UNCHANGED memoire

SignalerPlein ==
  /\ producteur = "signaler"
  /\ V("plein")
  /\ tourProducteur' = tourProducteur + 1
  /\ producteur' = Produire(tourProducteur')
  /\ UNCHANGED <<programme, nombreDeTours, memoire, tourConsommateur, consommateur, suivant>>

\* pthread_join, then the semaphores and the buffer are freed.
Joindre == consommateur = "fin" /\ AvanceP("join", "fin") /\ UNCHANGED <<semaphore, memoire>>

\* Without a consumer the argument of pthread_join was never written: it may
\* return an error, crash, or wait for some other thread.
JoindreRien ==
  /\ consommateur = "absent"
  /\ \E suite \in {"fin", "mort", "bloque"} : AvanceP("join", suite)
  /\ UNCHANGED <<semaphore, memoire>>
-----------------------------------------------------------------------------
(* The second thread *)

PrendrePlein == AvanceC("plein", "mutex") /\ P("plein") /\ UNCHANGED memoire
EntrerC == AvanceC("mutex", "lire") /\ P("mutex") /\ UNCHANGED memoire

LireCase ==
  /\ AvanceC("lire", "decaler")
  /\ element' = bufferCommun[N]
  /\ UNCHANGED <<semaphore, bufferCommun, recue>>

\* Mutant of Decaler: the cells move in ascending order
DecalerMontant ==
  /\ AvanceC("decaler", "decompter")
  /\ bufferCommun' = [i \in 0 .. N |-> IF i > 1 THEN bufferCommun[1] ELSE bufferCommun[i]]
  /\ UNCHANGED <<semaphore, element, recue>>

Decaler ==
  /\ AvanceC("decaler", "decompter")
  /\ bufferCommun' = [i \in 0 .. N |-> IF i > 1 THEN bufferCommun[i - 1] ELSE bufferCommun[i]]
  /\ UNCHANGED <<semaphore, element, recue>>

Decompter ==
  /\ AvanceC("decompter", "ranger")
  /\ bufferCommun' = [bufferCommun EXCEPT ![0] = @ - 1]
  /\ UNCHANGED <<semaphore, element, recue>>

Ranger ==
  /\ AvanceC("ranger", "sortir")
  /\ recue' = [recue EXCEPT ![tourConsommateur] = element]
  /\ UNCHANGED <<semaphore, bufferCommun, element>>

SortirC == AvanceC("sortir", "signaler") /\ V("mutex") /\ UNCHANGED memoire

SignalerVide ==
  /\ consommateur = "signaler"
  /\ V("vide")
  /\ tourConsommateur' = tourConsommateur + 1
  /\ consommateur' = Consommer(tourConsommateur')
  /\ UNCHANGED <<programme, nombreDeTours, memoire, tourProducteur, producteur, suivant>>
-----------------------------------------------------------------------------
Producteur ==
  \/ Creer \/ PrendreVide \/ EntrerP \/ AddElement \/ AddElementEtudiant \/ Compter
  \/ SortirP \/ SignalerPlein \/ Joindre \/ JoindreRien
Consommateur ==
  \/ PrendrePlein \/ EntrerC \/ LireCase \/ Decaler \/ Decompter \/ Ranger \/ SortirC
  \/ SignalerVide

Next == Producteur \/ Consommateur

Spec == Init /\ [][Next]_vars
-----------------------------------------------------------------------------
\* Letters put and taken, counted when cell 0 is updated
mis == tourProducteur + (IF producteur \in {"sortir", "signaler"} THEN 1 ELSE 0)
pris == tourConsommateur + (IF consommateur \in {"ranger", "sortir", "signaler"} THEN 1 ELSE 0)

\* getAffichageDuBufferCommun, which every line of the display calls
Affichage == [i \in 1 .. N |-> IF i <= N - bufferCommun[0] THEN 0 ELSE bufferCommun[i]]

\* The letters sent and not yet taken, the oldest last
EnAttente == [i \in 1 .. N |-> IF i <= N - (mis - pris) THEN 0 ELSE Lettre(pris + N - i)]

TypeOK ==
  /\ programme \in {"correction", "etudiant"}
  /\ semaphore \in [{"plein", "vide", "mutex"} -> 0 .. N + 1]
  /\ bufferCommun \in [0 .. N -> Int]
  /\ nombreDeTours \in Nat /\ tourProducteur \in 0 .. nombreDeTours
  /\ tourConsommateur \in 0 .. nombreDeTours
  /\ element \in Int /\ recue \in [0 .. nombreDeTours - 1 -> Int] /\ suivant \in {0, -1}

\* The line displayed under the mutex by "Placer" and "Retirer" shows the
\* letters sent and not yet taken.
AffichageExact ==
  producteur = "sortir" \/ consommateur = "sortir" => Affichage = EnAttente

\* The three counts always add up to the state of the threads, a letter is
\* kept for every unit of plein, and the letters received are those sent.
Comptes ==
  programme = "correction" =>
    /\ semaphore.mutex + (IF producteur \in {"ecrire", "compter", "sortir"} THEN 1 ELSE 0)
         + (IF consommateur \in {"lire", "decaler", "decompter", "ranger", "sortir"} THEN 1 ELSE 0) = 1
    /\ semaphore.plein <= bufferCommun[0] /\ semaphore.vide <= N - bufferCommun[0]
    /\ \A tour \in 0 .. tourConsommateur - 1 : recue[tour] = Lettre(tour)

(* Whatever the interleaving, the semaphores count free cells and letters, the
   table on the screen is right whenever it is printed under the mutex, and
   the letters received are those sent (TP2_correction.c:214-286). *)
InvThreads == TypeOK /\ AffichageExact /\ Comptes

file == [k \in 1 .. bufferCommun[0] |->
           IF consommateur # "decompter" THEN bufferCommun[N - k + 1]
           ELSE IF k = 1 THEN element ELSE bufferCommun[N - k + 2]]
sorties == [k \in 1 .. pris |-> IF k = pris /\ consommateur = "ranger" THEN element ELSE recue[k - 1]]

FileDesThreads ==
  INSTANCE FileBornee WITH Taille <- N, Lettres <- UNION {{Lettre(tour) : tour \in 0 .. n - 1} : n \in Longueurs}

(* The buffer between the threads is the bounded FIFO queue of the comment of
   lines 76-84, in both versions: the student's never holds a letter. *)
ThreadsImplementeFile == FileDesThreads!Spec

\* printf shows the bytes up to the first 0: the block itself holds none.
Octet(i) == IF i < nombreDeTours THEN recue[i] ELSE suivant
MessageExact == \A i \in 0 .. nombreDeTours : Octet(i) = IF i < nombreDeTours THEN Lettre(i) ELSE 0

(* With a consumer the program ends and displays exactly the message sent if,
   and only if, the byte of the heap after it is 0; without one, a message
   longer than the buffer blocks the producer for ever (lines 256-343).  The
   student's version dies with its first letter (TP2_thread.c:92). *)
ThreadsFinissent ==
  /\ (programme = "correction" /\ consommateur \in {"plein", "fin"})
       ~> (producteur = "fin" /\ consommateur = "fin" /\ (MessageExact <=> suivant = 0))
  /\ (programme = "correction" /\ producteur # "creer" /\ consommateur = "absent" /\ nombreDeTours > N)
       ~> [](mis = N /\ producteur = "vide")
  /\ (programme = "etudiant") ~> (producteur = "mort")
=============================================================================
