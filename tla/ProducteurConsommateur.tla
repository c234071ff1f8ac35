----------------------- MODULE ProducteurConsommateur -----------------------
(***************************************************************************)
(* TP1_correction.c: a producer process sends the letters of a string,     *)
(* its final 0 included, to a consumer process through a buffer in shared  *)
(* memory guarded by three semaphores.  Byte 0 of the buffer is the number *)
(* of letters in it, a signed char; the oldest letter is in the last cell  *)
(* and removing it shifts all cells by one.                                *)
(*                                                                         *)
(* Each access to the shared memory is a step, so that the semaphores, and *)
(* nothing else, keep the two processes apart.  Displaying the buffer is   *)
(* left out.  From 3 cells on it changes nothing; with 1 or 2 cells        *)
(* afficherTitre (lines 226-240) computes a negative length and writes     *)
(* through the failed malloc(longueur + 1), so these sizes are excluded.   *)
(***************************************************************************)
EXTENDS Integers, FiniteSets

CONSTANTS
  Taille,         \* first argument of the program: cells of the buffer
  Longueur        \* length of the string, its second argument

ASSUME TailleHypothese == Taille \in Nat /\ Taille >= 3
ASSUME LongueurHypothese == Longueur \in Nat

\* Letter i of the string.  All letters but the final 0 are told apart, so
\* that a letter read in place of another shows.
Lettre(i) == IF i < Longueur THEN i + 1 ELSE 0

TailleRecue == 40       \* char chaineRecue [40]

\* Conversion of an int to char (signed, 8 bits)
Char(x) == ((x + 128) % 256) - 128

VARIABLES
  nbElem,         \* byte 0 of the shared memory
  cases,          \* bytes 1 .. Taille
  plein, vide, mutex,
  pcP, numP,      \* the producer, and its numeroLettre
  pcC, numC, c,   \* the consumer, its numeroLettre and the letter it took
  chaineRecue,    \* what the consumer received
  alloue          \* the memory and the semaphores exist

vars == <<nbElem, cases, plein, vide, mutex, pcP, numP, pcC, numC, c, chaineRecue, alloue>>
tampon == <<nbElem, cases>>
varsP == <<pcP, numP>>
varsC == <<pcC, numC, c, chaineRecue>>

Init ==
  /\ nbElem = 0
  /\ cases = [i \in 1 .. Taille |-> 0]    \* shmget gives zeroed pages
  /\ plein = 0 /\ vide = Taille /\ mutex = 1
  /\ pcP = "vide" /\ numP = 0
  /\ pcC = "plein" /\ numC = 0 /\ c = 0
  /\ chaineRecue = [i \in 0 .. Longueur |-> -1]
  /\ alloue = TRUE
-----------------------------------------------------------------------------
(* The producer *)

AttendreVide ==
  /\ pcP = "vide" /\ vide > 0
  /\ vide' = vide - 1
  /\ pcP' = "mutex"
  /\ UNCHANGED <<tampon, plein, mutex, numP, varsC, alloue>>

\* Mutant of EntrerP: no P(mutex)
EntrerPSansMutex ==
  /\ pcP = "mutex"
  /\ pcP' = "ecrire"
  /\ UNCHANGED <<tampon, plein, vide, mutex, numP, varsC, alloue>>

EntrerP ==
  /\ pcP = "mutex" /\ mutex > 0
  /\ mutex' = mutex - 1
  /\ pcP' = "ecrire"
  /\ UNCHANGED <<tampon, plein, vide, numP, varsC, alloue>>

\* Mutant of Ecrire: the first cell instead of the first free one
EcrireDebut ==
  /\ pcP = "ecrire"
  /\ cases' = [cases EXCEPT ![Taille] = Lettre(numP)]
  /\ pcP' = "compter"
  /\ UNCHANGED <<nbElem, plein, vide, mutex, numP, varsC, alloue>>

\* addElement: the cell.  A negative nbElem sends the letter past the buffer.
Ecrire ==
  /\ pcP = "ecrire"
  /\ cases' = [i \in 1 .. Taille |-> IF i = Taille - nbElem THEN Lettre(numP) ELSE cases[i]]
  /\ pcP' = "compter"
  /\ UNCHANGED <<nbElem, plein, vide, mutex, numP, varsC, alloue>>

Compter ==
  /\ pcP = "compter"
  /\ nbElem' = Char(nbElem + 1)
  /\ pcP' = "sortir"
  /\ UNCHANGED <<cases, plein, vide, mutex, numP, varsC, alloue>>

SortirP ==
  /\ pcP = "sortir"
  /\ mutex' = mutex + 1
  /\ pcP' = "signaler"
  /\ UNCHANGED <<tampon, plein, vide, numP, varsC, alloue>>

SignalerPlein ==
  /\ pcP = "signaler"
  /\ plein' = plein + 1
  /\ numP' = numP + 1
  /\ pcP' = IF Lettre(numP) # 0 THEN "vide" ELSE "fini"
  /\ UNCHANGED <<tampon, vide, mutex, varsC, alloue>>
-----------------------------------------------------------------------------
(* The consumer *)

AttendrePlein ==
  /\ pcC = "plein" /\ plein > 0
  /\ plein' = plein - 1
  /\ pcC' = "mutex"
  /\ UNCHANGED <<tampon, vide, mutex, varsP, numC, c, chaineRecue, alloue>>

EntrerC ==
  /\ pcC = "mutex" /\ mutex > 0
  /\ mutex' = mutex - 1
  /\ pcC' = "lire"
  /\ UNCHANGED <<tampon, plein, vide, varsP, numC, c, chaineRecue, alloue>>

\* getElement: the letter, the shift, the count
LireCase ==
  /\ pcC = "lire"
  /\ c' = cases[Taille]
  /\ pcC' = "decaler"
  /\ UNCHANGED <<tampon, plein, vide, mutex, varsP, numC, chaineRecue, alloue>>

Decaler ==
  /\ pcC = "decaler"
  /\ cases' = [i \in 1 .. Taille |-> IF i > 1 THEN cases[i - 1] ELSE cases[i]]
  /\ pcC' = "decompter"
  /\ UNCHANGED <<nbElem, plein, vide, mutex, varsP, numC, c, chaineRecue, alloue>>

Decompter ==
  /\ pcC = "decompter"
  /\ nbElem' = Char(nbElem - 1)
  /\ pcC' = "sortir"
  /\ UNCHANGED <<cases, plein, vide, mutex, varsP, numC, c, chaineRecue, alloue>>

SortirC ==
  /\ pcC = "sortir"
  /\ mutex' = mutex + 1
  /\ pcC' = "signaler"
  /\ UNCHANGED <<tampon, plein, vide, varsP, numC, c, chaineRecue, alloue>>

\* Mutant of SignalerVide: no V(vide)
SignalerVideOubli ==
  /\ pcC = "signaler"
  /\ pcC' = "consommer"
  /\ UNCHANGED <<tampon, plein, vide, mutex, varsP, numC, c, chaineRecue, alloue>>

SignalerVide ==
  /\ pcC = "signaler"
  /\ vide' = vide + 1
  /\ pcC' = "consommer"
  /\ UNCHANGED <<tampon, plein, mutex, varsP, numC, c, chaineRecue, alloue>>

\* The array has 40 cells; what writing past it does is undefined, and the
\* model stops the consumer there.
Consommer ==
  /\ pcC = "consommer"
  /\ numC < TailleRecue
  /\ chaineRecue' = [chaineRecue EXCEPT ![numC] = c]
  /\ numC' = numC + 1
  /\ pcC' = IF c # 0 THEN "plein" ELSE "wait"
  /\ UNCHANGED <<tampon, plein, vide, mutex, varsP, c, alloue>>

\* wait() for the producer, then destroy everything.
Liberer ==
  /\ pcC = "wait" /\ pcP = "fini"
  /\ alloue' = FALSE
  /\ pcC' = "fini"
  /\ UNCHANGED <<tampon, plein, vide, mutex, varsP, numC, c, chaineRecue>>

Producteur == AttendreVide \/ EntrerP \/ Ecrire \/ Compter \/ SortirP \/ SignalerPlein
Consommateur ==
  \/ AttendrePlein \/ EntrerC \/ LireCase \/ Decaler \/ Decompter
  \/ SortirC \/ SignalerVide \/ Consommer \/ Liberer

Next == Producteur \/ Consommateur

Spec == Init /\ [][Next]_vars

\* Both processes run.  The mutex semaphore is handed to a waiter that is
\* passed over only finitely often.
FairSpec == Spec /\ WF_vars(Producteur) /\ WF_vars(Consommateur)
-----------------------------------------------------------------------------
dansP == pcP \in {"ecrire", "compter", "sortir"}
dansC == pcC \in {"lire", "decaler", "decompter", "sortir"}

TypeOK ==
  /\ nbElem \in -128 .. 127
  /\ cases \in [1 .. Taille -> Nat]
  /\ plein \in Nat /\ vide \in Nat /\ mutex \in {0, 1}
  /\ pcP \in {"vide", "mutex", "ecrire", "compter", "sortir", "signaler", "fini"}
  /\ pcC \in {"plein", "mutex", "lire", "decaler", "decompter", "sortir", "signaler",
              "consommer", "wait", "fini"}
  /\ numP \in Nat /\ numC \in Nat /\ c \in Nat
  /\ chaineRecue \in [0 .. Longueur -> Int]
  /\ alloue \in BOOLEAN

(* The letters received so far are those sent, in order, whatever the
   interleaving: the comment of lines 127-132, at the receiver. *)
ReceptionFidele ==
  /\ numC <= Longueur + 1
  /\ \A i \in 0 .. numC - 1 : chaineRecue[i] = Lettre(i)

(* The producer writes in a cell of the buffer, for a buffer of at most 128
   cells.  The comment of lines 125-126 allows "au plus 255 cases", which the
   signed char of lines 150-153, 165 and 173 does not: from 129 cells on, the
   count of 128 letters is -128, and addElement writes 128 bytes past the end. *)
PlaceDansLeTampon ==
  Taille <= 128 => (pcP = "ecrire" => nbElem \in 0 .. Taille - 1)

(* The processes never access the buffer together; the producer never writes
   outside a buffer of 3 to 128 cells, nor the consumer takes a letter from an
   empty one; nobody uses the memory or the semaphores once they are destroyed
   (lines 325-330, 347-352, 395-401). *)
AccesSur ==
  /\ ~ (dansP /\ dansC)
  /\ PlaceDansLeTampon
  /\ ~ alloue => pcP = "fini" /\ pcC = "fini"
  /\ pcC \in {"lire", "decaler", "decompter"} => nbElem # 0

(* The whole string is received and everything is freed, for a string of at
   most 39 letters (line 393) and a buffer of 3 to 128 cells. *)
Terminaison == <>(pcC = "fini" /\ numC = Longueur + 1)

\* Letters inserted and removed so far, counted when nbElem is updated
places == numP + (IF pcP \in {"sortir", "signaler"} THEN 1 ELSE 0)
retires == numC + (IF pcC \in {"sortir", "signaler", "consommer"} THEN 1 ELSE 0)

\* The letters in the buffer, oldest first: nbElem read as an unsigned number
\* of them.  Between the shift and the update of nbElem the oldest is in c.
contenu ==
  [k \in 1 .. nbElem % 256 |->
     IF pcC # "decompter" THEN cases[Taille - k + 1]
     ELSE IF k = 1 THEN c ELSE cases[Taille - k + 2]]

\* The letters taken out, the one in c included
sortis == [k \in 1 .. retires |-> IF k <= numC THEN chaineRecue[k - 1] ELSE c]

Abstraite ==
  INSTANCE FileBornee WITH Lettres <- {Lettre(i) : i \in 0 .. Longueur},
                           file <- contenu, sorties <- sortis

(* The array, the char count and the semaphores implement the bounded FIFO
   queue of the comments. *)
ImplementeFile == Abstraite!Spec
-----------------------------------------------------------------------------
(* The inductive invariant behind these properties, for at most 128 cells
   (proved in ProducteurConsommateur_proof). *)

Un(b) == IF b THEN 1 ELSE 0

InvSemaphores ==
  /\ mutex = 1 - Un(dansP) - Un(dansC)
  /\ vide = Taille - (numP - numC) - Un(pcP \in {"mutex", "ecrire", "compter", "sortir", "signaler"})
              + Un(pcC = "consommer")
  /\ plein = numP - numC - Un(pcC \in {"mutex", "lire", "decaler", "decompter", "sortir", "signaler", "consommer"})

\* nbElem wraps from 127 to -128 when 128 cells are full, and back.
InvTampon ==
  /\ nbElem = Char(places - retires)
  /\ \A i \in 1 .. Taille : \A k \in 0 .. Taille :
       (i = Taille - k /\ k < places - retires - Un(pcC = "decompter"))
         => cases[i] = Lettre(retires + k + Un(pcC = "decompter"))
  /\ pcP = "compter" => cases[Taille - (places - retires)] = Lettre(numP)
  /\ pcC \in {"decaler", "decompter"} => c = Lettre(retires)
  /\ pcC \in {"sortir", "signaler", "consommer"} => c = Lettre(numC)

InvProgres ==
  /\ numP <= Longueur + (IF pcP = "fini" THEN 1 ELSE 0)
  /\ pcP = "fini" => numP = Longueur + 1
  /\ numC <= Longueur + (IF pcC \in {"wait", "fini"} THEN 1 ELSE 0)
  /\ pcC \in {"wait", "fini"} => numC = Longueur + 1
  /\ pcC = "fini" => pcP = "fini"
  /\ alloue = (pcC # "fini")
  /\ \A i \in 0 .. numC - 1 : chaineRecue[i] = Lettre(i)

Inv == TypeOK /\ InvSemaphores /\ InvTampon /\ InvProgres
=============================================================================
