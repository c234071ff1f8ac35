---------------------------- MODULE FileRequetes ----------------------------
(***************************************************************************)
(* The request queue of the calcul thread (projet/calcul.c): a C array     *)
(* `Item queue[1000]' that is never initialised, and an index queueIndex   *)
(* held apart from it.  This module holds what the REQUEST and RELEASE     *)
(* branches do to the array, as functions of its old value; Calcul keeps   *)
(* the array and the index as state.                                       *)
(*                                                                         *)
(* The insertion is translated with its loop bound as written              *)
(* (`j > i + 1'): the element that sat in the chosen slot is overwritten   *)
(* and its right neighbour is duplicated.                                  *)
(***************************************************************************)
EXTENDS Integers, FiniteSetsExt

CONSTANT TailleQueue        \* number of slots (1000 in the code)

ASSUME TailleQueueHypothese == TailleQueue \in Nat \ {0}

Emplacements == 0 .. TailleQueue - 1

\* Two C ints: those of a request are natural, those that the stack left in a
\* slot may be anything.
Item == [pid : Int, horloge : Int]

Files == [Emplacements -> Item]

\* Mutant of PlacesPossibles: the loop stops at i < queueIndex
PlacesSaufDerniere(queue, n, horloge) ==
  {i \in 0 .. n - 1 : horloge <= queue[i].horloge \/ queue[i].horloge = 0}

\* The slots i of the insertion loop whose test succeeds.  The loop runs up
\* to and including slot n = queueIndex, one past the last stored request.
PlacesPossibles(queue, n, horloge) ==
  {i \in 0 .. n : horloge <= queue[i].horloge \/ queue[i].horloge = 0}

\* The array after request r was put in the first slot that accepts it.
Ranger(queue, n, r) ==
  LET i == Min(PlacesPossibles(queue, n, r.horloge))
  IN  [j \in Emplacements |->
         IF j = i THEN r
         ELSE IF j \in (i + 2) .. (n + 1) THEN queue[j - 1]
         ELSE queue[j]]

\* The array after its first element was removed by shifting the others.
RetirerPremiere(queue, n) ==
  [j \in Emplacements |-> IF j \in 0 .. (n - 2) THEN queue[j + 1] ELSE queue[j]]
=============================================================================
