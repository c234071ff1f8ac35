----------------------------- MODULE FileBornee -----------------------------
(***************************************************************************)
(* The bounded FIFO queue that the comments of TP1_correction.c promise    *)
(* (lines 120-138) and that the monitor of TP4 is: at most Taille letters  *)
(* wait, and they come out in the order they went in, one at a time.       *)
(***************************************************************************)
EXTENDS Naturals, Sequences

CONSTANTS Taille, Lettres

VARIABLES
  file,       \* letters waiting, oldest first
  sorties     \* letters taken out so far, in order

Init == file = <<>> /\ sorties = <<>>

Inserer ==
  /\ Len(file) < Taille
  /\ \E l \in Lettres : file' = Append(file, l)
  /\ UNCHANGED sorties

Retirer ==
  /\ file # <<>>
  /\ file' = Tail(file)
  /\ sorties' = Append(sorties, Head(file))

Spec == Init /\ [][Inserer \/ Retirer]_<<file, sorties>>
=============================================================================
