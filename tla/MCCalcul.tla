------------------------------ MODULE MCCalcul ------------------------------
(* Instances of Calcul for TLC. *)
EXTENDS Calcul

CONSTANT Residus    \* clock values the uninitialised array may be filled with

\* The stack is zero, or full of one value left by an earlier call.
MCPile == {[i \in Emplacements |-> [pid |-> 0, horloge |-> h]] : h \in Residus}
=============================================================================
