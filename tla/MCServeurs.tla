------------------------------ MODULE MCServeurs ------------------------------
(* Instance of Serveurs for TLC: three clients, three processes, two         *)
(* descriptors, so that both run out.                                         *)
EXTENDS Serveurs
=============================================================================
