------------------------------ MODULE MCNommage ------------------------------
(* Instance of Nommage for TLC: two servers, two clients, two failures. *)
EXTENDS Nommage
=============================================================================
