----------------------------- MODULE MCSignaux ------------------------------
(* Instances of Signaux for TLC; the .cfg files give the bounds. *)
EXTENDS Signaux
=============================================================================
