--------------------------- MODULE MCServeurLeger ---------------------------
(* Instances of ServeurLeger for TLC; the .cfg files give the bounds. *)
EXTENDS ServeurLeger

CONSTANTS c1, c2, c3
=============================================================================
