---------------------------- MODULE MCDatagrammes ----------------------------
(* Instance of Datagrammes for TLC: two clients, a request is sent at most    *)
(* twice, the server dies once.  One client traces enough lines to fill its   *)
(* pipe while its trace thread is in a call.                                  *)
EXTENDS Datagrammes

CONSTANTS c1, c2

MCLignes == (c1 :> 3) @@ (c2 :> 1)
=============================================================================
