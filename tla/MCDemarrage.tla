---------------------------- MODULE MCDemarrage -----------------------------
(* Instances of Demarrage for TLC; the .cfg files give the bounds. *)
EXTENDS Demarrage
=============================================================================
