------------------------------- MODULE Accord -------------------------------
(***************************************************************************)
(* What the protocol of projet/ promises, and no more: a process enters    *)
(* the critical section only after every process agreed to the request it  *)
(* made, and agreements are never carried over to the next request.        *)
(* Nothing here keeps two processes out of the section at the same time.   *)
(***************************************************************************)
CONSTANT Proc

VARIABLES
  etat,       \* "repos", "attente" or "section"
  accords     \* who agreed to the current request; {} at rest

Init ==
  /\ etat = [p \in Proc |-> "repos"]
  /\ accords = [p \in Proc |-> {}]

Demander(p) ==
  /\ etat[p] = "repos"
  /\ etat' = [etat EXCEPT ![p] = "attente"]
  /\ UNCHANGED accords

Accorder(p, q) ==
  /\ etat[p] = "attente"
  /\ q \notin accords[p]
  /\ accords' = [accords EXCEPT ![p] = @ \cup {q}]
  /\ UNCHANGED etat

Entrer(p) ==
  /\ etat[p] = "attente"
  /\ accords[p] = Proc
  /\ etat' = [etat EXCEPT ![p] = "section"]
  /\ UNCHANGED accords

Sortir(p) ==
  /\ etat[p] = "section"
  /\ etat' = [etat EXCEPT ![p] = "repos"]
  /\ accords' = [accords EXCEPT ![p] = {}]

Next ==
  \E p \in Proc : Demander(p) \/ Entrer(p) \/ Sortir(p) \/ \E q \in Proc : Accorder(p, q)

Spec == Init /\ [][Next]_<<etat, accords>>
=============================================================================
