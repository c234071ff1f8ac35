------------------------------- MODULE Canal --------------------------------
(***************************************************************************)
(* The network between the calcul threads, as they see it: each process    *)
(* has a box where the messages sent to it arrive exactly once, in an      *)
(* order the channel chooses.                                              *)
(***************************************************************************)
EXTENDS Sequences

CONSTANTS Proc, Messages

VARIABLES
  transit,    \* transit[q]: sent to q and not arrived
  arrives     \* arrives[q]: everything that arrived at q, in order

Init ==
  /\ transit = [q \in Proc |-> {}]
  /\ arrives = [q \in Proc |-> <<>>]

Emettre(q, m) ==
  /\ m \notin transit[q]
  /\ \A i \in DOMAIN arrives[q] : arrives[q][i] # m
  /\ transit' = [transit EXCEPT ![q] = @ \cup {m}]
  /\ UNCHANGED arrives

Livrer(q, m) ==
  /\ m \in transit[q]
  /\ transit' = [transit EXCEPT ![q] = @ \ {m}]
  /\ arrives' = [arrives EXCEPT ![q] = Append(@, m)]

Next == \E q \in Proc, m \in Messages : Emettre(q, m) \/ Livrer(q, m)

Spec == Init /\ [][Next]_<<transit, arrives>>
=============================================================================
