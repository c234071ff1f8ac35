----------------------- MODULE ProducteurConsommateur_proof -----------------
(***************************************************************************)
(* Proofs about the two producer-consumer programs.  TP1, two processes,   *)
(* for every string and every buffer of at most 128 cells: up to there the *)
(* signed char that counts the letters is read before it wraps only.  Then *)
(* TP2, two threads, under the name TP2 of their instance, for every       *)
(* string and every buffer that cell 0 can count.                          *)
(***************************************************************************)
EXTENDS MCProducteurConsommateur, SequenceTheorems, TLAPS

(* The semaphores bound the number of letters in the buffer: there is room
   when the producer writes, a letter when the consumer reads. *)
LEMMA Bornes ==
  ASSUME TypeOK, InvSemaphores
  PROVE  /\ places \in Nat /\ retires \in Nat
         /\ places - retires \in 0 .. Taille
         /\ pcP \in {"mutex", "ecrire", "compter"} => places - retires < Taille
         /\ pcC \in {"mutex", "lire", "decaler", "decompter"} => places - retires > 0
         /\ ~ (dansP /\ dansC)
  BY TailleHypothese DEF TypeOK, InvSemaphores, places, retires, Un, dansP, dansC

(* Types: only the update of the char needs its conversion. *)
LEMMA PasType ==
  ASSUME TypeOK, Inv, [Next]_vars
  PROVE  TypeOK'
<1> USE TailleHypothese, LongueurHypothese DEF Inv
<1>1. CASE UNCHANGED vars
  BY <1>1 DEF vars, TypeOK, Lettre, Char, InvProgres
<1>2. CASE AttendreVide
  BY <1>2 DEF TypeOK, Lettre, Char, InvProgres, AttendreVide, tampon, varsC
<1>3. CASE EntrerP
  BY <1>3 DEF TypeOK, Lettre, Char, InvProgres, EntrerP, tampon, varsC
<1>4. CASE Ecrire
  BY <1>4 DEF TypeOK, Lettre, Char, InvProgres, Ecrire, tampon, varsC
<1>5. CASE Compter
  BY <1>5 DEF TypeOK, Lettre, Char, InvProgres, Compter, tampon, varsC
<1>6. CASE SortirP
  BY <1>6 DEF TypeOK, InvSemaphores, Un, dansP, dansC, SortirP, tampon, varsC
<1>7. CASE SignalerPlein
  BY <1>7 DEF TypeOK, Lettre, Char, InvProgres, SignalerPlein, tampon, varsC
<1>8. CASE AttendrePlein
  BY <1>8 DEF TypeOK, Lettre, Char, InvProgres, AttendrePlein, tampon, varsP
<1>9. CASE EntrerC
  BY <1>9 DEF TypeOK, Lettre, Char, InvProgres, EntrerC, tampon, varsP
<1>10. CASE LireCase
  BY <1>10 DEF TypeOK, Lettre, Char, InvProgres, LireCase, tampon, varsP
<1>11. CASE Decaler
  BY <1>11 DEF TypeOK, Lettre, Char, InvProgres, Decaler, tampon, varsP
<1>12. CASE Decompter
  BY <1>12 DEF TypeOK, Lettre, Char, InvProgres, Decompter, tampon, varsP
<1>13. CASE SortirC
  BY <1>13 DEF TypeOK, InvSemaphores, Un, dansP, dansC, SortirC, tampon, varsP
<1>14. CASE SignalerVide
  BY <1>14 DEF TypeOK, Lettre, Char, InvProgres, SignalerVide, tampon, varsP
<1>15. CASE Consommer
  BY <1>15 DEF TypeOK, Lettre, Char, InvProgres, Consommer, tampon, varsP
<1>16. CASE Liberer
  BY <1>16 DEF TypeOK, Lettre, Char, InvProgres, Liberer, tampon, varsP
<1> QED
  BY <1>1, <1>2, <1>3, <1>4, <1>5, <1>6, <1>7, <1>8, <1>9, <1>10, <1>11, <1>12, <1>13, <1>14,
       <1>15, <1>16
     DEF Next, Producteur, Consommateur

(* The semaphores count what they are meant to count. *)
LEMMA PasSemaphores ==
  ASSUME TypeOK, Inv, [Next]_vars
  PROVE  InvSemaphores'
<1> USE TailleHypothese, LongueurHypothese DEF Inv
<1>1. CASE UNCHANGED vars
  BY <1>1 DEF vars, TypeOK, InvSemaphores, Un, dansP, dansC
<1>2. CASE AttendreVide
  BY <1>2 DEF TypeOK, InvSemaphores, Un, dansP, dansC, AttendreVide, tampon, varsC
<1>3. CASE EntrerP
  BY <1>3 DEF TypeOK, InvSemaphores, Un, dansP, dansC, EntrerP, tampon, varsC
<1>4. CASE Ecrire
  BY <1>4 DEF TypeOK, InvSemaphores, Un, dansP, dansC, Ecrire, tampon, varsC
<1>5. CASE Compter
  BY <1>5 DEF TypeOK, InvSemaphores, Un, dansP, dansC, Compter, tampon, varsC
<1>6. CASE SortirP
  BY <1>6 DEF TypeOK, InvSemaphores, Un, dansP, dansC, SortirP, tampon, varsC
<1>7. CASE SignalerPlein
  BY <1>7 DEF TypeOK, InvSemaphores, Un, dansP, dansC, SignalerPlein, tampon, varsC
<1>8. CASE AttendrePlein
  BY <1>8 DEF TypeOK, InvSemaphores, Un, dansP, dansC, AttendrePlein, tampon, varsP
<1>9. CASE EntrerC
  BY <1>9 DEF TypeOK, InvSemaphores, Un, dansP, dansC, EntrerC, tampon, varsP
<1>10. CASE LireCase
  BY <1>10 DEF TypeOK, InvSemaphores, Un, dansP, dansC, LireCase, tampon, varsP
<1>11. CASE Decaler
  BY <1>11 DEF TypeOK, InvSemaphores, Un, dansP, dansC, Decaler, tampon, varsP
<1>12. CASE Decompter
  BY <1>12 DEF TypeOK, InvSemaphores, Un, dansP, dansC, Decompter, tampon, varsP
<1>13. CASE SortirC
  BY <1>13 DEF TypeOK, InvSemaphores, Un, dansP, dansC, SortirC, tampon, varsP
<1>14. CASE SignalerVide
  BY <1>14 DEF TypeOK, InvSemaphores, Un, dansP, dansC, SignalerVide, tampon, varsP
<1>15. CASE Consommer
  BY <1>15 DEF TypeOK, InvSemaphores, Un, dansP, dansC, Consommer, tampon, varsP
<1>16. CASE Liberer
  BY <1>16 DEF TypeOK, InvSemaphores, Un, dansP, dansC, Liberer, tampon, varsP
<1> QED
  BY <1>1, <1>2, <1>3, <1>4, <1>5, <1>6, <1>7, <1>8, <1>9, <1>10, <1>11, <1>12, <1>13, <1>14,
       <1>15, <1>16
     DEF Next, Producteur, Consommateur

(* What was received is a prefix of the string; the end comes after the final 0. *)
LEMMA PasProgres ==
  ASSUME TypeOK, Inv, [Next]_vars
  PROVE  InvProgres'
<1> USE TailleHypothese, LongueurHypothese DEF Inv
<1>1. CASE UNCHANGED vars
  BY <1>1 DEF vars, TypeOK, InvProgres, InvTampon, InvSemaphores, Lettre, Un
<1>2. CASE AttendreVide
  BY <1>2 DEF TypeOK, InvProgres, InvTampon, InvSemaphores, Lettre, Un, AttendreVide, tampon, varsC
<1>3. CASE EntrerP
  BY <1>3 DEF TypeOK, InvProgres, InvTampon, InvSemaphores, Lettre, Un, EntrerP, tampon, varsC
<1>4. CASE Ecrire
  BY <1>4 DEF TypeOK, InvProgres, InvTampon, InvSemaphores, Lettre, Un, Ecrire, tampon, varsC
<1>5. CASE Compter
  BY <1>5 DEF TypeOK, InvProgres, InvTampon, InvSemaphores, Lettre, Un, Compter, tampon, varsC
<1>6. CASE SortirP
  BY <1>6 DEF TypeOK, InvProgres, InvTampon, InvSemaphores, Lettre, Un, SortirP, tampon, varsC
<1>7. CASE SignalerPlein
  BY <1>7 DEF TypeOK, InvProgres, InvTampon, InvSemaphores, Lettre, Un, SignalerPlein, tampon, varsC
<1>8. CASE AttendrePlein
  BY <1>8 DEF TypeOK, InvProgres, InvTampon, InvSemaphores, Lettre, Un, AttendrePlein, tampon, varsP
<1>9. CASE EntrerC
  BY <1>9 DEF TypeOK, InvProgres, InvTampon, InvSemaphores, Lettre, Un, EntrerC, tampon, varsP
<1>10. CASE LireCase
  BY <1>10 DEF TypeOK, InvProgres, InvTampon, InvSemaphores, Lettre, Un, LireCase, tampon, varsP
<1>11. CASE Decaler
  BY <1>11 DEF TypeOK, InvProgres, InvTampon, InvSemaphores, Lettre, Un, Decaler, tampon, varsP
<1>12. CASE Decompter
  BY <1>12 DEF TypeOK, InvProgres, InvTampon, InvSemaphores, Lettre, Un, Decompter, tampon, varsP
<1>13. CASE SortirC
  BY <1>13 DEF TypeOK, InvProgres, InvTampon, InvSemaphores, Lettre, Un, SortirC, tampon, varsP
<1>14. CASE SignalerVide
  BY <1>14 DEF TypeOK, InvProgres, InvTampon, InvSemaphores, Lettre, Un, SignalerVide, tampon, varsP
<1>15. CASE Consommer
  BY <1>15 DEF TypeOK, InvProgres, InvTampon, InvSemaphores, Lettre, Un, Consommer, tampon, varsP
<1>16. CASE Liberer
  BY <1>16 DEF TypeOK, InvProgres, InvTampon, InvSemaphores, Lettre, Un, Liberer, tampon, varsP
<1> QED
  BY <1>1, <1>2, <1>3, <1>4, <1>5, <1>6, <1>7, <1>8, <1>9, <1>10, <1>11, <1>12, <1>13, <1>14,
       <1>15, <1>16
     DEF Next, Producteur, Consommateur

(* The signed char is exact up to 127 and wraps consistently beyond. *)
LEMMA CharExact == \A x \in 0 .. 127 : Char(x) = x
  BY DEF Char

LEMMA CharPas ==
  \A x \in Int : Char(Char(x) + 1) = Char(x + 1) /\ Char(Char(x) - 1) = Char(x - 1)
  BY DEF Char

(* The cells hold the letters between the removed and the inserted ones. *)
LEMMA PasTampon ==
  ASSUME Taille <= 128, TypeOK, Inv, [Next]_vars
  PROVE  InvTampon'
<1> USE TailleHypothese, LongueurHypothese, Bornes DEF Inv
<1>1. CASE UNCHANGED vars
  BY <1>1 DEF vars, TypeOK, InvTampon, places, retires, Un, Char, dansP, dansC
<1>2. CASE AttendreVide
  BY <1>2
     DEF TypeOK, InvTampon, places, retires, Un, Char, dansP, dansC, AttendreVide, tampon, varsC
<1>3. CASE EntrerP
  BY <1>3 DEF TypeOK, InvTampon, places, retires, Un, Char, dansP, dansC, EntrerP, tampon, varsC
<1>4. CASE Ecrire
  <2>1. nbElem = places - retires
    <3>1. pcP = "ecrire"
      BY <1>4 DEF Ecrire
    <3>2. places \in Nat /\ retires \in Nat /\ places - retires \in 0 .. Taille /\ places - retires < Taille
      BY <3>1, Bornes
    <3>3. places - retires \in 0 .. 127
      BY <3>2
    <3> QED
      BY <3>3, CharExact DEF InvTampon
  <2>2. /\ cases' = [i \in 1 .. Taille |-> IF i = Taille - (places - retires) THEN Lettre(numP) ELSE cases[i]]
        /\ pcP' = "compter" /\ pcP = "ecrire"
        /\ UNCHANGED <<numP, pcC, numC, c, nbElem>>
    BY <1>4, <2>1 DEF Ecrire, tampon, varsC
  <2>3. places' = places /\ retires' = retires
    BY <2>2 DEF places, retires
  <2>4. pcC \notin {"lire", "decaler", "decompter", "sortir"}
    BY <1>4 DEF dansP, dansC, Ecrire
  <2>5. ASSUME NEW i \in 1 .. Taille, NEW k \in 0 .. Taille, i = Taille - k, k < places - retires
        PROVE  cases'[i] = Lettre(retires + k)
    BY <2>2, <2>4, <2>5 DEF InvTampon, Un
  <2> QED
    BY <2>2, <2>3, <2>4, <2>5 DEF InvTampon, Un

<1>5. CASE Compter
  <2>1. /\ nbElem' = Char(nbElem + 1) /\ pcP = "compter" /\ pcP' = "sortir"
        /\ UNCHANGED <<cases, numP, pcC, numC, c>>
    BY <1>5 DEF Compter, varsC
  <2>2. places' = places + 1 /\ retires' = retires /\ places = numP
    BY <2>1 DEF places, retires, TypeOK
  <2>3. nbElem' = Char(places' - retires')
    BY <2>1, <2>2, CharPas DEF InvTampon
  <2>4. pcC \notin {"lire", "decaler", "decompter", "sortir"}
    BY <2>1 DEF dansP, dansC
  <2>5. ASSUME NEW i \in 1 .. Taille, NEW k \in 0 .. Taille, i = Taille - k, k < places - retires + 1
        PROVE  cases[i] = Lettre(retires + k)
    <3>1. CASE k < places - retires
      BY <2>4, <2>5, <3>1 DEF InvTampon, Un
    <3>2. CASE k = places - retires
      BY <2>1, <2>2, <2>5, <3>2 DEF InvTampon
    <3> QED
      BY <2>5, <3>1, <3>2
  <2> QED
    BY <2>1, <2>2, <2>3, <2>4, <2>5 DEF InvTampon, Un

<1>6. CASE SortirP
  BY <1>6 DEF TypeOK, InvTampon, places, retires, Un, Char, dansP, dansC, SortirP, tampon, varsC
<1>7. CASE SignalerPlein
  BY <1>7
     DEF TypeOK, InvTampon, places, retires, Un, Char, dansP, dansC, SignalerPlein, tampon, varsC
<1>8. CASE AttendrePlein
  BY <1>8
     DEF TypeOK, InvTampon, places, retires, Un, Char, dansP, dansC, AttendrePlein, tampon, varsP
<1>9. CASE EntrerC
  BY <1>9 DEF TypeOK, InvTampon, places, retires, Un, Char, dansP, dansC, EntrerC, tampon, varsP
<1>10. CASE LireCase
  BY <1>10 DEF TypeOK, InvTampon, places, retires, Un, Char, dansP, dansC, LireCase, tampon, varsP
<1>11. CASE Decaler
  BY <1>11 DEF TypeOK, InvTampon, places, retires, Un, Char, dansP, dansC, Decaler, tampon, varsP
<1>12. CASE Decompter
  <2>1. /\ nbElem' = Char(nbElem - 1) /\ pcC = "decompter" /\ pcC' = "sortir"
        /\ UNCHANGED <<cases, numP, pcP, numC, c>>
    BY <1>12 DEF Decompter, varsP
  <2>2. places' = places /\ retires' = retires + 1 /\ retires = numC
    BY <2>1 DEF places, retires, TypeOK
  <2>3. nbElem' = Char(places' - retires')
    BY <2>1, <2>2, CharPas DEF InvTampon
  <2>4. pcP \notin {"ecrire", "compter", "sortir"}
    BY <2>1 DEF dansP, dansC
  <2>5. ASSUME NEW i \in 1 .. Taille, NEW k \in 0 .. Taille, i = Taille - k, k < places - (retires + 1)
        PROVE  cases[i] = Lettre(retires + 1 + k)
    BY <2>1, <2>5 DEF InvTampon, Un
  <2> QED
    BY <2>1, <2>2, <2>3, <2>4, <2>5 DEF InvTampon, Un

<1>13. CASE SortirC
  BY <1>13 DEF TypeOK, InvTampon, places, retires, Un, Char, dansP, dansC, SortirC, tampon, varsP
<1>14. CASE SignalerVide
  BY <1>14
     DEF TypeOK, InvTampon, places, retires, Un, Char, dansP, dansC, SignalerVide, tampon, varsP
<1>15. CASE Consommer
  BY <1>15 DEF TypeOK, InvTampon, places, retires, Un, Char, dansP, dansC, Consommer, tampon, varsP
<1>16. CASE Liberer
  BY <1>16 DEF TypeOK, InvTampon, places, retires, Un, Char, dansP, dansC, Liberer, tampon, varsP
<1> QED
  BY <1>1, <1>2, <1>3, <1>4, <1>5, <1>6, <1>7, <1>8, <1>9, <1>10, <1>11, <1>12, <1>13, <1>14,
       <1>15, <1>16
     DEF Next, Producteur, Consommateur

LEMMA InitialementVrai == Init => TypeOK /\ Inv
<1> SUFFICES ASSUME Init PROVE TypeOK /\ Inv
  OBVIOUS
<1> USE TailleHypothese, LongueurHypothese DEF Init
<1>1. TypeOK
  BY DEF TypeOK
<1>2. InvSemaphores
  <2>1. ~ dansP /\ ~ dansC
    BY DEF dansP, dansC
  <2>2. Un(dansP) = 0 /\ Un(dansC) = 0
    BY <2>1 DEF Un
  <2>3. /\ Un(pcP \in {"mutex", "ecrire", "compter", "sortir", "signaler"}) = 0
        /\ Un(pcC \in {"mutex", "lire", "decaler", "decompter", "sortir", "signaler", "consommer"}) = 0
        /\ Un(pcC = "consommer") = 0
    BY DEF Un
  <2> QED
    BY <2>2, <2>3 DEF InvSemaphores
<1>3. places = 0 /\ retires = 0
  BY DEF places, retires
<1>4. InvTampon
  BY <1>3 DEF InvTampon, Un, Char
<1>5. InvProgres
  <2>1. alloue = (pcC # "fini")
    OBVIOUS
  <2> QED
    BY <2>1 DEF InvProgres
<1> QED
  BY <1>1, <1>2, <1>4, <1>5 DEF Inv

(* The invariant holds in every reachable state of a buffer of at most 128
   cells. *)
THEOREM InvariantInductif == ASSUME Taille <= 128 PROVE Spec => [](TypeOK /\ Inv)
<1>1. Init => TypeOK /\ Inv
  BY InitialementVrai
<1>2. (TypeOK /\ Inv) /\ [Next]_vars => (TypeOK /\ Inv)'
  <2> SUFFICES ASSUME TypeOK /\ Inv, [Next]_vars PROVE (TypeOK /\ Inv)'
    OBVIOUS
  <2> QED
    BY Taille <= 128, PasType, PasSemaphores, PasTampon, PasProgres DEF Inv
<1> QED
  BY <1>1, <1>2, PTL DEF Spec

(* The consumer receives the letters of the string in order
   (TP1_correction.c:318-356). *)
THEOREM ReceptionCorrecte == ASSUME Taille <= 128 PROVE Spec => []ReceptionFidele
<1>1. TypeOK /\ Inv => ReceptionFidele
  BY LongueurHypothese DEF TypeOK, Inv, InvProgres, ReceptionFidele
<1> QED
  BY <1>1, InvariantInductif, Taille <= 128, PTL

(* In a buffer of 3 to 128 cells the semaphores exclude the two processes from
   the buffer at the same time, leave a free cell to the producer and a letter to the consumer, and are
   destroyed after their last use (TP1_correction.c:325-330, 347-352,
   395-401).  The bound is needed: see DebordementAuDela. *)
THEOREM AccesCorrect == ASSUME Taille <= 128 PROVE Spec => []AccesSur
<1>1. TypeOK /\ Inv => AccesSur
  <2> SUFFICES ASSUME TypeOK, Inv PROVE AccesSur
    OBVIOUS
  <2>1. ~ (dansP /\ dansC)
    BY Bornes DEF Inv
  <2>2. pcP = "ecrire" => nbElem \in 0 .. Taille - 1
    <3>1. pcP = "ecrire" => places - retires \in 0 .. 127 /\ places - retires < Taille
      BY Taille <= 128, TailleHypothese, Bornes DEF Inv
    <3> QED
      BY <3>1, TailleHypothese, CharExact DEF Inv, InvTampon
  <2>3. pcC \in {"lire", "decaler", "decompter"} => nbElem # 0
    BY Taille <= 128, TailleHypothese, Bornes DEF Inv, InvTampon, Char
  <2>4. ~ alloue => pcP = "fini" /\ pcC = "fini"
    BY DEF Inv, InvProgres
  <2> QED
    BY <2>1, <2>2, <2>3, <2>4 DEF AccesSur, PlaceDansLeTampon
<1> QED
  BY <1>1, InvariantInductif, Taille <= 128, PTL

(* The bound of 128 cells is exact.  In a larger buffer the semaphores let the
   producer in when 128 letters wait, and the char is then -128: addElement
   computes a cell past the end, where lines 125-126 promise up to 255 cells.
   A producer that runs alone comes to this state, with a string long enough. *)
THEOREM DebordementAuDela ==
  ASSUME Taille > 128, Inv, pcP = "ecrire", places - retires = 128
  PROVE  nbElem = -128 /\ Taille - nbElem \notin 1 .. Taille
<1>1. Char(128) = -128
  BY DEF Char
<1> QED
  BY <1>1, TailleHypothese DEF Inv, InvTampon
-----------------------------------------------------------------------------
(* The refinement.  Both programs send the letters 0, 1, 2... of a string:   *)
(* what waits, and what was taken, are segments of that sequence.            *)

Segment(f, a, b) == [k \in 1 .. b - a |-> f[a + k - 1]]

LEMMA Segments ==
  ASSUME NEW f, NEW a \in Nat, NEW b \in Nat, a <= b
  PROVE  /\ Len(Segment(f, a, b)) = b - a
         /\ Segment(f, a, b + 1) = Append(Segment(f, a, b), f[b])
         /\ a < b => /\ Segment(f, a, b) # <<>>
                     /\ Head(Segment(f, a, b)) = f[a]
                     /\ Segment(f, a + 1, b) = Tail(Segment(f, a, b))
<1> DEFINE s == Segment(f, a, b)
           S == {f[i] : i \in Nat}
<1>1. s \in [1 .. b - a -> S]
  BY DEF Segment
<1>2. s \in Seq(S) /\ Len(s) = b - a /\ \A k \in 1 .. b - a : s[k] = f[a + k - 1]
  <2>1. b - a \in Nat
    OBVIOUS
  <2>2. s \in Seq(S)
    BY <1>1, <2>1, SeqDef
  <2>3. DOMAIN s = 1 .. b - a /\ \A k \in 1 .. b - a : s[k] = f[a + k - 1]
    BY DEF Segment
  <2>4. Len(s) = b - a
    BY <2>1, <2>2, <2>3, LenProperties
  <2> QED
    BY <2>2, <2>3, <2>4
<1> HIDE DEF s, S
<1>3. Segment(f, a, b + 1) = Append(s, f[b])
  <2>1. Segment(f, a, b + 1) = [k \in 1 .. b - a + 1 |-> IF k = b - a + 1 THEN f[b] ELSE s[k]]
    <3>1. ASSUME NEW k \in 1 .. b - a + 1
          PROVE  f[a + k - 1] = IF k = b - a + 1 THEN f[b] ELSE s[k]
      <4>1. CASE k = b - a + 1
        <5>1. a + k - 1 = b
          BY <4>1
        <5> QED
          BY <4>1, <5>1
      <4>2. CASE k # b - a + 1
        BY <1>2, <4>2
      <4> QED
        BY <4>1, <4>2
    <3>2. b + 1 - a = b - a + 1
      OBVIOUS
    <3> QED
      BY <3>1, <3>2 DEF Segment
  <2>2. Append(s, f[b]) = [k \in 1 .. Len(s) + 1 |-> IF k = Len(s) + 1 THEN f[b] ELSE s[k]]
    <3>1. s \in Seq(S) /\ f[b] \in S
      BY <1>2 DEF S
    <3>2. /\ Append(s, f[b]) \in Seq(S) /\ Len(Append(s, f[b])) = Len(s) + 1
          /\ \A k \in 1 .. Len(s) : Append(s, f[b])[k] = s[k]
          /\ Append(s, f[b])[Len(s) + 1] = f[b]
      BY <3>1, AppendProperties
    <3>3. Append(s, f[b]) = [k \in 1 .. Len(s) + 1 |-> Append(s, f[b])[k]]
      BY <3>2, LenProperties
    <3> QED
      BY <1>2, <3>2, <3>3
  <2> QED
    BY <1>2, <2>1, <2>2
<1>4. ASSUME a < b PROVE s # <<>> /\ Head(s) = f[a] /\ Segment(f, a + 1, b) = Tail(s)
  <2>1. s # <<>> /\ Head(s) = s[1] /\ s[1] = f[a]
    BY <1>2, <1>4
  <2>2. Tail(s) = [k \in 1 .. Len(s) - 1 |-> s[k + 1]]
    <3>1. /\ Tail(s) \in Seq(S) /\ Len(Tail(s)) = Len(s) - 1
          /\ \A k \in 1 .. Len(Tail(s)) : Tail(s)[k] = s[k + 1]
      BY <1>2, <2>1, HeadTailProperties
    <3>2. Tail(s) = [k \in 1 .. Len(Tail(s)) |-> Tail(s)[k]]
      BY <3>1, LenProperties
    <3> QED
      BY <3>1, <3>2
  <2>3. Segment(f, a + 1, b) = [k \in 1 .. b - a - 1 |-> s[k + 1]]
    BY <1>2 DEF Segment
  <2> QED
    BY <1>2, <2>1, <2>2, <2>3
<1> QED
  BY <1>2, <1>3, <1>4 DEF s

Chaine == [i \in Nat |-> Lettre(i)]

LEMMA ContenuSegment ==
  ASSUME Taille <= 128, Inv
  PROVE  /\ contenu = Segment(Chaine, retires, places)
         /\ sortis = Segment(Chaine, 0, retires)
<1> USE TailleHypothese, LongueurHypothese DEF Inv
<1>1. /\ places \in Nat /\ retires \in Nat /\ places - retires \in 0 .. Taille
      /\ pcC \in {"mutex", "lire", "decaler", "decompter"} => places - retires > 0
      /\ numC \in Nat /\ retires \in {numC, numC + 1}
  BY Bornes DEF TypeOK, retires
<1>2. nbElem % 256 = places - retires
  BY <1>1 DEF InvTampon, Char
<1>3. ASSUME NEW k \in 1 .. places - retires
      PROVE  (IF pcC # "decompter" THEN cases[Taille - k + 1]
              ELSE IF k = 1 THEN c ELSE cases[Taille - k + 2]) = Chaine[retires + k - 1]
  <2>1. Chaine[retires + k - 1] = Lettre(retires + k - 1)
    BY <1>1 DEF Chaine
  <2>2. CASE pcC # "decompter"
    <3>1. Taille - k + 1 \in 1 .. Taille /\ k - 1 \in 0 .. Taille /\ Taille - k + 1 = Taille - (k - 1)
      BY <1>1
    <3>2. cases[Taille - k + 1] = Lettre(retires + (k - 1))
      BY <1>1, <2>2, <3>1 DEF InvTampon, Un
    <3> QED
      BY <1>1, <2>1, <2>2, <3>2
  <2>3. CASE pcC = "decompter" /\ k = 1
    BY <1>1, <2>1, <2>3 DEF InvTampon
  <2>4. CASE pcC = "decompter" /\ k # 1
    <3>1. Taille - k + 2 \in 1 .. Taille /\ k - 2 \in 0 .. Taille /\ Taille - k + 2 = Taille - (k - 2)
      BY <1>1, <2>4
    <3>2. cases[Taille - k + 2] = Lettre(retires + (k - 2) + 1)
      BY <1>1, <2>4, <3>1 DEF InvTampon, Un
    <3> QED
      BY <1>1, <2>1, <2>4, <3>2
  <2> QED
    BY <2>2, <2>3, <2>4
<1>4. contenu = Segment(Chaine, retires, places)
  BY <1>2, <1>3 DEF contenu, Segment
<1>5. ASSUME NEW k \in 1 .. retires
      PROVE  (IF k <= numC THEN chaineRecue[k - 1] ELSE c) = Chaine[0 + k - 1]
  <2>1. Chaine[0 + k - 1] = Lettre(k - 1)
    BY <1>1 DEF Chaine
  <2>2. k <= numC => chaineRecue[k - 1] = Lettre(k - 1)
    BY <1>1 DEF InvProgres
  <2>3. k > numC => k = numC + 1 /\ c = Lettre(numC)
    BY <1>1 DEF InvTampon, retires
  <2> QED
    BY <1>1, <2>1, <2>2, <2>3
<1>6. sortis = Segment(Chaine, 0, retires)
  BY <1>1, <1>5 DEF sortis, Segment
<1> QED
  BY <1>4, <1>6

\* Only the two updates of the count move a letter.
LEMMA Mouvements ==
  ASSUME Inv, [Next]_vars
  PROVE  \/ places' = places /\ retires' = retires
         \/ places' = places + 1 /\ retires' = retires /\ places - retires < Taille /\ places <= Longueur
         \/ places' = places /\ retires' = retires + 1 /\ places - retires > 0
<1> USE DEF Inv, TypeOK, places, retires
<1>1. CASE UNCHANGED vars
  BY <1>1 DEF vars
<1>2. CASE AttendreVide \/ EntrerP \/ Ecrire \/ SortirP \/ SignalerPlein
  BY <1>2 DEF AttendreVide, EntrerP, Ecrire, SortirP, SignalerPlein, varsC
<1>3. CASE Compter
  <2>1. places' = places + 1 /\ retires' = retires /\ places = numP
    BY <1>3 DEF Compter, varsC
  <2>2. places - retires < Taille /\ numP <= Longueur
    BY <1>3, Bornes, LongueurHypothese DEF Compter, InvProgres
  <2> QED
    BY <2>1, <2>2
<1>4. CASE AttendrePlein \/ EntrerC \/ LireCase \/ Decaler \/ SortirC \/ SignalerVide \/ Consommer \/ Liberer
  BY <1>4
     DEF AttendrePlein, EntrerC, LireCase, Decaler, SortirC, SignalerVide, Consommer, Liberer, varsP
<1>5. CASE Decompter
  <2>1. places' = places /\ retires' = retires + 1
    BY <1>5 DEF Decompter, varsP
  <2>2. places - retires > 0
    BY <1>5, Bornes DEF Decompter
  <2> QED
    BY <2>1, <2>2
<1> QED
  BY <1>1, <1>2, <1>3, <1>4, <1>5 DEF Next, Producteur, Consommateur

(* Up to 128 cells, the array, the char count and the three semaphores
   implement the bounded FIFO queue of the comments (TP1_correction.c:120-138):
   the count of letters is updated by Compter and Decompter only, and between
   them the letters waiting are a segment of the string. *)
THEOREM Raffinement == ASSUME Taille <= 128 PROVE Spec => ImplementeFile
<1>1. Init => Abstraite!Init
  <2> SUFFICES ASSUME Init PROVE contenu = <<>> /\ sortis = <<>>
    BY DEF Abstraite!Init
  <2>1. nbElem % 256 = 0 /\ retires = 0
    BY DEF Init, retires
  <2> QED
    BY <2>1 DEF contenu, sortis
<1>2. ASSUME Inv, Inv', [Next]_vars
      PROVE  [Abstraite!Inserer \/ Abstraite!Retirer]_<<contenu, sortis>>
  <2>1. /\ contenu = Segment(Chaine, retires, places) /\ sortis = Segment(Chaine, 0, retires)
        /\ contenu' = Segment(Chaine, retires', places') /\ sortis' = Segment(Chaine, 0, retires')
    <3>1. Inv => contenu = Segment(Chaine, retires, places) /\ sortis = Segment(Chaine, 0, retires)
      BY Taille <= 128, ContenuSegment
    <3>2. (Inv => contenu = Segment(Chaine, retires, places) /\ sortis = Segment(Chaine, 0, retires))'
      BY Taille <= 128, ContenuSegment, PTL
    <3>3. Chaine' = Chaine
      BY DEF Chaine, Lettre
    <3> QED
      BY <1>2, <3>1, <3>2, <3>3 DEF Segment
  <2>2. /\ places \in Nat /\ retires \in Nat /\ retires <= places /\ Chaine \in [Nat -> Nat]
        /\ \A i \in Nat : Chaine[i] = Lettre(i)
    BY <1>2, Bornes, TailleHypothese, LongueurHypothese DEF Inv, Chaine, Lettre
  <2> DEFINE attend == Segment(Chaine, retires, places)
             recu == Segment(Chaine, 0, retires)
  <2>3. /\ Len(attend) = places - retires
        /\ Segment(Chaine, retires, places + 1) = Append(attend, Chaine[places])
        /\ retires < places => /\ attend # <<>>
                               /\ Head(attend) = Chaine[retires]
                               /\ Segment(Chaine, retires + 1, places) = Tail(attend)
    BY <2>2, Segments
  <2>4. Segment(Chaine, 0, retires + 1) = Append(recu, Chaine[retires])
    <3>1. 0 \in Nat /\ 0 <= retires
      BY <2>2
    <3> QED
      BY <2>2, <3>1, Segments
  <2>5. CASE places' = places /\ retires' = retires
    BY <2>1, <2>5
  <2>6. CASE places' = places + 1 /\ retires' = retires /\ places - retires < Taille /\ places <= Longueur
    <3>1. contenu = attend /\ contenu' = Append(attend, Lettre(places)) /\ sortis' = sortis
      BY <2>1, <2>2, <2>3, <2>6
    <3>2. Lettre(places) \in {Lettre(i) : i \in 0 .. Longueur}
      BY <2>2, <2>6
    <3> HIDE DEF attend
    <3> QED
      BY <2>3, <2>6, <3>1, <3>2 DEF Abstraite!Inserer
  <2>7. CASE places' = places /\ retires' = retires + 1 /\ places - retires > 0
    <3>1. retires < places
      BY <2>2, <2>7
    <3>2. contenu = attend /\ attend # <<>> /\ Head(attend) = Chaine[retires] /\ contenu' = Tail(attend)
      BY <2>1, <2>3, <2>7, <3>1
    <3>3. sortis = recu /\ sortis' = Append(recu, Chaine[retires])
      BY <2>1, <2>4, <2>7
    <3> HIDE DEF attend, recu
    <3> QED
      BY <3>2, <3>3 DEF Abstraite!Retirer
  <2> QED
    BY <1>2, <2>5, <2>6, <2>7, Mouvements
<1>3. Spec => []Inv
  BY Taille <= 128, InvariantInductif, PTL
<1> QED
  BY <1>1, <1>2, <1>3, PTL DEF Spec, ImplementeFile, Abstraite!Spec
-----------------------------------------------------------------------------
(* TP2: the two threads, under the name TP2 of their instance.               *)

\* The threads that hold the mutex of TP2_correction.c
enP == producteur \in {"ecrire", "compter", "sortir"}
enC == consommateur \in {"lire", "decaler", "decompter", "ranger", "sortir"}

\* The places of the two threads
EtatsP == {"creer", "vide", "mutex", "ecrire", "compter", "sortir", "signaler", "join", "fin", "mort", "bloque"}
EtatsC == {"absent", "plein", "mutex", "lire", "decaler", "decompter", "ranger", "sortir", "signaler", "fin", "mort"}

InvTypes ==
  /\ programme \in {"correction", "etudiant"} /\ nombreDeTours \in Longueurs /\ suivant \in {0, -1}
  /\ producteur \in EtatsP /\ consommateur \in EtatsC
  /\ semaphore \in [{"plein", "vide", "mutex"} -> Nat]
  /\ bufferCommun \in [0 .. N -> Int]
  /\ element \in Int /\ recue \in [0 .. nombreDeTours - 1 -> Int]
  /\ tourProducteur \in Nat /\ tourConsommateur \in Nat

\* The student's semaphores never move, so that no letter is ever sent.
InvEtudiant == programme = "etudiant" =>
  /\ producteur \in {"creer", "vide", "mutex", "ecrire", "mort"}
  /\ consommateur \in {"absent", "plein", "mort"}
  /\ semaphore["plein"] = 0 /\ semaphore["vide"] = N /\ semaphore["mutex"] = 1
  /\ bufferCommun[0] = 0 /\ tourProducteur = 0 /\ tourConsommateur = 0

\* A thread inside its loop has a turn left.
InvTours == programme = "correction" =>
  /\ tourProducteur <= nombreDeTours /\ tourConsommateur <= nombreDeTours
  /\ producteur \in {"vide", "mutex", "ecrire", "compter", "sortir", "signaler"} => tourProducteur < nombreDeTours
  /\ consommateur \in {"plein", "mutex", "lire", "decaler", "decompter", "ranger", "sortir", "signaler"}
       => tourConsommateur < nombreDeTours
  /\ producteur = "creer" => tourProducteur = 0 /\ consommateur = "absent"
  /\ consommateur = "absent" => tourConsommateur = 0

\* The semaphores count what they are meant to count.
InvSem == programme = "correction" =>
  /\ semaphore["mutex"] = 1 - Un(enP) - Un(enC)
  /\ semaphore["vide"] = N - (tourProducteur - tourConsommateur)
       - Un(producteur \in {"mutex", "ecrire", "compter", "sortir", "signaler"})
  /\ semaphore["plein"] = tourProducteur - tourConsommateur
       - Un(consommateur \in {"mutex", "lire", "decaler", "decompter", "ranger", "sortir", "signaler"})

\* The cells hold the letters sent and not yet taken, one step late in Decompter.
InvLettres == programme = "correction" =>
  /\ bufferCommun[0] = TP2!mis - TP2!pris
  /\ \A i \in 1 .. N : \A k \in 0 .. N :
       (i = N - k /\ k < TP2!mis - TP2!pris - Un(consommateur = "decompter"))
         => bufferCommun[i] = TP2!Lettre(TP2!pris + k + Un(consommateur = "decompter"))
  /\ producteur = "compter" => bufferCommun[N - (TP2!mis - TP2!pris)] = TP2!Lettre(tourProducteur)
  /\ consommateur \in {"decaler", "decompter", "ranger"} => element = TP2!Lettre(tourConsommateur)

\* What was received is a prefix of the string.
InvRecue == programme = "correction" =>
  /\ \A tour \in 0 .. tourConsommateur - 1 : recue[tour] = TP2!Lettre(tour)
  /\ consommateur \in {"sortir", "signaler"} => recue[tourConsommateur] = TP2!Lettre(tourConsommateur)

\* The inductive invariant of the two threads
InvTP2 == InvTypes /\ InvEtudiant /\ InvTours /\ InvSem /\ InvLettres /\ InvRecue

\* The semaphores leave a cell to the producer and a letter to the consumer.
LEMMA BornesThreads ==
  ASSUME InvTypes, InvSem, programme = "correction"
  PROVE  /\ TP2!mis \in Nat /\ TP2!pris \in Nat /\ TP2!mis - TP2!pris \in 0 .. N
         /\ producteur \in {"mutex", "ecrire", "compter"} => TP2!mis - TP2!pris < N
         /\ consommateur \in {"mutex", "lire", "decaler", "decompter"} => TP2!mis - TP2!pris > 0
         /\ ~ (enP /\ enC)
<1>1. semaphore["mutex"] \in Nat /\ semaphore["vide"] \in Nat /\ semaphore["plein"] \in Nat
  BY DEF InvTypes
<1> QED
  BY <1>1, NHypothese DEF InvTypes, InvSem, TP2!mis, TP2!pris, Un, enP, enC, EtatsP, EtatsC

\* Types: the tables keep their cells.
LEMMA TypesThreads ==
  ASSUME InvTP2, [TP2!Next]_TP2!vars
  PROVE  InvTypes'
<1> USE NHypothese, LongueursHypothese
   DEF InvTP2, TP2!AvanceP, TP2!AvanceC, TP2!Inchanges, TP2!memoire, InvTypes, InvTours, EtatsP,
       EtatsC, TP2!Lettre
<1>1. CASE UNCHANGED TP2!vars
  BY <1>1 DEF TP2!vars
<1>2. CASE TP2!Creer
  BY <1>2 DEF TP2!Creer, TP2!Produire, TP2!Consommer, TP2!Encore
<1>3. CASE TP2!PrendreVide
  BY <1>3 DEF TP2!PrendreVide, TP2!P
<1>4. CASE TP2!EntrerP
  BY <1>4 DEF TP2!EntrerP, TP2!P
<1>5. CASE TP2!AddElement
  <2>1. bufferCommun' \in [0 .. N -> Int]
    <3>1. TP2!Lettre(tourProducteur) \in Int
      BY DEF InvTypes, TP2!Lettre
    <3> QED
      BY <1>5, <3>1 DEF TP2!AddElement, InvTypes
  <2> QED
    BY <1>5, <2>1 DEF TP2!AddElement, TP2!AvanceP, TP2!Inchanges, InvTypes, EtatsP
<1>6. CASE TP2!AddElementEtudiant
  BY <1>6 DEF TP2!AddElementEtudiant
<1>7. CASE TP2!Compter
  BY <1>7 DEF TP2!Compter
<1>8. CASE TP2!SortirP
  BY <1>8 DEF TP2!SortirP, TP2!V
<1>9. CASE TP2!SignalerPlein
  BY <1>9 DEF TP2!SignalerPlein, TP2!V, TP2!Produire, TP2!Encore
<1>10. CASE TP2!Joindre
  BY <1>10 DEF TP2!Joindre
<1>11. CASE TP2!JoindreRien
  BY <1>11 DEF TP2!JoindreRien
<1>12. CASE TP2!PrendrePlein
  BY <1>12 DEF TP2!PrendrePlein, TP2!P
<1>13. CASE TP2!EntrerC
  BY <1>13 DEF TP2!EntrerC, TP2!P
<1>14. CASE TP2!LireCase
  BY <1>14 DEF TP2!LireCase
<1>15. CASE TP2!Decaler
  BY <1>15 DEF TP2!Decaler
<1>16. CASE TP2!Decompter
  BY <1>16 DEF TP2!Decompter
<1>17. CASE TP2!Ranger
  BY <1>17 DEF TP2!Ranger
<1>18. CASE TP2!SortirC
  BY <1>18 DEF TP2!SortirC, TP2!V
<1>19. CASE TP2!SignalerVide
  BY <1>19 DEF TP2!SignalerVide, TP2!V, TP2!Consommer, TP2!Encore
<1> QED
  BY <1>1, <1>2, <1>3, <1>4, <1>5, <1>6, <1>7, <1>8, <1>9, <1>10, <1>11, <1>12, <1>13, <1>14,
       <1>15, <1>16, <1>17, <1>18, <1>19
     DEF TP2!Next, TP2!Producteur, TP2!Consommateur

\* The student's threads never get past the first letter.
LEMMA EtudiantThreads ==
  ASSUME InvTP2, [TP2!Next]_TP2!vars
  PROVE  InvEtudiant'
<1> USE NHypothese
   DEF InvTP2, TP2!AvanceP, TP2!AvanceC, TP2!Inchanges, TP2!memoire, InvTypes, InvEtudiant
<1>1. CASE UNCHANGED TP2!vars
  BY <1>1 DEF TP2!vars
<1>2. CASE TP2!Creer
  BY <1>2 DEF TP2!Creer, TP2!Produire, TP2!Consommer, TP2!Encore
<1>3. CASE TP2!PrendreVide
  BY <1>3 DEF TP2!PrendreVide, TP2!P
<1>4. CASE TP2!EntrerP
  BY <1>4 DEF TP2!EntrerP, TP2!P
<1>5. CASE TP2!AddElement
  BY <1>5 DEF TP2!AddElement
<1>6. CASE TP2!AddElementEtudiant
  BY <1>6 DEF TP2!AddElementEtudiant
<1>7. CASE TP2!Compter
  BY <1>7 DEF TP2!Compter
<1>8. CASE TP2!SortirP
  BY <1>8 DEF TP2!SortirP, TP2!V
<1>9. CASE TP2!SignalerPlein
  BY <1>9 DEF TP2!SignalerPlein, TP2!V, TP2!Produire, TP2!Encore
<1>10. CASE TP2!Joindre
  BY <1>10 DEF TP2!Joindre
<1>11. CASE TP2!JoindreRien
  BY <1>11 DEF TP2!JoindreRien
<1>12. CASE TP2!PrendrePlein
  BY <1>12 DEF TP2!PrendrePlein, TP2!P
<1>13. CASE TP2!EntrerC
  BY <1>13 DEF TP2!EntrerC, TP2!P
<1>14. CASE TP2!LireCase
  BY <1>14 DEF TP2!LireCase
<1>15. CASE TP2!Decaler
  BY <1>15 DEF TP2!Decaler
<1>16. CASE TP2!Decompter
  BY <1>16 DEF TP2!Decompter
<1>17. CASE TP2!Ranger
  BY <1>17 DEF TP2!Ranger
<1>18. CASE TP2!SortirC
  BY <1>18 DEF TP2!SortirC, TP2!V
<1>19. CASE TP2!SignalerVide
  BY <1>19 DEF TP2!SignalerVide, TP2!V, TP2!Consommer, TP2!Encore
<1> QED
  BY <1>1, <1>2, <1>3, <1>4, <1>5, <1>6, <1>7, <1>8, <1>9, <1>10, <1>11, <1>12, <1>13, <1>14,
       <1>15, <1>16, <1>17, <1>18, <1>19
     DEF TP2!Next, TP2!Producteur, TP2!Consommateur

\* The two loops stop at the length of the string.
LEMMA ToursThreads ==
  ASSUME InvTP2, [TP2!Next]_TP2!vars
  PROVE  InvTours'
<1> USE LongueursHypothese
   DEF InvTP2, TP2!AvanceP, TP2!AvanceC, TP2!Inchanges, TP2!memoire, InvTypes, InvTours
<1>1. CASE UNCHANGED TP2!vars
  BY <1>1 DEF TP2!vars
<1>2. CASE TP2!Creer
  BY <1>2 DEF TP2!Creer, TP2!Produire, TP2!Consommer, TP2!Encore
<1>3. CASE TP2!PrendreVide
  BY <1>3 DEF TP2!PrendreVide, TP2!P
<1>4. CASE TP2!EntrerP
  BY <1>4 DEF TP2!EntrerP, TP2!P
<1>5. CASE TP2!AddElement
  BY <1>5 DEF TP2!AddElement
<1>6. CASE TP2!AddElementEtudiant
  BY <1>6 DEF TP2!AddElementEtudiant
<1>7. CASE TP2!Compter
  BY <1>7 DEF TP2!Compter
<1>8. CASE TP2!SortirP
  BY <1>8 DEF TP2!SortirP, TP2!V
<1>9. CASE TP2!SignalerPlein
  BY <1>9 DEF TP2!SignalerPlein, TP2!V, TP2!Produire, TP2!Encore
<1>10. CASE TP2!Joindre
  BY <1>10 DEF TP2!Joindre
<1>11. CASE TP2!JoindreRien
  BY <1>11 DEF TP2!JoindreRien
<1>12. CASE TP2!PrendrePlein
  BY <1>12 DEF TP2!PrendrePlein, TP2!P
<1>13. CASE TP2!EntrerC
  BY <1>13 DEF TP2!EntrerC, TP2!P
<1>14. CASE TP2!LireCase
  BY <1>14 DEF TP2!LireCase
<1>15. CASE TP2!Decaler
  BY <1>15 DEF TP2!Decaler
<1>16. CASE TP2!Decompter
  BY <1>16 DEF TP2!Decompter
<1>17. CASE TP2!Ranger
  BY <1>17 DEF TP2!Ranger
<1>18. CASE TP2!SortirC
  BY <1>18 DEF TP2!SortirC, TP2!V
<1>19. CASE TP2!SignalerVide
  BY <1>19 DEF TP2!SignalerVide, TP2!V, TP2!Consommer, TP2!Encore
<1> QED
  BY <1>1, <1>2, <1>3, <1>4, <1>5, <1>6, <1>7, <1>8, <1>9, <1>10, <1>11, <1>12, <1>13, <1>14,
       <1>15, <1>16, <1>17, <1>18, <1>19
     DEF TP2!Next, TP2!Producteur, TP2!Consommateur

\* The semaphores count what they are meant to count.
LEMMA SemThreads ==
  ASSUME InvTP2, [TP2!Next]_TP2!vars
  PROVE  InvSem'
<1> USE NHypothese
   DEF InvTP2, TP2!AvanceP, TP2!AvanceC, TP2!Inchanges, TP2!memoire, InvTypes, InvTours, InvSem,
       enP, enC, Un
<1>1. CASE UNCHANGED TP2!vars
  BY <1>1 DEF TP2!vars
<1>2. CASE TP2!Creer
  BY <1>2 DEF TP2!Creer, TP2!Produire, TP2!Consommer, TP2!Encore
<1>3. CASE TP2!PrendreVide
  BY <1>3 DEF TP2!PrendreVide, TP2!P
<1>4. CASE TP2!EntrerP
  BY <1>4 DEF TP2!EntrerP, TP2!P
<1>5. CASE TP2!AddElement
  BY <1>5 DEF TP2!AddElement
<1>6. CASE TP2!AddElementEtudiant
  BY <1>6 DEF TP2!AddElementEtudiant
<1>7. CASE TP2!Compter
  BY <1>7 DEF TP2!Compter
<1>8. CASE TP2!SortirP
  BY <1>8 DEF TP2!SortirP, TP2!V
<1>9. CASE TP2!SignalerPlein
  BY <1>9 DEF TP2!SignalerPlein, TP2!V, TP2!Produire, TP2!Encore
<1>10. CASE TP2!Joindre
  BY <1>10 DEF TP2!Joindre
<1>11. CASE TP2!JoindreRien
  BY <1>11 DEF TP2!JoindreRien
<1>12. CASE TP2!PrendrePlein
  BY <1>12 DEF TP2!PrendrePlein, TP2!P
<1>13. CASE TP2!EntrerC
  BY <1>13 DEF TP2!EntrerC, TP2!P
<1>14. CASE TP2!LireCase
  BY <1>14 DEF TP2!LireCase
<1>15. CASE TP2!Decaler
  BY <1>15 DEF TP2!Decaler
<1>16. CASE TP2!Decompter
  BY <1>16 DEF TP2!Decompter
<1>17. CASE TP2!Ranger
  BY <1>17 DEF TP2!Ranger
<1>18. CASE TP2!SortirC
  BY <1>18 DEF TP2!SortirC, TP2!V
<1>19. CASE TP2!SignalerVide
  BY <1>19 DEF TP2!SignalerVide, TP2!V, TP2!Consommer, TP2!Encore
<1> QED
  BY <1>1, <1>2, <1>3, <1>4, <1>5, <1>6, <1>7, <1>8, <1>9, <1>10, <1>11, <1>12, <1>13, <1>14,
       <1>15, <1>16, <1>17, <1>18, <1>19
     DEF TP2!Next, TP2!Producteur, TP2!Consommateur

\* What was received is a prefix of the string.
LEMMA RecueThreads ==
  ASSUME InvTP2, [TP2!Next]_TP2!vars
  PROVE  InvRecue'
<1> USE LongueursHypothese
   DEF InvTP2, TP2!AvanceP, TP2!AvanceC, TP2!Inchanges, TP2!memoire, InvTypes, InvTours,
       InvLettres, InvRecue, TP2!Lettre
<1>1. CASE UNCHANGED TP2!vars
  BY <1>1 DEF TP2!vars
<1>2. CASE TP2!Creer
  BY <1>2 DEF TP2!Creer, TP2!Produire, TP2!Consommer, TP2!Encore
<1>3. CASE TP2!PrendreVide
  BY <1>3 DEF TP2!PrendreVide, TP2!P
<1>4. CASE TP2!EntrerP
  BY <1>4 DEF TP2!EntrerP, TP2!P
<1>5. CASE TP2!AddElement
  BY <1>5 DEF TP2!AddElement
<1>6. CASE TP2!AddElementEtudiant
  BY <1>6 DEF TP2!AddElementEtudiant
<1>7. CASE TP2!Compter
  BY <1>7 DEF TP2!Compter
<1>8. CASE TP2!SortirP
  BY <1>8 DEF TP2!SortirP, TP2!V
<1>9. CASE TP2!SignalerPlein
  BY <1>9 DEF TP2!SignalerPlein, TP2!V, TP2!Produire, TP2!Encore
<1>10. CASE TP2!Joindre
  BY <1>10 DEF TP2!Joindre
<1>11. CASE TP2!JoindreRien
  BY <1>11 DEF TP2!JoindreRien
<1>12. CASE TP2!PrendrePlein
  BY <1>12 DEF TP2!PrendrePlein, TP2!P
<1>13. CASE TP2!EntrerC
  BY <1>13 DEF TP2!EntrerC, TP2!P
<1>14. CASE TP2!LireCase
  BY <1>14 DEF TP2!LireCase
<1>15. CASE TP2!Decaler
  BY <1>15 DEF TP2!Decaler
<1>16. CASE TP2!Decompter
  BY <1>16 DEF TP2!Decompter
<1>17. CASE TP2!Ranger
  BY <1>17 DEF TP2!Ranger
<1>18. CASE TP2!SortirC
  BY <1>18 DEF TP2!SortirC, TP2!V
<1>19. CASE TP2!SignalerVide
  BY <1>19 DEF TP2!SignalerVide, TP2!V, TP2!Consommer, TP2!Encore
<1> QED
  BY <1>1, <1>2, <1>3, <1>4, <1>5, <1>6, <1>7, <1>8, <1>9, <1>10, <1>11, <1>12, <1>13, <1>14,
       <1>15, <1>16, <1>17, <1>18, <1>19
     DEF TP2!Next, TP2!Producteur, TP2!Consommateur

\* The cells hold the letters between the taken and the put ones.
LEMMA LettresThreads ==
  ASSUME InvTP2, [TP2!Next]_TP2!vars
  PROVE  InvLettres'
<1> USE NHypothese, BornesThreads DEF InvTP2, TP2!AvanceP, TP2!AvanceC, TP2!Inchanges, TP2!memoire
<1>1. CASE UNCHANGED TP2!vars
  BY <1>1 DEF TP2!vars, InvTypes, InvLettres, TP2!mis, TP2!pris, Un, enP, enC
<1>2. CASE TP2!Creer
  <2> SUFFICES ASSUME programme = "correction" PROVE InvLettres'
    BY <1>2 DEF TP2!Creer, InvLettres
  <2>1. /\ consommateur = "absent" /\ producteur = "creer"
        /\ consommateur' \in {"plein", "fin", "absent"} /\ producteur' \in {"vide", "join"}
        /\ UNCHANGED <<programme, bufferCommun, element, tourProducteur, tourConsommateur>>
    BY <1>2 DEF TP2!Creer, TP2!Produire, TP2!Consommer, TP2!Encore, TP2!memoire, InvTours
  <2>2. TP2!mis' = TP2!mis /\ TP2!pris' = TP2!pris
    BY <2>1 DEF TP2!mis, TP2!pris
  <2> QED
    BY <2>1, <2>2 DEF InvLettres, Un
<1>3. CASE TP2!PrendreVide
  BY <1>3 DEF TP2!PrendreVide, TP2!P, InvTypes, InvLettres, TP2!mis, TP2!pris, Un, enP, enC
<1>4. CASE TP2!EntrerP
  BY <1>4 DEF TP2!EntrerP, TP2!P, InvTypes, InvLettres, TP2!mis, TP2!pris, Un, enP, enC
<1>5. CASE TP2!AddElement
  <2>1. /\ programme = "correction" /\ producteur = "ecrire" /\ producteur' = "compter"
        /\ bufferCommun' = [bufferCommun EXCEPT ![N - (TP2!mis - TP2!pris)] = TP2!Lettre(tourProducteur)]
        /\ UNCHANGED <<programme, consommateur, element, tourProducteur, tourConsommateur>>
    BY <1>5 DEF TP2!AddElement, TP2!AvanceP, TP2!Inchanges, InvLettres
  <2>2. TP2!mis' = TP2!mis /\ TP2!pris' = TP2!pris /\ TP2!mis \in Nat /\ TP2!pris \in Nat /\ TP2!mis - TP2!pris \in 0 .. N - 1
    BY <2>1 DEF TP2!mis, TP2!pris
  <2>3. /\ bufferCommun'[N - (TP2!mis - TP2!pris)] = TP2!Lettre(tourProducteur) /\ bufferCommun'[0] = bufferCommun[0]
        /\ \A i \in 1 .. N : i # N - (TP2!mis - TP2!pris) => bufferCommun'[i] = bufferCommun[i]
    BY <2>1, <2>2 DEF InvTypes
  <2>4. consommateur \notin {"lire", "decaler", "decompter", "ranger", "sortir"}
    BY <2>1 DEF enP, enC
  <2>5. ASSUME NEW i \in 1 .. N, NEW k \in 0 .. N, i = N - k, k < TP2!mis - TP2!pris
        PROVE  bufferCommun'[i] = TP2!Lettre(TP2!pris + k)
    <3>1. i # N - (TP2!mis - TP2!pris)
      BY <2>2, <2>5
    <3> QED
      BY <2>1, <2>3, <2>4, <2>5, <3>1 DEF InvLettres, Un
  <2> QED
    BY <2>1, <2>2, <2>3, <2>4, <2>5 DEF InvLettres, Un
<1>6. CASE TP2!AddElementEtudiant
  BY <1>6 DEF TP2!AddElementEtudiant, InvTypes, InvLettres, TP2!mis, TP2!pris, Un, enP, enC
<1>7. CASE TP2!Compter
  <2> SUFFICES ASSUME programme = "correction" PROVE InvLettres'
    BY <1>7 DEF TP2!Compter, TP2!AvanceP, TP2!Inchanges, InvLettres
  <2>1. /\ producteur = "compter" /\ producteur' = "sortir"
        /\ bufferCommun'[0] = bufferCommun[0] + 1 /\ \A i \in 1 .. N : bufferCommun'[i] = bufferCommun[i]
        /\ UNCHANGED <<programme, consommateur, element, tourProducteur, tourConsommateur>>
    BY <1>7 DEF TP2!Compter, TP2!AvanceP, TP2!Inchanges, InvTypes
  <2>2. /\ TP2!mis' = TP2!mis + 1 /\ TP2!pris' = TP2!pris /\ TP2!mis = tourProducteur
        /\ TP2!mis \in Nat /\ TP2!pris \in Nat /\ TP2!mis - TP2!pris \in 0 .. N - 1
    BY <2>1 DEF TP2!mis, TP2!pris, InvTypes
  <2>3. /\ bufferCommun'[0] = TP2!mis' - TP2!pris'
        /\ \A i \in 1 .. N : bufferCommun'[i] = bufferCommun[i]
    BY <2>1, <2>2 DEF InvTypes, InvLettres
  <2>4. consommateur \notin {"lire", "decaler", "decompter", "ranger", "sortir"}
    BY <2>1 DEF enP, enC
  <2>5. ASSUME NEW i \in 1 .. N, NEW k \in 0 .. N, i = N - k, k < TP2!mis - TP2!pris + 1
        PROVE  bufferCommun[i] = TP2!Lettre(TP2!pris + k)
    <3>1. CASE k < TP2!mis - TP2!pris
      BY <2>4, <2>5, <3>1 DEF InvLettres, Un
    <3>2. CASE k = TP2!mis - TP2!pris
      BY <2>1, <2>2, <2>5, <3>2 DEF InvLettres
    <3> QED
      BY <2>2, <2>5, <3>1, <3>2
  <2> QED
    BY <2>1, <2>2, <2>3, <2>4, <2>5 DEF InvLettres, Un
<1>8. CASE TP2!SortirP
  BY <1>8 DEF TP2!SortirP, TP2!V, InvTypes, InvLettres, TP2!mis, TP2!pris, Un, enP, enC
<1>9. CASE TP2!SignalerPlein
  BY <1>9
     DEF TP2!SignalerPlein, TP2!V, TP2!Produire, TP2!Encore, InvTypes, InvLettres, TP2!mis,
         TP2!pris, Un, enP, enC
<1>10. CASE TP2!Joindre
  BY <1>10 DEF TP2!Joindre, InvTypes, InvLettres, TP2!mis, TP2!pris, Un, enP, enC
<1>11. CASE TP2!JoindreRien
  BY <1>11 DEF TP2!JoindreRien, InvTypes, InvLettres, TP2!mis, TP2!pris, Un, enP, enC
<1>12. CASE TP2!PrendrePlein
  BY <1>12 DEF TP2!PrendrePlein, TP2!P, InvTypes, InvLettres, TP2!mis, TP2!pris, Un, enP, enC
<1>13. CASE TP2!EntrerC
  BY <1>13 DEF TP2!EntrerC, TP2!P, InvTypes, InvLettres, TP2!mis, TP2!pris, Un, enP, enC
<1>14. CASE TP2!LireCase
  BY <1>14 DEF TP2!LireCase, InvTypes, InvLettres, TP2!mis, TP2!pris, Un, enP, enC
<1>15. CASE TP2!Decaler
  <2> SUFFICES ASSUME programme = "correction" PROVE InvLettres'
    BY <1>15 DEF TP2!Decaler, TP2!AvanceC, TP2!Inchanges, InvLettres
  <2>1. /\ consommateur = "decaler" /\ consommateur' = "decompter"
        /\ bufferCommun' = [i \in 0 .. N |-> IF i > 1 THEN bufferCommun[i - 1] ELSE bufferCommun[i]]
        /\ UNCHANGED <<programme, producteur, element, tourProducteur, tourConsommateur>>
    BY <1>15 DEF TP2!Decaler, TP2!AvanceC, TP2!Inchanges
  <2>2. TP2!mis' = TP2!mis /\ TP2!pris' = TP2!pris /\ TP2!mis \in Nat /\ TP2!pris \in Nat /\ TP2!mis - TP2!pris \in 1 .. N
    BY <2>1 DEF TP2!mis, TP2!pris
  <2>3. bufferCommun'[0] = bufferCommun[0]
    BY <2>1
  <2>4. producteur \notin {"ecrire", "compter", "sortir"}
    BY <2>1 DEF enP, enC
  <2>5. ASSUME NEW i \in 1 .. N, NEW k \in 0 .. N, i = N - k, k < TP2!mis - TP2!pris - 1
        PROVE  bufferCommun'[i] = TP2!Lettre(TP2!pris + k + 1)
    <3>1. i - 1 \in 1 .. N /\ k + 1 \in 0 .. N /\ i - 1 = N - (k + 1) /\ k + 1 < TP2!mis - TP2!pris
      BY <2>2, <2>5
    <3>2. bufferCommun[i - 1] = TP2!Lettre(TP2!pris + (k + 1))
      <4>1. \A j \in 1 .. N : \A l \in 0 .. N :
              j = N - l /\ l < TP2!mis - TP2!pris => bufferCommun[j] = TP2!Lettre(TP2!pris + l)
        BY <2>1, <2>2 DEF InvLettres, Un
      <4> QED
        BY <3>1, <4>1
    <3>3. bufferCommun'[i] = bufferCommun[i - 1]
      BY <2>1, <3>1
    <3> QED
      BY <2>2, <3>2, <3>3
  <2> QED
    BY <2>1, <2>2, <2>3, <2>4, <2>5 DEF InvLettres, Un
<1>16. CASE TP2!Decompter
  BY <1>16 DEF TP2!Decompter, InvTypes, InvLettres, TP2!mis, TP2!pris, Un, enP, enC
<1>17. CASE TP2!Ranger
  BY <1>17 DEF TP2!Ranger, InvTypes, InvLettres, TP2!mis, TP2!pris, Un, enP, enC
<1>18. CASE TP2!SortirC
  BY <1>18 DEF TP2!SortirC, TP2!V, InvTypes, InvLettres, TP2!mis, TP2!pris, Un, enP, enC
<1>19. CASE TP2!SignalerVide
  BY <1>19
     DEF TP2!SignalerVide, TP2!V, TP2!Consommer, TP2!Encore, InvTypes, InvLettres, TP2!mis,
         TP2!pris, Un, enP, enC
<1> QED
  BY <1>1, <1>2, <1>3, <1>4, <1>5, <1>6, <1>7, <1>8, <1>9, <1>10, <1>11, <1>12, <1>13, <1>14,
       <1>15, <1>16, <1>17, <1>18, <1>19
     DEF TP2!Next, TP2!Producteur, TP2!Consommateur

LEMMA InitThreads == TP2!Init => InvTP2
<1> SUFFICES ASSUME TP2!Init PROVE InvTP2
  OBVIOUS
<1> USE NHypothese, LongueursHypothese DEF TP2!Init
<1>1. TP2!mis = 0 /\ TP2!pris = 0
  BY DEF TP2!mis, TP2!pris
<1>2. /\ semaphore \in [{"plein", "vide", "mutex"} -> Nat]
      /\ semaphore["plein"] = 0 /\ semaphore["vide"] = N /\ semaphore["mutex"] = 1
  OBVIOUS
<1>3. InvTypes /\ InvEtudiant /\ InvTours
  BY <1>2 DEF InvTypes, EtatsP, EtatsC, InvEtudiant, InvTours
<1>4. InvSem
  <2>1. Un(enP) = 0 /\ Un(enC) = 0
    BY DEF enP, enC, Un
  <2>2. /\ Un(producteur \in {"mutex", "ecrire", "compter", "sortir", "signaler"}) = 0
        /\ Un(consommateur \in {"mutex", "lire", "decaler", "decompter", "ranger", "sortir", "signaler"}) = 0
    BY DEF Un
  <2> QED
    BY <1>2, <2>1, <2>2 DEF InvSem
<1>5. InvLettres /\ InvRecue
  BY <1>1 DEF InvLettres, InvRecue, Un
<1> QED
  BY <1>3, <1>4, <1>5 DEF InvTP2

LEMMA InvariantThreads == TP2!Spec => []InvTP2
<1>1. InvTP2 /\ [TP2!Next]_TP2!vars => InvTP2'
  <2> SUFFICES ASSUME InvTP2, [TP2!Next]_TP2!vars PROVE InvTP2'
    OBVIOUS
  <2> QED
    BY TypesThreads, EtudiantThreads, ToursThreads, SemThreads, LettresThreads, RecueThreads
       DEF InvTP2
<1> QED
  BY <1>1, InitThreads, PTL DEF TP2!Spec

(* Whatever the interleaving of the two threads, a letter is kept for every
   unit of plein and a free cell for every unit of vide, one thread at a time
   holds the mutex, the table displayed under it shows the letters sent and
   not yet taken, and the letters received are those sent; the student's
   version never sends one (TP2_correction.c:214-286, TP2_thread.c:92). *)
THEOREM ThreadsCorrects == TP2!Spec => []InvThreads
<1>1. InvTP2 => InvThreads
  <2> SUFFICES ASSUME InvTP2 PROVE InvThreads
    OBVIOUS
  <2> USE NHypothese, LongueursHypothese DEF InvTP2
  <2>1. TP2!TypeOK
    <3>1. semaphore \in [{"plein", "vide", "mutex"} -> 0 .. N + 1]
      <4>1. CASE programme = "etudiant"
        <5>1. semaphore["mutex"] <= N + 1 /\ semaphore["vide"] <= N + 1 /\ semaphore["plein"] <= N + 1
          BY <4>1 DEF InvEtudiant
        <5> QED
          BY <5>1 DEF InvTypes
      <4>2. CASE programme = "correction"
        <5>1. semaphore["mutex"] <= N + 1 /\ semaphore["vide"] <= N + 1 /\ semaphore["plein"] <= N + 1
          BY <4>2, BornesThreads DEF InvTypes, InvSem, TP2!mis, TP2!pris, Un, enP, enC
        <5> QED
          BY <5>1 DEF InvTypes
      <4> QED
        BY <4>1, <4>2 DEF InvTypes
    <3>2. nombreDeTours \in Nat /\ tourProducteur \in 0 .. nombreDeTours /\ tourConsommateur \in 0 .. nombreDeTours
      BY DEF InvTypes, InvEtudiant, InvTours
    <3> QED
      BY <3>1, <3>2 DEF InvTypes, TP2!TypeOK
  <2>2. TP2!AffichageExact
    <3> SUFFICES ASSUME producteur = "sortir" \/ consommateur = "sortir" PROVE TP2!Affichage = TP2!EnAttente
      BY DEF TP2!AffichageExact
    <3>1. programme = "correction"
      BY DEF InvTypes, InvEtudiant
    <3>2. TP2!mis \in Nat /\ TP2!pris \in Nat /\ TP2!mis - TP2!pris \in 0 .. N /\ consommateur # "decompter"
      BY <3>1, BornesThreads DEF enP, enC
    <3>3. ASSUME NEW i \in 1 .. N, i > N - (TP2!mis - TP2!pris)
          PROVE  bufferCommun[i] = TP2!Lettre(TP2!pris + N - i)
      <4>1. N - i \in 0 .. N /\ i = N - (N - i) /\ N - i < TP2!mis - TP2!pris
        BY <3>2, <3>3
      <4>2. bufferCommun[i] = TP2!Lettre(TP2!pris + (N - i))
        BY <3>1, <3>2, <4>1 DEF InvLettres, Un
      <4> QED
        BY <3>2, <4>2
    <3>4. bufferCommun[0] = TP2!mis - TP2!pris
      BY <3>1 DEF InvLettres
    <3> QED
      BY <3>2, <3>3, <3>4 DEF TP2!Affichage, TP2!EnAttente
  <2>3. TP2!Comptes
    <3> SUFFICES ASSUME programme = "correction"
                 PROVE  /\ semaphore["mutex"] + (IF enP THEN 1 ELSE 0) + (IF enC THEN 1 ELSE 0) = 1
                        /\ semaphore["plein"] <= bufferCommun[0] /\ semaphore["vide"] <= N - bufferCommun[0]
                        /\ \A tour \in 0 .. tourConsommateur - 1 : recue[tour] = TP2!Lettre(tour)
      BY DEF TP2!Comptes, enP, enC
    <3>1. semaphore["mutex"] + (IF enP THEN 1 ELSE 0) + (IF enC THEN 1 ELSE 0) = 1
      BY DEF InvSem, Un
    <3>2. semaphore["plein"] <= bufferCommun[0] /\ semaphore["vide"] <= N - bufferCommun[0]
      BY DEF InvTypes, InvSem, InvLettres, TP2!mis, TP2!pris, Un
    <3> QED
      BY <3>1, <3>2 DEF InvRecue
  <2> QED
    BY <2>1, <2>2, <2>3 DEF InvThreads, TP2!InvThreads
<1> QED
  BY <1>1, InvariantThreads, PTL
-----------------------------------------------------------------------------
(* The refinement of TP2, along the same line: what waits, and what was      *)
(* taken, are segments of the letters sent.                                  *)

ChaineThreads == [i \in Nat |-> TP2!Lettre(i)]

LEMMA ContenuThreads ==
  ASSUME InvTP2
  PROVE  /\ TP2!file = Segment(ChaineThreads, TP2!pris, TP2!mis)
         /\ TP2!sorties = Segment(ChaineThreads, 0, TP2!pris)
         /\ TP2!mis \in Nat /\ TP2!pris \in Nat /\ TP2!pris <= TP2!mis
         /\ bufferCommun[0] = TP2!mis - TP2!pris
<1> USE NHypothese DEF InvTP2
<1>1. CASE programme = "etudiant"
  <2>1. TP2!mis = 0 /\ TP2!pris = 0 /\ bufferCommun[0] = 0
    BY <1>1 DEF InvEtudiant, TP2!mis, TP2!pris
  <2> QED
    BY <2>1 DEF TP2!file, TP2!sorties, Segment
<1>2. CASE programme = "correction"
  <2>1. /\ TP2!mis \in Nat /\ TP2!pris \in Nat /\ TP2!mis - TP2!pris \in 0 .. N
        /\ consommateur \in {"mutex", "lire", "decaler", "decompter"} => TP2!mis - TP2!pris > 0
        /\ tourConsommateur \in Nat
        /\ TP2!pris = tourConsommateur + (IF consommateur \in {"ranger", "sortir", "signaler"} THEN 1 ELSE 0)
        /\ bufferCommun[0] = TP2!mis - TP2!pris
    BY <1>2, BornesThreads DEF InvTypes, InvLettres, TP2!pris
  <2>2. ASSUME NEW k \in 1 .. TP2!mis - TP2!pris
        PROVE  (IF consommateur # "decompter" THEN bufferCommun[N - k + 1]
                ELSE IF k = 1 THEN element ELSE bufferCommun[N - k + 2]) = ChaineThreads[TP2!pris + k - 1]
    <3>1. ChaineThreads[TP2!pris + k - 1] = TP2!Lettre(TP2!pris + k - 1)
      BY <2>1 DEF ChaineThreads
    <3>2. CASE consommateur # "decompter"
      <4>1. N - k + 1 \in 1 .. N /\ k - 1 \in 0 .. N /\ N - k + 1 = N - (k - 1)
        BY <2>1
      <4>2. bufferCommun[N - k + 1] = TP2!Lettre(TP2!pris + (k - 1))
        BY <1>2, <2>1, <3>2, <4>1 DEF InvLettres, Un
      <4> QED
        BY <2>1, <3>1, <3>2, <4>2
    <3>3. CASE consommateur = "decompter" /\ k = 1
      BY <1>2, <2>1, <3>1, <3>3 DEF InvLettres
    <3>4. CASE consommateur = "decompter" /\ k # 1
      <4>1. N - k + 2 \in 1 .. N /\ k - 2 \in 0 .. N /\ N - k + 2 = N - (k - 2)
        BY <2>1, <3>4
      <4>2. bufferCommun[N - k + 2] = TP2!Lettre(TP2!pris + (k - 2) + 1)
        BY <1>2, <2>1, <3>4, <4>1 DEF InvLettres, Un
      <4> QED
        BY <2>1, <3>1, <3>4, <4>2
    <3> QED
      BY <3>2, <3>3, <3>4
  <2>3. TP2!file = Segment(ChaineThreads, TP2!pris, TP2!mis)
    BY <2>1, <2>2 DEF TP2!file, Segment
  <2>4. ASSUME NEW k \in 1 .. TP2!pris
        PROVE  (IF k = TP2!pris /\ consommateur = "ranger" THEN element ELSE recue[k - 1])
                 = ChaineThreads[0 + k - 1]
    <3>1. ChaineThreads[0 + k - 1] = TP2!Lettre(k - 1)
      BY <2>1 DEF ChaineThreads
    <3>2. k <= tourConsommateur => recue[k - 1] = TP2!Lettre(k - 1)
      BY <1>2, <2>1 DEF InvRecue
    <3>3. k > tourConsommateur =>
            /\ k = TP2!pris /\ k - 1 = tourConsommateur
            /\ consommateur \in {"ranger", "sortir", "signaler"}
      BY <2>1
    <3>4. consommateur = "ranger" => element = TP2!Lettre(tourConsommateur)
      BY <1>2 DEF InvLettres
    <3>5. consommateur \in {"sortir", "signaler"} => recue[tourConsommateur] = TP2!Lettre(tourConsommateur)
      BY <1>2 DEF InvRecue
    <3> QED
      BY <2>1, <3>1, <3>2, <3>3, <3>4, <3>5
  <2>5. TP2!sorties = Segment(ChaineThreads, 0, TP2!pris)
    BY <2>1, <2>4 DEF TP2!sorties, Segment
  <2> QED
    BY <2>1, <2>3, <2>5
<1> QED
  BY <1>1, <1>2 DEF InvTypes

\* Again, only the two updates of the count move a letter.
LEMMA MouvementsThreads ==
  ASSUME InvTP2, [TP2!Next]_TP2!vars
  PROVE  \/ TP2!mis' = TP2!mis /\ TP2!pris' = TP2!pris
         \/ /\ TP2!mis' = TP2!mis + 1 /\ TP2!pris' = TP2!pris
            /\ TP2!mis - TP2!pris < N
            /\ nombreDeTours \in Longueurs /\ TP2!mis < nombreDeTours
         \/ TP2!mis' = TP2!mis /\ TP2!pris' = TP2!pris + 1 /\ TP2!mis - TP2!pris > 0
<1> USE DEF InvTP2, InvTypes, TP2!mis, TP2!pris, TP2!AvanceP, TP2!AvanceC, TP2!Inchanges
<1>1. CASE UNCHANGED TP2!vars
  BY <1>1 DEF TP2!vars
<1>2. CASE TP2!Creer
  <2>1. producteur' \in {"vide", "join"} /\ consommateur' \in {"plein", "fin", "absent"}
        /\ UNCHANGED <<tourProducteur, tourConsommateur>>
    BY <1>2 DEF TP2!Creer, TP2!Produire, TP2!Consommer
  <2>2. producteur = "creer" /\ consommateur \notin {"ranger", "sortir", "signaler"}
    BY <1>2 DEF TP2!Creer, InvTours, InvEtudiant
  <2> QED
    BY <2>1, <2>2
<1>3. CASE TP2!PrendreVide \/ TP2!EntrerP \/ TP2!AddElement \/ TP2!SortirP
  BY <1>3 DEF TP2!PrendreVide, TP2!EntrerP, TP2!AddElement, TP2!SortirP
<1>4. CASE TP2!AddElementEtudiant
  BY <1>4 DEF TP2!AddElementEtudiant, InvEtudiant
<1>5. CASE TP2!SignalerPlein
  BY <1>5 DEF TP2!SignalerPlein, TP2!Produire
<1>6. CASE TP2!Joindre \/ TP2!JoindreRien
  BY <1>6 DEF TP2!Joindre, TP2!JoindreRien
<1>7. CASE TP2!Compter
  <2>1. TP2!mis' = TP2!mis + 1 /\ TP2!pris' = TP2!pris /\ TP2!mis = tourProducteur /\ producteur = "compter"
    BY <1>7 DEF TP2!Compter
  <2>2. programme = "correction"
    BY <2>1 DEF InvEtudiant
  <2>3. TP2!mis - TP2!pris < N
    BY <2>1, <2>2, BornesThreads
  <2>4. nombreDeTours \in Longueurs /\ tourProducteur < nombreDeTours
    BY <2>1, <2>2 DEF InvTours
  <2> QED
    BY <2>1, <2>3, <2>4
<1>8. CASE TP2!PrendrePlein \/ TP2!EntrerC \/ TP2!LireCase \/ TP2!Decaler \/ TP2!Ranger \/ TP2!SortirC
  BY <1>8 DEF TP2!PrendrePlein, TP2!EntrerC, TP2!LireCase, TP2!Decaler, TP2!Ranger, TP2!SortirC
<1>9. CASE TP2!SignalerVide
  BY <1>9 DEF TP2!SignalerVide, TP2!Consommer
<1>10. CASE TP2!Decompter
  <2>1. TP2!mis' = TP2!mis /\ TP2!pris' = TP2!pris + 1 /\ consommateur = "decompter"
    BY <1>10 DEF TP2!Decompter
  <2>2. programme = "correction"
    BY <2>1 DEF InvEtudiant
  <2> QED
    BY <2>1, <2>2, BornesThreads
<1> QED
  BY <1>1, <1>2, <1>3, <1>4, <1>5, <1>6, <1>7, <1>8, <1>9, <1>10
     DEF TP2!Next, TP2!Producteur, TP2!Consommateur

(* In both versions the buffer between the two threads is the bounded FIFO
   queue of the comment of lines 76-84 of TP2_correction.c. *)
THEOREM RaffinementThreads == TP2!Spec => ThreadsImplementeFile
<1>1. TP2!Init => TP2!FileDesThreads!Init
  <2> SUFFICES ASSUME TP2!Init PROVE TP2!file = <<>> /\ TP2!sorties = <<>>
    BY DEF TP2!FileDesThreads!Init
  <2>1. bufferCommun[0] = 0 /\ TP2!pris = 0
    BY NHypothese DEF TP2!Init, TP2!pris
  <2> QED
    BY <2>1 DEF TP2!file, TP2!sorties
<1>2. ASSUME InvTP2, InvTP2', [TP2!Next]_TP2!vars
      PROVE  [TP2!FileDesThreads!Inserer \/ TP2!FileDesThreads!Retirer]_<<TP2!file, TP2!sorties>>
  <2> DEFINE attend == Segment(ChaineThreads, TP2!pris, TP2!mis)
             recu == Segment(ChaineThreads, 0, TP2!pris)
  <2>1. /\ TP2!file = attend /\ TP2!sorties = recu
        /\ TP2!file' = Segment(ChaineThreads, TP2!pris', TP2!mis')
        /\ TP2!sorties' = Segment(ChaineThreads, 0, TP2!pris')
    <3>1. InvTP2 => TP2!file = attend /\ TP2!sorties = recu
      BY ContenuThreads
    <3>2. (InvTP2 => TP2!file = attend /\ TP2!sorties = recu)'
      BY <3>1, ContenuThreads, PTL
    <3>3. ChaineThreads' = ChaineThreads
      BY DEF ChaineThreads, TP2!Lettre
    <3> QED
      BY <1>2, <3>1, <3>2, <3>3 DEF Segment
  <2>2. /\ TP2!mis \in Nat /\ TP2!pris \in Nat /\ TP2!pris <= TP2!mis
        /\ \A i \in Nat : ChaineThreads[i] = TP2!Lettre(i)
    BY <1>2, ContenuThreads DEF ChaineThreads
  <2>3. /\ Len(attend) = TP2!mis - TP2!pris
        /\ Segment(ChaineThreads, TP2!pris, TP2!mis + 1) = Append(attend, ChaineThreads[TP2!mis])
        /\ TP2!pris < TP2!mis =>
             /\ attend # <<>>
             /\ Head(attend) = ChaineThreads[TP2!pris]
             /\ Segment(ChaineThreads, TP2!pris + 1, TP2!mis) = Tail(attend)
    BY <2>2, Segments
  <2>4. Segment(ChaineThreads, 0, TP2!pris + 1) = Append(recu, ChaineThreads[TP2!pris])
    <3>1. 0 \in Nat /\ 0 <= TP2!pris
      BY <2>2
    <3> QED
      BY <2>2, <3>1, Segments
  <2>5. CASE TP2!mis' = TP2!mis /\ TP2!pris' = TP2!pris
    BY <2>1, <2>5
  <2>6. CASE /\ TP2!mis' = TP2!mis + 1 /\ TP2!pris' = TP2!pris
             /\ TP2!mis - TP2!pris < N
             /\ nombreDeTours \in Longueurs /\ TP2!mis < nombreDeTours
    <3>1. TP2!file = attend /\ TP2!file' = Append(attend, TP2!Lettre(TP2!mis)) /\ TP2!sorties' = TP2!sorties
      BY <2>1, <2>2, <2>3, <2>6
    <3>2. TP2!Lettre(TP2!mis) \in UNION {{TP2!Lettre(tour) : tour \in 0 .. n - 1} : n \in Longueurs}
      <4>1. TP2!mis \in 0 .. nombreDeTours - 1
        BY <2>2, <2>6, LongueursHypothese
      <4> QED
        BY <2>6, <4>1, Zenon
    <3> HIDE DEF attend
    <3> QED
      BY <2>3, <2>6, <3>1, <3>2 DEF TP2!FileDesThreads!Inserer
  <2>7. CASE TP2!mis' = TP2!mis /\ TP2!pris' = TP2!pris + 1 /\ TP2!mis - TP2!pris > 0
    <3>1. TP2!pris < TP2!mis
      BY <2>2, <2>7
    <3>2. /\ TP2!file = attend /\ attend # <<>> /\ Head(attend) = ChaineThreads[TP2!pris]
          /\ TP2!file' = Tail(attend)
      BY <2>1, <2>3, <2>7, <3>1
    <3>3. TP2!sorties = recu /\ TP2!sorties' = Append(recu, ChaineThreads[TP2!pris])
      BY <2>1, <2>4, <2>7
    <3> HIDE DEF attend, recu
    <3> QED
      BY <3>2, <3>3 DEF TP2!FileDesThreads!Retirer
  <2> QED
    BY <1>2, <2>5, <2>6, <2>7, MouvementsThreads
<1> QED
  BY <1>1, <1>2, InvariantThreads, PTL
     DEF TP2!Spec, ThreadsImplementeFile, TP2!ThreadsImplementeFile, TP2!FileDesThreads!Spec
=============================================================================
