---------------------- MODULE MCProducteurConsommateur ----------------------
(***************************************************************************)
(* The two producer-consumer programs for TLC, one after the other: TP1    *)
(* with two processes, then TP2 with two threads.                          *)
(***************************************************************************)
EXTENDS ProducteurConsommateur

CONSTANTS N, Longueurs

ASSUME NHypothese == N \in 1 .. 127
ASSUME LongueursHypothese == Longueurs \subseteq Nat

VARIABLES programme, nombreDeTours, semaphore, bufferCommun, tourProducteur, tourConsommateur,
          producteur, consommateur, element, recue, suivant

TP2 == INSTANCE TamponThreads

varsTP2 == <<programme, nombreDeTours, semaphore, bufferCommun, tourProducteur, tourConsommateur,
             producteur, consommateur, element, recue, suivant>>

MCInit == Init /\ TP2!Init

MCNext ==
  \/ Next /\ UNCHANGED varsTP2
  \/ pcC = "fini" /\ TP2!Next /\ UNCHANGED vars

MCSpec ==
  /\ MCInit
  /\ [][MCNext]_<<vars, varsTP2>>
  /\ WF_<<vars, varsTP2>>(Producteur /\ UNCHANGED varsTP2)
  /\ WF_<<vars, varsTP2>>(Consommateur /\ UNCHANGED varsTP2)
  /\ WF_<<vars, varsTP2>>(pcC = "fini" /\ TP2!Producteur /\ UNCHANGED vars)
  /\ WF_<<vars, varsTP2>>(pcC = "fini" /\ TP2!Consommateur /\ UNCHANGED vars)

(* Whatever the interleaving of the two threads of TP2, counts, display and
   letters received agree (TP2_correction.c:214-286). *)
InvThreads == TP2!InvThreads

(* The buffer of TP2 is a bounded FIFO queue (TP2_correction.c:76-84). *)
ThreadsImplementeFile == TP2!ThreadsImplementeFile

(* TP2 ends with the whole message if it has a consumer, blocks on a full
   buffer if pthread_create failed; the student's version dies with its first
   letter (TP2_correction.c:328-343, TP2_thread.c:92). *)
ThreadsFinissent == TP2!ThreadsFinissent
=============================================================================
