----------------------------- MODULE SemQueues -----------------------------
(***************************************************************************)
(* What src/src/asl.h promises: a queue of blocked processes for every     *)
(* semaphore, with no limit on the number of semaphores.  answer is what   *)
(* the last call returned.                                                 *)
(***************************************************************************)
EXTENDS ProcQueue

CONSTANTS Procs, Keys, NULL
VARIABLES waitq, answer

Waiting == UNION {Elems(waitq[k]) : k \in Keys}

Init == waitq = [k \in Keys |-> <<>>] /\ answer = NULL

(* insert_blocked never finds the list of free descriptors empty.          *)
Insert(k, p) ==
  /\ p \notin Waiting
  /\ waitq' = [waitq EXCEPT ![k] = insert_proc_q(@, p)]
  /\ answer' = FALSE

Remove(k) ==
  \/ empty_proc_q(waitq[k]) /\ answer' = NULL /\ UNCHANGED waitq
  \/ /\ ~empty_proc_q(waitq[k])
     /\ answer' = head_proc_q(waitq[k])
     /\ waitq' = [waitq EXCEPT ![k] = Tail(@)]

Out(p) ==
  /\ answer' = IF p \in Waiting THEN p ELSE NULL
  /\ waitq' = [k \in Keys |-> Keep(waitq[k], Procs \ {p})]

HeadOf(k) ==
  /\ answer' = IF empty_proc_q(waitq[k]) THEN NULL ELSE head_proc_q(waitq[k])
  /\ UNCHANGED waitq

Next ==
  \/ \E k \in Keys, p \in Procs : Insert(k, p)
  \/ \E k \in Keys : Remove(k) \/ HeadOf(k)
  \/ \E p \in Procs : Out(p)

Spec == Init /\ [][Next]_<<waitq, answer>>
=============================================================================
