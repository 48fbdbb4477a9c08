---------------------------- MODULE PcbPromise -----------------------------
(***************************************************************************)
(* What src/src/pcb.h promises to the scheduler, with no links: a set of   *)
(* free pcbs, queues that are sequences, a tree that is a parent function, *)
(* and the death of a process together with its progeny.                   *)
(***************************************************************************)
EXTENDS ProcQueue

CONSTANTS Procs, Sems, NULL

VARIABLES
  free,     \* the pcbs that are nobody's
  ready,
  waiting,  \* the queue of each semaphore
  parent,
  running,
  dying     \* the processes that the TERMPROCESS in progress still has to end

vars == <<free, ready, waiting, parent, running, dying>>

Init ==
  /\ free = Procs
  /\ ready = <<>>
  /\ waiting = [s \in Sems |-> <<>>]
  /\ parent = [p \in Procs |-> NULL]
  /\ running = NULL
  /\ dying = {}

(* A new process, of the running one or the first of all.                  *)
Create(c) ==
  /\ dying = {} /\ c \in free
  /\ running # NULL \/ free = Procs
  /\ free' = free \ {c}
  /\ parent' = [parent EXCEPT ![c] = running]
  /\ ready' = Append(ready, c)
  /\ UNCHANGED <<waiting, running, dying>>

Enqueue ==
  /\ dying = {} /\ running # NULL
  /\ ready' = Append(ready, running)
  /\ running' = NULL
  /\ UNCHANGED <<free, waiting, parent, dying>>

Dispatch ==
  /\ dying = {} /\ running = NULL /\ ready # <<>>
  /\ running' = Head(ready)
  /\ ready' = Tail(ready)
  /\ UNCHANGED <<free, waiting, parent, dying>>

Block(s) ==
  /\ dying = {} /\ running # NULL
  /\ waiting' = [waiting EXCEPT ![s] = Append(@, running)]
  /\ running' = NULL
  /\ UNCHANGED <<free, ready, parent, dying>>

Wake(s) ==
  /\ dying = {} /\ waiting[s] # <<>>
  /\ waiting' = [waiting EXCEPT ![s] = Tail(@)]
  /\ ready' = Append(ready, Head(waiting[s]))
  /\ UNCHANGED <<free, parent, running, dying>>

(* p and all its descendants are to die.                                   *)
Terminate(p) ==
  /\ dying = {} /\ running # NULL /\ p \notin free
  /\ dying' = {x \in Procs :
                 \A D \in SUBSET Procs :
                   p \in D /\ (\A y \in Procs : parent[y] \in D => y \in D) => x \in D}
  /\ UNCHANGED <<free, ready, waiting, parent, running>>

(* The children of a process die before it does.  After the last one the   *)
(* process that ran gives way to the next.                                 *)
End(p) ==
  LET left(q) == Keep(q, Procs \ {p})
      over == dying = {p}
      survives == running \notin free \union {p}
  IN  /\ p \in dying /\ \A c \in dying : parent[c] # p
      /\ dying' = dying \ {p}
      /\ free' = free \union {p}
      /\ parent' = [parent EXCEPT ![p] = NULL]
      /\ waiting' = [s \in Sems |-> left(waiting[s])]
      /\ ready' = IF over /\ survives THEN Append(left(ready), running) ELSE left(ready)
      /\ running' = IF over THEN NULL ELSE running

Next ==
  \/ \E p \in Procs : Create(p) \/ Terminate(p) \/ End(p)
  \/ \E s \in Sems : Block(s) \/ Wake(s)
  \/ Enqueue
  \/ Dispatch

Spec == Init /\ [][Next]_vars
=============================================================================
