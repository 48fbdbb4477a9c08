---------------------------- MODULE ProcessLife ----------------------------
(***************************************************************************)
(* What the nucleus promises to programs, in the terms of src/src/         *)
(* syscalls.h: processes that are created, wait on binary semaphores and   *)
(* die with their progeny.  There is no scheduler here, no ready queue, no *)
(* counter and no pcb: a process that can run may make the next call.      *)
(***************************************************************************)
EXTENDS ProcQueue

CONSTANTS Procs, UserSems, Devs, Clock, NULL

VARIABLES
  life,    \* "none", "runs" or "waits"
  parent,
  value,   \* of each semaphore
  waiters  \* of each semaphore, in the order in which they will go on

vars == <<life, parent, value, waiters>>

Sems == UserSems \union Devs \union {Clock}

Init ==
  \E init \in Procs :
    /\ life = [p \in Procs |-> IF p = init THEN "runs" ELSE "none"]
    /\ parent = [p \in Procs |-> NULL]
    /\ value \in [Sems -> {0, 1}]
    /\ \A s \in Devs \union {Clock} : value[s] = 0
    /\ waiters = [s \in Sems |-> <<>>]

(* CREATEPROCESS.                                                          *)
Create(p, c) ==
  /\ life[p] = "runs" /\ life[c] = "none"
  /\ life' = [life EXCEPT ![c] = "runs"]
  /\ parent' = [parent EXCEPT ![c] = p]
  /\ UNCHANGED <<value, waiters>>

(* TERMPROCESS, or a trap: q and its whole progeny K end at once, whatever *)
(* they were doing.  The semaphores keep their values.                     *)
Kill(q) ==
  /\ life[q] # "none"
  /\ \E K \in SUBSET Procs :
       /\ q \in K
       /\ K \ {q} = {x \in Procs : parent[x] \in K}
       /\ life' = [x \in Procs |-> IF x \in K THEN "none" ELSE life[x]]
       /\ parent' = [x \in Procs |-> IF x \in K THEN NULL ELSE parent[x]]
       /\ waiters' = [s \in Sems |-> Keep(waiters[s], Procs \ K)]
  /\ UNCHANGED value

Block(p, s) ==
  /\ waiters' = [waiters EXCEPT ![s] = Append(@, p)]
  /\ life' = [life EXCEPT ![p] = "waits"]
  /\ UNCHANGED value

Release(s) ==
  /\ waiters' = [waiters EXCEPT ![s] = Tail(@)]
  /\ life' = [life EXCEPT ![Head(waiters[s])] = "runs"]
  /\ UNCHANGED value

(* A process sets a binary semaphore to v: 0 is a P and 1 is a V.  It      *)
(* waits if that is the value; otherwise the first that waits for the      *)
(* opposite goes on, and only if there is none the value changes.          *)
Sync(p, s, v) ==
  /\ life[p] = "runs"
  /\ \/ value[s] = v /\ Block(p, s)
     \/ value[s] # v /\ waiters[s] # <<>> /\ Release(s)
     \/ /\ value[s] # v /\ waiters[s] = <<>>
        /\ value' = [value EXCEPT ![s] = v]
        /\ UNCHANGED <<life, waiters>>
  /\ UNCHANGED parent

(* DOIO and CLOCKWAIT always wait.                                         *)
Await(p, s) == life[p] = "runs" /\ Block(p, s) /\ UNCHANGED parent

(* The answer of a device goes to the process that waits for it.           *)
Answer(d) == waiters[d] # <<>> /\ Release(d) /\ UNCHANGED parent

(* A tick lets all go on that wait for it.                                 *)
Tick ==
  /\ life' = [p \in Procs |-> IF p \in Elems(waiters[Clock]) THEN "runs" ELSE life[p]]
  /\ waiters' = [waiters EXCEPT ![Clock] = <<>>]
  /\ UNCHANGED <<parent, value>>

Next ==
  \/ \E p \in Procs : \/ \E c \in Procs : Create(p, c)
                      \/ Kill(p)
                      \/ \E s \in UserSems, v \in {0, 1} : Sync(p, s, v)
                      \/ \E s \in Devs \union {Clock} : Await(p, s)
  \/ \E d \in Devs : Answer(d)
  \/ Tick

Spec == Init /\ [][Next]_vars
=============================================================================
