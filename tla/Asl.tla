-------------------------------- MODULE Asl --------------------------------
(***************************************************************************)
(* The active semaphore list of src/src/asl.c: MAXPROC descriptors, each   *)
(* free or active.  An active one has a key, the address of a semaphore,   *)
(* and the queue of the processes blocked on it.  The two lists of         *)
(* descriptors are sequences of indices into semd_table.                   *)
(***************************************************************************)
EXTENDS Integers, FiniteSets, ProcQueue

CONSTANTS
  Procs,    \* the pcbs
  Keys,     \* addresses of semaphores
  MAXPROC,  \* the length of semd_table and of pcb_free_table
  NULL

ASSUME AslAssumption ==
  /\ MAXPROC \in Nat
  /\ IsFiniteSet(Procs) /\ Cardinality(Procs) <= MAXPROC
  /\ NULL \notin Procs /\ NULL \notin Keys

VARIABLES
  semd_free,  \* list of the free descriptors
  semd_h,     \* list of the active descriptors
  s_key, s_procq,
  p_semAdd,
  answer      \* what the last call returned

vars == <<semd_free, semd_h, s_key, s_procq, p_semAdd, answer>>

Semds == 1..MAXPROC

init_asl ==
  /\ semd_free = [i \in Semds |-> i]
  /\ semd_h = <<>>
  /\ s_key = [d \in Semds |-> NULL]
  /\ s_procq = [d \in Semds |-> <<>>]
  /\ p_semAdd = [p \in Procs |-> NULL]
  /\ answer = NULL

(* The active descriptors of key k, and the first of them: what get_semd   *)
(* finds.                                                                  *)
with_key(k) == {d \in Elems(semd_h) : s_key[d] = k}
get_semd(k) == semd_h[CHOOSE i \in DOMAIN semd_h :
                        /\ s_key[semd_h[i]] = k
                        /\ \A j \in 1..(i - 1) : s_key[semd_h[j]] # k]

list_add(q, d) == <<d>> \o q
list_del(q, d) == Keep(q, Elems(q) \ {d})

-----------------------------------------------------------------------------
(* insert_blocked.  Its caller is the running process, which is blocked    *)
(* nowhere.  It answers TRUE when it needs a descriptor and none is free.  *)

(* Mutant: the new descriptor stays on the free list.                      *)
take_semd_twice(k, p) ==
  LET d == Head(semd_free)
  IN  /\ semd_h' = list_add(semd_h, d)
      /\ s_key' = [s_key EXCEPT ![d] = k]
      /\ s_procq' = [s_procq EXCEPT ![d] = insert_proc_q(<<>>, p)]
      /\ UNCHANGED semd_free

take_semd(k, p) ==
  LET d == Head(semd_free)
  IN  /\ semd_free' = Tail(semd_free)
      /\ semd_h' = list_add(semd_h, d)
      /\ s_key' = [s_key EXCEPT ![d] = k]
      /\ s_procq' = [s_procq EXCEPT ![d] = insert_proc_q(<<>>, p)]

insert_blocked(k, p) ==
  /\ p_semAdd[p] = NULL
  /\ IF with_key(k) = {} /\ semd_free = <<>>
       THEN answer' = TRUE /\ UNCHANGED <<semd_free, semd_h, s_key, s_procq, p_semAdd>>
       ELSE /\ \/ with_key(k) = {} /\ take_semd(k, p)
               \/ /\ with_key(k) # {}
                  /\ s_procq' = [s_procq EXCEPT ![get_semd(k)] = insert_proc_q(@, p)]
                  /\ UNCHANGED <<semd_free, semd_h, s_key>>
            /\ p_semAdd' = [p_semAdd EXCEPT ![p] = k]
            /\ answer' = FALSE

(* A descriptor whose queue is now empty goes back to the free list: to    *)
(* its head from remove_blocked, to its tail from out_blocked.             *)
release_never(d, q, free) ==   \* mutant: the empty descriptor stays active
  /\ s_procq' = [s_procq EXCEPT ![d] = q]
  /\ UNCHANGED <<semd_h, semd_free>>

release_leak(d, q, free) ==    \* mutant: it is on neither list
  /\ s_procq' = [s_procq EXCEPT ![d] = q]
  /\ semd_h' = IF empty_proc_q(q) THEN list_del(semd_h, d) ELSE semd_h
  /\ UNCHANGED semd_free

release(d, q, free) ==
  /\ s_procq' = [s_procq EXCEPT ![d] = q]
  /\ IF empty_proc_q(q)
       THEN semd_h' = list_del(semd_h, d) /\ semd_free' = free
       ELSE UNCHANGED <<semd_h, semd_free>>

remove_blocked(k) ==
  \/ with_key(k) = {} /\ answer' = NULL
       /\ UNCHANGED <<semd_free, semd_h, s_key, s_procq, p_semAdd>>
  \/ LET d == get_semd(k)
         p == head_proc_q(s_procq[d])
     IN  /\ with_key(k) # {}
         /\ answer' = p
         /\ p_semAdd' = [p_semAdd EXCEPT ![p] = NULL]
         /\ release(d, Tail(s_procq[d]), list_add(semd_free, d))
         /\ UNCHANGED s_key

(* out_blocked.  p_semAdd is cleared before the queue is searched for p.   *)
out_blocked(p) ==
  \/ /\ p_semAdd[p] = NULL \/ with_key(p_semAdd[p]) = {}
     /\ answer' = NULL
     /\ UNCHANGED <<semd_free, semd_h, s_key, s_procq, p_semAdd>>
  \/ LET d == get_semd(p_semAdd[p])
     IN  /\ p_semAdd[p] # NULL /\ with_key(p_semAdd[p]) # {}
         /\ p_semAdd' = [p_semAdd EXCEPT ![p] = NULL]
         /\ IF p \in Elems(s_procq[d])
              THEN /\ answer' = p
                   /\ release(d, Keep(s_procq[d], Procs \ {p}), Append(semd_free, d))
              ELSE answer' = NULL /\ UNCHANGED <<semd_free, semd_h, s_procq>>
         /\ UNCHANGED s_key

head_blocked(k) ==
  /\ answer' = IF with_key(k) = {} \/ s_procq[get_semd(k)] = <<>> THEN NULL
               ELSE head_proc_q(s_procq[get_semd(k)])
  /\ UNCHANGED <<semd_free, semd_h, s_key, s_procq, p_semAdd>>

Next ==
  \/ \E k \in Keys, p \in Procs : insert_blocked(k, p)
  \/ \E k \in Keys : remove_blocked(k) \/ head_blocked(k)
  \/ \E p \in Procs : out_blocked(p)

Spec == init_asl /\ [][Next]_vars

-----------------------------------------------------------------------------
(***************************************************************************)
(* Properties.                                                             *)
(***************************************************************************)

(* The types, and neither list is longer than semd_table.                  *)
TypeOK ==
  /\ semd_free \in Seq(Semds) /\ Len(semd_free) <= MAXPROC
  /\ semd_h \in Seq(Semds) /\ Len(semd_h) <= MAXPROC
  /\ s_key \in [Semds -> Keys \union {NULL}]
  /\ s_procq \in [Semds -> Seq(Procs)]
  /\ p_semAdd \in [Procs -> Keys \union {NULL}]

(* semd_table is shared out between the two lists, each descriptor on one. *)
ListsPartition ==
  /\ Distinct(semd_free) /\ Distinct(semd_h)
  /\ Elems(semd_free) \intersect Elems(semd_h) = {}
  /\ Elems(semd_free) \union Elems(semd_h) = Semds

(* An active descriptor has a process waiting, and a key of its own: what  *)
(* remove_blocked and out_blocked give back is what insert_blocked needs.  *)
ActiveIsUsed ==
  \A d \in Elems(semd_h) :
    /\ s_procq[d] # <<>>
    /\ s_key[d] \in Keys
    /\ \A e \in Elems(semd_h) : s_key[e] = s_key[d] => e = d

(* Together: no descriptor is leaked, taken twice or kept for nobody.      *)
DescriptorsKept == ListsPartition /\ ActiveIsUsed

(* p_semAdd names the semaphore on whose queue the process is, once.       *)
QueuesMatchSemAdd ==
  /\ \A d \in Elems(semd_h) : Distinct(s_procq[d])
  /\ \A p \in Procs, d \in Elems(semd_h) :
       p \in Elems(s_procq[d]) <=> p_semAdd[p] = s_key[d]
  /\ \A p \in Procs : p_semAdd[p] # NULL => with_key(p_semAdd[p]) # {}

(* "Non dovrebbe mai capitare": insert_blocked has a descriptor whenever a *)
(* process that is not blocked asks for one, so passeren and verhogen      *)
(* never reach their PANIC.                                                *)
NeverRefuses ==
  \A p \in Procs, k \in Keys :
    p_semAdd[p] = NULL => with_key(k) # {} \/ semd_free # <<>>

(* The list implements a queue for each semaphore.                         *)
queue_of(k) == IF with_key(k) = {} THEN <<>> ELSE s_procq[get_semd(k)]
queues == [k \in Keys |-> queue_of(k)]
Promise == INSTANCE SemQueues WITH waitq <- queues, answer <- answer
KeepsPromise == Promise!Spec

=============================================================================
