----------------------------- MODULE PcbLists ------------------------------
(***************************************************************************)
(* The pcbs of src/src/pcb.c as memory: each has the three list nodes      *)
(* p_list (free list, ready queue or queue of a semaphore), p_child (head  *)
(* of the list of its children) and p_sib (its place among its brothers),  *)
(* and nobody resets a node but the functions that do it in the source.    *)
(*                                                                         *)
(* The callers are those of scheduler.c and syscalls.c; the two priorities *)
(* are one queue here, and the descriptor of a semaphore is its queue.     *)
(***************************************************************************)
EXTENDS Listx, Functions

CONSTANTS
  Procs,  \* pcb_free_table
  Sems,
  NULL

Queues == {"ready"} \union Sems

p_list(p) == <<"p_list", p>>
p_child(p) == <<"p_child", p>>
p_sib(p) == <<"p_sib", p>>
head(q) == <<"head", q>>
pcb_free_h == head("pcb_free")
Nodes == ({"p_list", "p_child", "p_sib"} \X Procs)
           \union {head(q) : q \in Queues \union {"pcb_free"}}
Memory == Nodes \union {NULL}
pcb(n) == n[2]   \* container_of

(* A pcb, a semaphore and a node are addresses, none of them null or equal *)
(* to that of another list.                                                *)
ASSUME PcbAssumption ==
  /\ IsFiniteSet(Procs) /\ Procs # {} /\ IsFiniteSet(Sems)
  /\ "ready" \notin Sems /\ "pcb_free" \notin Sems
  /\ NULL \notin Procs \union Sems \union Nodes

VARIABLES
  link,     \* next and prev of every node
  p_parent,
  p_semAdd,
  act_proc,
  killing   \* the calls of kill_parent_and_progeny in progress, outermost first

vars == <<link, p_parent, p_semAdd, act_proc, killing>>

Order(h) == [i \in DOMAIN list_for_each(link, h) |-> pcb(list_for_each(link, h)[i])]

-----------------------------------------------------------------------------
(* pcb.c.                                                                  *)

(* init_pcbs on a table that is zero, in the order t of the table, when    *)
(* mk_empty_proc_q has made every queue a head linked to itself.           *)
init_pcbs(t) ==
  LET heads == {head(q) : q \in Queues \union {"pcb_free"}}
      empty == [n \in Memory |-> IF n \in heads THEN n ELSE NULL]
      add[i \in 0..Len(t)] ==
        IF i = 0 THEN [next |-> empty, prev |-> empty]
        ELSE list_add_tail(add[i - 1], p_list(t[i]), pcb_free_h)
  IN  add[Len(t)]

free_pcb(L, p) == list_add(L, p_list(p), pcb_free_h)

(* The pcb that alloc_pcb answers, and what it does to the links.          *)
first_free == pcb(link.next[pcb_free_h])

alloc_pcb(L, p) ==
  INIT_LIST_HEAD(INIT_LIST_HEAD(INIT_LIST_HEAD(
    list_del(L, p_list(p)), p_list(p)), p_child(p)), p_sib(p))

insert_proc_q(L, q, p) == list_add_tail(L, p_list(p), head(q))
head_proc_q(q) == pcb(link.next[head(q)])

(* out_proc_q; remove_proc_q is out_proc_q of head_proc_q.                 *)
out_proc_q_linked(L, q, p) ==   \* mutant: no INIT_LIST_HEAD
  IF p_list(p) \in Range(list_for_each(L, head(q))) THEN list_del(L, p_list(p)) ELSE L

out_proc_q(L, q, p) ==
  IF p_list(p) \in Range(list_for_each(L, head(q)))
  THEN INIT_LIST_HEAD(list_del(L, p_list(p)), p_list(p))
  ELSE L

insert_child(L, prnt, p) == list_add(L, p_sib(p), p_child(prnt))
first_child(p) == pcb(link.next[p_child(p)])

(* out_child of p, and remove_child of its parent when p is first.         *)
out_child_keep(L, p) == L   \* mutant: p stays among its brothers
out_child(L, p) == list_del(L, p_sib(p))

(* is_alive runs through the list of free pcbs.                            *)
is_alive(L, p) == p_list(p) \notin Range(list_for_each(L, pcb_free_h))

Freed(p) == ~is_alive(link, p)
Used(p) == link.next[p_child(p)] # NULL   \* alloc_pcb has answered p once

-----------------------------------------------------------------------------
Init ==
  /\ \E t \in [1..Cardinality(Procs) -> Procs] :
       Range(t) = Procs /\ link = init_pcbs(t)
  /\ p_parent = [p \in Procs |-> NULL]
  /\ p_semAdd = [p \in Procs |-> NULL]
  /\ act_proc = NULL
  /\ killing = <<>>

create_init_proc ==
  /\ \A p \in Procs : ~Used(p)
  /\ link' = insert_proc_q(alloc_pcb(link, first_free), "ready", first_free)
  /\ UNCHANGED <<p_parent, p_semAdd, act_proc, killing>>

mk_proc ==
  /\ killing = <<>> /\ act_proc # NULL
  /\ ~list_empty(link, pcb_free_h)
  /\ LET p == first_free
     IN  /\ link' = insert_proc_q(insert_child(alloc_pcb(link, p), act_proc, p), "ready", p)
         /\ p_parent' = [p_parent EXCEPT ![p] = act_proc]
         /\ p_semAdd' = [p_semAdd EXCEPT ![p] = NULL]
  /\ UNCHANGED <<act_proc, killing>>

(* The process that ran is put back on its queue.                          *)
enqueue_proc ==
  /\ killing = <<>> /\ act_proc # NULL
  /\ link' = insert_proc_q(link, "ready", act_proc)
  /\ act_proc' = NULL
  /\ UNCHANGED <<p_parent, p_semAdd, killing>>

dequeue_proc ==
  /\ killing = <<>> /\ act_proc = NULL
  /\ ~list_empty(link, head("ready"))
  /\ act_proc' = head_proc_q("ready")
  /\ link' = out_proc_q(link, "ready", act_proc')
  /\ UNCHANGED <<p_parent, p_semAdd, killing>>

insert_blocked(s) ==
  /\ killing = <<>> /\ act_proc # NULL
  /\ link' = insert_proc_q(link, s, act_proc)
  /\ p_semAdd' = [p_semAdd EXCEPT ![act_proc] = s]
  /\ act_proc' = NULL
  /\ UNCHANGED <<p_parent, killing>>

(* remove_blocked and enqueue_proc.                                        *)
wake(s) ==
  /\ killing = <<>> /\ ~list_empty(link, head(s))
  /\ LET p == head_proc_q(s)
     IN  /\ link' = insert_proc_q(out_proc_q(link, s, p), "ready", p)
         /\ p_semAdd' = [p_semAdd EXCEPT ![p] = NULL]
  /\ UNCHANGED <<p_parent, act_proc, killing>>

-----------------------------------------------------------------------------
(* kill_parent_and_progeny, one remove_child or one kill_proc a step.  No  *)
(* program gives TERMPROCESS the pid of a process that is dead, of which   *)
(* search_by_pid would answer the pcb all the same.                        *)

top == killing[Len(killing)]

term_process(p) ==
  /\ killing = <<>> /\ act_proc # NULL
  /\ Used(p) /\ ~Freed(p)
  /\ killing' = <<p>>
  /\ UNCHANGED <<link, p_parent, p_semAdd, act_proc>>

remove_child ==
  /\ killing # <<>>
  /\ ~list_empty(link, p_child(top))
  /\ LET c == first_child(top)
     IN  /\ link' = out_child(link, c)
         /\ p_parent' = [p_parent EXCEPT ![c] = NULL]
         /\ killing' = Append(killing, c)
  /\ UNCHANGED <<p_semAdd, act_proc>>

(* The steps of kill_proc(top), each on the memory that the one before     *)
(* leaves.  After the last process term_process asks is_alive(act_proc).   *)
kill_proc ==
  /\ killing # <<>>
  /\ list_empty(link, p_child(top))
  /\ \E cut \in {IF p_parent[top] = NULL THEN link ELSE out_child(link, top)} :
     \E woken \in {IF p_semAdd[top] = NULL THEN cut ELSE out_proc_q(cut, p_semAdd[top], top)} :
     \E gone \in {free_pcb(out_proc_q(woken, "ready", top), top)} :
       LET over == Len(killing) = 1
       IN  /\ link' = IF over /\ is_alive(gone, act_proc)
                      THEN insert_proc_q(gone, "ready", act_proc) ELSE gone
           /\ act_proc' = IF over THEN NULL ELSE act_proc
  /\ p_parent' = [p_parent EXCEPT ![top] = NULL]
  /\ p_semAdd' = [p_semAdd EXCEPT ![top] = NULL]
  /\ killing' = SubSeq(killing, 1, Len(killing) - 1)

Next ==
  \/ create_init_proc \/ mk_proc \/ enqueue_proc \/ dequeue_proc
  \/ \E s \in Sems : insert_blocked(s) \/ wake(s)
  \/ \E p \in Procs : term_process(p)
  \/ remove_child \/ kill_proc

Spec == Init /\ [][Next]_vars

-----------------------------------------------------------------------------
TypeOK ==
  /\ link \in [next : [Memory -> Memory], prev : [Memory -> Memory]]
  /\ p_parent \in [Procs -> Procs \union {NULL}]
  /\ p_semAdd \in [Procs -> Sems \union {NULL}]
  /\ act_proc \in Procs \union {NULL}
  /\ killing \in Seq(Procs)

(* Every list is a ring through its head, the same in both directions, so  *)
(* that list_for_each ends and list_del finds both neighbours: the list of *)
(* free pcbs, the queues, and the children of every living process.        *)
Heads == {pcb_free_h} \union {head(q) : q \in Queues}
           \union {p_child(p) : p \in {x \in Procs : ~Freed(x)}}
Threaded == \A h \in Heads : Threads(link, h, list_for_each(link, h))

(* A pcb has one p_list and is on one list: free, ready, on the semaphore  *)
(* that p_semAdd names, or on none and linked to itself while it runs.     *)
OneList ==
  \A p \in Procs :
    /\ Cardinality({q \in Queues \union {"pcb_free"} : p \in Range(Order(head(q)))})
         = IF p = act_proc /\ ~Freed(p) THEN 0 ELSE 1
    /\ p = act_proc /\ ~Freed(p) => link.next[p_list(p)] = p_list(p)
    /\ \A s \in Sems : p_semAdd[p] = s <=> p \in Range(Order(head(s)))

(* The list of children and p_parent agree, although neither remove_child  *)
(* nor out_child resets the node it takes out; the dead have no relatives. *)
TreeMatchesLists ==
  \A p \in Procs :
    /\ ~Freed(p) => Range(Order(p_child(p))) = {c \in Procs : p_parent[c] = p}
    /\ Freed(p) => p_parent[p] = NULL /\ \A c \in Procs : p_parent[c] # p

(* The links implement the queues, the set of free pcbs and the tree, and  *)
(* the calls of kill_parent_and_progeny end the whole progeny of a process *)
(* and nobody else, each child before its parent.                          *)
In(S) == {x \in Procs : \A D \in SUBSET Procs :
            S \subseteq D /\ (\A y \in Procs : p_parent[y] \in D => y \in D) => x \in D}
Caller(p) == {i \in 2..Len(killing) : killing[i] = p}
Promise == INSTANCE PcbPromise WITH
  free <- {p \in Procs : Freed(p)},
  ready <- Order(head("ready")),
  waiting <- [s \in Sems |-> Order(head(s))],
  parent <- [p \in Procs |-> IF Caller(p) = {} THEN p_parent[p]
                             ELSE killing[(CHOOSE i \in Caller(p) : TRUE) - 1]],
  running <- act_proc,
  dying <- In(Range(killing))
KeepsPromise == Promise!Spec
=============================================================================
