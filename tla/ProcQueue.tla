----------------------------- MODULE ProcQueue -----------------------------
(***************************************************************************)
(* Process queues of src/src/pcb.c: a struct list_head threaded through    *)
(* p_list is the sequence of the pcbs on it, front first.  A pcb's p_list  *)
(* is on one list at a time, so the sequences never repeat an element.     *)
(***************************************************************************)
EXTENDS Naturals, Sequences, FiniteSets

(* The pcbs threaded on queue q.                                           *)
Elems(q) == {q[i] : i \in DOMAIN q}

(* No pcb is threaded twice: every pcb has a single p_list.                *)
Distinct(q) == \A i, j \in DOMAIN q : q[i] = q[j] => i = j

(* empty_proc_q: list_empty(head).                                         *)
empty_proc_q(q) == q = <<>>

insert_proc_q_front(q, p) == <<p>> \o q   \* mutant: list_add

(* insert_proc_q: list_add_tail(&p->p_list, head).                         *)
insert_proc_q(q, p) == Append(q, p)

(* head_proc_q on a queue that is not empty; remove_proc_q answers it and  *)
(* leaves Tail(q).                                                         *)
head_proc_q(q) == Head(q)

(* The positions of q that hold an element of S, and the rank among them.  *)
Kept(q, S) == {i \in DOMAIN q : q[i] \in S}
Rank(I, i) == Cardinality({j \in I : j <= i})

(* What out_proc_q leaves of q when it is called for every pcb outside S:  *)
(* list_del unlinks one node and the others stay in their order.  Stated   *)
(* by ranks instead of by recursion, so that it can be reasoned about.     *)
Keep(q, S) ==
  LET I == Kept(q, S)
  IN  [k \in 1..Cardinality(I) |-> q[CHOOSE i \in I : Rank(I, i) = k]]

=============================================================================
