------------------------------- MODULE Listx -------------------------------
(***************************************************************************)
(* The circular lists of src/src/listx.h.  A memory of list nodes is a     *)
(* record L of two functions from nodes to nodes, their next and prev      *)
(* fields; each operator answers the memory after the C function of its    *)
(* name, the assignments in the order of the source.  The null pointer is  *)
(* a node that leads to itself.                                            *)
(***************************************************************************)
EXTENDS Naturals, Sequences, FiniteSets

INIT_LIST_HEAD(L, n) ==
  [next |-> [L.next EXCEPT ![n] = n], prev |-> [L.prev EXCEPT ![n] = n]]

(* __list_add(new, before, after).                                         *)
link_between(L, new, before, after) ==
  [next |-> [L.next EXCEPT ![new] = after, ![before] = new],
   prev |-> [L.prev EXCEPT ![after] = new, ![new] = before]]

list_add(L, new, head) == link_between(L, new, head, L.next[head])

list_add_tail(L, new, head) == link_between(L, new, L.prev[head], head)

list_del_half(L, entry) ==   \* mutant: the node behind keeps its prev
  [L EXCEPT !.next[L.prev[entry]] = L.next[entry]]

(* list_del, by __list_del(entry->prev, entry->next): the fields of entry  *)
(* themselves stay.                                                        *)
list_del(L, entry) ==
  [next |-> [L.next EXCEPT ![L.prev[entry]] = L.next[entry]],
   prev |-> [L.prev EXCEPT ![L.next[entry]] = L.prev[entry]]]

list_empty_never(L, head) == FALSE   \* mutant
list_empty(L, head) == L.next[head] = head

(* The nodes that list_for_each visits: it goes on from the head until it  *)
(* is back there, and does not end on a list that never leads back.        *)
visits(L, head) ==
  LET at[k \in Nat] == IF k = 0 THEN head ELSE L.next[at[k - 1]]
      N == Cardinality(DOMAIN L.next)
      back == {k \in 1..N : at[k] = head}
      last == IF back = {} THEN N ELSE (CHOOSE k \in back : \A j \in back : k <= j) - 1
  IN  [ends |-> back # {}, nodes |-> [k \in 1..last |-> at[k]]]

list_for_each(L, head) == visits(L, head).nodes

(* The nodes of s, and no others, are threaded behind head, both ways.     *)
Threads(L, head, s) ==
  LET ring == <<head>> \o s
      after(i) == IF i = Len(ring) THEN 1 ELSE i + 1
  IN  /\ \A i, j \in DOMAIN ring : ring[i] = ring[j] => i = j
      /\ \A i \in DOMAIN ring : /\ L.next[ring[i]] = ring[after(i)]
                                /\ L.prev[ring[after(i)]] = ring[i]
=============================================================================
