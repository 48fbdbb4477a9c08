--------------------------- MODULE PcbListsProofs --------------------------
(***************************************************************************)
(* The invariants of PcbLists, for any number of pcbs and semaphores.      *)
(***************************************************************************)
EXTENDS PcbLists, ListxProofs

Lists == Queues \union {"pcb_free"}

(* Every node is what its name says, and no two have the same.             *)
LEMMA NodeFacts ==
  /\ \A p \in Procs : /\ p_list(p) \in Memory /\ p_child(p) \in Memory /\ p_sib(p) \in Memory
                      /\ pcb(p_list(p)) = p /\ pcb(p_sib(p)) = p /\ pcb(p_child(p)) = p
  /\ \A p, x \in Procs : /\ p_list(p) # p_child(x) /\ p_list(p) # p_sib(x)
                         /\ p_child(p) # p_sib(x)
  /\ \A p \in Procs, q \in Lists : /\ p_list(p) # head(q) /\ p_child(p) # head(q)
                                   /\ p_sib(p) # head(q)
  /\ \A q \in Lists : head(q) \in Memory /\ pcb(head(q)) = q
  /\ pcb_free_h = head("pcb_free") /\ "pcb_free" \in Lists /\ "ready" \in Lists
  /\ Sems \subseteq Lists /\ Queues \subseteq Lists
<1>1. \A p \in Procs : p_list(p) \in Nodes /\ p_child(p) \in Nodes /\ p_sib(p) \in Nodes
  BY DEF Nodes, p_list, p_child, p_sib
<1>2. \A q \in Lists : head(q) \in Nodes
  BY DEF Nodes, Lists
<1>3. /\ \A p, x \in Procs : /\ p_list(p) # p_child(x) /\ p_list(p) # p_sib(x)
                             /\ p_child(p) # p_sib(x)
      /\ \A p \in Procs, q \in Lists : /\ p_list(p) # head(q) /\ p_child(p) # head(q)
                                       /\ p_sib(p) # head(q)
  BY DEF p_list, p_child, p_sib, head
<1>4. /\ \A p \in Procs : pcb(p_list(p)) = p /\ pcb(p_sib(p)) = p /\ pcb(p_child(p)) = p
      /\ \A q \in Lists : pcb(head(q)) = q
  BY DEF p_list, p_child, p_sib, head, pcb
<1> QED
  BY <1>1, <1>2, <1>3, <1>4 DEF Memory, pcb_free_h, Lists, Queues

(* There are as many nodes as pcbs and lists need, and no more.            *)
LEMMA MemoryFinite == IsFiniteSet(Memory)
<1>1. IsFiniteSet(Procs) /\ IsFiniteSet(Sems)
  BY PcbAssumption
<1> DEFINE kinds == {"p_list", "p_child", "p_sib"}
<1>2. IsFiniteSet(kinds)
  <2>1. IsFiniteSet({"p_list"}) /\ IsFiniteSet({"p_child"}) /\ IsFiniteSet({"p_sib"})
    BY FS_Singleton
  <2>2. IsFiniteSet({"p_list"} \union {"p_child"})
    BY <2>1, FS_Union
  <2>3. IsFiniteSet(({"p_list"} \union {"p_child"}) \union {"p_sib"})
    BY <2>1, <2>2, FS_Union
  <2>4. kinds = ({"p_list"} \union {"p_child"}) \union {"p_sib"}
    OBVIOUS
  <2> QED
    BY <2>3, <2>4
<1>3. IsFiniteSet(kinds \X Procs)
  BY <1>1, <1>2, FS_Product
<1>4. IsFiniteSet(Lists)
  <2>1. Lists = (Sems \union {"ready"}) \union {"pcb_free"}
    BY DEF Lists, Queues
  <2> QED
    BY <1>1, <2>1, FS_AddElement
<1>5. IsFiniteSet({head(q) : q \in Lists})
  <2> DEFINE f == [q \in Lists |-> head(q)]
  <2>1. f \in Surjection(Lists, {head(q) : q \in Lists})
    BY DEF Surjection
  <2> HIDE DEF f
  <2> QED
    BY <1>4, <2>1, FS_Surjection
<1>6. Memory = ((kinds \X Procs) \union {head(q) : q \in Lists}) \union {NULL}
  BY DEF Memory, Nodes, Lists
<1> QED
  BY <1>3, <1>5, <1>6, FS_Union, FS_AddElement

-----------------------------------------------------------------------------
(* The lists of a memory: F has the pcbs on each list of p_lists, K those  *)
(* on the list of children of each pcb in W, and the pcbs in O are linked  *)
(* to themselves.                                                          *)

listed(s) == [i \in DOMAIN s |-> p_list(s[i])]
born(s) == [i \in DOMAIN s |-> p_sib(s[i])]

HeadsOf(W, O) == {head(q) : q \in Lists} \union {p_child(p) : p \in W} \union {p_list(p) : p \in O}

RingsOf(W, O, F, K) ==
  [h \in HeadsOf(W, O) |->
     IF h \in {head(q) : q \in Lists} THEN listed(F[pcb(h)])
     ELSE IF h \in {p_child(p) : p \in W} THEN born(K[pcb(h)]) ELSE <<>>]

Shapes(W, O, F, K) ==
  /\ W \in SUBSET Procs /\ O \in SUBSET Procs
  /\ F \in [Lists -> Seq(Procs)] /\ K \in [Procs -> Seq(Procs)]

Holds(L, W, O, F, K) ==
  /\ Shapes(W, O, F, K)
  /\ L \in MemoryOf(Memory)
  /\ Rings(L, HeadsOf(W, O), RingsOf(W, O, F, K))

(* Sequences of pcbs and of their nodes.                                   *)
LEMMA NodesOf ==
  ASSUME NEW s \in Seq(Procs)
  PROVE  /\ Len(s) \in Nat /\ DOMAIN s = 1..Len(s) /\ \A i \in 1..Len(s) : s[i] \in Procs
         /\ listed(s) \in Seq(Memory) /\ Len(listed(s)) = Len(s)
         /\ born(s) \in Seq(Memory) /\ Len(born(s)) = Len(s)
         /\ \A i \in 1..Len(s) : listed(s)[i] = p_list(s[i]) /\ born(s)[i] = p_sib(s[i])
<1>1. Len(s) \in Nat /\ DOMAIN s = 1..Len(s) /\ \A i \in 1..Len(s) : s[i] \in Procs
  BY LenProperties, ElementOfSeq
<1>2. listed(s) \in [1..Len(s) -> Memory] /\ born(s) \in [1..Len(s) -> Memory]
  BY <1>1, NodeFacts DEF listed, born
<1>3. listed(s) \in Seq(Memory) /\ born(s) \in Seq(Memory)
  BY <1>1, <1>2, SeqDef
<1>4. Len(listed(s)) = Len(s) /\ Len(born(s)) = Len(s)
  BY <1>1, <1>2, <1>3, LenProperties
<1> QED
  BY <1>1, <1>3, <1>4 DEF listed, born

(* A pcb more in a list of pcbs is its node more in the list of nodes,     *)
LEMMA NodesOfInserted ==
  ASSUME NEW s \in Seq(Procs), NEW p \in Procs, NEW i \in 0..Len(s)
  PROVE  /\ Inserted(s, i, p) \in Seq(Procs)
         /\ listed(Inserted(s, i, p)) = Inserted(listed(s), i, p_list(p))
         /\ born(Inserted(s, i, p)) = Inserted(born(s), i, p_sib(p))
<1> DEFINE n == Len(s)
           t == Inserted(s, i, p)
<1>1. n \in Nat /\ i \in 0..n /\ Len(listed(s)) = n /\ Len(born(s)) = n
      /\ \A k \in 1..n : listed(s)[k] = p_list(s[k]) /\ born(s)[k] = p_sib(s[k])
  BY NodesOf
<1>2. t \in Seq(Procs)
  <2>1. \E q \in Procs : TRUE
    OBVIOUS
  <2>2. t \in [1..(n + 1) -> Procs]
    <3>1. \A k \in 1..n : s[k] \in Procs
      BY NodesOf
    <3> QED
      BY <1>1, <3>1 DEF Inserted
  <2> QED
    BY <1>1, <2>2, SeqDef
<1>3. t = [k \in 1..(n + 1) |-> IF k <= i THEN s[k] ELSE IF k = i + 1 THEN p ELSE s[k - 1]]
  BY DEF Inserted
<1> HIDE DEF t, n
<1>4. \A k \in 1..(n + 1) : k <= i => k \in 1..n
  BY <1>1
<1>5. \A k \in 1..(n + 1) : ~(k <= i) /\ k # i + 1 => k - 1 \in 1..n
  BY <1>1
<1>6. listed(t) = [k \in 1..(n + 1) |-> IF k <= i THEN listed(s)[k]
                                        ELSE IF k = i + 1 THEN p_list(p) ELSE listed(s)[k - 1]]
  BY <1>1, <1>3, <1>4, <1>5 DEF listed
<1>7. born(t) = [k \in 1..(n + 1) |-> IF k <= i THEN born(s)[k]
                                      ELSE IF k = i + 1 THEN p_sib(p) ELSE born(s)[k - 1]]
  BY <1>1, <1>3, <1>4, <1>5 DEF born
<1> QED
  BY <1>1, <1>2, <1>6, <1>7 DEF t, Inserted

(* and a pcb less a node less.                                             *)
LEMMA NodesOfWithout ==
  ASSUME NEW s \in Seq(Procs), NEW i \in 1..Len(s)
  PROVE  /\ Without(s, i) \in Seq(Procs)
         /\ listed(Without(s, i)) = Without(listed(s), i)
         /\ born(Without(s, i)) = Without(born(s), i)
<1> DEFINE n == Len(s)
           t == Without(s, i)
<1>1. n \in Nat /\ i \in 1..n /\ Len(listed(s)) = n /\ Len(born(s)) = n
      /\ \A k \in 1..n : s[k] \in Procs /\ listed(s)[k] = p_list(s[k]) /\ born(s)[k] = p_sib(s[k])
  BY NodesOf
<1>2. t = [k \in 1..(n - 1) |-> IF k < i THEN s[k] ELSE s[k + 1]]
  BY DEF Without
<1> HIDE DEF t, n
<1>3. \A k \in 1..(n - 1) : k \in 1..n /\ k + 1 \in 1..n
  BY <1>1
<1>4. t \in Seq(Procs)
  <2>1. t \in [1..(n - 1) -> Procs] /\ n - 1 \in Nat
    BY <1>1, <1>2, <1>3
  <2> QED
    BY <2>1, SeqDef
<1>5. listed(t) = [k \in 1..(n - 1) |-> IF k < i THEN listed(s)[k] ELSE listed(s)[k + 1]]
  BY <1>1, <1>2, <1>3 DEF listed
<1>6. born(t) = [k \in 1..(n - 1) |-> IF k < i THEN born(s)[k] ELSE born(s)[k + 1]]
  BY <1>1, <1>2, <1>3 DEF born
<1> QED
  BY <1>1, <1>4, <1>5, <1>6 DEF t, Without

(* The rings of a memory, list by list.                                    *)
LEMMA RingFacts ==
  ASSUME NEW W, NEW O, NEW F, NEW K, Shapes(W, O, F, K)
  PROVE  /\ HeadsOf(W, O) \in SUBSET Memory
         /\ RingsOf(W, O, F, K) \in [HeadsOf(W, O) -> Seq(Memory)]
         /\ \A q \in Lists : head(q) \in HeadsOf(W, O) /\ RingsOf(W, O, F, K)[head(q)] = listed(F[q])
         /\ \A x \in W : p_child(x) \in HeadsOf(W, O) /\ RingsOf(W, O, F, K)[p_child(x)] = born(K[x])
         /\ \A p \in O : p_list(p) \in HeadsOf(W, O) /\ RingsOf(W, O, F, K)[p_list(p)] = <<>>
<1> DEFINE A == HeadsOf(W, O)
           Q == RingsOf(W, O, F, K)
<1>1. /\ W \in SUBSET Procs /\ O \in SUBSET Procs
      /\ \A q \in Lists : F[q] \in Seq(Procs)
      /\ \A x \in Procs : K[x] \in Seq(Procs)
  BY DEF Shapes
<1>2. A \in SUBSET Memory
  BY <1>1, NodeFacts DEF HeadsOf
<1>3. /\ \A q \in Lists : head(q) \in A
      /\ \A x \in W : p_child(x) \in A
      /\ \A p \in O : p_list(p) \in A
      /\ \A h \in A : \/ \E q \in Lists : h = head(q)
                      \/ \E x \in W : h = p_child(x)
                      \/ \E p \in O : h = p_list(p)
  BY DEF HeadsOf
<1>4. ASSUME NEW q \in Lists PROVE Q[head(q)] = listed(F[q])
  <2>1. head(q) \in {head(r) : r \in Lists} /\ pcb(head(q)) = q
    BY NodeFacts
  <2> QED
    BY <1>3, <2>1 DEF RingsOf
<1>5. ASSUME NEW x \in W PROVE Q[p_child(x)] = born(K[x])
  <2>1. /\ p_child(x) \notin {head(r) : r \in Lists}
        /\ p_child(x) \in {p_child(p) : p \in W}
        /\ pcb(p_child(x)) = x
    BY <1>1, NodeFacts
  <2> QED
    BY <1>3, <2>1 DEF RingsOf
<1>6. ASSUME NEW p \in O PROVE Q[p_list(p)] = <<>>
  <2>1. /\ p_list(p) \notin {head(r) : r \in Lists}
        /\ p_list(p) \notin {p_child(x) : x \in W}
    BY <1>1, NodeFacts
  <2> QED
    BY <1>3, <2>1 DEF RingsOf
<1>7. Q \in [A -> Seq(Memory)]
  <2>1. Q = [h \in A |-> Q[h]]
    BY DEF RingsOf
  <2>2. <<>> \in Seq(Memory)
    OBVIOUS
  <2>3. \A q \in Lists : listed(F[q]) \in Seq(Memory)
    BY <1>1, NodesOf
  <2>4. \A x \in W : born(K[x]) \in Seq(Memory)
    BY <1>1, NodesOf
  <2> HIDE DEF Q, A
  <2>5. \A h \in A : Q[h] \in Seq(Memory)
    BY <1>3, <1>4, <1>5, <1>6, <2>2, <2>3, <2>4
  <2> QED
    BY <2>1, <2>5
<1> QED
  BY <1>2, <1>3, <1>4, <1>5, <1>6, <1>7

(* Which nodes are in which ring.                                          *)
LEMMA RingNodes ==
  ASSUME NEW W, NEW O, NEW F, NEW K, Shapes(W, O, F, K)
  PROVE  /\ \A q \in Lists : Ring(head(q), listed(F[q])) = {head(q)} \union {p_list(F[q][i]) : i \in 1..Len(F[q])}
         /\ \A x \in W : Ring(p_child(x), born(K[x])) = {p_child(x)} \union {p_sib(K[x][i]) : i \in 1..Len(K[x])}
         /\ \A p \in O : Ring(p_list(p), <<>>) = {p_list(p)}
<1>1. /\ W \in SUBSET Procs /\ O \in SUBSET Procs
      /\ \A q \in Lists : F[q] \in Seq(Procs)
      /\ \A x \in Procs : K[x] \in Seq(Procs)
  BY DEF Shapes
<1>2. ASSUME NEW q \in Lists
      PROVE  Ring(head(q), listed(F[q])) = {head(q)} \union {p_list(F[q][i]) : i \in 1..Len(F[q])}
  <2> DEFINE s == F[q]
  <2>1. s \in Seq(Procs) /\ head(q) \in Memory
    BY <1>1, NodeFacts
  <2> HIDE DEF s
  <2>2. /\ listed(s) \in Seq(Memory) /\ Len(listed(s)) = Len(s)
        /\ \A i \in 1..Len(s) : listed(s)[i] = p_list(s[i])
    BY <2>1, NodesOf
  <2>3. Ring(head(q), listed(s)) = {head(q)} \union {listed(s)[i] : i \in 1..Len(listed(s))}
    BY <2>1, <2>2, AtProperties
  <2> QED
    BY <2>2, <2>3 DEF s
<1>3. ASSUME NEW x \in W
      PROVE  Ring(p_child(x), born(K[x])) = {p_child(x)} \union {p_sib(K[x][i]) : i \in 1..Len(K[x])}
  <2> DEFINE s == K[x]
  <2>1. s \in Seq(Procs) /\ p_child(x) \in Memory
    BY <1>1, NodeFacts
  <2> HIDE DEF s
  <2>2. /\ born(s) \in Seq(Memory) /\ Len(born(s)) = Len(s)
        /\ \A i \in 1..Len(s) : born(s)[i] = p_sib(s[i])
    BY <2>1, NodesOf
  <2>3. Ring(p_child(x), born(s)) = {p_child(x)} \union {born(s)[i] : i \in 1..Len(born(s))}
    BY <2>1, <2>2, AtProperties
  <2> QED
    BY <2>2, <2>3 DEF s
<1>4. ASSUME NEW p \in O PROVE Ring(p_list(p), <<>>) = {p_list(p)}
  <2> DEFINE none == <<>>
  <2>1. none \in Seq(Memory) /\ Len(none) = 0
    OBVIOUS
  <2> HIDE DEF none
  <2>2. \A i \in 0..0 : At(p_list(p), none, i) = p_list(p)
    BY <2>1 DEF At
  <2>3. 0 \in 0..0
    OBVIOUS
  <2>4. Ring(p_list(p), none) = {At(p_list(p), none, i) : i \in 0..0}
    BY <2>1 DEF Ring
  <2>5. Ring(p_list(p), none) = {p_list(p)}
    BY <2>2, <2>3, <2>4
  <2> QED
    BY <2>5 DEF none
<1> QED
  BY <1>2, <1>3, <1>4

(* No pcb is on two lists of p_lists, or twice on one; the same of the     *)
(* lists of children.                                                      *)
Apart(W, O, F, K) ==
  /\ \A q, r \in Lists : \A i \in 1..Len(F[q]), j \in 1..Len(F[r]) : F[q][i] = F[r][j] => q = r /\ i = j
  /\ \A x, y \in W : \A i \in 1..Len(K[x]), j \in 1..Len(K[y]) : K[x][i] = K[y][j] => x = y /\ i = j
  /\ \A q \in Lists : \A i \in 1..Len(F[q]) : F[q][i] \notin O

(* Rings that share no node are lists that share no pcb, each of them      *)
(* once.                                                                   *)
LEMMA HoldsApart ==
  ASSUME NEW L, NEW W, NEW O, NEW F, NEW K, Holds(L, W, O, F, K)
  PROVE  Apart(W, O, F, K)
<1> DEFINE A == HeadsOf(W, O)
           Q == RingsOf(W, O, F, K)
<1>1. /\ Shapes(W, O, F, K) /\ Rings(L, A, Q)
      /\ W \in SUBSET Procs /\ O \in SUBSET Procs
      /\ \A q \in Lists : F[q] \in Seq(Procs)
      /\ \A x \in Procs : K[x] \in Seq(Procs)
  BY DEF Holds, Shapes
<1> HIDE DEF A, Q
<1>2. /\ \A q \in Lists : head(q) \in A /\ Q[head(q)] = listed(F[q]) /\ head(q) \in Memory
      /\ \A x \in W : p_child(x) \in A /\ Q[p_child(x)] = born(K[x]) /\ p_child(x) \in Memory
      /\ \A p \in O : p_list(p) \in A /\ Q[p_list(p)] = <<>>
  BY <1>1, RingFacts, NodeFacts DEF A, Q
<1>3. \A h \in A, g \in A : g # h => Ring(g, Q[g]) \intersect Ring(h, Q[h]) = {}
  BY <1>1 DEF Rings
<1>4. ASSUME NEW h \in Memory, NEW s \in Seq(Memory), RingOf(L, h, s),
             NEW i \in 1..Len(s), NEW j \in 1..Len(s), s[i] = s[j]
      PROVE  i = j
  <2>1. Len(s) \in Nat /\ At(h, s, i) = s[i] /\ At(h, s, j) = s[j]
    BY AtProperties
  <2>2. i \in 0..Len(s) /\ j \in 0..Len(s)
    BY <2>1
  <2> QED
    BY <1>4, <2>1, <2>2 DEF RingOf
<1>5. /\ \A q \in Lists : Ring(head(q), listed(F[q])) = {head(q)} \union {p_list(F[q][i]) : i \in 1..Len(F[q])}
      /\ \A x \in W : Ring(p_child(x), born(K[x])) = {p_child(x)} \union {p_sib(K[x][i]) : i \in 1..Len(K[x])}
      /\ \A p \in O : Ring(p_list(p), <<>>) = {p_list(p)}
  BY <1>1, RingNodes
<1>6. /\ \A q \in Lists : \A i \in 1..Len(F[q]) : p_list(F[q][i]) \in Ring(head(q), Q[head(q)])
      /\ \A x \in W : \A i \in 1..Len(K[x]) : p_sib(K[x][i]) \in Ring(p_child(x), Q[p_child(x)])
      /\ \A p \in O : p_list(p) \in Ring(p_list(p), Q[p_list(p)])
  BY <1>2, <1>5
<1>7. ASSUME NEW q \in Lists, NEW r \in Lists, NEW i \in 1..Len(F[q]), NEW j \in 1..Len(F[r]),
             F[q][i] = F[r][j]
      PROVE  q = r /\ i = j
  <2>1. p_list(F[q][i]) \in Ring(head(q), Q[head(q)]) /\ p_list(F[r][j]) \in Ring(head(r), Q[head(r)])
    BY <1>6
  <2>2. head(q) = head(r)
    BY <1>2, <1>3, <1>7, <2>1
  <2>3. q = r
    BY <2>2, NodeFacts
  <2>4. /\ listed(F[q]) \in Seq(Memory) /\ Len(listed(F[q])) = Len(F[q])
        /\ listed(F[q])[i] = listed(F[q])[j]
    BY <1>1, <1>7, <2>3, NodesOf
  <2>5. RingOf(L, head(q), listed(F[q]))
    BY <1>1, <1>2 DEF Rings
  <2> QED
    BY <1>2, <1>4, <2>3, <2>4, <2>5
<1>8. ASSUME NEW x \in W, NEW y \in W, NEW i \in 1..Len(K[x]), NEW j \in 1..Len(K[y]),
             K[x][i] = K[y][j]
      PROVE  x = y /\ i = j
  <2>1. p_sib(K[x][i]) \in Ring(p_child(x), Q[p_child(x)]) /\ p_sib(K[y][j]) \in Ring(p_child(y), Q[p_child(y)])
    BY <1>6
  <2>2. p_child(x) = p_child(y)
    BY <1>2, <1>3, <1>8, <2>1
  <2>3. x = y
    BY <1>1, <2>2, NodeFacts
  <2>4. /\ born(K[x]) \in Seq(Memory) /\ Len(born(K[x])) = Len(K[x])
        /\ born(K[x])[i] = born(K[x])[j]
    BY <1>1, <1>8, <2>3, NodesOf
  <2>5. RingOf(L, p_child(x), born(K[x]))
    BY <1>1, <1>2 DEF Rings
  <2> QED
    BY <1>2, <1>4, <2>3, <2>4, <2>5
<1>9. ASSUME NEW q \in Lists, NEW i \in 1..Len(F[q]), F[q][i] \in O
      PROVE  FALSE
  <2> DEFINE p == F[q][i]
  <2>1. p_list(p) \in Ring(head(q), Q[head(q)]) /\ p_list(p) \in Ring(p_list(p), Q[p_list(p)])
    BY <1>6, <1>9
  <2>2. p_list(p) = head(q)
    BY <1>2, <1>3, <1>9, <2>1
  <2> QED
    BY <1>1, <1>9, <2>2, NodeFacts
<1> QED
  BY <1>7, <1>8, <1>9 DEF Apart

(* The nodes that are in no ring.                                          *)
LEMMA InNoRing ==
  ASSUME NEW W, NEW O, NEW F, NEW K, Shapes(W, O, F, K), NEW p \in Procs
  PROVE  /\ p \notin O /\ (\A q \in Lists : \A i \in 1..Len(F[q]) : F[q][i] # p)
              => \A h \in HeadsOf(W, O) : p_list(p) \notin Ring(h, RingsOf(W, O, F, K)[h])
         /\ (\A x \in W : \A i \in 1..Len(K[x]) : K[x][i] # p)
              => \A h \in HeadsOf(W, O) : p_sib(p) \notin Ring(h, RingsOf(W, O, F, K)[h])
         /\ p \notin W
              => \A h \in HeadsOf(W, O) : p_child(p) \notin Ring(h, RingsOf(W, O, F, K)[h])
<1> DEFINE A == HeadsOf(W, O)
           Q == RingsOf(W, O, F, K)
<1>1. /\ W \in SUBSET Procs /\ O \in SUBSET Procs
      /\ \A q \in Lists : \A i \in 1..Len(F[q]) : F[q][i] \in Procs
      /\ \A x \in W : \A i \in 1..Len(K[x]) : K[x][i] \in Procs
  <2>1. /\ W \in SUBSET Procs /\ O \in SUBSET Procs
        /\ \A q \in Lists : F[q] \in Seq(Procs)
        /\ \A x \in W : K[x] \in Seq(Procs)
    BY DEF Shapes
  <2> QED
    BY <2>1, NodesOf
<1>2. \A h \in A : \/ \E q \in Lists : h = head(q)
                   \/ \E x \in W : h = p_child(x)
                   \/ \E r \in O : h = p_list(r)
  BY DEF HeadsOf
<1>3. /\ \A q \in Lists : Ring(head(q), Q[head(q)]) = {head(q)} \union {p_list(F[q][i]) : i \in 1..Len(F[q])}
      /\ \A x \in W : Ring(p_child(x), Q[p_child(x)]) = {p_child(x)} \union {p_sib(K[x][i]) : i \in 1..Len(K[x])}
      /\ \A r \in O : Ring(p_list(r), Q[p_list(r)]) = {p_list(r)}
  <2>1. /\ \A q \in Lists : Q[head(q)] = listed(F[q])
        /\ \A x \in W : Q[p_child(x)] = born(K[x])
        /\ \A r \in O : Q[p_list(r)] = <<>>
    BY RingFacts
  <2>2. /\ \A q \in Lists : Ring(head(q), listed(F[q])) = {head(q)} \union {p_list(F[q][i]) : i \in 1..Len(F[q])}
        /\ \A x \in W : Ring(p_child(x), born(K[x])) = {p_child(x)} \union {p_sib(K[x][i]) : i \in 1..Len(K[x])}
        /\ \A r \in O : Ring(p_list(r), <<>>) = {p_list(r)}
    BY RingNodes
  <2> HIDE DEF Q
  <2> QED
    BY <2>1, <2>2
<1> HIDE DEF A, Q
<1>4. ASSUME p \notin O, \A q \in Lists : \A i \in 1..Len(F[q]) : F[q][i] # p, NEW h \in A
      PROVE  p_list(p) \notin Ring(h, Q[h])
  <2>1. \A x \in Procs : x # p => p_list(x) # p_list(p)
    BY NodeFacts
  <2>2. ASSUME NEW q \in Lists, h = head(q) PROVE p_list(p) \notin Ring(h, Q[h])
    BY <1>1, <1>3, <1>4, <2>1, <2>2, NodeFacts
  <2>3. ASSUME NEW x \in W, h = p_child(x) PROVE p_list(p) \notin Ring(h, Q[h])
    BY <1>1, <1>3, <2>3, NodeFacts
  <2>4. ASSUME NEW r \in O, h = p_list(r) PROVE p_list(p) \notin Ring(h, Q[h])
    BY <1>1, <1>3, <1>4, <2>1, <2>4
  <2> QED
    BY <1>2, <2>2, <2>3, <2>4
<1>5. ASSUME \A x \in W : \A i \in 1..Len(K[x]) : K[x][i] # p, NEW h \in A
      PROVE  p_sib(p) \notin Ring(h, Q[h])
  <2>1. \A x \in Procs : x # p => p_sib(x) # p_sib(p)
    BY NodeFacts
  <2>2. ASSUME NEW q \in Lists, h = head(q) PROVE p_sib(p) \notin Ring(h, Q[h])
    BY <1>1, <1>3, <2>2, NodeFacts
  <2>3. ASSUME NEW x \in W, h = p_child(x) PROVE p_sib(p) \notin Ring(h, Q[h])
    BY <1>1, <1>3, <1>5, <2>1, <2>3, NodeFacts
  <2>4. ASSUME NEW r \in O, h = p_list(r) PROVE p_sib(p) \notin Ring(h, Q[h])
    BY <1>1, <1>3, <2>4, NodeFacts
  <2> QED
    BY <1>2, <2>2, <2>3, <2>4
<1>6. ASSUME p \notin W, NEW h \in A
      PROVE  p_child(p) \notin Ring(h, Q[h])
  <2>1. \A x \in Procs : x # p => p_child(x) # p_child(p)
    BY NodeFacts
  <2>2. ASSUME NEW q \in Lists, h = head(q) PROVE p_child(p) \notin Ring(h, Q[h])
    BY <1>1, <1>3, <2>2, NodeFacts
  <2>3. ASSUME NEW x \in W, h = p_child(x) PROVE p_child(p) \notin Ring(h, Q[h])
    BY <1>1, <1>3, <1>6, <2>1, <2>3, NodeFacts
  <2>4. ASSUME NEW r \in O, h = p_list(r) PROVE p_child(p) \notin Ring(h, Q[h])
    <3>1. \A x \in Procs : p_list(x) # p_child(p)
      BY NodeFacts
    <3> QED
      BY <1>1, <1>3, <2>4, <3>1
  <2> QED
    BY <1>2, <2>2, <2>3, <2>4
<1> QED
  BY <1>4, <1>5, <1>6 DEF A, Q

(* The rings of a memory are known by their sequences.                     *)
LEMMA SameRings ==
  ASSUME NEW V, NEW P, NEW G, NEW J, Shapes(V, P, G, J), NEW R,
         R \in [HeadsOf(V, P) -> Seq(Memory)],
         \A q \in Lists : R[head(q)] = listed(G[q]),
         \A x \in V : R[p_child(x)] = born(J[x]),
         \A p \in P : R[p_list(p)] = <<>>
  PROVE  RingsOf(V, P, G, J) = R
<1> DEFINE A == HeadsOf(V, P)
           Q == RingsOf(V, P, G, J)
<1>1. /\ Q \in [A -> Seq(Memory)]
      /\ \A q \in Lists : Q[head(q)] = listed(G[q])
      /\ \A x \in V : Q[p_child(x)] = born(J[x])
      /\ \A p \in P : Q[p_list(p)] = <<>>
  BY RingFacts
<1>2. \A h \in A : \/ \E q \in Lists : h = head(q)
                   \/ \E x \in V : h = p_child(x)
                   \/ \E p \in P : h = p_list(p)
  BY DEF HeadsOf
<1> HIDE DEF A, Q
<1>3. \A h \in A : Q[h] = R[h]
  BY <1>1, <1>2
<1> QED
  BY <1>1, <1>3 DEF A, Q

-----------------------------------------------------------------------------
(* What each list function does to the lists of a memory.                  *)

(* A pcb linked to itself, or the children of a pcb, may be forgotten.     *)
LEMMA HoldsFewer ==
  ASSUME NEW L, NEW W, NEW O, NEW F, NEW K, Holds(L, W, O, F, K),
         NEW V \in SUBSET W, NEW P \in SUBSET O
  PROVE  Holds(L, V, P, F, K)
<1> DEFINE A == HeadsOf(W, O)
           Q == RingsOf(W, O, F, K)
           B == HeadsOf(V, P)
           R == [h \in B |-> Q[h]]
<1>1. Shapes(W, O, F, K) /\ L \in MemoryOf(Memory) /\ Rings(L, A, Q)
  BY DEF Holds
<1>2. /\ A \in SUBSET Memory /\ Q \in [A -> Seq(Memory)]
      /\ \A q \in Lists : Q[head(q)] = listed(F[q])
      /\ \A x \in W : Q[p_child(x)] = born(K[x])
      /\ \A p \in O : Q[p_list(p)] = <<>>
  BY <1>1, RingFacts
<1>3. B \in SUBSET A
  BY DEF HeadsOf
<1>4. Shapes(V, P, F, K)
  BY <1>1 DEF Shapes
<1>5. /\ \A q \in Lists : head(q) \in B
      /\ \A x \in V : p_child(x) \in B
      /\ \A p \in P : p_list(p) \in B
  BY <1>4, RingFacts
<1> HIDE DEF A, Q, B
<1>6. R \in [B -> Seq(Memory)] /\ Rings(L, B, R)
  BY <1>1, <1>2, <1>3, RingsFewer
<1>7. /\ \A q \in Lists : R[head(q)] = listed(F[q])
      /\ \A x \in V : R[p_child(x)] = born(K[x])
      /\ \A p \in P : R[p_list(p)] = <<>>
  BY <1>2, <1>5
<1> HIDE DEF R
<1>8. RingsOf(V, P, F, K) = R
  BY <1>4, <1>6, <1>7, SameRings DEF B
<1> QED
  BY <1>1, <1>4, <1>6, <1>8 DEF Holds, B

(* The list of head(q) gets the sequence t, the others stay.               *)
LEMMA OtherList ==
  ASSUME NEW W, NEW O, NEW F, NEW K, Shapes(W, O, F, K), NEW q \in Lists, NEW t \in Seq(Procs)
  PROVE  /\ Shapes(W, O, [F EXCEPT ![q] = t], K)
         /\ RingsOf(W, O, [F EXCEPT ![q] = t], K) = [RingsOf(W, O, F, K) EXCEPT ![head(q)] = listed(t)]
<1> DEFINE A == HeadsOf(W, O)
           Q == RingsOf(W, O, F, K)
           G == [F EXCEPT ![q] = t]
           R == [Q EXCEPT ![head(q)] = listed(t)]
<1>1. Shapes(W, O, G, K)
  BY DEF Shapes
<1>2. G[q] = t /\ \A r \in Lists \ {q} : G[r] = F[r]
  BY DEF Shapes
<1>3. /\ Q \in [A -> Seq(Memory)] /\ W \in SUBSET Procs /\ O \in SUBSET Procs
      /\ \A r \in Lists : head(r) \in A /\ Q[head(r)] = listed(F[r])
      /\ \A x \in W : p_child(x) \in A /\ Q[p_child(x)] = born(K[x])
      /\ \A p \in O : p_list(p) \in A /\ Q[p_list(p)] = <<>>
  <2>1. W \in SUBSET Procs /\ O \in SUBSET Procs
    BY DEF Shapes
  <2> QED
    BY <2>1, RingFacts
<1>4. listed(t) \in Seq(Memory)
  BY NodesOf
<1> HIDE DEF A, Q, G
<1>5. R \in [A -> Seq(Memory)]
  BY <1>3, <1>4
<1>6. R[head(q)] = listed(t) /\ \A h \in A \ {head(q)} : R[h] = Q[h]
  BY <1>3
<1> HIDE DEF R
<1>7. \A r \in Lists : R[head(r)] = listed(G[r])
  <2>1. \A r \in Lists \ {q} : head(r) # head(q)
    BY NodeFacts
  <2> QED
    BY <1>2, <1>3, <1>6, <2>1
<1>8. \A x \in W : R[p_child(x)] = born(K[x])
  <2>1. \A x \in W : p_child(x) # head(q)
    BY <1>3, NodeFacts
  <2> QED
    BY <1>3, <1>6, <2>1
<1>9. \A p \in O : R[p_list(p)] = <<>>
  <2>1. \A p \in O : p_list(p) # head(q)
    BY <1>3, NodeFacts
  <2> QED
    BY <1>3, <1>6, <2>1
<1>10. RingsOf(W, O, G, K) = R
  BY <1>1, <1>5, <1>7, <1>8, <1>9, SameRings DEF A
<1> QED
  BY <1>1, <1>10 DEF G, R, Q

(* The same of the list of children of x.                                  *)
LEMMA OtherChildren ==
  ASSUME NEW W, NEW O, NEW F, NEW K, Shapes(W, O, F, K), NEW x \in W, NEW t \in Seq(Procs)
  PROVE  /\ Shapes(W, O, F, [K EXCEPT ![x] = t])
         /\ RingsOf(W, O, F, [K EXCEPT ![x] = t]) = [RingsOf(W, O, F, K) EXCEPT ![p_child(x)] = born(t)]
<1> DEFINE A == HeadsOf(W, O)
           Q == RingsOf(W, O, F, K)
           J == [K EXCEPT ![x] = t]
           R == [Q EXCEPT ![p_child(x)] = born(t)]
<1>1. Shapes(W, O, F, J)
  BY DEF Shapes
<1>2. J[x] = t /\ \A y \in W \ {x} : J[y] = K[y]
  BY DEF Shapes
<1>3. /\ Q \in [A -> Seq(Memory)] /\ W \in SUBSET Procs /\ O \in SUBSET Procs
      /\ \A r \in Lists : head(r) \in A /\ Q[head(r)] = listed(F[r])
      /\ \A y \in W : p_child(y) \in A /\ Q[p_child(y)] = born(K[y])
      /\ \A p \in O : p_list(p) \in A /\ Q[p_list(p)] = <<>>
  <2>1. W \in SUBSET Procs /\ O \in SUBSET Procs
    BY DEF Shapes
  <2> QED
    BY <2>1, RingFacts
<1>4. born(t) \in Seq(Memory)
  BY NodesOf
<1> HIDE DEF A, Q, J
<1>5. R \in [A -> Seq(Memory)]
  BY <1>3, <1>4
<1>6. R[p_child(x)] = born(t) /\ \A h \in A \ {p_child(x)} : R[h] = Q[h]
  BY <1>3
<1> HIDE DEF R
<1>7. \A y \in W : R[p_child(y)] = born(J[y])
  <2>1. \A y \in W \ {x} : p_child(y) # p_child(x)
    BY <1>3, NodeFacts
  <2> QED
    BY <1>2, <1>3, <1>6, <2>1
<1>8. \A r \in Lists : R[head(r)] = listed(F[r])
  <2>1. \A r \in Lists : head(r) # p_child(x)
    BY <1>3, NodeFacts
  <2> QED
    BY <1>3, <1>6, <2>1
<1>9. \A p \in O : R[p_list(p)] = <<>>
  <2>1. \A p \in O : p_list(p) # p_child(x)
    BY <1>3, NodeFacts
  <2> QED
    BY <1>3, <1>6, <2>1
<1>10. RingsOf(W, O, F, J) = R
  BY <1>1, <1>5, <1>7, <1>8, <1>9, SameRings DEF A
<1> QED
  BY <1>1, <1>10 DEF J, R, Q

(* list_add_tail of a pcb that is linked to itself.                        *)
LEMMA AddLast ==
  ASSUME NEW L, NEW W, NEW O, NEW F, NEW K, Holds(L, W, O, F, K), NEW q \in Lists,
         NEW p \in Procs, \A r \in Lists : \A i \in 1..Len(F[r]) : F[r][i] # p
  PROVE  Holds(list_add_tail(L, p_list(p), head(q)), W, O \ {p},
               [F EXCEPT ![q] = Inserted(F[q], Len(F[q]), p)], K)
<1> DEFINE P == O \ {p}
           A == HeadsOf(W, P)
           Q == RingsOf(W, P, F, K)
           n == Len(F[q])
           t == Inserted(F[q], n, p)
           M == list_add_tail(L, p_list(p), head(q))
<1>1. Holds(L, W, P, F, K) /\ p \notin P
  BY HoldsFewer
<1> HIDE DEF P
<1>2. Shapes(W, P, F, K) /\ L \in MemoryOf(Memory) /\ Rings(L, A, Q) /\ F[q] \in Seq(Procs)
  BY <1>1 DEF Holds, Shapes
<1>3. A \in SUBSET Memory /\ Q \in [A -> Seq(Memory)] /\ head(q) \in A /\ Q[head(q)] = listed(F[q])
  BY <1>2, RingFacts
<1>4. \A h \in A : p_list(p) \notin Ring(h, Q[h])
  BY <1>1, <1>2, InNoRing
<1>5. p_list(p) \in Memory
  BY NodeFacts
<1>6. n \in 0..Len(F[q]) /\ Len(Q[head(q)]) = n
  BY <1>2, <1>3, NodesOf
<1>7. t \in Seq(Procs) /\ listed(t) = Inserted(listed(F[q]), n, p_list(p))
  BY <1>2, <1>6, NodesOfInserted
<1> HIDE DEF t
<1>8. /\ Shapes(W, P, [F EXCEPT ![q] = t], K)
      /\ RingsOf(W, P, [F EXCEPT ![q] = t], K) = [Q EXCEPT ![head(q)] = listed(t)]
  BY <1>2, <1>7, OtherList
<1> HIDE DEF A, Q, M
<1>9. LET R == [Q EXCEPT ![head(q)] = Inserted(Q[head(q)], Len(Q[head(q)]), p_list(p))]
      IN  M \in MemoryOf(Memory) /\ Rings(M, A, R)
  BY <1>2, <1>3, <1>4, <1>5, RingsAddLast DEF M
<1>10. M \in MemoryOf(Memory) /\ Rings(M, A, [Q EXCEPT ![head(q)] = listed(t)])
  BY <1>3, <1>6, <1>7, <1>9
<1> QED
  BY <1>8, <1>10 DEF Holds, M, t, A, P

(* list_add of such a pcb.                                                 *)
LEMMA AddFirst ==
  ASSUME NEW L, NEW W, NEW O, NEW F, NEW K, Holds(L, W, O, F, K), NEW q \in Lists,
         NEW p \in Procs, \A r \in Lists : \A i \in 1..Len(F[r]) : F[r][i] # p
  PROVE  Holds(list_add(L, p_list(p), head(q)), W, O \ {p},
               [F EXCEPT ![q] = Inserted(F[q], 0, p)], K)
<1> DEFINE P == O \ {p}
           A == HeadsOf(W, P)
           Q == RingsOf(W, P, F, K)
           t == Inserted(F[q], 0, p)
           M == list_add(L, p_list(p), head(q))
<1>1. Holds(L, W, P, F, K) /\ p \notin P
  BY HoldsFewer
<1> HIDE DEF P
<1>2. Shapes(W, P, F, K) /\ L \in MemoryOf(Memory) /\ Rings(L, A, Q) /\ F[q] \in Seq(Procs)
  BY <1>1 DEF Holds, Shapes
<1>3. A \in SUBSET Memory /\ Q \in [A -> Seq(Memory)] /\ head(q) \in A /\ Q[head(q)] = listed(F[q])
  BY <1>2, RingFacts
<1>4. \A h \in A : p_list(p) \notin Ring(h, Q[h])
  BY <1>1, <1>2, InNoRing
<1>5. p_list(p) \in Memory
  BY NodeFacts
<1>6. 0 \in 0..Len(F[q])
  BY <1>2, NodesOf
<1>7. t \in Seq(Procs) /\ listed(t) = Inserted(listed(F[q]), 0, p_list(p))
  BY <1>2, <1>6, NodesOfInserted
<1> HIDE DEF t
<1>8. /\ Shapes(W, P, [F EXCEPT ![q] = t], K)
      /\ RingsOf(W, P, [F EXCEPT ![q] = t], K) = [Q EXCEPT ![head(q)] = listed(t)]
  BY <1>2, <1>7, OtherList
<1> HIDE DEF A, Q, M
<1>9. LET R == [Q EXCEPT ![head(q)] = Inserted(Q[head(q)], 0, p_list(p))]
      IN  M \in MemoryOf(Memory) /\ Rings(M, A, R)
  BY <1>2, <1>3, <1>4, <1>5, RingsAddFirst DEF M
<1>10. M \in MemoryOf(Memory) /\ Rings(M, A, [Q EXCEPT ![head(q)] = listed(t)])
  BY <1>3, <1>7, <1>9
<1> QED
  BY <1>8, <1>10 DEF Holds, M, t, A, P

(* INIT_LIST_HEAD of a p_list that is on no list.                          *)
LEMMA InitList ==
  ASSUME NEW L, NEW W, NEW O, NEW F, NEW K, Holds(L, W, O, F, K),
         NEW p \in Procs, \A r \in Lists : \A i \in 1..Len(F[r]) : F[r][i] # p
  PROVE  Holds(INIT_LIST_HEAD(L, p_list(p)), W, O \union {p}, F, K)
<1> DEFINE P == O \ {p}
           A == HeadsOf(W, P)
           Q == RingsOf(W, P, F, K)
           B == HeadsOf(W, O \union {p})
           M == INIT_LIST_HEAD(L, p_list(p))
           R == Alone(A, Q, p_list(p))
<1>1. Holds(L, W, P, F, K) /\ p \notin P
  BY HoldsFewer
<1>2. P \union {p} = O \union {p}
  OBVIOUS
<1> HIDE DEF P
<1>3. Shapes(W, P, F, K) /\ L \in MemoryOf(Memory) /\ Rings(L, A, Q)
  BY <1>1 DEF Holds
<1>4. /\ A \in SUBSET Memory /\ Q \in [A -> Seq(Memory)]
      /\ \A q \in Lists : head(q) \in A /\ Q[head(q)] = listed(F[q])
      /\ \A x \in W : p_child(x) \in A /\ Q[p_child(x)] = born(K[x])
      /\ \A r \in P : p_list(r) \in A /\ Q[p_list(r)] = <<>>
  BY <1>3, RingFacts
<1>5. \A h \in A : p_list(p) \notin Ring(h, Q[h])
  BY <1>1, <1>3, InNoRing
<1>6. p_list(p) \in Memory
  BY NodeFacts
<1>7. B = A \union {p_list(p)}
  BY <1>2 DEF HeadsOf
<1>8. Shapes(W, O \union {p}, F, K)
  BY <1>2, <1>3 DEF Shapes
<1>9. W \in SUBSET Procs /\ P \in SUBSET Procs
  BY <1>3 DEF Shapes
<1> HIDE DEF A, Q, B
<1>10. M \in MemoryOf(Memory) /\ R \in [B -> Seq(Memory)] /\ Rings(M, B, R)
  BY <1>3, <1>4, <1>5, <1>6, <1>7, RingsInit
<1>11. \A q \in Lists : R[head(q)] = listed(F[q])
  BY <1>4, NodeFacts DEF Alone
<1>12. \A x \in W : R[p_child(x)] = born(K[x])
  BY <1>4, <1>9, NodeFacts DEF Alone
<1>13. \A r \in O \union {p} : R[p_list(r)] = <<>>
  BY <1>2, <1>4, <1>9 DEF Alone
<1> HIDE DEF R, M
<1>14. RingsOf(W, O \union {p}, F, K) = R
  <2> DEFINE V == O \union {p}
  <2>1. /\ Shapes(W, V, F, K) /\ R \in [HeadsOf(W, V) -> Seq(Memory)]
        /\ \A r \in V : R[p_list(r)] = <<>>
    BY <1>8, <1>10, <1>13 DEF B
  <2> HIDE DEF V
  <2>2. RingsOf(W, V, F, K) = R
    BY <1>11, <1>12, <2>1, SameRings
  <2> QED
    BY <2>2 DEF V
<1> QED
  BY <1>8, <1>10, <1>14 DEF Holds, B, M

(* list_del of a pcb from the list it is on.                               *)
LEMMA DelList ==
  ASSUME NEW L, NEW W, NEW O, NEW F, NEW K, Holds(L, W, O, F, K), NEW q \in Lists,
         NEW i \in 1..Len(F[q])
  PROVE  /\ F[q][i] \in Procs
         /\ Holds(list_del(L, p_list(F[q][i])), W, O, [F EXCEPT ![q] = Without(F[q], i)], K)
<1> DEFINE A == HeadsOf(W, O)
           Q == RingsOf(W, O, F, K)
           t == Without(F[q], i)
           p == F[q][i]
           M == list_del(L, p_list(p))
<1>1. Shapes(W, O, F, K) /\ L \in MemoryOf(Memory) /\ Rings(L, A, Q)
  BY DEF Holds
<1>2. F[q] \in Seq(Procs)
  BY <1>1 DEF Shapes
<1>3. A \in SUBSET Memory /\ Q \in [A -> Seq(Memory)] /\ head(q) \in A /\ Q[head(q)] = listed(F[q])
  BY <1>1, RingFacts
<1>4. /\ p \in Procs /\ i \in 1..Len(Q[head(q)]) /\ Q[head(q)][i] = p_list(p)
  BY <1>2, <1>3, NodesOf
<1>5. t \in Seq(Procs) /\ listed(t) = Without(listed(F[q]), i)
  BY <1>2, NodesOfWithout
<1> HIDE DEF t
<1>6. /\ Shapes(W, O, [F EXCEPT ![q] = t], K)
      /\ RingsOf(W, O, [F EXCEPT ![q] = t], K) = [Q EXCEPT ![head(q)] = listed(t)]
  BY <1>1, <1>5, OtherList
<1> HIDE DEF A, Q, p, M
<1>7. LET z == Q[head(q)][i]
          N == list_del(L, z)
          R == [Q EXCEPT ![head(q)] = Without(Q[head(q)], i)]
      IN  N \in MemoryOf(Memory) /\ Rings(N, A, R)
  BY <1>1, <1>3, <1>4, RingsDel
<1>8. M \in MemoryOf(Memory) /\ Rings(M, A, [Q EXCEPT ![head(q)] = listed(t)])
  BY <1>3, <1>4, <1>5, <1>7 DEF M
<1> QED
  BY <1>4, <1>6, <1>8 DEF Holds, M, t, A, p

(* INIT_LIST_HEAD of the p_child of a pcb whose children are no list yet.  *)
LEMMA InitChild ==
  ASSUME NEW L, NEW W, NEW O, NEW F, NEW K, Holds(L, W, O, F, K),
         NEW p \in Procs, p \notin W, K[p] = <<>>
  PROVE  Holds(INIT_LIST_HEAD(L, p_child(p)), W \union {p}, O, F, K)
<1> DEFINE A == HeadsOf(W, O)
           Q == RingsOf(W, O, F, K)
           B == HeadsOf(W \union {p}, O)
           M == INIT_LIST_HEAD(L, p_child(p))
           R == Alone(A, Q, p_child(p))
<1>1. Shapes(W, O, F, K) /\ L \in MemoryOf(Memory) /\ Rings(L, A, Q)
  BY DEF Holds
<1>2. /\ A \in SUBSET Memory /\ Q \in [A -> Seq(Memory)]
      /\ \A q \in Lists : head(q) \in A /\ Q[head(q)] = listed(F[q])
      /\ \A x \in W : p_child(x) \in A /\ Q[p_child(x)] = born(K[x])
      /\ \A r \in O : p_list(r) \in A /\ Q[p_list(r)] = <<>>
  BY <1>1, RingFacts
<1>3. \A h \in A : p_child(p) \notin Ring(h, Q[h])
  BY <1>1, InNoRing
<1>4. p_child(p) \in Memory
  BY NodeFacts
<1>5. B = A \union {p_child(p)}
  BY DEF HeadsOf
<1>6. Shapes(W \union {p}, O, F, K)
  BY <1>1 DEF Shapes
<1>7. W \in SUBSET Procs /\ O \in SUBSET Procs
  BY <1>1 DEF Shapes
<1> HIDE DEF A, Q, B
<1>8. M \in MemoryOf(Memory) /\ R \in [B -> Seq(Memory)] /\ Rings(M, B, R)
  BY <1>1, <1>2, <1>3, <1>4, <1>5, RingsInit
<1>9. \A q \in Lists : R[head(q)] = listed(F[q])
  BY <1>2, NodeFacts DEF Alone
<1>10. \A x \in W \union {p} : R[p_child(x)] = born(K[x])
  <2>1. born(K[p]) = <<>>
    BY DEF born
  <2>2. \A x \in W : p_child(x) # p_child(p)
    BY <1>7, NodeFacts
  <2> QED
    BY <1>2, <2>1, <2>2 DEF Alone
<1>11. \A r \in O : R[p_list(r)] = <<>>
  BY <1>2, <1>7, NodeFacts DEF Alone
<1> HIDE DEF R, M
<1>12. RingsOf(W \union {p}, O, F, K) = R
  <2> DEFINE V == W \union {p}
  <2>1. /\ Shapes(V, O, F, K) /\ R \in [HeadsOf(V, O) -> Seq(Memory)]
        /\ \A x \in V : R[p_child(x)] = born(K[x])
    BY <1>6, <1>8, <1>10 DEF B
  <2> HIDE DEF V
  <2>2. RingsOf(V, O, F, K) = R
    BY <1>9, <1>11, <2>1, SameRings
  <2> QED
    BY <2>2 DEF V
<1> QED
  BY <1>6, <1>8, <1>12 DEF Holds, B, M

(* INIT_LIST_HEAD of the p_sib of a pcb that is no child.                  *)
LEMMA InitSib ==
  ASSUME NEW L, NEW W, NEW O, NEW F, NEW K, Holds(L, W, O, F, K),
         NEW p \in Procs, \A x \in W : \A i \in 1..Len(K[x]) : K[x][i] # p
  PROVE  Holds(INIT_LIST_HEAD(L, p_sib(p)), W, O, F, K)
<1> DEFINE A == HeadsOf(W, O)
           Q == RingsOf(W, O, F, K)
           B == A \union {p_sib(p)}
           M == INIT_LIST_HEAD(L, p_sib(p))
           R == Alone(A, Q, p_sib(p))
<1>1. Shapes(W, O, F, K) /\ L \in MemoryOf(Memory) /\ Rings(L, A, Q)
  BY DEF Holds
<1>2. A \in SUBSET Memory /\ Q \in [A -> Seq(Memory)]
  BY <1>1, RingFacts
<1>3. \A h \in A : p_sib(p) \notin Ring(h, Q[h])
  BY <1>1, InNoRing
<1>4. p_sib(p) \in Memory
  BY NodeFacts
<1>5. p_sib(p) \notin A
  <2>1. W \in SUBSET Procs /\ O \in SUBSET Procs
    BY <1>1 DEF Shapes
  <2> QED
    BY <2>1, NodeFacts DEF HeadsOf
<1> HIDE DEF A, Q
<1>6. M \in MemoryOf(Memory) /\ R \in [B -> Seq(Memory)] /\ Rings(M, B, R)
  BY <1>1, <1>2, <1>3, <1>4, RingsInit
<1>7. Rings(M, A, [g \in A |-> R[g]])
  <2>1. A \in SUBSET B /\ B \in SUBSET Memory
    BY <1>2, <1>4
  <2> HIDE DEF R, B, M
  <2> QED
    BY <1>6, <2>1, RingsFewer
<1>8. [g \in A |-> R[g]] = Q
  BY <1>2, <1>5 DEF Alone
<1> QED
  BY <1>1, <1>6, <1>7, <1>8 DEF Holds, A, Q

(* insert_child of a pcb that is no child.                                 *)
LEMMA AddChild ==
  ASSUME NEW L, NEW W, NEW O, NEW F, NEW K, Holds(L, W, O, F, K), NEW x \in W,
         NEW p \in Procs, \A y \in W : \A i \in 1..Len(K[y]) : K[y][i] # p
  PROVE  Holds(insert_child(L, x, p), W, O, F, [K EXCEPT ![x] = Inserted(K[x], 0, p)])
<1> DEFINE A == HeadsOf(W, O)
           Q == RingsOf(W, O, F, K)
           t == Inserted(K[x], 0, p)
           M == list_add(L, p_sib(p), p_child(x))
<1>1. Shapes(W, O, F, K) /\ L \in MemoryOf(Memory) /\ Rings(L, A, Q)
  BY DEF Holds
<1>2. K[x] \in Seq(Procs)
  BY <1>1 DEF Shapes
<1>3. A \in SUBSET Memory /\ Q \in [A -> Seq(Memory)] /\ p_child(x) \in A /\ Q[p_child(x)] = born(K[x])
  BY <1>1, RingFacts
<1>4. \A h \in A : p_sib(p) \notin Ring(h, Q[h])
  BY <1>1, InNoRing
<1>5. p_sib(p) \in Memory
  BY NodeFacts
<1>6. 0 \in 0..Len(K[x])
  BY <1>2, NodesOf
<1>7. t \in Seq(Procs) /\ born(t) = Inserted(born(K[x]), 0, p_sib(p))
  BY <1>2, <1>6, NodesOfInserted
<1> HIDE DEF t
<1>8. /\ Shapes(W, O, F, [K EXCEPT ![x] = t])
      /\ RingsOf(W, O, F, [K EXCEPT ![x] = t]) = [Q EXCEPT ![p_child(x)] = born(t)]
  BY <1>1, <1>7, OtherChildren
<1> HIDE DEF A, Q, M
<1>9. LET R == [Q EXCEPT ![p_child(x)] = Inserted(Q[p_child(x)], 0, p_sib(p))]
      IN  M \in MemoryOf(Memory) /\ Rings(M, A, R)
  BY <1>1, <1>3, <1>4, <1>5, RingsAddFirst DEF M
<1>10. M \in MemoryOf(Memory) /\ Rings(M, A, [Q EXCEPT ![p_child(x)] = born(t)])
  BY <1>3, <1>7, <1>9
<1> QED
  BY <1>8, <1>10 DEF Holds, M, t, A, insert_child

(* out_child of a child, also when remove_child takes the first one.       *)
LEMMA DelChild ==
  ASSUME NEW L, NEW W, NEW O, NEW F, NEW K, Holds(L, W, O, F, K), NEW x \in W,
         NEW i \in 1..Len(K[x])
  PROVE  /\ K[x][i] \in Procs
         /\ Holds(out_child(L, K[x][i]), W, O, F, [K EXCEPT ![x] = Without(K[x], i)])
<1> DEFINE A == HeadsOf(W, O)
           Q == RingsOf(W, O, F, K)
           t == Without(K[x], i)
           p == K[x][i]
           M == list_del(L, p_sib(p))
<1>1. Shapes(W, O, F, K) /\ L \in MemoryOf(Memory) /\ Rings(L, A, Q)
  BY DEF Holds
<1>2. K[x] \in Seq(Procs)
  BY <1>1 DEF Shapes
<1>3. A \in SUBSET Memory /\ Q \in [A -> Seq(Memory)] /\ p_child(x) \in A /\ Q[p_child(x)] = born(K[x])
  BY <1>1, RingFacts
<1>4. /\ p \in Procs /\ i \in 1..Len(Q[p_child(x)]) /\ Q[p_child(x)][i] = p_sib(p)
  BY <1>2, <1>3, NodesOf
<1>5. t \in Seq(Procs) /\ born(t) = Without(born(K[x]), i)
  BY <1>2, NodesOfWithout
<1> HIDE DEF t
<1>6. /\ Shapes(W, O, F, [K EXCEPT ![x] = t])
      /\ RingsOf(W, O, F, [K EXCEPT ![x] = t]) = [Q EXCEPT ![p_child(x)] = born(t)]
  BY <1>1, <1>5, OtherChildren
<1> HIDE DEF A, Q, p, M
<1>7. LET z == Q[p_child(x)][i]
          N == list_del(L, z)
          R == [Q EXCEPT ![p_child(x)] = Without(Q[p_child(x)], i)]
      IN  N \in MemoryOf(Memory) /\ Rings(N, A, R)
  BY <1>1, <1>3, <1>4, RingsDel
<1>8. M \in MemoryOf(Memory) /\ Rings(M, A, [Q EXCEPT ![p_child(x)] = born(t)])
  BY <1>3, <1>4, <1>5, <1>7 DEF M
<1> QED
  BY <1>4, <1>6, <1>8 DEF Holds, M, t, A, p, out_child

(* What the functions that only read find.                                 *)
LEMMA View ==
  ASSUME NEW L, NEW W, NEW O, NEW F, NEW K, Holds(L, W, O, F, K)
  PROVE  /\ \A q \in Lists : /\ list_for_each(L, head(q)) = listed(F[q])
                             /\ Threads(L, head(q), listed(F[q]))
                             /\ list_empty(L, head(q)) <=> F[q] = <<>>
                             /\ F[q] # <<>> => /\ 1 \in 1..Len(F[q])
                                               /\ L.next[head(q)] = p_list(F[q][1])
         /\ \A x \in W : /\ list_for_each(L, p_child(x)) = born(K[x])
                         /\ Threads(L, p_child(x), born(K[x]))
                         /\ list_empty(L, p_child(x)) <=> K[x] = <<>>
                         /\ K[x] # <<>> => /\ 1 \in 1..Len(K[x])
                                           /\ L.next[p_child(x)] = p_sib(K[x][1])
                         /\ L.next[p_child(x)] # NULL
         /\ \A p \in O : L.next[p_list(p)] = p_list(p)
<1> DEFINE A == HeadsOf(W, O)
           Q == RingsOf(W, O, F, K)
<1>1. Shapes(W, O, F, K) /\ L \in MemoryOf(Memory) /\ Rings(L, A, Q)
  BY DEF Holds
<1>2. /\ \A q \in Lists : F[q] \in Seq(Procs)
      /\ \A x \in W : K[x] \in Seq(Procs) /\ x \in Procs
      /\ O \in SUBSET Procs
  BY <1>1 DEF Shapes
<1>3. /\ \A q \in Lists : head(q) \in A /\ Q[head(q)] = listed(F[q])
      /\ \A x \in W : p_child(x) \in A /\ Q[p_child(x)] = born(K[x])
      /\ \A r \in O : p_list(r) \in A /\ Q[p_list(r)] = <<>>
  BY <1>1, RingFacts
<1>4. ASSUME NEW q \in Lists
      PROVE  /\ list_for_each(L, head(q)) = listed(F[q])
             /\ Threads(L, head(q), listed(F[q]))
             /\ list_empty(L, head(q)) <=> F[q] = <<>>
             /\ F[q] # <<>> => 1 \in 1..Len(F[q]) /\ L.next[head(q)] = p_list(F[q][1])
  <2> DEFINE s == F[q]
             u == listed(s)
             h == head(q)
  <2>1. h \in Memory /\ s \in Seq(Procs) /\ RingOf(L, h, u)
    BY <1>1, <1>2, <1>3, NodeFacts DEF Rings
  <2> HIDE DEF s, h
  <2>2. /\ u \in Seq(Memory) /\ Len(u) = Len(s) /\ Len(s) \in Nat
        /\ \A i \in 1..Len(s) : u[i] = p_list(s[i])
    BY <2>1, NodesOf
  <2>3. u = <<>> <=> s = <<>>
    BY <2>1, <2>2, EmptySeq
  <2> HIDE DEF u
  <2>4. list_for_each(L, h) = u
    BY <1>1, <2>1, <2>2, ForEach, MemoryFinite
  <2>5. Threads(L, h, u)
    BY <2>1, <2>2, ThreadsAt
  <2>6. /\ list_empty(L, h) <=> u = <<>>
        /\ u # <<>> => Len(u) \in Nat \ {0} /\ L.next[h] = u[1]
    BY <2>1, <2>2, RingFirst
  <2>7. s # <<>> => 1 \in 1..Len(s) /\ L.next[h] = p_list(s[1])
    BY <2>2, <2>3, <2>6
  <2> QED
    BY <2>3, <2>4, <2>5, <2>6, <2>7 DEF s, h, u
<1>5. ASSUME NEW x \in W
      PROVE  /\ list_for_each(L, p_child(x)) = born(K[x])
             /\ Threads(L, p_child(x), born(K[x]))
             /\ list_empty(L, p_child(x)) <=> K[x] = <<>>
             /\ K[x] # <<>> => 1 \in 1..Len(K[x]) /\ L.next[p_child(x)] = p_sib(K[x][1])
             /\ L.next[p_child(x)] # NULL
  <2> DEFINE s == K[x]
             u == born(s)
             h == p_child(x)
  <2>1. h \in Memory /\ s \in Seq(Procs) /\ RingOf(L, h, u)
    BY <1>1, <1>2, <1>3, NodeFacts DEF Rings
  <2>8. h # NULL /\ \A y \in Procs : p_sib(y) # NULL
    BY <1>2, PcbAssumption DEF Nodes, p_child, p_sib
  <2> HIDE DEF s, h
  <2>2. /\ u \in Seq(Memory) /\ Len(u) = Len(s) /\ Len(s) \in Nat
        /\ \A i \in 1..Len(s) : u[i] = p_sib(s[i]) /\ s[i] \in Procs
    BY <2>1, NodesOf
  <2>3. u = <<>> <=> s = <<>>
    BY <2>1, <2>2, EmptySeq
  <2> HIDE DEF u
  <2>4. list_for_each(L, h) = u
    BY <1>1, <2>1, <2>2, ForEach, MemoryFinite
  <2>5. Threads(L, h, u)
    BY <2>1, <2>2, ThreadsAt
  <2>6. /\ list_empty(L, h) <=> u = <<>>
        /\ u # <<>> => Len(u) \in Nat \ {0} /\ L.next[h] = u[1]
    BY <2>1, <2>2, RingFirst
  <2>7. s # <<>> => 1 \in 1..Len(s) /\ L.next[h] = p_sib(s[1])
    BY <2>2, <2>3, <2>6
  <2>9. L.next[h] # NULL
    BY <2>2, <2>3, <2>6, <2>7, <2>8 DEF list_empty
  <2> QED
    BY <2>3, <2>4, <2>5, <2>6, <2>7, <2>9 DEF s, h, u
<1>6. ASSUME NEW p \in O PROVE L.next[p_list(p)] = p_list(p)
  <2> DEFINE none == <<>>
  <2>1. RingOf(L, p_list(p), none)
    BY <1>1, <1>3 DEF Rings
  <2>2. Len(none) = 0 /\ none \in Seq(Memory) /\ none = <<>>
    OBVIOUS
  <2> HIDE DEF none
  <2>3. p_list(p) \in Memory
    BY <1>2, NodeFacts
  <2>4. list_empty(L, p_list(p))
    BY <2>1, <2>2, <2>3, RingFirst
  <2> QED
    BY <2>4 DEF list_empty
<1> QED
  BY <1>4, <1>5, <1>6

(* The elements of a sequence with an element more or less.                *)
LEMMA InsertedElems ==
  ASSUME NEW s \in Seq(Procs), NEW p \in Procs, NEW i \in 0..Len(s)
  PROVE  /\ Range(Inserted(s, i, p)) = Range(s) \union {p}
         /\ \A k \in 1..Len(Inserted(s, i, p)) :
              Inserted(s, i, p)[k] = p \/ \E j \in 1..Len(s) : Inserted(s, i, p)[k] = s[j]
<1> DEFINE n == Len(s)
           t == Inserted(s, i, p)
<1>1. n \in Nat /\ i \in 0..n /\ DOMAIN s = 1..n
  BY NodesOf
<1>2. t = [k \in 1..(n + 1) |-> IF k <= i THEN s[k] ELSE IF k = i + 1 THEN p ELSE s[k - 1]]
  BY DEF Inserted
<1>3. DOMAIN t = 1..(n + 1) /\ Len(t) = n + 1
  <2>1. t \in Seq(Procs)
    BY NodesOfInserted
  <2>2. DOMAIN t = 1..(n + 1)
    BY <1>2
  <2> HIDE DEF t, n
  <2>3. DOMAIN t = 1..Len(t) /\ Len(t) \in Nat
    BY <2>1, LenProperties
  <2> QED
    BY <1>1, <2>2, <2>3
<1> HIDE DEF t, n
<1>4. \A k \in 1..(n + 1) : \/ k \in 1..n /\ t[k] = s[k]
                            \/ t[k] = p
                            \/ k - 1 \in 1..n /\ t[k] = s[k - 1]
  BY <1>1, <1>2
<1>5. i + 1 \in 1..(n + 1) /\ t[i + 1] = p
  BY <1>1, <1>2
<1>6. \A k \in 1..n : \E j \in 1..(n + 1) : t[j] = s[k]
  <2> SUFFICES ASSUME NEW k \in 1..n PROVE \E j \in 1..(n + 1) : t[j] = s[k]
    OBVIOUS
  <2>1. CASE k <= i
    <3>1. k \in 1..(n + 1) /\ t[k] = s[k]
      BY <1>1, <1>2, <2>1
    <3> QED
      BY <3>1
  <2>2. CASE ~(k <= i)
    <3>1. k + 1 \in 1..(n + 1) /\ ~(k + 1 <= i) /\ k + 1 # i + 1 /\ (k + 1) - 1 = k
      BY <1>1, <2>2
    <3>2. t[k + 1] = s[k]
      BY <1>2, <3>1
    <3> QED
      BY <3>1, <3>2
  <2> QED
    BY <2>1, <2>2
<1>7. Range(t) = {t[k] : k \in 1..(n + 1)} /\ Range(s) = {s[k] : k \in 1..n}
  BY <1>1, <1>3 DEF Range
<1>8. Range(t) = Range(s) \union {p}
  BY <1>4, <1>5, <1>6, <1>7
<1>9. \A k \in 1..Len(t) : t[k] = p \/ \E j \in 1..Len(s) : t[k] = s[j]
  BY <1>3, <1>4, <1>5, <1>6 DEF n
<1> QED
  BY <1>8, <1>9 DEF t

(* A list without one of its places has the other elements.                *)
LEMMA WithoutElems ==
  ASSUME NEW s \in Seq(Procs), NEW i \in 1..Len(s)
  PROVE  /\ \A k \in 1..Len(Without(s, i)) : \E j \in 1..Len(s) : j # i /\ Without(s, i)[k] = s[j]
         /\ (\A j, k \in 1..Len(s) : s[j] = s[k] => j = k)
              => Range(Without(s, i)) = Range(s) \ {s[i]}
<1> DEFINE n == Len(s)
           t == Without(s, i)
<1>1. n \in Nat /\ i \in 1..n /\ DOMAIN s = 1..n
  BY NodesOf
<1>2. t = [k \in 1..(n - 1) |-> IF k < i THEN s[k] ELSE s[k + 1]]
  BY DEF Without
<1>3. DOMAIN t = 1..(n - 1) /\ Len(t) = n - 1
  <2>1. t \in Seq(Procs)
    BY NodesOfWithout
  <2>2. DOMAIN t = 1..(n - 1)
    BY <1>2
  <2> HIDE DEF t, n
  <2>3. DOMAIN t = 1..Len(t) /\ Len(t) \in Nat
    BY <2>1, LenProperties
  <2> QED
    BY <1>1, <2>2, <2>3
<1> HIDE DEF t, n
<1>4. \A k \in 1..(n - 1) : \E j \in 1..n : j # i /\ t[k] = s[j]
  <2> SUFFICES ASSUME NEW k \in 1..(n - 1) PROVE \E j \in 1..n : j # i /\ t[k] = s[j]
    OBVIOUS
  <2>1. CASE k < i
    BY <1>1, <1>2, <2>1
  <2>2. CASE ~(k < i)
    <3>1. k + 1 \in 1..n /\ k + 1 # i /\ t[k] = s[k + 1]
      BY <1>1, <1>2, <2>2
    <3> QED
      BY <3>1
  <2> QED
    BY <2>1, <2>2
<1>5. \A j \in 1..n : j # i => \E k \in 1..(n - 1) : t[k] = s[j]
  <2> SUFFICES ASSUME NEW j \in 1..n, j # i PROVE \E k \in 1..(n - 1) : t[k] = s[j]
    OBVIOUS
  <2>1. CASE j < i
    <3>1. j \in 1..(n - 1) /\ t[j] = s[j]
      BY <1>1, <1>2, <2>1
    <3> QED
      BY <3>1
  <2>2. CASE ~(j < i)
    <3>1. j - 1 \in 1..(n - 1) /\ ~(j - 1 < i) /\ (j - 1) + 1 = j
      BY <1>1, <2>2
    <3>2. t[j - 1] = s[j]
      BY <1>2, <3>1
    <3> QED
      BY <3>1, <3>2
  <2> QED
    BY <2>1, <2>2
<1>6. Range(t) = {t[k] : k \in 1..(n - 1)} /\ Range(s) = {s[k] : k \in 1..n}
  BY <1>1, <1>3 DEF Range
<1>7. ASSUME \A j, k \in 1..n : s[j] = s[k] => j = k
      PROVE  Range(t) = Range(s) \ {s[i]}
  <2>1. ASSUME NEW y \in Range(t) PROVE y \in Range(s) \ {s[i]}
    <3>1. PICK k \in 1..(n - 1) : y = t[k]
      BY <1>6, <2>1
    <3>2. PICK j \in 1..n : j # i /\ t[k] = s[j]
      BY <1>4
    <3>3. s[j] # s[i]
      BY <1>1, <1>7, <3>2
    <3> QED
      BY <1>6, <3>1, <3>2, <3>3
  <2>2. ASSUME NEW y \in Range(s) \ {s[i]} PROVE y \in Range(t)
    <3>1. PICK j \in 1..n : y = s[j]
      BY <1>6
    <3>2. j # i
      BY <3>1
    <3> QED
      BY <1>5, <1>6, <3>1, <3>2
  <2> QED
    BY <2>1, <2>2
<1> QED
  BY <1>3, <1>4, <1>7 DEF t, n

-----------------------------------------------------------------------------
(* The same in terms of the lists alone, without the memory.               *)

On(F, q) == Range(F[q])
Once(s) == \A i, j \in 1..Len(s) : s[i] = s[j] => i = j
Place(s, p) == CHOOSE i \in 1..Len(s) : s[i] = p

(* p put at the end or at the front of a list, and taken out of one.       *)
Queued(F, q, p) == [F EXCEPT ![q] = Inserted(F[q], Len(F[q]), p)]
Pushed(F, q, p) == [F EXCEPT ![q] = Inserted(F[q], 0, p)]
Dropped(F, q, p) ==
  IF p \in On(F, q) THEN [F EXCEPT ![q] = Without(F[q], Place(F[q], p))] ELSE F

(* The elements of a sequence of pcbs.                                     *)
LEMMA Elements ==
  ASSUME NEW s \in Seq(Procs)
  PROVE  /\ Len(s) \in Nat
         /\ Range(s) \subseteq Procs
         /\ \A p : p \in Range(s) <=> \E i \in 1..Len(s) : s[i] = p
         /\ s = <<>> <=> Range(s) = {}
         /\ s # <<>> => 1 \in 1..Len(s) /\ s[1] \in Range(s)
         /\ \A p \in Range(s) : Place(s, p) \in 1..Len(s) /\ s[Place(s, p)] = p
<1>1. Len(s) \in Nat /\ DOMAIN s = 1..Len(s) /\ \A i \in 1..Len(s) : s[i] \in Procs
  BY NodesOf
<1>2. \A p : p \in Range(s) <=> \E i \in 1..Len(s) : s[i] = p
  BY <1>1 DEF Range
<1>3. s = <<>> <=> Len(s) = 0
  BY EmptySeq
<1>4. s # <<>> => 1 \in 1..Len(s)
  BY <1>1, <1>3
<1>5. s # <<>> => s[1] \in Range(s)
  BY <1>2, <1>4
<1>6. s = <<>> => Range(s) = {}
  BY <1>1, <1>2, <1>3
<1>7. \A p \in Range(s) : Place(s, p) \in 1..Len(s) /\ s[Place(s, p)] = p
  BY <1>2 DEF Place
<1> QED
  BY <1>1, <1>2, <1>4, <1>5, <1>6, <1>7

(* What the three changes do to the sets of elements: G is F with p more   *)
(* or less on the list of q.                                               *)
Grown(I, F, G, q, p) ==
  /\ G \in [I -> Seq(Procs)]
  /\ On(G, q) = On(F, q) \union {p}
  /\ \A r \in I : r # q => G[r] = F[r]
Shrunk(I, F, G, q, p) ==
  /\ G \in [I -> Seq(Procs)]
  /\ On(G, q) = On(F, q) \ {p}
  /\ \A r \in I : r # q => G[r] = F[r]

(* At the end,                                                             *)
LEMMA QueuedOn ==
  ASSUME NEW I, NEW F \in [I -> Seq(Procs)], NEW q \in I, NEW p \in Procs
  PROVE  Grown(I, F, Queued(F, q, p), q, p)
<1>1. F[q] \in Seq(Procs) /\ Len(F[q]) \in 0..Len(F[q])
  BY Elements
<1>2. /\ Inserted(F[q], Len(F[q]), p) \in Seq(Procs)
      /\ Range(Inserted(F[q], Len(F[q]), p)) = Range(F[q]) \union {p}
  BY <1>1, NodesOfInserted, InsertedElems
<1> QED
  BY <1>2 DEF Queued, On, Grown

(* at the front,                                                           *)
LEMMA PushedOn ==
  ASSUME NEW I, NEW F \in [I -> Seq(Procs)], NEW q \in I, NEW p \in Procs
  PROVE  Grown(I, F, Pushed(F, q, p), q, p)
<1>1. F[q] \in Seq(Procs) /\ 0 \in 0..Len(F[q])
  BY Elements
<1>2. /\ Inserted(F[q], 0, p) \in Seq(Procs)
      /\ Range(Inserted(F[q], 0, p)) = Range(F[q]) \union {p}
  BY <1>1, NodesOfInserted, InsertedElems
<1> QED
  BY <1>2 DEF Pushed, On, Grown

(* and taken out.                                                          *)
LEMMA DroppedOn ==
  ASSUME NEW I, NEW F \in [I -> Seq(Procs)], NEW q \in I, Once(F[q]), NEW p
  PROVE  Shrunk(I, F, Dropped(F, q, p), q, p)
<1>0. SUFFICES /\ Dropped(F, q, p) \in [I -> Seq(Procs)]
               /\ On(Dropped(F, q, p), q) = On(F, q) \ {p}
               /\ \A r \in I : r # q => Dropped(F, q, p)[r] = F[r]
  BY DEF Shrunk
<1>1. CASE p \in On(F, q)
  <2> DEFINE s == F[q]
             i == Place(s, p)
  <2>1. s \in Seq(Procs) /\ Once(s)
    OBVIOUS
  <2>2. i \in 1..Len(s) /\ s[i] = p
    BY <1>1, Elements DEF On
  <2> HIDE DEF s, i
  <2>3. Without(s, i) \in Seq(Procs)
    BY <2>1, <2>2, NodesOfWithout
  <2>4. Range(Without(s, i)) = Range(s) \ {p}
    BY <2>1, <2>2, WithoutElems DEF Once
  <2>5. Dropped(F, q, p) = [F EXCEPT ![q] = Without(s, i)]
    BY <1>1 DEF Dropped, s, i
  <2> QED
    BY <2>3, <2>4, <2>5 DEF On, s
<1>2. CASE p \notin On(F, q)
  BY <1>2 DEF Dropped
<1> QED
  BY <1>1, <1>2

(* The lists of pcbs share no pcb, nor do the lists of children.           *)
Parted(W, O, F, K) ==
  /\ \A q, r \in Lists : q # r => On(F, q) \intersect On(F, r) = {}
  /\ \A x, y \in W : x # y => On(K, x) \intersect On(K, y) = {}
  /\ \A q \in Lists : On(F, q) \intersect O = {}
  /\ \A q \in Lists : Once(F[q])
  /\ \A x \in W : Once(K[x])

(* A memory that holds lists holds each pcb on one of them at most.        *)
LEMMA HoldsParted ==
  ASSUME NEW L, NEW W, NEW O, NEW F, NEW K, Holds(L, W, O, F, K)
  PROVE  /\ W \in SUBSET Procs /\ O \in SUBSET Procs
         /\ F \in [Lists -> Seq(Procs)] /\ K \in [Procs -> Seq(Procs)]
         /\ Parted(W, O, F, K)
<1>1. /\ W \in SUBSET Procs /\ O \in SUBSET Procs
      /\ F \in [Lists -> Seq(Procs)] /\ K \in [Procs -> Seq(Procs)]
  BY DEF Holds, Shapes
<1>2. Apart(W, O, F, K)
  BY HoldsApart
<1>3. /\ \A q \in Lists : \A p : p \in On(F, q) <=> \E i \in 1..Len(F[q]) : F[q][i] = p
      /\ \A x \in W : \A p : p \in On(K, x) <=> \E i \in 1..Len(K[x]) : K[x][i] = p
  BY <1>1, Elements DEF On
<1>4. ASSUME NEW q \in Lists, NEW r \in Lists, q # r PROVE On(F, q) \intersect On(F, r) = {}
  BY <1>2, <1>3, <1>4 DEF Apart
<1>5. ASSUME NEW x \in W, NEW y \in W, x # y PROVE On(K, x) \intersect On(K, y) = {}
  BY <1>2, <1>3, <1>5 DEF Apart
<1>6. ASSUME NEW q \in Lists PROVE On(F, q) \intersect O = {} /\ Once(F[q])
  BY <1>2, <1>3 DEF Apart, Once
<1>7. ASSUME NEW x \in W PROVE Once(K[x])
  BY <1>2 DEF Apart, Once
<1> QED
  BY <1>1, <1>4, <1>5, <1>6, <1>7 DEF Parted

-----------------------------------------------------------------------------
(* The functions of pcb.c on a memory that Holds.                          *)

(* The functions that read.                                                *)
LEMMA Reads ==
  ASSUME NEW L, NEW W, NEW O, NEW F, NEW K, Holds(L, W, O, F, K)
  PROVE  /\ \A q \in Lists : /\ list_empty(L, head(q)) <=> F[q] = <<>>
                             /\ F[q] # <<>> => /\ pcb(L.next[head(q)]) = F[q][1]
                                               /\ F[q][1] \in On(F, q) /\ F[q][1] \in Procs
                             /\ \A p \in Procs :
                                  p_list(p) \in Range(list_for_each(L, head(q))) <=> p \in On(F, q)
         /\ \A p \in Procs : is_alive(L, p) <=> p \notin On(F, "pcb_free")
         /\ \A x \in W : /\ list_empty(L, p_child(x)) <=> K[x] = <<>>
                         /\ K[x] # <<>> => /\ pcb(L.next[p_child(x)]) = K[x][1]
                                           /\ K[x][1] \in On(K, x) /\ K[x][1] \in Procs
                         /\ L.next[p_child(x)] # NULL
<1>1. /\ W \in SUBSET Procs /\ F \in [Lists -> Seq(Procs)] /\ K \in [Procs -> Seq(Procs)]
  BY HoldsParted
<1>2. ASSUME NEW q \in Lists
      PROVE  /\ list_empty(L, head(q)) <=> F[q] = <<>>
             /\ F[q] # <<>> => /\ pcb(L.next[head(q)]) = F[q][1]
                               /\ F[q][1] \in On(F, q) /\ F[q][1] \in Procs
             /\ \A p \in Procs :
                  p_list(p) \in Range(list_for_each(L, head(q))) <=> p \in On(F, q)
  <2>1. F[q] \in Seq(Procs)
    BY <1>1
  <2>2. /\ list_empty(L, head(q)) <=> F[q] = <<>>
        /\ F[q] # <<>> => L.next[head(q)] = p_list(F[q][1])
        /\ list_for_each(L, head(q)) = listed(F[q])
    BY View
  <2>3. F[q] # <<>> => F[q][1] \in On(F, q) /\ F[q][1] \in Procs
    BY <2>1, Elements DEF On
  <2>4. \A p \in Procs : pcb(p_list(p)) = p
    BY NodeFacts
  <2>5. ASSUME NEW p \in Procs PROVE p_list(p) \in Range(listed(F[q])) <=> p \in On(F, q)
    <3> DEFINE s == F[q]
               u == listed(s)
    <3>1. s \in Seq(Procs)
      BY <2>1
    <3>2. p \in On(F, q) <=> \E i \in 1..Len(s) : s[i] = p
      BY <3>1, Elements DEF On
    <3> HIDE DEF s
    <3>3. /\ u \in Seq(Memory) /\ Len(u) = Len(s)
          /\ \A i \in 1..Len(s) : u[i] = p_list(s[i]) /\ s[i] \in Procs
      BY <3>1, NodesOf
    <3> HIDE DEF u
    <3>4. DOMAIN u = 1..Len(s)
      BY <3>3, LenProperties
    <3>5. p_list(p) \in Range(u) <=> \E i \in 1..Len(s) : u[i] = p_list(p)
      BY <3>4 DEF Range
    <3>6. p_list(p) \in Range(u) <=> \E i \in 1..Len(s) : s[i] = p
      BY <2>4, <3>3, <3>5
    <3> QED
      BY <3>2, <3>6 DEF u, s
  <2> QED
    BY <2>2, <2>3, <2>4, <2>5
<1>3. ASSUME NEW x \in W
      PROVE  /\ list_empty(L, p_child(x)) <=> K[x] = <<>>
             /\ K[x] # <<>> => /\ pcb(L.next[p_child(x)]) = K[x][1]
                               /\ K[x][1] \in On(K, x) /\ K[x][1] \in Procs
             /\ L.next[p_child(x)] # NULL
  <2>1. K[x] \in Seq(Procs)
    BY <1>1
  <2>2. /\ list_empty(L, p_child(x)) <=> K[x] = <<>>
        /\ K[x] # <<>> => L.next[p_child(x)] = p_sib(K[x][1])
        /\ L.next[p_child(x)] # NULL
    BY View
  <2>3. K[x] # <<>> => K[x][1] \in On(K, x) /\ K[x][1] \in Procs
    BY <2>1, Elements DEF On
  <2> QED
    BY <2>2, <2>3, NodeFacts
<1>4. "pcb_free" \in Lists /\ pcb_free_h = head("pcb_free")
  BY NodeFacts
<1> QED
  BY <1>2, <1>3, <1>4 DEF is_alive

(* insert_proc_q of a pcb that is on no list puts it at the end of the     *)
(* queue.                                                                  *)
LEMMA insert_proc_qHolds ==
  ASSUME NEW L, NEW W, NEW O, NEW F, NEW K, Holds(L, W, O, F, K), NEW q \in Lists,
         NEW p \in Procs, \A r \in Lists : p \notin On(F, r)
  PROVE  Holds(insert_proc_q(L, q, p), W, O \ {p}, Queued(F, q, p), K)
<1>1. F \in [Lists -> Seq(Procs)]
  BY HoldsParted
<1>2. \A r \in Lists : \A i \in 1..Len(F[r]) : F[r][i] # p
  BY <1>1, Elements DEF On
<1>3. Holds(list_add_tail(L, p_list(p), head(q)), W, O \ {p},
            [F EXCEPT ![q] = Inserted(F[q], Len(F[q]), p)], K)
  BY <1>2, AddLast
<1> QED
  BY <1>3 DEF insert_proc_q, Queued

(* free_pcb does not look at the p_list it overwrites: no list may hold    *)
(* the pcb.                                                                *)
LEMMA free_pcbHolds ==
  ASSUME NEW L, NEW W, NEW O, NEW F, NEW K, Holds(L, W, O, F, K),
         NEW p \in Procs, \A r \in Lists : p \notin On(F, r)
  PROVE  Holds(free_pcb(L, p), W, O \ {p}, Pushed(F, "pcb_free", p), K)
<1>1. F \in [Lists -> Seq(Procs)]
  BY HoldsParted
<1>2. \A r \in Lists : \A i \in 1..Len(F[r]) : F[r][i] # p
  BY <1>1, Elements DEF On
<1>3. pcb_free_h = head("pcb_free") /\ "pcb_free" \in Lists
  BY NodeFacts
<1>4. Holds(list_add(L, p_list(p), head("pcb_free")), W, O \ {p},
            [F EXCEPT !["pcb_free"] = Inserted(F["pcb_free"], 0, p)], K)
  BY <1>2, <1>3, AddFirst
<1> QED
  BY <1>3, <1>4 DEF free_pcb, Pushed

(* list_del leaves p_list as it was, so that the pcb is on no list and     *)
(* not linked to itself.                                                   *)
LEMMA list_delHolds ==
  ASSUME NEW L, NEW W, NEW O, NEW F, NEW K, Holds(L, W, O, F, K), NEW q \in Lists,
         NEW p \in On(F, q)
  PROVE  /\ p \in Procs
         /\ Holds(list_del(L, p_list(p)), W, O, Dropped(F, q, p), K)
         /\ \A r \in Lists : p \notin On(Dropped(F, q, p), r)
<1>1. F \in [Lists -> Seq(Procs)] /\ Parted(W, O, F, K)
  BY HoldsParted
<1> DEFINE i == Place(F[q], p)
<1>2. i \in 1..Len(F[q]) /\ F[q][i] = p
  BY <1>1, Elements DEF On
<1>3. Dropped(F, q, p) = [F EXCEPT ![q] = Without(F[q], i)]
  BY DEF Dropped
<1> HIDE DEF i
<1>4. p \in Procs /\ Holds(list_del(L, p_list(p)), W, O, [F EXCEPT ![q] = Without(F[q], i)], K)
  <2>1. F[q][i] \in Procs /\ Holds(list_del(L, p_list(F[q][i])), W, O, [F EXCEPT ![q] = Without(F[q], i)], K)
    BY <1>2, DelList
  <2> QED
    BY <1>2, <2>1
<1>5. Once(F[q])
  BY <1>1 DEF Parted
<1>6. /\ On(Dropped(F, q, p), q) = On(F, q) \ {p}
      /\ \A r \in Lists : r # q => Dropped(F, q, p)[r] = F[r]
  <2>1. Shrunk(Lists, F, Dropped(F, q, p), q, p)
    BY <1>1, <1>5, DroppedOn
  <2> QED
    BY <2>1 DEF Shrunk
<1>7. ASSUME NEW r \in Lists, r # q PROVE p \notin On(Dropped(F, q, p), r)
  BY <1>1, <1>6, <1>7 DEF Parted, On
<1> QED
  BY <1>3, <1>4, <1>6, <1>7

(* out_proc_q links the pcb it takes out to itself, and does nothing to    *)
(* one that is not on the queue.                                           *)
LEMMA out_proc_qHolds ==
  ASSUME NEW L, NEW W, NEW O, NEW F, NEW K, Holds(L, W, O, F, K), NEW q \in Lists, NEW p \in Procs
  PROVE  Holds(out_proc_q(L, q, p), W, IF p \in On(F, q) THEN O \union {p} ELSE O, Dropped(F, q, p), K)
<1>1. p_list(p) \in Range(list_for_each(L, head(q))) <=> p \in On(F, q)
  BY Reads
<1>2. CASE p \in On(F, q)
  <2> DEFINE M == list_del(L, p_list(p))
             G == Dropped(F, q, p)
  <2>1. Holds(M, W, O, G, K) /\ \A r \in Lists : p \notin On(G, r)
    BY <1>2, list_delHolds
  <2>2. out_proc_q(L, q, p) = INIT_LIST_HEAD(M, p_list(p))
    BY <1>1, <1>2 DEF out_proc_q
  <2> HIDE DEF M, G
  <2>3. G \in [Lists -> Seq(Procs)]
    BY <2>1, HoldsParted
  <2>4. \A r \in Lists : \A i \in 1..Len(G[r]) : G[r][i] # p
    BY <2>1, <2>3, Elements DEF On
  <2>5. Holds(INIT_LIST_HEAD(M, p_list(p)), W, O \union {p}, G, K)
    BY <2>1, <2>4, InitList
  <2> QED
    BY <1>2, <2>2, <2>5 DEF G
<1>3. CASE p \notin On(F, q)
  BY <1>1, <1>3 DEF out_proc_q, Dropped
<1> QED
  BY <1>2, <1>3

(* alloc_pcb takes a pcb off the free list with a p_list linked to itself  *)
(* and with no children.                                                   *)
LEMMA alloc_pcbHolds ==
  ASSUME NEW L, NEW W, NEW O, NEW F, NEW K, Holds(L, W, O, F, K), NEW p \in On(F, "pcb_free"),
         p \notin W, K[p] = <<>>, \A x \in W : p \notin On(K, x)
  PROVE  Holds(alloc_pcb(L, p), W \union {p}, O \union {p}, Dropped(F, "pcb_free", p), K)
<1>1. K \in [Procs -> Seq(Procs)]
  BY HoldsParted
<1> DEFINE M == list_del(L, p_list(p))
           G == Dropped(F, "pcb_free", p)
           M1 == INIT_LIST_HEAD(M, p_list(p))
           M2 == INIT_LIST_HEAD(M1, p_child(p))
           P == O \union {p}
           V == W \union {p}
<1>2. p \in Procs /\ Holds(M, W, O, G, K) /\ \A r \in Lists : p \notin On(G, r)
  BY NodeFacts, list_delHolds
<1>3. alloc_pcb(L, p) = INIT_LIST_HEAD(M2, p_sib(p))
  BY DEF alloc_pcb
<1> HIDE DEF M, G
<1>4. G \in [Lists -> Seq(Procs)]
  BY <1>2, HoldsParted
<1>5. \A r \in Lists : \A i \in 1..Len(G[r]) : G[r][i] # p
  BY <1>2, <1>4, Elements DEF On
<1>6. Holds(M1, W, P, G, K)
  BY <1>2, <1>5, InitList
<1> HIDE DEF M1, P
<1>7. Holds(M2, V, P, G, K)
  BY <1>2, <1>6, InitChild
<1>8. \A x \in V : \A i \in 1..Len(K[x]) : K[x][i] # p
  <2>1. W \in SUBSET Procs
    BY HoldsParted
  <2>2. ASSUME NEW x \in W, NEW i \in 1..Len(K[x]) PROVE K[x][i] # p
    <3>1. K[x] \in Seq(Procs)
      BY <1>1, <2>1
    <3> QED
      BY <3>1, Elements DEF On
  <2>3. 1..Len(K[p]) = {}
    BY EmptySeq
  <2> QED
    BY <2>2, <2>3
<1> HIDE DEF M2, V
<1>9. Holds(INIT_LIST_HEAD(M2, p_sib(p)), V, P, G, K)
  BY <1>2, <1>7, <1>8, InitSib
<1> QED
  BY <1>3, <1>9 DEF G, P, V

(* insert_child puts the pcb before its brothers, if nobody has it for a   *)
(* child.                                                                  *)
LEMMA insert_childHolds ==
  ASSUME NEW L, NEW W, NEW O, NEW F, NEW K, Holds(L, W, O, F, K), NEW x \in W,
         NEW p \in Procs, \A y \in W : p \notin On(K, y)
  PROVE  Holds(insert_child(L, x, p), W, O, F, Pushed(K, x, p))
<1>1. K \in [Procs -> Seq(Procs)] /\ W \in SUBSET Procs
  BY HoldsParted
<1>2. \A y \in W : \A i \in 1..Len(K[y]) : K[y][i] # p
  <2> SUFFICES ASSUME NEW y \in W, NEW i \in 1..Len(K[y]) PROVE K[y][i] # p
    OBVIOUS
  <2>1. K[y] \in Seq(Procs)
    BY <1>1
  <2> QED
    BY <2>1, Elements DEF On
<1>3. Holds(insert_child(L, x, p), W, O, F, [K EXCEPT ![x] = Inserted(K[x], 0, p)])
  BY <1>2, AddChild
<1> QED
  BY <1>3 DEF Pushed

(* out_child takes it from among its brothers; its p_sib stays as it was.  *)
LEMMA out_childHolds ==
  ASSUME NEW L, NEW W, NEW O, NEW F, NEW K, Holds(L, W, O, F, K), NEW x \in W, NEW p \in On(K, x)
  PROVE  p \in Procs /\ Holds(out_child(L, p), W, O, F, Dropped(K, x, p))
<1>1. K \in [Procs -> Seq(Procs)] /\ W \in SUBSET Procs
  BY HoldsParted
<1> DEFINE i == Place(K[x], p)
<1>2. i \in 1..Len(K[x]) /\ K[x][i] = p
  <2>1. K[x] \in Seq(Procs)
    BY <1>1
  <2> QED
    BY <2>1, Elements DEF On
<1>3. Dropped(K, x, p) = [K EXCEPT ![x] = Without(K[x], i)]
  BY DEF Dropped
<1> HIDE DEF i
<1>4. K[x][i] \in Procs /\ Holds(out_child(L, K[x][i]), W, O, F, [K EXCEPT ![x] = Without(K[x], i)])
  BY <1>2, DelChild
<1> QED
  BY <1>2, <1>3, <1>4

-----------------------------------------------------------------------------
(* The inductive invariant: some lists F and K stand behind the links, and *)
(* they agree with the fields of the pcbs, with act_proc and with the      *)
(* calls of kill_parent_and_progeny.                                       *)

Living(F) == Procs \ On(F, "pcb_free")
Runs(F, act) == {act} \intersect Living(F)

(* A pcb that is on no list is the one that runs.                          *)
Placed(F, act) == \A p \in Procs : p \in Runs(F, act) \/ \E q \in Lists : p \in On(F, q)

Waits(F, sem) ==
  /\ sem \in [Procs -> Sems \union {NULL}]
  /\ \A p \in Procs, s \in Sems : sem[p] = s <=> p \in On(F, s)

Family(F, K, par) ==
  /\ par \in [Procs -> Procs \union {NULL}]
  /\ \A c, x \in Procs : par[c] = x <=> c \in On(K, x)
  /\ \A p \in On(F, "pcb_free") : K[p] = <<>> /\ par[p] = NULL

(* Whoever runs between two calls lives; the calls in progress are for     *)
(* different living pcbs, each but the first cut from its parent.          *)
Unwinds(F, par, act, kill) ==
  /\ kill \in Seq(Procs) /\ act \in Procs \union {NULL}
  /\ IF kill = <<>> THEN act \notin On(F, "pcb_free") ELSE act # NULL
  /\ Once(kill) /\ Range(kill) \subseteq Living(F)
  /\ \A i \in 2..Len(kill) : par[kill[i]] = NULL

(* No pcb is above itself, by parents and by calls in progress.            *)
Above(par, kill, x, y) ==
  par[x] = y \/ \E i \in 2..Len(kill) : kill[i] = x /\ kill[i - 1] = y
Rooted(par, kill) ==
  \A D \in SUBSET Procs : D # {} => \E x \in D : \A y \in D : ~Above(par, kill, x, y)

Sound(L, F, K, par, sem, act, kill) ==
  /\ Holds(L, Living(F), Runs(F, act), F, K)
  /\ Placed(F, act) /\ Waits(F, sem) /\ Family(F, K, par)
  /\ Unwinds(F, par, act, kill) /\ Rooted(par, kill)

IInv == \E F, K : Sound(link, F, K, p_parent, p_semAdd, act_proc, killing)

(* Fewer relations leave the tree rooted.                                  *)
LEMMA RootedFewer ==
  ASSUME NEW par, NEW kill, NEW par2, NEW kill2, Rooted(par, kill),
         \A x \in Procs, y \in Procs : Above(par2, kill2, x, y) => Above(par, kill, x, y)
  PROVE  Rooted(par2, kill2)
<1> SUFFICES ASSUME NEW D \in SUBSET Procs, D # {}
             PROVE  \E x \in D : \A y \in D : ~Above(par2, kill2, x, y)
  BY DEF Rooted
<1>1. PICK x \in D : \A y \in D : ~Above(par, kill, x, y)
  BY DEF Rooted
<1> QED
  BY <1>1

(* No call is in progress.                                                 *)
LEMMA NoCalls ==
  ASSUME NEW s, s = <<>>
  PROVE  Range(s) = {} /\ 2..Len(s) = {} /\ Once(s)
<1>1. Len(s) = 0 /\ DOMAIN s = {}
  OBVIOUS
<1> QED
  BY <1>1 DEF Range, Once

(* A new pcb with a parent is nobody's parent.                             *)
LEMMA RootedMore ==
  ASSUME NEW par, NEW p \in Procs, NEW x \in Procs, x # p, Rooted(par, <<>>),
         par \in [Procs -> Procs \union {NULL}], \A c \in Procs : par[c] # p
  PROVE  Rooted([par EXCEPT ![p] = x], <<>>)
<1> DEFINE par2 == [par EXCEPT ![p] = x]
           none == <<>>
<1>1. 2..Len(none) = {}
  OBVIOUS
<1> HIDE DEF none
<1>2. \A a, b : Above(par, none, a, b) <=> par[a] = b
  BY <1>1 DEF Above
<1>3. \A a, b : Above(par2, none, a, b) <=> par2[a] = b
  BY <1>1 DEF Above
<1> SUFFICES ASSUME NEW D \in SUBSET Procs, D # {}
             PROVE  \E a \in D : \A b \in D : par2[a] # b
  BY <1>3 DEF Rooted, none
<1>4. CASE D \ {p} = {}
  BY <1>4
<1>5. CASE D \ {p} # {}
  <2>1. PICK a \in D \ {p} : \A b \in D \ {p} : ~Above(par, none, a, b)
    BY <1>5 DEF Rooted, none
  <2>2. \A b \in D : par2[a] # b
    BY <1>2, <2>1
  <2> QED
    BY <2>1, <2>2
<1> QED
  BY <1>4, <1>5

(* What alloc_pcb answers is fresh.                                        *)
IsFresh(L, F, K, par, sem, act, kill, p) ==
  /\ p = F["pcb_free"][1]
  /\ p \in On(F, "pcb_free") /\ p \in Procs /\ p \notin Living(F)
  /\ \A q \in Lists : q # "pcb_free" => p \notin On(F, q)
  /\ sem[p] = NULL /\ par[p] = NULL /\ K[p] = <<>>
  /\ \A x \in Procs : par[x] # p /\ p \notin On(K, x)
  /\ p \notin Range(kill)
  /\ Holds(alloc_pcb(L, p), Living(F) \union {p}, Runs(F, act) \union {p},
           Dropped(F, "pcb_free", p), K)

(* The pcb that alloc_pcb answers is the first on the free list, on no     *)
(* queue and in no family.                                                 *)
LEMMA Fresh ==
  ASSUME NEW L, NEW F, NEW K, NEW par, NEW sem, NEW act, NEW kill,
         Sound(L, F, K, par, sem, act, kill), F["pcb_free"] # <<>>
  PROVE  IsFresh(L, F, K, par, sem, act, kill, pcb(L.next[pcb_free_h]))
<1> DEFINE p == pcb(L.next[pcb_free_h])
           W == Living(F)
           O == Runs(F, act)
<1>1. Holds(L, W, O, F, K) /\ Waits(F, sem) /\ Family(F, K, par) /\ Unwinds(F, par, act, kill)
  BY DEF Sound
<1>2. "pcb_free" \in Lists /\ pcb_free_h = head("pcb_free") /\ Sems \subseteq Lists
  BY NodeFacts
<1> HIDE DEF W, O
<1>3. Parted(W, O, F, K) /\ W \in SUBSET Procs /\ K \in [Procs -> Seq(Procs)]
  BY <1>1, HoldsParted
<1>4. p = F["pcb_free"][1] /\ p \in On(F, "pcb_free") /\ p \in Procs
  BY <1>1, <1>2, Reads
<1> HIDE DEF p
<1>5. p \notin Living(F) /\ p \notin Range(kill)
  BY <1>1, <1>4 DEF Living, Unwinds
<1>6. \A q \in Lists : q # "pcb_free" => p \notin On(F, q)
  BY <1>2, <1>3, <1>4 DEF Parted
<1>7. sem[p] = NULL
  BY <1>1, <1>2, <1>4, <1>6, PcbAssumption DEF Waits
<1>8. par[p] = NULL /\ K[p] = <<>> /\ NULL \notin Procs
  BY <1>1, <1>4, PcbAssumption DEF Family
<1>9. On(K, p) = {}
  BY <1>3, <1>4, <1>8, Elements DEF On
<1>10. \A x \in Procs : par[x] # p /\ p \notin On(K, x)
  BY <1>1, <1>4, <1>8, <1>9 DEF Family
<1>11. Holds(alloc_pcb(L, p), W \union {p}, O \union {p}, Dropped(F, "pcb_free", p), K)
  BY <1>1, <1>3, <1>4, <1>5, <1>8, <1>10, alloc_pcbHolds DEF W
<1> QED
  BY <1>4, <1>5, <1>6, <1>7, <1>8, <1>10, <1>11 DEF p, W, O, IsFresh

-----------------------------------------------------------------------------
(* Every action keeps the invariant; each lemma names the lists after it.  *)

LEMMA SoundCreate ==
  ASSUME NEW F, NEW K, Sound(link, F, K, p_parent, p_semAdd, act_proc, killing), create_init_proc
  PROVE  /\ F["pcb_free"] # <<>> /\ killing = <<>> /\ act_proc = NULL
         /\ On(F, "pcb_free") = Procs
         /\ Sound(link', Queued(Dropped(F, "pcb_free", first_free), "ready", first_free), K,
                  p_parent', p_semAdd', act_proc', killing')
<1> DEFINE p == first_free
           W == Living(F)
           O == Runs(F, act_proc)
           F1 == Dropped(F, "pcb_free", p)
           G == Queued(F1, "ready", p)
<1>1. /\ \A x \in Procs : ~Used(x)
      /\ link' = insert_proc_q(alloc_pcb(link, p), "ready", p)
      /\ UNCHANGED <<p_parent, p_semAdd, act_proc, killing>>
  BY DEF create_init_proc
<1>2. /\ Holds(link, W, O, F, K) /\ Placed(F, act_proc) /\ Waits(F, p_semAdd)
      /\ Family(F, K, p_parent) /\ Unwinds(F, p_parent, act_proc, killing)
      /\ Rooted(p_parent, killing)
  BY DEF Sound
<1>3. W = {}
  <2>1. \A x \in W : link.next[p_child(x)] # NULL
    BY <1>2, Reads
  <2> QED
    BY <1>1, <2>1 DEF Used, W, Living
<1>4. O = {} /\ Procs \subseteq On(F, "pcb_free") /\ F \in [Lists -> Seq(Procs)]
  <2>1. F \in [Lists -> Seq(Procs)]
    BY <1>2, HoldsParted
  <2> QED
    BY <1>3, <2>1 DEF O, W, Runs, Living
<1>5. "pcb_free" \in Lists /\ "ready" \in Lists /\ "ready" # "pcb_free" /\ Sems \subseteq Lists
  BY NodeFacts
<1>6. F["pcb_free"] # <<>> /\ On(F, "pcb_free") = Procs
  <2>1. On(F, "pcb_free") \subseteq Procs /\ (F["pcb_free"] = <<>> <=> On(F, "pcb_free") = {})
    BY <1>4, <1>5, Elements DEF On
  <2> QED
    BY <1>4, <2>1, PcbAssumption
<1>7. killing = <<>> /\ act_proc = NULL
  <2>1. Range(killing) = {} /\ killing \in Seq(Procs)
    BY <1>2, <1>3 DEF Unwinds, W
  <2>2. killing = <<>>
    BY <2>1, Elements
  <2> QED
    BY <1>2, <1>6, <2>2 DEF Unwinds
<1>8. /\ p \in On(F, "pcb_free") /\ p \in Procs
      /\ \A q \in Lists : q # "pcb_free" => p \notin On(F, q)
      /\ p_semAdd[p] = NULL /\ p_parent[p] = NULL /\ K[p] = <<>>
      /\ Holds(alloc_pcb(link, p), W \union {p}, O \union {p}, F1, K)
  <2>1. IsFresh(link, F, K, p_parent, p_semAdd, act_proc, killing, p)
    BY <1>6, Fresh DEF first_free
  <2> HIDE DEF p
  <2> QED
    BY <2>1 DEF IsFresh
<1> HIDE DEF p
<1>9. Once(F["pcb_free"])
  BY <1>2, <1>5, HoldsParted DEF Parted
<1>10. /\ F1 \in [Lists -> Seq(Procs)]
       /\ On(F1, "pcb_free") = On(F, "pcb_free") \ {p}
       /\ \A r \in Lists : r # "pcb_free" => F1[r] = F[r]
  <2>1. Shrunk(Lists, F, F1, "pcb_free", p)
    BY <1>4, <1>5, <1>9, DroppedOn
  <2> QED
    BY <2>1 DEF Shrunk
<1> HIDE DEF F1
<1>11. \A r \in Lists : p \notin On(F1, r)
  BY <1>8, <1>10 DEF On
<1>12. /\ G \in [Lists -> Seq(Procs)]
       /\ On(G, "ready") = On(F1, "ready") \union {p}
       /\ \A r \in Lists : r # "ready" => G[r] = F1[r]
  <2>1. Grown(Lists, F1, G, "ready", p)
    BY <1>5, <1>8, <1>10, QueuedOn
  <2> QED
    BY <2>1 DEF Grown
<1>13. Holds(link', W \union {p}, (O \union {p}) \ {p}, G, K)
  <2> DEFINE P == O \union {p}
             V == W \union {p}
             M == alloc_pcb(link, p)
  <2>1. Holds(M, V, P, F1, K)
    BY <1>8
  <2> HIDE DEF P, V, M
  <2>2. Holds(insert_proc_q(M, "ready", p), V, P \ {p}, G, K)
    BY <1>5, <1>8, <1>11, <2>1, insert_proc_qHolds
  <2> QED
    BY <1>1, <2>2 DEF P, V, M
<1> HIDE DEF G
<1>14. /\ On(G, "pcb_free") = On(F, "pcb_free") \ {p}
       /\ On(G, "ready") = On(F, "ready") \union {p}
       /\ \A r \in Lists : r # "ready" /\ r # "pcb_free" => On(G, r) = On(F, r)
  BY <1>5, <1>10, <1>12 DEF On
<1>15. Living(G) = W \union {p} /\ Runs(G, act_proc) = (O \union {p}) \ {p}
  <2>1. Living(G) = W \union {p}
    BY <1>8, <1>14 DEF Living, W
  <2>2. act_proc \notin Procs
    BY <1>7, PcbAssumption
  <2>3. Runs(G, act_proc) = {}
    BY <2>2 DEF Runs, Living
  <2> QED
    BY <1>4, <2>1, <2>3
<1>16. Placed(G, act_proc)
  <2>1. \A x \in Procs : \E q \in Lists : x \in On(G, q)
    BY <1>5, <1>6, <1>14
  <2> QED
    BY <2>1 DEF Placed
<1>17. Waits(G, p_semAdd)
  <2>1. \A s \in Sems : s \in Lists /\ s # "ready" /\ s # "pcb_free"
    BY <1>5, PcbAssumption
  <2> QED
    BY <1>2, <1>14, <2>1 DEF Waits
<1>18. Family(G, K, p_parent)
  BY <1>2, <1>14 DEF Family
<1>19. Unwinds(G, p_parent, act_proc, killing)
  <2>1. Range(killing) = {}
    BY <1>2, <1>3 DEF Unwinds, W
  <2> QED
    BY <1>2, <1>7, <1>14, <2>1 DEF Unwinds
<1>20. Sound(link', G, K, p_parent, p_semAdd, act_proc, killing)
  BY <1>2, <1>13, <1>15, <1>16, <1>17, <1>18, <1>19 DEF Sound
<1> QED
  BY <1>1, <1>6, <1>7, <1>20 DEF G, F1, p

(* mk_proc: the first free pcb is ready and the first child of the         *)
(* process that runs.                                                      *)
LEMMA SoundMkProc ==
  ASSUME NEW F, NEW K, Sound(link, F, K, p_parent, p_semAdd, act_proc, killing), mk_proc
  PROVE  /\ F["pcb_free"] # <<>> /\ act_proc \in Procs
         /\ Sound(link', Queued(Dropped(F, "pcb_free", first_free), "ready", first_free),
                  Pushed(K, act_proc, first_free), p_parent', p_semAdd', act_proc', killing')
<1> DEFINE p == first_free
           W == Living(F)
           O == Runs(F, act_proc)
           F1 == Dropped(F, "pcb_free", p)
           G == Queued(F1, "ready", p)
           J == Pushed(K, act_proc, p)
<1>1. /\ killing = <<>> /\ act_proc # NULL
      /\ ~list_empty(link, pcb_free_h)
      /\ link' = insert_proc_q(insert_child(alloc_pcb(link, p), act_proc, p), "ready", p)
      /\ p_parent' = [p_parent EXCEPT ![p] = act_proc]
      /\ p_semAdd' = [p_semAdd EXCEPT ![p] = NULL]
      /\ UNCHANGED <<act_proc, killing>>
  BY DEF mk_proc
<1>2. /\ Holds(link, W, O, F, K) /\ Placed(F, act_proc) /\ Waits(F, p_semAdd)
      /\ Family(F, K, p_parent) /\ Unwinds(F, p_parent, act_proc, killing)
      /\ Rooted(p_parent, killing)
  BY DEF Sound
<1>3. /\ F \in [Lists -> Seq(Procs)] /\ K \in [Procs -> Seq(Procs)]
      /\ W \in SUBSET Procs /\ Parted(W, O, F, K)
  BY <1>2, HoldsParted
<1>4. /\ "pcb_free" \in Lists /\ "ready" \in Lists /\ "ready" # "pcb_free" /\ Sems \subseteq Lists
      /\ pcb_free_h = head("pcb_free")
  BY NodeFacts
<1>5. F["pcb_free"] # <<>>
  BY <1>1, <1>2, <1>4, Reads
<1>6. act_proc \in Procs /\ act_proc \in W /\ O = {act_proc}
  BY <1>1, <1>2 DEF Unwinds, W, O, Living, Runs
<1>7. /\ p \in On(F, "pcb_free") /\ p \in Procs /\ p \notin W
      /\ \A q \in Lists : q # "pcb_free" => p \notin On(F, q)
      /\ p_semAdd[p] = NULL /\ p_parent[p] = NULL /\ K[p] = <<>>
      /\ \A x \in Procs : p_parent[x] # p /\ p \notin On(K, x)
      /\ Holds(alloc_pcb(link, p), W \union {p}, O \union {p}, F1, K)
  <2>1. IsFresh(link, F, K, p_parent, p_semAdd, act_proc, killing, p)
    BY <1>5, Fresh DEF first_free
  <2> HIDE DEF p
  <2> QED
    BY <2>1 DEF IsFresh
<1> HIDE DEF p
<1>8. Once(F["pcb_free"])
  BY <1>3, <1>4 DEF Parted
<1>9. /\ F1 \in [Lists -> Seq(Procs)]
      /\ On(F1, "pcb_free") = On(F, "pcb_free") \ {p}
      /\ \A r \in Lists : r # "pcb_free" => F1[r] = F[r]
  <2>1. Shrunk(Lists, F, F1, "pcb_free", p)
    BY <1>3, <1>4, <1>8, DroppedOn
  <2> QED
    BY <2>1 DEF Shrunk
<1> HIDE DEF F1
<1>10. \A r \in Lists : p \notin On(F1, r)
  BY <1>7, <1>9 DEF On
<1>11. /\ G \in [Lists -> Seq(Procs)]
       /\ On(G, "ready") = On(F1, "ready") \union {p}
       /\ \A r \in Lists : r # "ready" => G[r] = F1[r]
  <2>1. Grown(Lists, F1, G, "ready", p)
    BY <1>4, <1>7, <1>9, QueuedOn
  <2> QED
    BY <2>1 DEF Grown
<1>12. /\ J \in [Procs -> Seq(Procs)]
       /\ On(J, act_proc) = On(K, act_proc) \union {p}
       /\ \A x \in Procs : x # act_proc => J[x] = K[x]
  <2>1. Grown(Procs, K, J, act_proc, p)
    BY <1>3, <1>6, <1>7, PushedOn
  <2> QED
    BY <2>1 DEF Grown
<1>13. Holds(link', W \union {p}, (O \union {p}) \ {p}, G, J)
  <2> DEFINE P == O \union {p}
             V == W \union {p}
             M == alloc_pcb(link, p)
             N == insert_child(M, act_proc, p)
  <2>1. Holds(M, V, P, F1, K) /\ act_proc \in V /\ V \subseteq Procs
    BY <1>3, <1>6, <1>7
  <2> HIDE DEF P, V, M
  <2>2. Holds(N, V, P, F1, J)
    BY <1>6, <1>7, <2>1, insert_childHolds
  <2> HIDE DEF N, J
  <2>3. Holds(insert_proc_q(N, "ready", p), V, P \ {p}, G, J)
    BY <1>4, <1>7, <1>10, <2>2, insert_proc_qHolds
  <2> QED
    BY <1>1, <2>3 DEF P, V, M, N
<1> HIDE DEF G, J
<1>14. /\ On(G, "pcb_free") = On(F, "pcb_free") \ {p}
       /\ On(G, "ready") = On(F, "ready") \union {p}
       /\ \A r \in Lists : r # "ready" /\ r # "pcb_free" => On(G, r) = On(F, r)
  BY <1>4, <1>9, <1>11 DEF On
<1>15. Living(G) = W \union {p} /\ Runs(G, act_proc) = (O \union {p}) \ {p}
  <2>1. Living(G) = W \union {p}
    BY <1>7, <1>14 DEF Living, W
  <2>2. Runs(G, act_proc) = {act_proc}
    BY <1>6, <2>1 DEF Runs
  <2> QED
    BY <1>6, <1>7, <2>1, <2>2
<1>16. Placed(G, act_proc)
  <2> SUFFICES ASSUME NEW x \in Procs PROVE x \in Runs(G, act_proc) \/ \E q \in Lists : x \in On(G, q)
    BY DEF Placed
  <2>1. CASE x \in Runs(F, act_proc)
    BY <1>6, <1>7, <1>15, <2>1 DEF O
  <2>2. ASSUME NEW q \in Lists, x \in On(F, q) PROVE \E r \in Lists : x \in On(G, r)
    BY <1>4, <1>14, <2>2
  <2> QED
    BY <1>2, <2>1, <2>2 DEF Placed
<1>17. Waits(G, p_semAdd')
  <2>1. \A s \in Sems : s \in Lists /\ s # "ready" /\ s # "pcb_free"
    BY <1>4, PcbAssumption
  <2>2. p_semAdd' = p_semAdd
    BY <1>1, <1>2, <1>7 DEF Waits
  <2> QED
    BY <1>2, <1>14, <2>1, <2>2 DEF Waits
<1>18. Family(G, J, p_parent')
  <2>1. p_parent \in [Procs -> Procs \union {NULL}] /\ \A c, x \in Procs : p_parent[c] = x <=> c \in On(K, x)
    BY <1>2 DEF Family
  <2>2. p_parent' \in [Procs -> Procs \union {NULL}]
    BY <1>1, <1>6, <2>1
  <2>3. ASSUME NEW c \in Procs, NEW x \in Procs PROVE p_parent'[c] = x <=> c \in On(J, x)
    <3>1. \A y \in Procs : y # act_proc => On(J, y) = On(K, y)
      BY <1>12 DEF On
    <3>2. CASE c = p
      BY <1>1, <1>7, <1>12, <2>1, <3>1, <3>2
    <3>3. CASE c # p
      BY <1>1, <1>7, <1>12, <2>1, <3>1, <3>3
    <3> QED
      BY <3>2, <3>3
  <2>4. ASSUME NEW x \in On(G, "pcb_free") PROVE J[x] = <<>> /\ p_parent'[x] = NULL
    <3>1. x \in On(F, "pcb_free") /\ x # p /\ x \in Procs
      BY <1>3, <1>4, <1>14, Elements DEF On
    <3>2. x # act_proc
      BY <1>6, <3>1 DEF W, Living
    <3> QED
      BY <1>1, <1>2, <1>12, <2>1, <3>1, <3>2 DEF Family
  <2> QED
    BY <2>2, <2>3, <2>4 DEF Family
<1>19. Unwinds(G, p_parent', act_proc, killing)
  <2>1. Range(killing) = {} /\ 2..Len(killing) = {} /\ Once(killing)
    BY <1>1, NoCalls
  <2>2. act_proc \notin On(G, "pcb_free")
    BY <1>6, <1>14 DEF W, Living
  <2> QED
    BY <1>1, <1>2, <2>1, <2>2 DEF Unwinds
<1>20. Rooted(p_parent', killing)
  <2>1. act_proc # p /\ p_parent \in [Procs -> Procs \union {NULL}]
    BY <1>2, <1>6, <1>7 DEF Family
  <2> QED
    BY <1>1, <1>2, <1>6, <1>7, <2>1, RootedMore
<1>21. Sound(link', G, J, p_parent', p_semAdd', act_proc, killing)
  BY <1>13, <1>15, <1>16, <1>17, <1>18, <1>19, <1>20 DEF Sound
<1> QED
  BY <1>1, <1>5, <1>6, <1>21 DEF G, F1, J, p

(* The process that runs is put on a queue.                                *)
LEMMA Yields ==
  ASSUME NEW L, NEW F, NEW K, NEW par, NEW sem, NEW act, NEW kill,
         Sound(L, F, K, par, sem, act, kill),
         kill = <<>>, act # NULL, NEW q \in Queues, NEW sem2,
         sem2 = IF q \in Sems THEN [sem EXCEPT ![act] = q] ELSE sem
  PROVE  /\ act \in Living(F)
         /\ Sound(insert_proc_q(L, q, act), Queued(F, q, act), K,
                  par, sem2, NULL, kill)
<1> DEFINE p == act
           W == Living(F)
           O == Runs(F, act)
           G == Queued(F, q, p)
<1>1. /\ Holds(L, W, O, F, K) /\ Placed(F, act) /\ Waits(F, sem)
      /\ Family(F, K, par) /\ Unwinds(F, par, act, kill)
      /\ Rooted(par, kill)
  BY DEF Sound
<1>2. F \in [Lists -> Seq(Procs)] /\ Parted(W, O, F, K)
  BY <1>1, HoldsParted
<1>3. /\ "pcb_free" \in Lists /\ q \in Lists /\ q # "pcb_free" /\ Sems \subseteq Lists
      /\ "ready" \notin Sems /\ "pcb_free" \notin Sems /\ q \in {"ready"} \union Sems
  BY NodeFacts, PcbAssumption DEF Queues
<1>4. p \in Procs /\ p \in W /\ O = {p}
  BY <1>1 DEF Unwinds, W, O, Living, Runs
<1>5. \A r \in Lists : p \notin On(F, r)
  BY <1>2, <1>4 DEF Parted
<1>6. /\ G \in [Lists -> Seq(Procs)]
      /\ On(G, q) = On(F, q) \union {p}
      /\ \A r \in Lists : r # q => On(G, r) = On(F, r)
  <2>1. /\ G \in [Lists -> Seq(Procs)]
        /\ On(G, q) = On(F, q) \union {p}
        /\ \A r \in Lists : r # q => G[r] = F[r]
    <3>1. Grown(Lists, F, G, q, p)
      BY <1>2, <1>3, <1>4, QueuedOn
    <3> QED
      BY <3>1 DEF Grown
  <2> QED
    BY <2>1 DEF On
<1>7. Holds(insert_proc_q(L, q, p), W, O \ {p}, G, K)
  <2> HIDE DEF W, O, G
  <2>1. Holds(insert_proc_q(L, q, p), W, O \ {p}, Queued(F, q, p), K)
    BY <1>1, <1>3, <1>4, <1>5, insert_proc_qHolds
  <2> QED
    BY <2>1 DEF G
<1> HIDE DEF G
<1>8. Living(G) = W /\ Runs(G, NULL) = O \ {p}
  <2>1. Living(G) = W
    BY <1>3, <1>6 DEF Living, W
  <2>2. NULL \notin Procs
    BY PcbAssumption
  <2> QED
    BY <1>4, <2>1, <2>2 DEF Runs, W, Living
<1>9. Placed(G, NULL)
  <2> SUFFICES ASSUME NEW x \in Procs PROVE \E r \in Lists : x \in On(G, r)
    BY DEF Placed
  <2>1. CASE x = p
    BY <1>3, <1>6, <2>1
  <2>2. CASE x # p
    <3>1. PICK r \in Lists : x \in On(F, r)
      BY <1>1, <1>4, <2>2 DEF Placed, O
    <3> QED
      BY <1>6, <3>1
  <2> QED
    BY <2>1, <2>2
<1>10. Waits(G, sem2)
  <2>1. sem \in [Procs -> Sems \union {NULL}] /\ \A x \in Procs, s \in Sems : sem[x] = s <=> x \in On(F, s)
    BY <1>1 DEF Waits
  <2>2. CASE q \in Sems
    <3>1. sem2 = [sem EXCEPT ![p] = q]
      BY <2>2
    <3>2. sem2 \in [Procs -> Sems \union {NULL}]
      BY <2>1, <2>2, <3>1
    <3>3. ASSUME NEW x \in Procs, NEW s \in Sems PROVE sem2[x] = s <=> x \in On(G, s)
      <4>1. CASE s = q
        BY <1>4, <1>6, <2>1, <3>1, <4>1
      <4>2. CASE s # q
        <5>1. On(G, s) = On(F, s) /\ p \notin On(F, s)
          BY <1>3, <1>5, <1>6, <4>2
        <5> QED
          BY <1>4, <2>1, <3>1, <4>2, <5>1
      <4> QED
        BY <4>1, <4>2
    <3> QED
      BY <3>2, <3>3 DEF Waits
  <2>3. CASE q \notin Sems
    <3>1. sem2 = sem /\ \A s \in Sems : On(G, s) = On(F, s)
      BY <1>3, <1>6, <2>3
    <3> QED
      BY <2>1, <3>1 DEF Waits
  <2> QED
    BY <2>2, <2>3
<1>11. Family(G, K, par)
  BY <1>1, <1>3, <1>6 DEF Family
<1>12. Unwinds(G, par, NULL, kill)
  <2>1. NULL \notin Procs /\ On(F, "pcb_free") \subseteq Procs
    BY <1>2, <1>3, PcbAssumption, Elements DEF On
  <2> QED
    BY <1>1, <1>3, <1>6, <1>8, <2>1 DEF Unwinds, W
<1>13. Sound(insert_proc_q(L, q, p), G, K, par, sem2, NULL, kill)
  BY <1>1, <1>7, <1>8, <1>9, <1>10, <1>11, <1>12 DEF Sound
<1> QED
  BY <1>4, <1>13 DEF G

(* enqueue_proc: the process that runs is the last one ready.              *)
LEMMA SoundEnqueue ==
  ASSUME NEW F, NEW K, Sound(link, F, K, p_parent, p_semAdd, act_proc, killing), enqueue_proc
  PROVE  Sound(link', Queued(F, "ready", act_proc), K, p_parent', p_semAdd', act_proc', killing')
<1>1. /\ killing = <<>> /\ act_proc # NULL
      /\ link' = insert_proc_q(link, "ready", act_proc)
      /\ act_proc' = NULL
      /\ UNCHANGED <<p_parent, p_semAdd, killing>>
  BY DEF enqueue_proc
<1>2. "ready" \in Queues /\ "ready" \notin Sems
  BY PcbAssumption DEF Queues
<1>3. Sound(insert_proc_q(link, "ready", act_proc), Queued(F, "ready", act_proc), K,
            p_parent, p_semAdd, NULL, killing)
  BY <1>1, <1>2, Yields
<1> QED
  BY <1>1, <1>3

(* insert_blocked: it is the last one on the queue of the semaphore,       *)
(* which p_semAdd names.                                                   *)
LEMMA SoundBlocked ==
  ASSUME NEW F, NEW K, Sound(link, F, K, p_parent, p_semAdd, act_proc, killing),
         NEW s \in Sems, insert_blocked(s)
  PROVE  Sound(link', Queued(F, s, act_proc), K, p_parent', p_semAdd', act_proc', killing')
<1>1. /\ killing = <<>> /\ act_proc # NULL
      /\ link' = insert_proc_q(link, s, act_proc)
      /\ p_semAdd' = [p_semAdd EXCEPT ![act_proc] = s]
      /\ act_proc' = NULL
      /\ UNCHANGED <<p_parent, killing>>
  BY DEF insert_blocked
<1>2. s \in Queues
  BY DEF Queues
<1>3. Sound(insert_proc_q(link, s, act_proc), Queued(F, s, act_proc), K,
            p_parent, p_semAdd', NULL, killing)
  BY <1>1, <1>2, Yields
<1> QED
  BY <1>1, <1>3

(* dequeue_proc: the first one ready runs, with its p_list linked to       *)
(* itself.                                                                 *)
LEMMA SoundDequeue ==
  ASSUME NEW F, NEW K, Sound(link, F, K, p_parent, p_semAdd, act_proc, killing), dequeue_proc
  PROVE  /\ F["ready"] # <<>> /\ act_proc' = F["ready"][1] /\ act_proc' \in Procs
         /\ Sound(link', Dropped(F, "ready", act_proc'), K, p_parent', p_semAdd', act_proc', killing')
<1> DEFINE p == act_proc'
           W == Living(F)
           O == Runs(F, act_proc)
           G == Dropped(F, "ready", p)
<1>1. /\ killing = <<>> /\ act_proc = NULL
      /\ ~list_empty(link, head("ready"))
      /\ p = head_proc_q("ready")
      /\ link' = out_proc_q(link, "ready", p)
      /\ UNCHANGED <<p_parent, p_semAdd, killing>>
  BY DEF dequeue_proc
<1>2. /\ Holds(link, W, O, F, K) /\ Placed(F, act_proc) /\ Waits(F, p_semAdd)
      /\ Family(F, K, p_parent) /\ Unwinds(F, p_parent, act_proc, killing)
      /\ Rooted(p_parent, killing)
  BY DEF Sound
<1>3. F \in [Lists -> Seq(Procs)] /\ Parted(W, O, F, K)
  BY <1>2, HoldsParted
<1>4. /\ "pcb_free" \in Lists /\ "ready" \in Lists /\ "ready" # "pcb_free" /\ Sems \subseteq Lists
      /\ "ready" \notin Sems
  BY NodeFacts, PcbAssumption
<1>5. F["ready"] # <<>> /\ p = F["ready"][1] /\ p \in On(F, "ready") /\ p \in Procs
  BY <1>1, <1>2, <1>4, Reads DEF head_proc_q
<1> HIDE DEF p
<1>6. Once(F["ready"]) /\ \A r \in Lists : r # "ready" => p \notin On(F, r)
  BY <1>3, <1>4, <1>5 DEF Parted
<1>7. p \in W /\ O = {} /\ NULL \notin Procs
  <2>1. p \in W
    BY <1>4, <1>5, <1>6 DEF W, Living
  <2>2. NULL \notin Procs
    BY PcbAssumption
  <2> QED
    BY <1>1, <2>1, <2>2 DEF O, Runs, Living
<1>8. /\ G \in [Lists -> Seq(Procs)]
      /\ On(G, "ready") = On(F, "ready") \ {p}
      /\ \A r \in Lists : r # "ready" => On(G, r) = On(F, r)
  <2>1. /\ G \in [Lists -> Seq(Procs)]
        /\ On(G, "ready") = On(F, "ready") \ {p}
        /\ \A r \in Lists : r # "ready" => G[r] = F[r]
    <3>1. Shrunk(Lists, F, G, "ready", p)
      BY <1>3, <1>4, <1>6, DroppedOn
    <3> QED
      BY <3>1 DEF Shrunk
  <2> QED
    BY <2>1 DEF On
<1>9. Holds(link', W, O \union {p}, G, K)
  <2> HIDE DEF W, O
  <2>1. Holds(out_proc_q(link, "ready", p), W, IF p \in On(F, "ready") THEN O \union {p} ELSE O,
              Dropped(F, "ready", p), K)
    BY <1>2, <1>4, <1>5, out_proc_qHolds
  <2> QED
    BY <1>1, <1>5, <2>1 DEF G
<1> HIDE DEF G
<1>10. Living(G) = W /\ Runs(G, p) = O \union {p}
  <2>1. Living(G) = W
    BY <1>4, <1>8 DEF Living, W
  <2> QED
    BY <1>7, <2>1 DEF Runs
<1>11. Placed(G, p)
  <2> SUFFICES ASSUME NEW x \in Procs PROVE x = p \/ \E r \in Lists : x \in On(G, r)
    BY <1>10 DEF Placed
  <2>1. PICK r \in Lists : x \in On(F, r)
    BY <1>2, <1>7 DEF Placed, O
  <2>2. x = p \/ x \in On(G, r)
    BY <1>8, <2>1
  <2> QED
    BY <2>2
<1>12. Waits(G, p_semAdd)
  <2>1. \A s \in Sems : s \in Lists /\ s # "ready"
    BY <1>4
  <2> QED
    BY <1>2, <1>8, <2>1 DEF Waits
<1>13. Family(G, K, p_parent)
  BY <1>2, <1>4, <1>8 DEF Family
<1>14. Unwinds(G, p_parent, p, killing)
  <2>1. p \notin On(G, "pcb_free")
    BY <1>4, <1>6, <1>8
  <2> QED
    BY <1>1, <1>2, <1>5, <1>10, <2>1 DEF Unwinds, W
<1>15. Sound(link', G, K, p_parent, p_semAdd, p, killing)
  BY <1>2, <1>9, <1>10, <1>11, <1>12, <1>13, <1>14 DEF Sound
<1> QED
  BY <1>1, <1>5, <1>15 DEF G, p

(* remove_blocked and enqueue_proc: the first one on the queue of the      *)
(* semaphore is the last one ready.                                        *)
LEMMA SoundWake ==
  ASSUME NEW F, NEW K, Sound(link, F, K, p_parent, p_semAdd, act_proc, killing),
         NEW s \in Sems, wake(s)
  PROVE  /\ F[s] # <<>> /\ head_proc_q(s) = F[s][1] /\ F[s][1] \in Procs
         /\ Sound(link', Queued(Dropped(F, s, F[s][1]), "ready", F[s][1]), K,
                  p_parent', p_semAdd', act_proc', killing')
<1> DEFINE p == F[s][1]
           W == Living(F)
           O == Runs(F, act_proc)
           F1 == Dropped(F, s, p)
           G == Queued(F1, "ready", p)
<1>1. /\ killing = <<>> /\ ~list_empty(link, head(s))
      /\ link' = insert_proc_q(out_proc_q(link, s, head_proc_q(s)), "ready", head_proc_q(s))
      /\ p_semAdd' = [p_semAdd EXCEPT ![head_proc_q(s)] = NULL]
      /\ UNCHANGED <<p_parent, act_proc, killing>>
  BY DEF wake
<1>2. /\ Holds(link, W, O, F, K) /\ Placed(F, act_proc) /\ Waits(F, p_semAdd)
      /\ Family(F, K, p_parent) /\ Unwinds(F, p_parent, act_proc, killing)
      /\ Rooted(p_parent, killing)
  BY DEF Sound
<1>3. F \in [Lists -> Seq(Procs)] /\ Parted(W, O, F, K)
  BY <1>2, HoldsParted
<1>4. /\ "pcb_free" \in Lists /\ "ready" \in Lists /\ "ready" # "pcb_free" /\ Sems \subseteq Lists
      /\ s # "ready" /\ s # "pcb_free" /\ s \in Lists
      /\ \A t \in Sems : t \in Lists /\ t # "ready" /\ t # "pcb_free"
  BY NodeFacts, PcbAssumption
<1>5. F[s] # <<>> /\ p = head_proc_q(s) /\ p \in On(F, s) /\ p \in Procs
  BY <1>1, <1>2, <1>4, Reads DEF head_proc_q
<1> HIDE DEF p
<1>6. Once(F[s]) /\ p \notin O /\ \A r \in Lists : r # s => p \notin On(F, r)
  BY <1>3, <1>4, <1>5 DEF Parted
<1>7. /\ F1 \in [Lists -> Seq(Procs)]
      /\ On(F1, s) = On(F, s) \ {p}
      /\ \A r \in Lists : r # s => On(F1, r) = On(F, r)
  <2>1. /\ F1 \in [Lists -> Seq(Procs)]
        /\ On(F1, s) = On(F, s) \ {p}
        /\ \A r \in Lists : r # s => F1[r] = F[r]
    <3>1. Shrunk(Lists, F, F1, s, p)
      BY <1>3, <1>4, <1>6, DroppedOn
    <3> QED
      BY <3>1 DEF Shrunk
  <2> QED
    BY <2>1 DEF On
<1>8. Holds(out_proc_q(link, s, p), W, O \union {p}, F1, K)
  <2> HIDE DEF W, O
  <2>1. Holds(out_proc_q(link, s, p), W, IF p \in On(F, s) THEN O \union {p} ELSE O, Dropped(F, s, p), K)
    BY <1>2, <1>4, <1>5, out_proc_qHolds
  <2> QED
    BY <1>5, <2>1 DEF F1
<1> HIDE DEF F1
<1>9. \A r \in Lists : p \notin On(F1, r)
  BY <1>6, <1>7
<1>10. /\ G \in [Lists -> Seq(Procs)]
       /\ On(G, "ready") = On(F1, "ready") \union {p}
       /\ \A r \in Lists : r # "ready" => On(G, r) = On(F1, r)
  <2>1. /\ G \in [Lists -> Seq(Procs)]
        /\ On(G, "ready") = On(F1, "ready") \union {p}
        /\ \A r \in Lists : r # "ready" => G[r] = F1[r]
    <3>1. Grown(Lists, F1, G, "ready", p)
      BY <1>4, <1>5, <1>7, QueuedOn
    <3> QED
      BY <3>1 DEF Grown
  <2> QED
    BY <2>1 DEF On
<1>11. Holds(link', W, O, G, K)
  <2> DEFINE P == O \union {p}
             M == out_proc_q(link, s, p)
  <2> HIDE DEF W, P, M
  <2>1. Holds(insert_proc_q(M, "ready", p), W, P \ {p}, G, K)
    BY <1>4, <1>5, <1>8, <1>9, insert_proc_qHolds DEF P, M
  <2>2. P \ {p} = O
    BY <1>6 DEF P
  <2> QED
    BY <1>1, <1>5, <2>1, <2>2 DEF M
<1> HIDE DEF G
<1>12. Living(G) = W /\ Runs(G, act_proc) = O
  <2>1. Living(G) = W
    BY <1>4, <1>7, <1>10 DEF Living, W
  <2> QED
    BY <2>1 DEF Runs, O, W
<1>13. Placed(G, act_proc)
  <2> SUFFICES ASSUME NEW x \in Procs PROVE x \in O \/ \E r \in Lists : x \in On(G, r)
    BY <1>12 DEF Placed
  <2>1. ASSUME NEW r \in Lists, x \in On(F, r) PROVE \E t \in Lists : x \in On(G, t)
    <3>1. CASE x = p
      BY <1>4, <1>10, <3>1
    <3>2. CASE x # p
      <4>1. x \in On(F1, r)
        BY <1>7, <2>1, <3>2
      <4>2. x \in On(G, r)
        BY <1>10, <4>1
      <4> QED
        BY <4>2
    <3> QED
      BY <3>1, <3>2
  <2> QED
    BY <1>2, <2>1 DEF Placed, O
<1>14. Waits(G, p_semAdd')
  <2>1. p_semAdd \in [Procs -> Sems \union {NULL}] /\ \A x \in Procs, t \in Sems : p_semAdd[x] = t <=> x \in On(F, t)
    BY <1>2 DEF Waits
  <2>2. p_semAdd' = [p_semAdd EXCEPT ![p] = NULL] /\ NULL \notin Sems
    BY <1>1, <1>5, PcbAssumption
  <2>3. p_semAdd' \in [Procs -> Sems \union {NULL}]
    BY <2>1, <2>2
  <2>4. ASSUME NEW x \in Procs, NEW t \in Sems PROVE p_semAdd'[x] = t <=> x \in On(G, t)
    <3>1. On(G, t) = IF t = s THEN On(F, t) \ {p} ELSE On(F, t)
      BY <1>4, <1>7, <1>10
    <3>2. t # s => p \notin On(F, t)
      BY <1>4, <1>6
    <3>3. CASE x = p
      BY <2>1, <2>2, <3>1, <3>2, <3>3
    <3>4. CASE x # p
      BY <2>1, <2>2, <3>1, <3>4
    <3> QED
      BY <3>3, <3>4
  <2> QED
    BY <2>3, <2>4 DEF Waits
<1>15. Family(G, K, p_parent)
  BY <1>2, <1>4, <1>7, <1>10 DEF Family
<1>16. Unwinds(G, p_parent, act_proc, killing)
  BY <1>2, <1>4, <1>7, <1>10, <1>12 DEF Unwinds, W
<1>17. Sound(link', G, K, p_parent, p_semAdd', act_proc, killing)
  BY <1>2, <1>11, <1>12, <1>13, <1>14, <1>15, <1>16 DEF Sound
<1> QED
  BY <1>1, <1>5, <1>17 DEF G, F1, p

(* term_process: one call of kill_parent_and_progeny, for a living         *)
(* process.                                                                *)
LEMMA SoundTerm ==
  ASSUME NEW F, NEW K, Sound(link, F, K, p_parent, p_semAdd, act_proc, killing),
         NEW p \in Procs, term_process(p)
  PROVE  Sound(link', F, K, p_parent', p_semAdd', act_proc', killing')
<1> DEFINE one == <<p>>
<1>1. /\ killing = <<>> /\ act_proc # NULL /\ ~Freed(p)
      /\ killing' = one
      /\ UNCHANGED <<link, p_parent, p_semAdd, act_proc>>
  BY DEF term_process
<1>2. /\ Holds(link, Living(F), Runs(F, act_proc), F, K) /\ Placed(F, act_proc) /\ Waits(F, p_semAdd)
      /\ Family(F, K, p_parent) /\ Unwinds(F, p_parent, act_proc, killing)
      /\ Rooted(p_parent, killing)
  BY DEF Sound
<1>3. p \in Living(F)
  BY <1>1, <1>2, Reads DEF Freed, Living
<1>4. one \in Seq(Procs) /\ one # <<>> /\ Len(one) = 1 /\ one[1] = p
  OBVIOUS
<1> HIDE DEF one
<1>5. Range(one) = {p} /\ Once(one) /\ 2..Len(one) = {} /\ 2..Len(killing) = {}
  <2>1. Range(one) = {p}
    BY <1>4, Elements
  <2>2. Len(killing) = 0
    BY <1>1
  <2> QED
    BY <1>4, <2>1, <2>2 DEF Once
<1>6. Unwinds(F, p_parent, act_proc, one)
  BY <1>1, <1>2, <1>3, <1>4, <1>5 DEF Unwinds
<1>7. Rooted(p_parent, one)
  <2>1. \A x \in Procs, y \in Procs : Above(p_parent, one, x, y) => Above(p_parent, killing, x, y)
    BY <1>5 DEF Above
  <2> QED
    BY <1>2, <2>1, RootedFewer
<1>8. Sound(link, F, K, p_parent, p_semAdd, act_proc, one)
  BY <1>2, <1>6, <1>7 DEF Sound
<1> QED
  BY <1>1, <1>8

(* Facts of a sequence with an element more or less at its end.            *)
LEMMA Ends ==
  ASSUME NEW s \in Seq(Procs)
  PROVE  /\ \A p \in Procs : /\ Append(s, p) \in Seq(Procs) /\ Append(s, p) # <<>>
                             /\ Len(Append(s, p)) = Len(s) + 1
                             /\ Append(s, p)[Len(s) + 1] = p
                             /\ \A i \in 1..Len(s) : Append(s, p)[i] = s[i]
         /\ s # <<>> => /\ Len(s) \in Nat \ {0}
                        /\ SubSeq(s, 1, Len(s) - 1) \in Seq(Procs)
                        /\ Len(SubSeq(s, 1, Len(s) - 1)) = Len(s) - 1
                        /\ \A i \in 1..(Len(s) - 1) : SubSeq(s, 1, Len(s) - 1)[i] = s[i]
                        /\ (Len(s) = 1) <=> (SubSeq(s, 1, Len(s) - 1) = <<>>)
<1>1. Len(s) \in Nat
  BY Elements
<1>2. ASSUME NEW p \in Procs
      PROVE  /\ Append(s, p) \in Seq(Procs) /\ Append(s, p) # <<>>
             /\ Len(Append(s, p)) = Len(s) + 1
             /\ Append(s, p)[Len(s) + 1] = p
             /\ \A i \in 1..Len(s) : Append(s, p)[i] = s[i]
  BY AppendProperties
<1>3. ASSUME s # <<>>
      PROVE  /\ Len(s) \in Nat \ {0}
             /\ SubSeq(s, 1, Len(s) - 1) \in Seq(Procs)
             /\ Len(SubSeq(s, 1, Len(s) - 1)) = Len(s) - 1
             /\ \A i \in 1..(Len(s) - 1) : SubSeq(s, 1, Len(s) - 1)[i] = s[i]
             /\ (Len(s) = 1) <=> (SubSeq(s, 1, Len(s) - 1) = <<>>)
  <2> DEFINE t == SubSeq(s, 1, Len(s) - 1)
  <2>1. Len(s) \in Nat \ {0}
    BY <1>1, <1>3, EmptySeq
  <2>2. /\ t \in Seq(Procs) /\ Len(t) = Len(s) - 1
        /\ \A i \in 1..(Len(s) - 1) : t[i] = s[i]
    <3> DEFINE n == Len(s) - 1
    <3>1. /\ 1 \in Int /\ n \in Int /\ n - 1 + 1 = n /\ n \in Nat
          /\ \A i \in 1..n : i \in 1..Len(s) /\ 1 + i - 1 = i
      BY <2>1
    <3>2. \A i \in 1..n : s[i] \in Procs
      BY <3>1, Elements
    <3>3. t = SubSeq(s, 1, n)
      OBVIOUS
    <3> HIDE DEF n, t
    <3>4. /\ t \in Seq(Procs) /\ Len(t) = (IF 1 <= n THEN n - 1 + 1 ELSE 0)
          /\ \A i \in 1..(n - 1 + 1) : t[i] = s[1 + i - 1]
      BY <3>1, <3>2, <3>3, SubSeqProperties
    <3>5. Len(t) = n
      BY <3>1, <3>4
    <3> QED
      BY <3>1, <3>4, <3>5 DEF n
  <2> HIDE DEF t
  <2>3. Len(s) = 1 <=> t = <<>>
    BY <2>1, <2>2, EmptySeq
  <2> QED
    BY <2>1, <2>2, <2>3 DEF t
<1> QED
  BY <1>2, <1>3

(* remove_child: one call more, for the first child, which is no longer a  *)
(* child of its parent.                                                    *)
LEMMA SoundRemoveChild ==
  ASSUME NEW F, NEW K, Sound(link, F, K, p_parent, p_semAdd, act_proc, killing), remove_child
  PROVE  /\ K[top] # <<>> /\ K[top][1] = first_child(top) /\ K[top][1] \in Procs
         /\ top \in Living(F) /\ top \in Procs /\ p_parent[K[top][1]] = top
         /\ K[top][1] \notin Range(killing)
         /\ Sound(link', F, Dropped(K, top, K[top][1]), p_parent', p_semAdd', act_proc', killing')
<1> DEFINE W == Living(F)
           O == Runs(F, act_proc)
           n == Len(killing)
           c == K[top][1]
           J == Dropped(K, top, c)
           more == Append(killing, c)
<1>1. /\ killing # <<>> /\ ~list_empty(link, p_child(top))
      /\ link' = out_child(link, first_child(top))
      /\ p_parent' = [p_parent EXCEPT ![first_child(top)] = NULL]
      /\ killing' = Append(killing, first_child(top))
      /\ UNCHANGED <<p_semAdd, act_proc>>
  BY DEF remove_child
<1>2. /\ Holds(link, W, O, F, K) /\ Placed(F, act_proc) /\ Waits(F, p_semAdd)
      /\ Family(F, K, p_parent) /\ Unwinds(F, p_parent, act_proc, killing)
      /\ Rooted(p_parent, killing)
  BY DEF Sound
<1>3. /\ F \in [Lists -> Seq(Procs)] /\ K \in [Procs -> Seq(Procs)]
      /\ W \in SUBSET Procs /\ Parted(W, O, F, K)
  BY <1>2, HoldsParted
<1>4. /\ n \in Nat \ {0} /\ top = killing[n] /\ top \in Procs /\ top \in W
      /\ killing \in Seq(Procs)
  <2>1. killing \in Seq(Procs) /\ Range(killing) \subseteq W
    BY <1>2 DEF Unwinds
  <2>2. n \in Nat \ {0}
    BY <1>1, <2>1, Ends
  <2>3. killing[n] \in Range(killing)
    BY <2>1, <2>2, Elements
  <2> QED
    BY <1>3, <2>1, <2>2, <2>3 DEF top
<1>5. K[top] # <<>> /\ c = first_child(top) /\ c \in On(K, top) /\ c \in Procs
  BY <1>1, <1>2, <1>4, Reads DEF first_child
<1> HIDE DEF c, n
<1>6. p_parent[c] = top
  BY <1>2, <1>4, <1>5 DEF Family
<1>7. NULL \notin Procs
  BY PcbAssumption
<1>8. c \notin On(F, "pcb_free") /\ c \in W
  BY <1>2, <1>4, <1>5, <1>6, <1>7 DEF Family, W, Living
<1>9. /\ Once(killing) /\ \A i \in 2..n : p_parent[killing[i]] = NULL
      /\ \A i \in 1..n : killing[i] \in Procs /\ killing[i] \in W
  <2>1. Once(killing) /\ (\A i \in 2..n : p_parent[killing[i]] = NULL) /\ Range(killing) \subseteq W
    BY <1>2 DEF Unwinds, n
  <2>2. \A i \in 1..n : killing[i] \in Range(killing)
    BY <1>4, Elements DEF n
  <2> QED
    BY <1>3, <2>1, <2>2
<1>10. c \notin Range(killing)
  <2> SUFFICES ASSUME NEW k \in 1..n, killing[k] = c PROVE FALSE
    BY <1>4, Elements DEF n
  <2>1. k = 1
    BY <1>4, <1>6, <1>7, <1>9
  <2> DEFINE D == {killing[i] : i \in 1..n}
  <2>2. D \in SUBSET Procs /\ D # {}
    BY <1>4, <1>9
  <2>3. PICK x \in D : \A y \in D : ~Above(p_parent, killing, x, y)
    BY <1>2, <2>2 DEF Rooted
  <2>4. PICK i \in 1..n : x = killing[i]
    OBVIOUS
  <2>5. CASE i = 1
    <3>1. Above(p_parent, killing, x, top)
      BY <1>6, <2>1, <2>4, <2>5 DEF Above
    <3> QED
      BY <1>4, <2>3, <3>1
  <2>6. CASE i # 1
    <3>1. i \in 2..n /\ i - 1 \in 1..n
      BY <1>4, <2>6
    <3>2. Above(p_parent, killing, x, killing[i - 1])
      BY <2>4, <3>1 DEF Above, n
    <3> QED
      BY <2>3, <3>1, <3>2
  <2> QED
    BY <2>5, <2>6
<1>11. /\ J \in [Procs -> Seq(Procs)]
       /\ On(J, top) = On(K, top) \ {c}
       /\ \A x \in Procs : x # top => J[x] = K[x]
  <2>1. Once(K[top])
    BY <1>3, <1>4 DEF Parted
  <2>2. Shrunk(Procs, K, J, top, c)
    BY <1>3, <1>4, <2>1, DroppedOn
  <2> HIDE DEF J
  <2> QED
    BY <2>2 DEF Shrunk
<1>12. Holds(link', W, O, F, J)
  <2> HIDE DEF W, O
  <2>1. Holds(out_child(link, c), W, O, F, Dropped(K, top, c))
    BY <1>2, <1>4, <1>5, out_childHolds
  <2> QED
    BY <1>1, <1>5, <2>1
<1>13. p_parent \in [Procs -> Procs \union {NULL}] /\ p_parent' = [p_parent EXCEPT ![c] = NULL]
  BY <1>1, <1>2, <1>5 DEF Family
<1>14. Family(F, J, p_parent')
  <2>1. p_parent' \in [Procs -> Procs \union {NULL}]
    BY <1>13
  <2>2. ASSUME NEW y \in Procs, NEW x \in Procs PROVE p_parent'[y] = x <=> y \in On(J, x)
    <3>1. On(J, x) = IF x = top THEN On(K, x) \ {c} ELSE On(K, x)
      BY <1>11 DEF On
    <3>2. p_parent[y] = x <=> y \in On(K, x)
      BY <1>2 DEF Family
    <3>3. CASE y = c
      BY <1>5, <1>6, <1>7, <1>13, <3>1, <3>2, <3>3
    <3>4. CASE y # c
      BY <1>13, <3>1, <3>2, <3>4
    <3> QED
      BY <3>3, <3>4
  <2>3. ASSUME NEW x \in On(F, "pcb_free") PROVE J[x] = <<>> /\ p_parent'[x] = NULL
    <3>1. x # top /\ x # c /\ K[x] = <<>> /\ p_parent[x] = NULL
      BY <1>2, <1>4, <1>8 DEF Family, W, Living
    <3>2. x \in Procs
      BY <1>3, NodeFacts, Elements DEF On
    <3> QED
      BY <1>11, <1>13, <3>1, <3>2
  <2> QED
    BY <2>1, <2>2, <2>3 DEF Family
<1>15. /\ more \in Seq(Procs) /\ more # <<>> /\ Len(more) = n + 1 /\ more[n + 1] = c
       /\ \A i \in 1..n : more[i] = killing[i]
  BY <1>4, <1>5, Ends DEF n
<1> HIDE DEF more, J
<1>16. Unwinds(F, p_parent', act_proc, more)
  <2>1. Once(more)
    <3>1. \A i \in 1..n : killing[i] # c
      BY <1>4, <1>10, Elements DEF n
    <3> SUFFICES ASSUME NEW i \in 1..(n + 1), NEW j \in 1..(n + 1), more[i] = more[j] PROVE i = j
      BY <1>15 DEF Once
    <3>2. CASE i \in 1..n /\ j \in 1..n
      BY <1>9, <1>15, <3>2 DEF Once, n
    <3>3. CASE i = n + 1 \/ j = n + 1
      <4>1. i = n + 1 \/ i \in 1..n
        BY <1>4
      <4>2. j = n + 1 \/ j \in 1..n
        BY <1>4
      <4> QED
        BY <1>15, <3>1, <3>3, <4>1, <4>2
    <3> QED
      BY <1>4, <3>2, <3>3
  <2>2. \A i \in 1..(n + 1) : more[i] \in W
    <3>1. \A i \in 1..(n + 1) : i = n + 1 \/ i \in 1..n
      BY <1>4
    <3> QED
      BY <1>8, <1>9, <1>15, <3>1
  <2>3. Range(more) \subseteq W
    BY <1>15, <2>2, Elements
  <2>4. \A i \in 2..(n + 1) : p_parent'[more[i]] = NULL
    <3>1. \A i \in 2..(n + 1) : i = n + 1 \/ (i \in 1..n /\ i \in 2..n)
      BY <1>4
    <3> QED
      BY <1>5, <1>9, <1>13, <1>15, <3>1
  <2> QED
    BY <1>1, <1>2, <1>15, <2>1, <2>3, <2>4 DEF Unwinds
<1>17. Rooted(p_parent', more)
  <2> SUFFICES ASSUME NEW x \in Procs, NEW y \in Procs, Above(p_parent', more, x, y)
               PROVE  Above(p_parent, killing, x, y)
    BY <1>2, RootedFewer
  <2>1. CASE p_parent'[x] = y
    BY <1>7, <1>13, <2>1 DEF Above
  <2>2. ASSUME NEW i \in 2..(n + 1), more[i] = x, more[i - 1] = y
        PROVE  Above(p_parent, killing, x, y)
    <3>1. i - 1 \in 1..n /\ y = killing[i - 1]
      BY <1>4, <1>15, <2>2
    <3>2. CASE i = n + 1
      BY <1>4, <1>6, <1>15, <2>2, <3>1, <3>2 DEF Above
    <3>3. CASE i \in 2..n
      <4>1. i \in 1..n /\ killing[i] = x
        BY <1>15, <2>2, <3>3
      <4> QED
        BY <3>1, <3>3, <4>1 DEF Above, n
    <3> QED
      BY <1>4, <3>2, <3>3
  <2> QED
    BY <1>15, <2>1, <2>2 DEF Above
<1>18. Sound(link', F, J, p_parent', p_semAdd, act_proc, more)
  BY <1>2, <1>12, <1>14, <1>16, <1>17 DEF Sound
<1> QED
  BY <1>1, <1>3, <1>4, <1>5, <1>6, <1>10, <1>18 DEF J, c, more

(* What kill_proc makes of the queues, of the lists of children and of the *)
(* memory, when s is the semaphore of p and x its parent.                  *)
Unqueued(F, s, p) == Dropped(IF s = NULL THEN F ELSE Dropped(F, s, p), "ready", p)
Buried(F, s, p) == Pushed(Unqueued(F, s, p), "pcb_free", p)
Orphaned(K, x, p) == IF x = NULL THEN K ELSE Dropped(K, x, p)

CutOff(L, x, p) == IF x = NULL THEN L ELSE out_child(L, p)
Woken(L, s, p) == IF s = NULL THEN L ELSE out_proc_q(L, s, p)
Gone(L, x, s, p) == free_pcb(out_proc_q(Woken(CutOff(L, x, p), s, p), "ready", p), p)

(* The queues U without p, and B with p among the free pcbs.               *)
Burial(F, U, B, p) ==
  /\ U \in [Lists -> Seq(Procs)] /\ B \in [Lists -> Seq(Procs)]
  /\ \A q \in Lists : p \notin On(U, q)
  /\ \A q \in Lists : On(B, q) = IF q = "pcb_free" THEN On(F, q) \union {p} ELSE On(F, q) \ {p}
  /\ \A q \in Lists : q # "pcb_free" => B[q] = Dropped(F, q, p)[q]

(* out_proc_q on the queue that p_semAdd names and on the ready queue      *)
(* finds the pcb wherever it is.                                           *)
LEMMA BuriedOn ==
  ASSUME NEW W, NEW O, NEW F, NEW K, F \in [Lists -> Seq(Procs)], Parted(W, O, F, K),
         NEW sem, Waits(F, sem), NEW p \in Procs, p \notin On(F, "pcb_free")
  PROVE  Burial(F, Unqueued(F, sem[p], p), Buried(F, sem[p], p), p)
<1> DEFINE s == sem[p]
           F1 == IF s = NULL THEN F ELSE Dropped(F, s, p)
           F2 == Dropped(F1, "ready", p)
           F3 == Pushed(F2, "pcb_free", p)
<1>1. /\ "pcb_free" \in Lists /\ "ready" \in Lists /\ "ready" # "pcb_free"
      /\ \A t \in Sems : t \in Lists /\ t # "ready" /\ t # "pcb_free" /\ t # NULL
      /\ \A q \in Lists : q = "ready" \/ q = "pcb_free" \/ q \in Sems
  BY NodeFacts, PcbAssumption DEF Lists, Queues
<1>2. s \in Sems \union {NULL} /\ \A t \in Sems : s = t <=> p \in On(F, t)
  BY DEF Waits
<1> HIDE DEF s
<1>3. ASSUME NEW q \in Lists
      PROVE  /\ Dropped(F, q, p) \in [Lists -> Seq(Procs)]
             /\ On(Dropped(F, q, p), q) = On(F, q) \ {p}
             /\ p \notin On(F, q) => Dropped(F, q, p)[q] = F[q]
             /\ \A r \in Lists : r # q => Dropped(F, q, p)[r] = F[r]
  <2>1. p \notin On(F, q) => Dropped(F, q, p)[q] = F[q]
    BY DEF Dropped
  <2>2. Shrunk(Lists, F, Dropped(F, q, p), q, p)
    BY DroppedOn DEF Parted
  <2> QED
    BY <2>1, <2>2 DEF Shrunk
<1>4. /\ F1 \in [Lists -> Seq(Procs)]
      /\ \A q \in Lists : q \in Sems => F1[q] = Dropped(F, q, p)[q]
      /\ F1["ready"] = F["ready"] /\ F1["pcb_free"] = F["pcb_free"]
  <2>1. CASE s = NULL
    BY <1>1, <1>2, <1>3, <2>1
  <2>2. CASE s # NULL
    BY <1>1, <1>2, <1>3, <2>2
  <2> QED
    BY <2>1, <2>2
<1> HIDE DEF F1
<1>5. /\ F2 \in [Lists -> Seq(Procs)]
      /\ On(F2, "ready") = On(F, "ready") \ {p}
      /\ \A q \in Lists : q # "ready" => F2[q] = F1[q]
  <2>1. Once(F1["ready"]) /\ On(F1, "ready") = On(F, "ready")
    BY <1>1, <1>4 DEF On, Parted
  <2>2. Shrunk(Lists, F1, F2, "ready", p)
    BY <1>1, <1>4, <2>1, DroppedOn
  <2> HIDE DEF F2
  <2> QED
    BY <2>1, <2>2 DEF Shrunk
<1>6. F2["ready"] = Dropped(F, "ready", p)["ready"]
  BY <1>1, <1>4 DEF Dropped, On
<1> HIDE DEF F2
<1>7. /\ F3 \in [Lists -> Seq(Procs)]
      /\ On(F3, "pcb_free") = On(F2, "pcb_free") \union {p}
      /\ \A q \in Lists : q # "pcb_free" => F3[q] = F2[q]
  <2>1. Grown(Lists, F2, F3, "pcb_free", p)
    BY <1>1, <1>5, PushedOn
  <2> QED
    BY <2>1 DEF Grown
<1> HIDE DEF F3
<1>8. \A q \in Lists : q # "pcb_free" => F2[q] = Dropped(F, q, p)[q] /\ On(F2, q) = On(F, q) \ {p}
  <2>1. \A t \in Sems : F2[t] = Dropped(F, t, p)[t]
    BY <1>1, <1>4, <1>5
  <2>2. \A t \in Sems : On(F2, t) = On(F, t) \ {p}
    BY <1>1, <1>3, <2>1 DEF On
  <2> QED
    BY <1>1, <1>5, <1>6, <2>1, <2>2
<1>9. On(F2, "pcb_free") = On(F, "pcb_free")
  BY <1>1, <1>4, <1>5 DEF On
<1>10. \A q \in Lists : q # "pcb_free" => On(F3, q) = On(F2, q)
  BY <1>7 DEF On
<1>11. \A q \in Lists : On(F3, q) = IF q = "pcb_free" THEN On(F, q) \union {p} ELSE On(F, q) \ {p}
  BY <1>7, <1>8, <1>9, <1>10
<1>12. \A q \in Lists : p \notin On(F2, q)
  BY <1>8, <1>9
<1>13. Unqueued(F, sem[p], p) = F2 /\ Buried(F, sem[p], p) = F3
  BY DEF s, F1, F2, F3, Buried, Unqueued
<1> QED
  BY <1>5, <1>7, <1>8, <1>11, <1>12, <1>13 DEF Burial

(* The memory that kill_proc leaves holds these lists.                     *)
LEMMA GoneHolds ==
  ASSUME NEW L, NEW W, NEW O, NEW F, NEW K, Holds(L, W, O, F, K),
         NEW par, NEW sem, Waits(F, sem), NEW p \in Procs, p \notin On(F, "pcb_free"),
         par[p] # NULL => par[p] \in W /\ p \in On(K, par[p])
  PROVE  Holds(Gone(L, par[p], sem[p], p), W, O \ {p}, Buried(F, sem[p], p), Orphaned(K, par[p], p))
<1> DEFINE x == par[p]
           s == sem[p]
           J == Orphaned(K, x, p)
           F1 == IF s = NULL THEN F ELSE Dropped(F, s, p)
           F2 == Dropped(F1, "ready", p)
           cut == CutOff(L, x, p)
           woken == Woken(cut, s, p)
           out == out_proc_q(woken, "ready", p)
           O1 == IF s = NULL THEN O ELSE O \union {p}
           O2 == IF p \in On(F1, "ready") THEN O1 \union {p} ELSE O1
<1>1. /\ F \in [Lists -> Seq(Procs)] /\ Parted(W, O, F, K)
  BY HoldsParted
<1>2. "ready" \in Lists /\ "pcb_free" \in Lists /\ \A t \in Sems : t \in Lists /\ t # NULL
  BY NodeFacts, PcbAssumption
<1>3. s \in Sems \union {NULL} /\ (s # NULL => p \in On(F, s))
  BY DEF Waits
<1>4. x # NULL => x \in W /\ p \in On(K, x)
  OBVIOUS
<1>5. \A q \in Lists : p \notin On(F2, q)
  <2>1. F2 = Unqueued(F, sem[p], p)
    BY DEF Unqueued
  <2>2. Burial(F, Unqueued(F, sem[p], p), Buried(F, sem[p], p), p)
    BY <1>1, BuriedOn
  <2> HIDE DEF F2
  <2> QED
    BY <2>1, <2>2 DEF Burial
<1> HIDE DEF x, s
<1>6. Holds(cut, W, O, F, J)
  <2>1. CASE x = NULL
    BY <2>1 DEF CutOff, Orphaned
  <2>2. CASE x # NULL
    <3>1. Holds(out_child(L, p), W, O, F, Dropped(K, x, p))
      BY <1>4, <2>2, out_childHolds
    <3> QED
      BY <2>2, <3>1 DEF CutOff, Orphaned
  <2> QED
    BY <2>1, <2>2
<1> HIDE DEF cut, J
<1>7. Holds(woken, W, O1, F1, J)
  <2>1. CASE s = NULL
    BY <1>6, <2>1 DEF Woken
  <2>2. CASE s # NULL
    <3>1. s \in Lists /\ p \in On(F, s)
      BY <1>2, <1>3, <2>2
    <3>2. Holds(out_proc_q(cut, s, p), W, IF p \in On(F, s) THEN O \union {p} ELSE O, Dropped(F, s, p), J)
      BY <1>6, <3>1, out_proc_qHolds
    <3> QED
      BY <2>2, <3>1, <3>2 DEF Woken
  <2> QED
    BY <2>1, <2>2
<1>8. O2 \ {p} = O \ {p}
  OBVIOUS
<1> HIDE DEF woken, O1, F1
<1>9. Holds(out, W, O2, F2, J)
  BY <1>2, <1>7, out_proc_qHolds
<1> HIDE DEF out, O2, F2
<1>10. Holds(free_pcb(out, p), W, O2 \ {p}, Pushed(F2, "pcb_free", p), J)
  BY <1>5, <1>9, free_pcbHolds
<1>11. free_pcb(out, p) = Gone(L, par[p], sem[p], p)
  BY DEF Gone, out, woken, cut, x, s
<1>12. Pushed(F2, "pcb_free", p) = Buried(F, sem[p], p) /\ J = Orphaned(K, par[p], p)
  BY DEF Buried, Unqueued, F2, F1, s, J, x
<1> QED
  BY <1>8, <1>10, <1>11, <1>12

(* kill_proc: the last of the calls ends, and after the last of all the    *)
(* process that ran is ready, if it lives.                                 *)
LEMMA SoundKill ==
  ASSUME NEW F, NEW K, Sound(link, F, K, p_parent, p_semAdd, act_proc, killing), kill_proc
  PROVE  LET B == Buried(F, p_semAdd[top], top)
             over == Len(killing) = 1
             alive == act_proc \notin On(B, "pcb_free")
         IN  /\ top \in Procs /\ top \in Living(F) /\ top \in Range(killing) /\ K[top] = <<>>
             /\ \A q \in Lists : On(B, q) = IF q = "pcb_free" THEN On(F, q) \union {top} ELSE On(F, q) \ {top}
             /\ act_proc \in Procs /\ act_proc' = IF over THEN NULL ELSE act_proc
             /\ Sound(link', IF over /\ alive THEN Queued(B, "ready", act_proc) ELSE B,
                      Orphaned(K, p_parent[top], top), p_parent', p_semAdd', act_proc', killing')
<1> DEFINE p == top
           W == Living(F)
           O == Runs(F, act_proc)
           n == Len(killing)
           B == Buried(F, p_semAdd[p], p)
           J == Orphaned(K, p_parent[p], p)
           gone == Gone(link, p_parent[p], p_semAdd[p], p)
           over == n = 1
           alive == act_proc \notin On(B, "pcb_free")
           left == SubSeq(killing, 1, n - 1)
<1>1. /\ killing # <<>> /\ list_empty(link, p_child(p))
      /\ link' = IF over /\ is_alive(gone, act_proc) THEN insert_proc_q(gone, "ready", act_proc) ELSE gone
      /\ act_proc' = IF over THEN NULL ELSE act_proc
      /\ p_parent' = [p_parent EXCEPT ![p] = NULL]
      /\ p_semAdd' = [p_semAdd EXCEPT ![p] = NULL]
      /\ killing' = left
  BY DEF kill_proc, Gone, Woken, CutOff
<1>2. /\ Holds(link, W, O, F, K) /\ Placed(F, act_proc) /\ Waits(F, p_semAdd)
      /\ Family(F, K, p_parent) /\ Unwinds(F, p_parent, act_proc, killing)
      /\ Rooted(p_parent, killing)
  BY DEF Sound
<1>3. /\ F \in [Lists -> Seq(Procs)] /\ K \in [Procs -> Seq(Procs)]
      /\ W \in SUBSET Procs /\ Parted(W, O, F, K)
  BY <1>2, HoldsParted
<1>4. /\ n \in Nat \ {0} /\ p = killing[n] /\ p \in Procs /\ p \in W /\ p \in Range(killing)
      /\ killing \in Seq(Procs)
  <2>1. killing \in Seq(Procs) /\ Range(killing) \subseteq W
    BY <1>2 DEF Unwinds
  <2>2. n \in Nat \ {0}
    BY <1>1, <2>1, Ends
  <2>3. killing[n] \in Range(killing)
    BY <2>1, <2>2, Elements
  <2> QED
    BY <1>3, <2>1, <2>2, <2>3 DEF top
<1>5. K[p] = <<>>
  BY <1>1, <1>2, <1>4, Reads
<1> HIDE DEF p
<1>6. /\ NULL \notin Procs /\ NULL \notin Sems /\ "pcb_free" \in Lists /\ "ready" \in Lists
      /\ "ready" \in Queues /\ "ready" \notin Sems
      /\ \A s \in Sems : s \in Lists /\ s # "pcb_free" /\ s # NULL
  BY NodeFacts, PcbAssumption DEF Queues
<1>7. p \notin On(F, "pcb_free") /\ act_proc \in Procs
  BY <1>1, <1>2, <1>4 DEF W, Living, Unwinds
<1>8. p_parent \in [Procs -> Procs \union {NULL}]
      /\ \A c, x \in Procs : p_parent[c] = x <=> c \in On(K, x)
  BY <1>2 DEF Family
<1>9. \A c \in Procs : p_parent[c] # p
  <2>1. On(K, p) = {}
    BY <1>3, <1>4, <1>5, Elements DEF On
  <2> QED
    BY <1>4, <1>8, <2>1
<1>10. p_parent[p] # NULL => /\ p_parent[p] \in W /\ p_parent[p] \in Procs /\ p \in On(K, p_parent[p])
  <2> SUFFICES ASSUME p_parent[p] # NULL
               PROVE  p_parent[p] \in W /\ p_parent[p] \in Procs /\ p \in On(K, p_parent[p])
    OBVIOUS
  <2>1. p_parent[p] \in Procs /\ p \in On(K, p_parent[p])
    BY <1>4, <1>8
  <2>2. K[p_parent[p]] # <<>>
    BY <1>3, <2>1, Elements DEF On
  <2>3. p_parent[p] \notin On(F, "pcb_free")
    BY <1>2, <2>2 DEF Family
  <2> QED
    BY <2>1, <2>3 DEF W, Living
<1>11. /\ B \in [Lists -> Seq(Procs)]
       /\ \A q \in Lists : On(B, q) = IF q = "pcb_free" THEN On(F, q) \union {p} ELSE On(F, q) \ {p}
  <2>1. Burial(F, Unqueued(F, p_semAdd[p], p), B, p)
    BY <1>2, <1>3, <1>4, <1>7, BuriedOn
  <2> HIDE DEF B
  <2> QED
    BY <2>1 DEF Burial
<1>12. /\ J \in [Procs -> Seq(Procs)]
       /\ \A x \in Procs : On(J, x) = IF x = p_parent[p] THEN On(K, x) \ {p} ELSE On(K, x)
       /\ \A x \in Procs : K[x] = <<>> => J[x] = <<>>
  <2>1. CASE p_parent[p] = NULL
    BY <1>3, <1>6, <2>1 DEF Orphaned
  <2>2. CASE p_parent[p] # NULL
    <3> DEFINE x == p_parent[p]
    <3>1. x \in Procs /\ x \in W /\ p \in On(K, x)
      BY <1>10, <2>2
    <3>2. J = Dropped(K, x, p)
      BY <2>2 DEF Orphaned
    <3> HIDE DEF x, J
    <3>3. Once(K[x])
      BY <1>3, <3>1 DEF Parted
    <3>4. /\ J \in [Procs -> Seq(Procs)]
          /\ On(J, x) = On(K, x) \ {p}
          /\ \A y \in Procs : y # x => J[y] = K[y]
      <4>1. Shrunk(Procs, K, J, x, p)
        BY <1>3, <3>1, <3>2, <3>3, DroppedOn
      <4> QED
        BY <4>1 DEF Shrunk
    <3>5. \A y \in Procs : y # x => On(J, y) = On(K, y)
      BY <3>4 DEF On
    <3>6. K[x] # <<>>
      BY <1>3, <3>1, Elements DEF On
    <3> QED
      BY <3>4, <3>5, <3>6 DEF x
  <2> QED
    BY <2>1, <2>2
<1>13. Holds(gone, W, O \ {p}, B, J)
  <2> HIDE DEF W, O
  <2> QED
    BY <1>2, <1>4, <1>7, <1>10, GoneHolds
<1> HIDE DEF B, J, gone
<1>14. Living(B) = W \ {p} /\ Runs(B, act_proc) = O \ {p}
  BY <1>4, <1>6, <1>11 DEF Living, Runs, W, O
<1>15. Holds(gone, Living(B), Runs(B, act_proc), B, J)
  BY <1>13, <1>14, HoldsFewer
<1>16. \A x \in Procs : x \in Runs(B, act_proc) \/ \E q \in Lists : x \in On(B, q)
  <2> SUFFICES ASSUME NEW x \in Procs PROVE x \in O \ {p} \/ \E q \in Lists : x \in On(B, q)
    BY <1>14
  <2>1. CASE x = p
    BY <1>6, <1>11, <2>1
  <2>2. CASE x # p
    <3>1. ASSUME NEW q \in Lists, x \in On(F, q) PROVE x \in On(B, q)
      BY <1>11, <2>2, <3>1
    <3> QED
      BY <1>2, <2>2, <3>1 DEF Placed, O
  <2> QED
    BY <2>1, <2>2
<1>17. Waits(B, p_semAdd')
  <2>1. p_semAdd \in [Procs -> Sems \union {NULL}] /\ \A x \in Procs, s \in Sems : p_semAdd[x] = s <=> x \in On(F, s)
    BY <1>2 DEF Waits
  <2>2. p_semAdd' \in [Procs -> Sems \union {NULL}]
    BY <1>1, <2>1
  <2>3. ASSUME NEW x \in Procs, NEW s \in Sems PROVE p_semAdd'[x] = s <=> x \in On(B, s)
    <3>1. On(B, s) = On(F, s) \ {p}
      BY <1>6, <1>11
    <3>2. CASE x = p
      BY <1>1, <1>6, <2>1, <3>1, <3>2
    <3>3. CASE x # p
      BY <1>1, <2>1, <3>1, <3>3
    <3> QED
      BY <3>2, <3>3
  <2> QED
    BY <2>2, <2>3 DEF Waits
<1>18. Family(B, J, p_parent')
  <2>1. p_parent' \in [Procs -> Procs \union {NULL}]
    BY <1>1, <1>8
  <2>2. ASSUME NEW y \in Procs, NEW x \in Procs PROVE p_parent'[y] = x <=> y \in On(J, x)
    <3>1. CASE y = p
      BY <1>1, <1>6, <1>8, <1>12, <3>1
    <3>2. CASE y # p
      BY <1>1, <1>8, <1>12, <3>2
    <3> QED
      BY <3>1, <3>2
  <2>3. ASSUME NEW x \in On(B, "pcb_free") PROVE J[x] = <<>> /\ p_parent'[x] = NULL
    <3>1. x \in Procs
      BY <1>6, <1>11, Elements DEF On
    <3>2. CASE x = p
      BY <1>1, <1>5, <1>8, <1>12, <3>1, <3>2
    <3>3. CASE x # p
      <4>1. x \in On(F, "pcb_free")
        BY <1>6, <1>11, <3>3
      <4>2. K[x] = <<>> /\ p_parent[x] = NULL
        BY <1>2, <4>1 DEF Family
      <4> QED
        BY <1>1, <1>8, <1>12, <3>1, <3>3, <4>2
    <3> QED
      BY <3>2, <3>3
  <2> QED
    BY <2>1, <2>2, <2>3 DEF Family
<1>19. /\ left \in Seq(Procs) /\ Len(left) = n - 1 /\ \A i \in 1..(n - 1) : left[i] = killing[i]
       /\ over <=> left = <<>>
  BY <1>1, <1>4, Ends
<1> HIDE DEF left
<1>20. /\ Once(left) /\ Range(left) \subseteq Living(B)
       /\ \A i \in 2..Len(left) : p_parent'[left[i]] = NULL
  <2>1. /\ \A i, j \in 1..n : killing[i] = killing[j] => i = j
        /\ \A i \in 2..n : p_parent[killing[i]] = NULL
    BY <1>2 DEF Unwinds, Once, n
  <2>2. \A i \in 1..n : killing[i] \in W /\ killing[i] \in Procs
    BY <1>2, <1>4, Elements DEF Unwinds, n
  <2>3. \A i \in 1..(n - 1) : i \in 1..n /\ i # n
    BY <1>4
  <2>4. \A i \in 1..(n - 1) : left[i] \in W \ {p}
    BY <1>4, <1>19, <2>1, <2>2, <2>3
  <2>5. Once(left)
    BY <1>19, <2>1, <2>3 DEF Once
  <2>6. Range(left) \subseteq Living(B)
    BY <1>14, <1>19, <2>4, Elements
  <2>7. \A i \in 2..(n - 1) : i \in 1..(n - 1) /\ i \in 2..n
    BY <1>4
  <2>8. \A i \in 2..(n - 1) : p_parent'[left[i]] = NULL
    BY <1>1, <1>8, <1>19, <2>1, <2>2, <2>3, <2>7
  <2> QED
    BY <1>19, <2>5, <2>6, <2>8
<1>21. Rooted(p_parent', left)
  <2> SUFFICES ASSUME NEW x \in Procs, NEW y \in Procs, Above(p_parent', left, x, y)
               PROVE  Above(p_parent, killing, x, y)
    BY <1>2, RootedFewer
  <2>1. CASE p_parent'[x] = y
    BY <1>1, <1>6, <1>8, <2>1 DEF Above
  <2>2. ASSUME NEW i \in 2..(n - 1), left[i] = x, left[i - 1] = y
        PROVE  Above(p_parent, killing, x, y)
    <3>1. i \in 1..(n - 1) /\ i - 1 \in 1..(n - 1) /\ i \in 2..n
      BY <1>4, <2>2
    <3> QED
      BY <1>19, <2>2, <3>1 DEF Above, n
  <2> QED
    BY <1>19, <2>1, <2>2 DEF Above
<1>22. is_alive(gone, act_proc) <=> alive
  BY <1>7, <1>15, Reads
<1>23. CASE ~over
  <2>1. Unwinds(B, p_parent', act_proc, left)
    BY <1>7, <1>6, <1>19, <1>20, <1>23 DEF Unwinds
  <2>2. Sound(gone, B, J, p_parent', p_semAdd', act_proc, left)
    BY <1>15, <1>16, <1>17, <1>18, <1>21, <2>1 DEF Sound, Placed
  <2> QED
    BY <1>1, <1>4, <1>5, <1>7, <1>11, <1>23, <2>2 DEF p, B, J
<1>24. CASE over /\ alive
  <2>1. Unwinds(B, p_parent', act_proc, left)
    BY <1>7, <1>19, <1>20, <1>24 DEF Unwinds
  <2>2. Sound(gone, B, J, p_parent', p_semAdd', act_proc, left)
    BY <1>15, <1>16, <1>17, <1>18, <1>21, <2>1 DEF Sound, Placed
  <2>3. act_proc # NULL
    BY <1>6, <1>7
  <2>4. Sound(insert_proc_q(gone, "ready", act_proc), Queued(B, "ready", act_proc), J,
              p_parent', p_semAdd', NULL, left)
    BY <1>6, <1>19, <1>24, <2>2, <2>3, Yields
  <2> QED
    BY <1>1, <1>4, <1>5, <1>7, <1>11, <1>22, <1>24, <2>4 DEF p, B, J
<1>25. CASE over /\ ~alive
  <2>1. Runs(B, NULL) = Runs(B, act_proc)
    BY <1>6, <1>25 DEF Runs, Living
  <2>2. On(B, "pcb_free") \subseteq Procs
    BY <1>6, <1>11, Elements DEF On
  <2>3. Unwinds(B, p_parent', NULL, left)
    BY <1>6, <1>19, <1>20, <1>25, <2>2 DEF Unwinds
  <2>4. Sound(gone, B, J, p_parent', p_semAdd', NULL, left)
    BY <1>15, <1>16, <1>17, <1>18, <1>21, <2>1, <2>3 DEF Sound, Placed
  <2> QED
    BY <1>1, <1>4, <1>5, <1>7, <1>11, <1>22, <1>25, <2>4 DEF p, B, J
<1> QED
  BY <1>23, <1>24, <1>25

-----------------------------------------------------------------------------
(* The initial memory.                                                     *)

(* Every head alone.                                                       *)
LEMMA EmptyLists ==
  ASSUME NEW L \in MemoryOf(Memory), \A q \in Lists : L.next[head(q)] = head(q) /\ L.prev[head(q)] = head(q),
         NEW F, F = [q \in Lists |-> <<>>], NEW K, K = [p \in Procs |-> <<>>]
  PROVE  Holds(L, {}, {}, F, K)
<1> DEFINE none == <<>>
           A == HeadsOf({}, {})
           Q == RingsOf({}, {}, F, K)
<1>1. none \in Seq(Procs) /\ none \in Seq(Memory) /\ Len(none) = 0 /\ listed(none) = none
  BY DEF listed
<1>2. Shapes({}, {}, F, K)
  BY DEF Shapes
<1>3. A = {head(q) : q \in Lists}
  BY DEF HeadsOf
<1>4. \A q \in Lists : Q[head(q)] = none
  <2>1. \A q \in Lists : Q[head(q)] = listed(F[q])
    BY <1>2, RingFacts
  <2> QED
    BY <1>1, <2>1
<1> HIDE DEF none, A, Q
<1>5. ASSUME NEW h \in A PROVE /\ Q[h] = none /\ Ring(h, none) = {h} /\ RingOf(L, h, none)
  <2>1. PICK q \in Lists : h = head(q)
    BY <1>3
  <2>2. L.next[h] = h /\ L.prev[h] = h
    BY <2>1
  <2>3. \A i : At(h, none, i) = h
    BY <1>1 DEF At
  <2>4. Ring(h, none) = {h}
    BY <1>1, <2>3 DEF Ring
  <2>5. \A i, j \in 0..Len(none) : i = j
    BY <1>1
  <2>6. RingOf(L, h, none)
    BY <2>2, <2>3, <2>5 DEF RingOf
  <2> QED
    BY <1>4, <2>1, <2>4, <2>6
<1>6. Rings(L, A, Q)
  BY <1>5 DEF Rings
<1> QED
  BY <1>2, <1>6 DEF Holds, A, Q

(* The memory after each turn of the loop of init_pcbs.                    *)
Loop(n, t, L) ==
  CHOOSE g : g = [i \in 0..n |-> IF i = 0 THEN L
                                 ELSE list_add_tail(g[i - 1], p_list(t[i]), pcb_free_h)]
Turning(f, n, t, L) ==
  f[0] = L /\ \A i \in 1..n : f[i] = list_add_tail(f[i - 1], p_list(t[i]), pcb_free_h)

(* The loop ends, and every turn is one list_add_tail (the CHOOSE of a     *)
(* recursive function has a value).                                        *)
LEMMA Turns ==
  ASSUME NEW n \in Nat, NEW t \in [1..n -> Procs], NEW L \in MemoryOf(Memory)
  PROVE  Turning(Loop(n, t, L), n, t, L)
<1> DEFINE f == Loop(n, t, L)
           D == Nat \X MemoryOf(Memory)
           turn(d) == <<d[1] + 1, IF d[1] + 1 \in 1..n
                                  THEN list_add_tail(d[2], p_list(t[d[1] + 1]), pcb_free_h) ELSE d[2]>>
           nx == [d \in D |-> turn(d)]
           start == <<0, L>>
           solves(g) == g = [i \in 0..n |-> IF i = 0 THEN L
                                            ELSE list_add_tail(g[i - 1], p_list(t[i]), pcb_free_h)]
<1>1. ASSUME NEW M \in MemoryOf(Memory), NEW p \in Procs
      PROVE  list_add_tail(M, p_list(p), pcb_free_h) \in MemoryOf(Memory)
  <2>1. p_list(p) \in Memory /\ pcb_free_h \in Memory
    BY NodeFacts
  <2> HIDE DEF Memory
  <2> QED
    BY <2>1 DEF list_add_tail, link_between, MemoryOf
<1>2. nx \in [D -> D] /\ start \in D
  BY <1>1
<1>3. PICK r \in [Nat -> D] : Follows(r, nx, start)
  BY <1>2, Iterates
<1>4. /\ r[0] = start
      /\ \A k \in Nat : r[k] \in D
      /\ \A k \in Nat \ {0} : r[k] = turn(r[k - 1])
  <2>1. \A k \in Nat \ {0} : k - 1 \in Nat
    OBVIOUS
  <2> QED
    BY <1>3, <2>1 DEF Follows
<1>5. \A k \in Nat : r[k][1] = k
  <2> DEFINE Bad == {k \in Nat : r[k][1] # k}
  <2> SUFFICES ASSUME Bad # {} PROVE FALSE
    OBVIOUS
  <2>1. PICK k \in Bad : \A j \in Bad : k <= j
    <3>1. Bad \in SUBSET Nat
      OBVIOUS
    <3> HIDE DEF Bad
    <3> QED
      BY <3>1, Facts!Smallest
  <2>2. k \in Nat /\ r[k][1] # k
    OBVIOUS
  <2>3. k # 0
    BY <1>4, <2>2
  <2>4. k - 1 \in Nat /\ k \in Nat \ {0} /\ (k - 1) + 1 = k /\ ~(k <= k - 1)
    BY <2>2, <2>3
  <2>5. r[k - 1][1] = k - 1
    BY <2>1, <2>4
  <2>6. r[k][1] = r[k - 1][1] + 1
    BY <1>4, <2>4
  <2> QED
    BY <2>2, <2>4, <2>5, <2>6
<1> DEFINE g == [i \in 0..n |-> r[i][2]]
<1>6. solves(g)
  <2>1. r[0][2] = L
    BY <1>4
  <2>2. ASSUME NEW i \in 0..n, i # 0
        PROVE  r[i][2] = list_add_tail(g[i - 1], p_list(t[i]), pcb_free_h)
    <3>1. i \in 1..n /\ i - 1 \in 0..n /\ i - 1 \in Nat /\ i \in Nat \ {0} /\ (i - 1) + 1 = i
      BY <2>2
    <3>2. r[i - 1][1] = i - 1 /\ r[i] = turn(r[i - 1])
      BY <1>4, <1>5, <3>1
    <3>3. turn(r[i - 1])[2] = list_add_tail(r[i - 1][2], p_list(t[i]), pcb_free_h)
      BY <3>1, <3>2
    <3> QED
      BY <3>1, <3>2, <3>3
  <2>3. \A i \in 0..n : g[i] = IF i = 0 THEN L ELSE list_add_tail(g[i - 1], p_list(t[i]), pcb_free_h)
    BY <2>1, <2>2
  <2>4. g = [i \in 0..n |-> g[i]]
    OBVIOUS
  <2> HIDE DEF g
  <2> QED
    BY <2>3, <2>4
<1>7. f = CHOOSE h : solves(h)
  BY DEF Loop
<1> HIDE DEF solves, g, f
<1>8. solves(f)
  BY <1>6, <1>7
<1>9. f = [i \in 0..n |-> IF i = 0 THEN L ELSE list_add_tail(f[i - 1], p_list(t[i]), pcb_free_h)]
  BY <1>8 DEF solves
<1>10. 0 \in 0..n /\ \A i \in 1..n : i \in 0..n /\ i # 0
  OBVIOUS
<1>11. \A i \in 0..n : f[i] = IF i = 0 THEN L ELSE list_add_tail(f[i - 1], p_list(t[i]), pcb_free_h)
  BY <1>9
<1> QED
  BY <1>10, <1>11 DEF Turning, f

(* All pcbs are free at first and every other list is empty.               *)
LEMMA SoundInit ==
  ASSUME Init
  PROVE  \E F : /\ Sound(link, F, [p \in Procs |-> <<>>], p_parent, p_semAdd, act_proc, killing)
                /\ On(F, "pcb_free") = Procs
                /\ \A q \in Queues : F[q] = <<>>
<1> DEFINE n == Cardinality(Procs)
           K == [p \in Procs |-> <<>>]
           heads == {head(q) : q \in Queues \union {"pcb_free"}}
           empty == [m \in Memory |-> IF m \in heads THEN m ELSE NULL]
           L == [next |-> empty, prev |-> empty]
           E == [q \in Lists |-> <<>>]
<1>1. PICK t \in [1..n -> Procs] : Range(t) = Procs /\ link = init_pcbs(t)
  BY DEF Init
<1>2. /\ p_parent = [p \in Procs |-> NULL] /\ p_semAdd = [p \in Procs |-> NULL]
      /\ act_proc = NULL /\ killing = <<>>
  BY DEF Init
<1>3. IsFiniteSet(Procs) /\ n \in Nat
  BY PcbAssumption, FS_CardinalityType
<1>4. Len(t) = n
  <2> HIDE DEF n
  <2>1. t \in Seq(Procs)
    BY <1>3, SeqDef
  <2> QED
    BY <1>3, <2>1, LenProperties
<1>5. \A i, j \in 1..n : t[i] = t[j] => i = j
  <2>1. t \in Surjection(1..n, Procs)
    <3> HIDE DEF n
    <3> QED
      BY <1>1 DEF Range, Surjection
  <2>2. IsFiniteSet(1..n) /\ Cardinality(1..n) = n
    <3> HIDE DEF n
    <3>1. 1 \in Int /\ n \in Int /\ (1 > n => n = 0) /\ n - 1 + 1 = n
      BY <1>3
    <3> QED
      BY <3>1, FS_Interval
  <2>3. t \in Injection(1..n, Procs)
    <3>1. Cardinality(1..n) = Cardinality(Procs)
      BY <2>2
    <3> HIDE DEF n
    <3> QED
      BY <1>3, <2>1, <2>2, <3>1, FS_SurjSameCardinalityImpliesInj
  <2> HIDE DEF n
  <2> QED
    BY <2>3 DEF Injection, IsInjective
<1>6. L \in MemoryOf(Memory) /\ \A q \in Lists : L.next[head(q)] = head(q) /\ L.prev[head(q)] = head(q)
  <2>1. \A q \in Lists : head(q) \in Memory /\ head(q) \in heads
    BY NodeFacts DEF Lists
  <2>2. empty \in [Memory -> Memory] /\ \A q \in Lists : empty[head(q)] = head(q)
    <3>1. NULL \in Memory
      BY DEF Memory
    <3> HIDE DEF heads, Memory
    <3> QED
      BY <2>1, <3>1
  <2> HIDE DEF empty
  <2> QED
    BY <2>2 DEF MemoryOf
<1> DEFINE add == Loop(n, t, L)
<1>7. link = add[n]
  BY <1>1, <1>4 DEF init_pcbs, Loop
<1>8. Holds(L, {}, {}, E, K)
  <2> HIDE DEF L
  <2> QED
    BY <1>6, EmptyLists
<1> HIDE DEF L, n, add
<1>9. add[0] = L /\ \A i \in 1..n : add[i] = list_add_tail(add[i - 1], p_list(t[i]), pcb_free_h)
  <2>1. Turning(add, n, t, L)
    BY <1>1, <1>3, <1>6, Turns DEF add, n
  <2> QED
    BY <2>1 DEF Turning
<1> DEFINE Reached(i) == \E F : /\ Holds(add[i], {}, {}, F, K)
                                /\ On(F, "pcb_free") = {t[k] : k \in 1..i}
                                /\ \A q \in Queues : F[q] = <<>>
<1>10. "pcb_free" \in Lists /\ \A q \in Queues : q \in Lists /\ q # "pcb_free"
  BY NodeFacts, PcbAssumption DEF Queues
<1>11. \A i \in 0..n : Reached(i)
  <2> DEFINE Bad == {i \in 0..n : ~Reached(i)}
  <2> SUFFICES ASSUME Bad # {} PROVE FALSE
    OBVIOUS
  <2>1. PICK i \in Bad : \A j \in Bad : i <= j
    <3>1. Bad \in SUBSET Nat
      OBVIOUS
    <3> HIDE DEF Bad
    <3> QED
      BY <3>1, Facts!Smallest
  <2>2. i \in 0..n /\ ~Reached(i)
    OBVIOUS
  <2>3. Reached(0)
    <3>1. Range(<<>>) = {} /\ 1..0 = {}
      BY DEF Range
    <3>2. \A q \in Lists : E[q] = <<>>
      OBVIOUS
    <3> HIDE DEF E
    <3>3. On(E, "pcb_free") = {t[k] : k \in 1..0}
      BY <1>10, <3>1, <3>2 DEF On
    <3> QED
      BY <1>8, <1>9, <1>10, <3>2, <3>3
  <2>4. i - 1 \in 0..n /\ i \in 1..n /\ ~(i <= i - 1)
    BY <1>3, <2>2, <2>3
  <2>5. Reached(i - 1)
    BY <2>1, <2>4
  <2>6. PICK F : /\ Holds(add[i - 1], {}, {}, F, K)
                 /\ On(F, "pcb_free") = {t[k] : k \in 1..(i - 1)}
                 /\ \A q \in Queues : F[q] = <<>>
    BY <2>5
  <2> DEFINE p == t[i]
             G == Queued(F, "pcb_free", p)
             none == {}
  <2>7. p \in Procs /\ \A r \in Lists : p \notin On(F, r)
    <3>1. p \in Procs
      BY <2>4
    <3>2. p \notin On(F, "pcb_free")
      BY <1>3, <1>5, <2>4, <2>6
    <3>3. \A q \in Queues : p \notin On(F, q)
      BY <2>6 DEF On, Range
    <3> QED
      BY <3>1, <3>2, <3>3 DEF Lists
  <2>8. F \in [Lists -> Seq(Procs)]
    BY <2>6, HoldsParted
  <2> HIDE DEF p
  <2>9. /\ On(G, "pcb_free") = On(F, "pcb_free") \union {p}
        /\ \A r \in Lists : r # "pcb_free" => G[r] = F[r]
    <3>1. Grown(Lists, F, G, "pcb_free", p)
      BY <1>10, <2>7, <2>8, QueuedOn
    <3> QED
      BY <3>1 DEF Grown
  <2>10. none \ {p} = none
    OBVIOUS
  <2>11. Holds(add[i - 1], none, none, F, K)
    BY <2>6
  <2> HIDE DEF G, none, K
  <2>12. Holds(insert_proc_q(add[i - 1], "pcb_free", p), none, none \ {p}, G, K)
    BY <1>10, <2>7, <2>11, insert_proc_qHolds DEF G
  <2>13. insert_proc_q(add[i - 1], "pcb_free", p) = add[i]
    BY <1>9, <2>4 DEF insert_proc_q, p, pcb_free_h
  <2>14. Holds(add[i], {}, {}, G, K)
    BY <2>10, <2>12, <2>13 DEF none
  <2>15. On(G, "pcb_free") = {t[k] : k \in 1..i}
    <3>1. \A k : k \in 1..i <=> k \in 1..(i - 1) \/ k = i
      BY <2>4
    <3>2. On(G, "pcb_free") = {t[k] : k \in 1..(i - 1)} \union {t[i]}
      BY <2>6, <2>9 DEF p
    <3> QED
      BY <3>1, <3>2
  <2>16. \A q \in Queues : G[q] = <<>>
    BY <1>10, <2>6, <2>9
  <2> QED
    BY <2>2, <2>14, <2>15, <2>16
<1>12. PICK F : /\ Holds(link, {}, {}, F, K)
                /\ On(F, "pcb_free") = {t[k] : k \in 1..n}
                /\ \A q \in Queues : F[q] = <<>>
  <2>1. n \in 0..n
    BY <1>3
  <2>2. Reached(n)
    BY <1>11, <2>1
  <2> QED
    BY <1>7, <2>2
<1>13. On(F, "pcb_free") = Procs
  BY <1>1, <1>12 DEF Range
<1>14. \A q \in Queues : On(F, q) = {}
  BY <1>12 DEF On, Range
<1>15. Living(F) = {} /\ Runs(F, act_proc) = {}
  BY <1>13 DEF Living, Runs
<1>16. \A p \in Procs : K[p] = <<>> /\ On(K, p) = {}
  BY DEF On, Range
<1> HIDE DEF K
<1>17. Placed(F, act_proc)
  BY <1>10, <1>13 DEF Placed
<1>18. Waits(F, p_semAdd)
  <2>1. \A s \in Sems : s \in Queues /\ s # NULL
    BY PcbAssumption DEF Queues
  <2> QED
    BY <1>2, <1>14, <2>1 DEF Waits
<1>19. Family(F, K, p_parent) /\ NULL \notin Procs
  BY <1>2, <1>13, <1>16, PcbAssumption DEF Family
<1>20. Unwinds(F, p_parent, act_proc, killing)
  <2> DEFINE none == <<>>
  <2>1. none \in Seq(Procs) /\ Range(none) = {} /\ 1..Len(none) = {} /\ 2..Len(none) = {}
    BY DEF Range
  <2> HIDE DEF none
  <2>2. killing = none
    BY <1>2 DEF none
  <2>3. killing = <<>>
    BY <1>2
  <2> QED
    BY <1>2, <1>13, <1>19, <2>1, <2>2, <2>3 DEF Unwinds, Once
<1>21. Rooted(p_parent, killing)
  <2> DEFINE none == <<>>
  <2>1. 2..Len(none) = {}
    OBVIOUS
  <2> HIDE DEF none
  <2>2. killing = none
    BY <1>2 DEF none
  <2>3. \A x, y \in Procs : ~Above(p_parent, killing, x, y)
    BY <1>2, <1>19, <2>1, <2>2 DEF Above
  <2> QED
    BY <2>3 DEF Rooted
<1>22. Sound(link, F, K, p_parent, p_semAdd, act_proc, killing)
  BY <1>12, <1>15, <1>17, <1>18, <1>19, <1>20, <1>21 DEF Sound
<1> QED
  BY <1>12, <1>13, <1>22 DEF K

-----------------------------------------------------------------------------
(* The theorems.                                                           *)

LEMMA SoundNext == IInv /\ [Next]_vars => IInv'
<1> SUFFICES ASSUME IInv, [Next]_vars PROVE IInv'
  OBVIOUS
<1>1. PICK F, K : Sound(link, F, K, p_parent, p_semAdd, act_proc, killing)
  BY DEF IInv
<1>2. CASE create_init_proc
  BY <1>1, <1>2, SoundCreate DEF IInv
<1>3. CASE mk_proc
  BY <1>1, <1>3, SoundMkProc DEF IInv
<1>4. CASE enqueue_proc
  BY <1>1, <1>4, SoundEnqueue DEF IInv
<1>5. CASE dequeue_proc
  BY <1>1, <1>5, SoundDequeue DEF IInv
<1>6. ASSUME NEW s \in Sems, insert_blocked(s) PROVE IInv'
  BY <1>1, <1>6, SoundBlocked DEF IInv
<1>7. ASSUME NEW s \in Sems, wake(s) PROVE IInv'
  BY <1>1, <1>7, SoundWake DEF IInv
<1>8. ASSUME NEW p \in Procs, term_process(p) PROVE IInv'
  BY <1>1, <1>8, SoundTerm DEF IInv
<1>9. CASE remove_child
  BY <1>1, <1>9, SoundRemoveChild DEF IInv
<1>10. CASE kill_proc
  BY <1>1, <1>10, SoundKill DEF IInv
<1>11. CASE UNCHANGED vars
  BY <1>1, <1>11 DEF vars, IInv
<1> QED
  BY <1>2, <1>3, <1>4, <1>5, <1>6, <1>7, <1>8, <1>9, <1>10, <1>11 DEF Next

(* Some lists stand behind the links in every state that the functions of  *)
(* pcb.c reach when scheduler.c and syscalls.c call them.                  *)
THEOREM Stands == Spec => []IInv
<1>1. Init => IInv
  BY SoundInit DEF IInv
<1>2. IInv /\ [Next]_vars => IInv'
  BY SoundNext
<1> QED
  BY <1>1, <1>2, PTL DEF Spec

(* What the predicates of PcbLists see of lists that stand.                *)
LEMMA Seen ==
  ASSUME NEW F, NEW K, Sound(link, F, K, p_parent, p_semAdd, act_proc, killing)
  PROVE  /\ \A q \in Lists : Order(head(q)) = F[q]
         /\ \A x \in Living(F) : Order(p_child(x)) = K[x]
         /\ \A p \in Procs : Freed(p) <=> p \in On(F, "pcb_free")
<1>1. Holds(link, Living(F), Runs(F, act_proc), F, K)
  BY DEF Sound
<1>2. /\ F \in [Lists -> Seq(Procs)] /\ K \in [Procs -> Seq(Procs)] /\ Living(F) \in SUBSET Procs
  BY <1>1, HoldsParted
<1>3. ASSUME NEW q \in Lists PROVE Order(head(q)) = F[q]
  <2> DEFINE s == F[q]
             u == listed(s)
  <2>1. s \in Seq(Procs) /\ list_for_each(link, head(q)) = u
    BY <1>1, <1>2, View
  <2> HIDE DEF s
  <2>2. /\ u \in Seq(Memory) /\ Len(u) = Len(s) /\ DOMAIN s = 1..Len(s)
        /\ \A i \in 1..Len(s) : u[i] = p_list(s[i]) /\ s[i] \in Procs
    BY <2>1, NodesOf
  <2> HIDE DEF u
  <2>3. DOMAIN u = 1..Len(s) /\ \A i \in 1..Len(s) : pcb(u[i]) = s[i]
    BY <2>2, LenProperties, NodeFacts
  <2>4. Order(head(q)) = [i \in 1..Len(s) |-> s[i]]
    BY <2>1, <2>3 DEF Order
  <2>5. s = [i \in 1..Len(s) |-> s[i]]
    BY <2>1, <2>2
  <2> QED
    BY <2>4, <2>5 DEF s
<1>4. ASSUME NEW x \in Living(F) PROVE Order(p_child(x)) = K[x]
  <2> DEFINE s == K[x]
             u == born(s)
  <2>1. s \in Seq(Procs) /\ list_for_each(link, p_child(x)) = u
    BY <1>1, <1>2, View
  <2> HIDE DEF s
  <2>2. /\ u \in Seq(Memory) /\ Len(u) = Len(s) /\ DOMAIN s = 1..Len(s)
        /\ \A i \in 1..Len(s) : u[i] = p_sib(s[i]) /\ s[i] \in Procs
    BY <2>1, NodesOf
  <2> HIDE DEF u
  <2>3. DOMAIN u = 1..Len(s) /\ \A i \in 1..Len(s) : pcb(u[i]) = s[i]
    BY <2>2, LenProperties, NodeFacts
  <2>4. Order(p_child(x)) = [i \in 1..Len(s) |-> s[i]]
    BY <2>1, <2>3 DEF Order
  <2>5. s = [i \in 1..Len(s) |-> s[i]]
    BY <2>1, <2>2
  <2> QED
    BY <2>4, <2>5 DEF s
<1>5. \A p \in Procs : Freed(p) <=> p \in On(F, "pcb_free")
  BY <1>1, Reads DEF Freed
<1> QED
  BY <1>3, <1>4, <1>5

(* No step leads a link out of the pcbs and the heads or gives a field a   *)
(* value of another kind.                                                  *)
THEOREM TypeCorrect == Spec => []TypeOK
<1>1. IInv => TypeOK
  <2> SUFFICES ASSUME NEW F, NEW K, Sound(link, F, K, p_parent, p_semAdd, act_proc, killing)
               PROVE  TypeOK
    BY DEF IInv
  <2> QED
    BY DEF Sound, Holds, Waits, Family, Unwinds, TypeOK, MemoryOf
<1> QED
  BY <1>1, Stands, PTL

(* The free list, every queue and the children of every living process are *)
(* rings both ways, whatever list_add, list_del and INIT_LIST_HEAD did.    *)
THEOREM RingsThread == Spec => []Threaded
<1>1. IInv => Threaded
  <2> SUFFICES ASSUME NEW F, NEW K, Sound(link, F, K, p_parent, p_semAdd, act_proc, killing),
                      NEW h \in Heads
               PROVE  Threads(link, h, list_for_each(link, h))
    BY DEF IInv, Threaded
  <2>1. Holds(link, Living(F), Runs(F, act_proc), F, K)
    BY DEF Sound
  <2>2. /\ \A q \in Lists : Threads(link, head(q), list_for_each(link, head(q)))
        /\ \A x \in Living(F) : Threads(link, p_child(x), list_for_each(link, p_child(x)))
    BY <2>1, View
  <2>3. \A p \in Procs : ~Freed(p) => p \in Living(F)
    BY Seen DEF Living
  <2>4. (\E q \in Lists : h = head(q)) \/ \E x \in Living(F) : h = p_child(x)
    BY <2>3, NodeFacts DEF Heads
  <2> QED
    BY <2>2, <2>4
<1> QED
  BY <1>1, Stands, PTL

(* A pcb is on exactly one list, the one that its fields name, or runs and *)
(* is linked to itself.                                                    *)
THEOREM ListsAreDisjoint == Spec => []OneList
<1>1. IInv => OneList
  <2> SUFFICES ASSUME NEW F, NEW K, Sound(link, F, K, p_parent, p_semAdd, act_proc, killing),
                      NEW p \in Procs
               PROVE  /\ Cardinality({q \in Queues \union {"pcb_free"} : p \in Range(Order(head(q)))})
                           = IF p = act_proc /\ ~Freed(p) THEN 0 ELSE 1
                      /\ p = act_proc /\ ~Freed(p) => link.next[p_list(p)] = p_list(p)
                      /\ \A s \in Sems : p_semAdd[p] = s <=> p \in Range(Order(head(s)))
    BY DEF IInv, OneList
  <2> DEFINE on == {q \in Lists : p \in On(F, q)}
  <2>1. /\ Holds(link, Living(F), Runs(F, act_proc), F, K) /\ Placed(F, act_proc) /\ Waits(F, p_semAdd)
    BY DEF Sound
  <2>2. Parted(Living(F), Runs(F, act_proc), F, K)
    BY <2>1, HoldsParted
  <2>3. {q \in Queues \union {"pcb_free"} : p \in Range(Order(head(q)))} = on
    BY Seen DEF Lists, On
  <2>4. p = act_proc /\ ~Freed(p) <=> p \in Runs(F, act_proc)
    BY Seen DEF Runs, Living
  <2>5. CASE p \in Runs(F, act_proc)
    <3>1. on = {}
      BY <2>2, <2>5 DEF Parted
    <3>2. link.next[p_list(p)] = p_list(p)
      BY <2>1, <2>5, View
    <3>3. Cardinality(on) = 0
      BY <3>1, FS_EmptySet
    <3>4. \A s \in Sems : p_semAdd[p] = s <=> p \in Range(Order(head(s)))
      BY <2>1, Seen, NodeFacts DEF Waits, On
    <3> QED
      BY <2>3, <2>4, <2>5, <3>2, <3>3, <3>4
  <2>6. CASE p \notin Runs(F, act_proc)
    <3>1. PICK q \in Lists : p \in On(F, q)
      BY <2>1, <2>6 DEF Placed
    <3>2. \A r \in Lists : p \in On(F, r) => r = q
      BY <2>2, <3>1 DEF Parted
    <3>3. on = {q}
      BY <3>1, <3>2
    <3>4. Cardinality(on) = 1
      BY <3>3, FS_Singleton
    <3>5. \A s \in Sems : p_semAdd[p] = s <=> p \in Range(Order(head(s)))
      BY <2>1, Seen, NodeFacts DEF Waits, On
    <3> QED
      BY <2>3, <2>4, <2>6, <3>4, <3>5
  <2> QED
    BY <2>5, <2>6
<1> QED
  BY <1>1, Stands, PTL

(* p_parent and the lists of children say the same, and a dead process has *)
(* neither parent nor child.                                               *)
THEOREM TreesAgree == Spec => []TreeMatchesLists
<1>1. IInv => TreeMatchesLists
  <2> SUFFICES ASSUME NEW F, NEW K, Sound(link, F, K, p_parent, p_semAdd, act_proc, killing),
                      NEW p \in Procs
               PROVE  /\ ~Freed(p) => Range(Order(p_child(p))) = {c \in Procs : p_parent[c] = p}
                      /\ Freed(p) => p_parent[p] = NULL /\ \A c \in Procs : p_parent[c] # p
    BY DEF IInv, TreeMatchesLists
  <2>1. /\ Holds(link, Living(F), Runs(F, act_proc), F, K) /\ Family(F, K, p_parent)
    BY DEF Sound
  <2>2. K \in [Procs -> Seq(Procs)]
    BY <2>1, HoldsParted
  <2>3. On(K, p) \subseteq Procs /\ (K[p] = <<>> => On(K, p) = {})
    BY <2>2, Elements DEF On
  <2>4. CASE ~Freed(p)
    <3>1. Order(p_child(p)) = K[p]
      BY <2>4, Seen DEF Living
    <3>2. On(K, p) = {c \in Procs : p_parent[c] = p}
      BY <2>1, <2>3 DEF Family
    <3> QED
      BY <2>4, <3>1, <3>2 DEF On
  <2>5. CASE Freed(p)
    <3>1. p \in On(F, "pcb_free")
      BY <2>5, Seen
    <3> QED
      BY <2>1, <2>3, <2>5, <3>1 DEF Family
  <2> QED
    BY <2>4, <2>5
<1> QED
  BY <1>1, Stands, PTL

-----------------------------------------------------------------------------
(* The refinement.  KeepsPromise takes what kill_proc leaves of a queue by *)
(* ranks; here is the same in terms of the element that is taken out.      *)

PlacesIn(q, S) == {i \in DOMAIN q : q[i] \in S}
RankIn(I, i) == Cardinality({j \in I : j <= i})
Left(q, S) ==
  [k \in 1..Cardinality(PlacesIn(q, S)) |->
     q[CHOOSE i \in PlacesIn(q, S) : RankIn(PlacesIn(q, S), i) = k]]

(* Keep of ProcQueue, with the operators of this module.                   *)
LEMMA LeftIsKeep == \A q, S : Promise!Keep(q, S) = Left(q, S)
  BY Zenon DEF Promise!Keep, Promise!Kept, Promise!Rank, Promise!Cardinality, Cardinality,
               Promise!IsFiniteSet, IsFiniteSet, Left, PlacesIn, RankIn

(* The numbers up to i are i.                                              *)
LEMMA FirstNumbers == \A i \in Nat : IsFiniteSet(1..i) /\ Cardinality(1..i) = i
<1> TAKE i \in Nat
<1>1. 1 \in Int /\ i \in Int /\ (1 > i => i = 0) /\ i - 1 + 1 = i
  OBVIOUS
<1> QED
  BY <1>1, FS_Interval

(* What is left of a queue without p is the queue with the place of p      *)
(* taken out.                                                              *)
LEMMA LeftDrops ==
  ASSUME NEW s \in Seq(Procs), Once(s), NEW p \in Procs
  PROVE  Left(s, Procs \ {p}) = IF p \in Range(s) THEN Without(s, Place(s, p)) ELSE s
<1> DEFINE n == Len(s)
           I == PlacesIn(s, Procs \ {p})
           chosen(k) == CHOOSE i \in I : RankIn(I, i) = k
<1>1. n \in Nat /\ DOMAIN s = 1..n /\ \A i \in 1..n : s[i] \in Procs
  BY NodesOf
<1>2. I = {i \in 1..n : s[i] # p}
  BY <1>1 DEF PlacesIn
<1>3. Left(s, Procs \ {p}) = [k \in 1..Cardinality(I) |-> s[chosen(k)]]
  BY DEF Left
<1>4. CASE p \notin Range(s)
  <2>1. I = 1..n
    BY <1>2, <1>4, Elements
  <2> HIDE DEF I, n
  <2>2. ASSUME NEW i \in 1..n PROVE RankIn(I, i) = i
    <3>1. {j \in I : j <= i} = 1..i
      BY <1>1, <2>1
    <3>2. Cardinality(1..i) = i
      BY <1>1, FirstNumbers
    <3> QED
      BY <3>1, <3>2 DEF RankIn
  <2>3. \A k \in 1..n : chosen(k) = k
    <3> SUFFICES ASSUME NEW k \in 1..n PROVE chosen(k) = k
      OBVIOUS
    <3>1. k \in I /\ RankIn(I, k) = k /\ \A i \in I : RankIn(I, i) = k => i = k
      BY <2>1, <2>2
    <3> QED
      BY <3>1
  <2>4. Cardinality(I) = n
    BY <1>1, <2>1, FirstNumbers
  <2> HIDE DEF chosen
  <2>5. Left(s, Procs \ {p}) = [k \in 1..n |-> s[k]]
    BY <1>3, <2>3, <2>4
  <2>6. s = [k \in 1..n |-> s[k]]
    BY <1>1
  <2> QED
    BY <1>4, <2>5, <2>6
<1>5. CASE p \in Range(s)
  <2> DEFINE m == Place(s, p)
  <2>1. m \in 1..n /\ s[m] = p
    BY <1>5, Elements
  <2> HIDE DEF m
  <2>2. I = (1..n) \ {m}
    BY <1>1, <1>2, <2>1 DEF Once
  <2> HIDE DEF I, n
  <2>3. ASSUME NEW i \in I PROVE RankIn(I, i) = IF i < m THEN i ELSE i - 1
    <3>1. i \in Nat /\ IsFiniteSet(1..i) /\ Cardinality(1..i) = i
      BY <1>1, <2>2, FirstNumbers
    <3>2. {j \in I : j <= i} = (1..i) \ {m}
      BY <1>1, <2>2
    <3>3. Cardinality((1..i) \ {m}) = IF m \in 1..i THEN i - 1 ELSE i
      BY <3>1, FS_RemoveElement
    <3>4. m \in 1..i <=> ~(i < m)
      BY <1>1, <2>1, <3>1
    <3> QED
      BY <3>2, <3>3, <3>4 DEF RankIn
  <2>4. Cardinality(I) = n - 1
    <3>1. IsFiniteSet(1..n) /\ Cardinality(1..n) = n
      BY <1>1, FirstNumbers
    <3> QED
      BY <2>1, <2>2, <3>1, FS_RemoveElement
  <2>5. \A k \in 1..(n - 1) : chosen(k) = IF k < m THEN k ELSE k + 1
    <3> SUFFICES ASSUME NEW k \in 1..(n - 1) PROVE chosen(k) = IF k < m THEN k ELSE k + 1
      OBVIOUS
    <3> DEFINE c == IF k < m THEN k ELSE k + 1
    <3>1. c \in I /\ (IF c < m THEN c ELSE c - 1) = k
      BY <1>1, <2>1, <2>2
    <3>2. \A i \in I : (IF i < m THEN i ELSE i - 1) = k => i = c
      BY <1>1, <2>1, <2>2
    <3> HIDE DEF c
    <3>3. RankIn(I, c) = k /\ \A i \in I : RankIn(I, i) = k => i = c
      BY <2>3, <3>1, <3>2
    <3>4. chosen(k) = c
      BY <3>1, <3>3
    <3> QED
      BY <3>4 DEF c
  <2> HIDE DEF chosen
  <2>6. Left(s, Procs \ {p}) = [k \in 1..(n - 1) |-> IF k < m THEN s[k] ELSE s[k + 1]]
    BY <1>3, <2>4, <2>5
  <2>7. Without(s, m) = [k \in 1..(n - 1) |-> IF k < m THEN s[k] ELSE s[k + 1]]
    BY DEF Without, n
  <2> QED
    BY <1>5, <2>6, <2>7 DEF m
<1> QED
  BY <1>4, <1>5

(* insert_proc_q appends, and taking out the first element leaves the tail.*)
LEMMA EndsOfQueues ==
  ASSUME NEW F \in [Lists -> Seq(Procs)], NEW q \in Lists
  PROVE  /\ \A p \in Procs : Queued(F, q, p)[q] = Append(F[q], p)
         /\ Once(F[q]) /\ F[q] # <<>> =>
              /\ F[q][1] = Head(F[q])
              /\ Dropped(F, q, F[q][1])[q] = Tail(F[q])
<1> DEFINE s == F[q]
           n == Len(s)
<1>1. s \in Seq(Procs) /\ n \in Nat /\ DOMAIN s = 1..n
  BY NodesOf
<1>2. ASSUME NEW p \in Procs PROVE Queued(F, q, p)[q] = Append(F[q], p)
  <2>1. Queued(F, q, p)[q] = Inserted(s, n, p)
    BY DEF Queued
  <2> HIDE DEF s, n
  <2>2. Inserted(s, n, p) = [k \in 1..(n + 1) |-> IF k <= n THEN s[k] ELSE IF k = n + 1 THEN p ELSE s[k - 1]]
    BY DEF Inserted, n
  <2>3. /\ Append(s, p) \in Seq(Procs) /\ Len(Append(s, p)) = n + 1
        /\ Append(s, p)[n + 1] = p /\ \A k \in 1..n : Append(s, p)[k] = s[k]
    BY <1>1, Ends DEF n
  <2>4. Append(s, p) = [k \in 1..(n + 1) |-> Append(s, p)[k]]
    BY <2>3, LenProperties
  <2>5. \A k \in 1..(n + 1) : Append(s, p)[k] = IF k <= n THEN s[k] ELSE IF k = n + 1 THEN p ELSE s[k - 1]
    <3>1. \A k \in 1..(n + 1) : k \in 1..n \/ (k = n + 1 /\ ~(k <= n))
      BY <1>1
    <3>2. \A k \in 1..n : k <= n
      BY <1>1
    <3> QED
      BY <2>3, <3>1, <3>2
  <2> HIDE DEF s
  <2>6. Inserted(s, n, p) = Append(s, p)
    BY <2>2, <2>4, <2>5
  <2> QED
    BY <2>1, <2>6 DEF s
<1>3. ASSUME Once(s), s # <<>>
      PROVE  s[1] = Head(s) /\ Dropped(F, q, s[1])[q] = Tail(s)
  <2>1. 1 \in 1..n /\ s[1] \in On(F, q)
    BY <1>1, <1>3, Elements DEF On
  <2>2. Place(s, s[1]) = 1
    BY <1>1, <1>3, <2>1 DEF Once, Place
  <2>3. Dropped(F, q, s[1])[q] = Without(s, 1)
    BY <2>1, <2>2 DEF Dropped
  <2> HIDE DEF s
  <2>4. Without(s, 1) = [k \in 1..(n - 1) |-> s[k + 1]]
    <3>1. \A k \in 1..(n - 1) : ~(k < 1)
      OBVIOUS
    <3> QED
      BY <3>1 DEF Without
  <2>5. Head(s) = s[1]
    BY <1>1, <1>3, HeadTailProperties
  <2>6. Tail(s) = [k \in 1..(n - 1) |-> s[k + 1]]
    BY <1>1, <1>3, HeadTailProperties, LenProperties
  <2> QED
    BY <2>3, <2>4, <2>5, <2>6
<1> QED
  BY <1>2, <1>3

-----------------------------------------------------------------------------
(* The parent and the dying of PcbPromise, in terms of the fields.         *)

With(f, x, y) == [f EXCEPT ![x] = y]

Called(kill, p) == {i \in 2..Len(kill) : kill[i] = p}
ParentOf(par, kill) ==
  [p \in Procs |-> IF Called(kill, p) = {} THEN par[p]
                   ELSE kill[(CHOOSE i \in Called(kill, p) : TRUE) - 1]]
Closed(par, D) == \A y \in Procs : par[y] \in D => y \in D
Doomed(par, S) == {x \in Procs : \A D \in SUBSET Procs : S \subseteq D /\ Closed(par, D) => x \in D}

(* Nobody is cut off while no call has made another one.                   *)
LEMMA ParentsPlain ==
  ASSUME NEW par \in [Procs -> Procs \union {NULL}], NEW kill, 2..Len(kill) = {}
  PROVE  ParentOf(par, kill) = par
<1>1. \A p : Called(kill, p) = {}
  BY DEF Called
<1>2. ParentOf(par, kill) = [p \in Procs |-> par[p]]
  BY <1>1 DEF ParentOf
<1> QED
  BY <1>2

(* remove_child leaves the child below the caller of the next call.        *)
LEMMA ParentsCalled ==
  ASSUME NEW par \in [Procs -> Procs \union {NULL}], NEW kill \in Seq(Procs), kill # <<>>,
         NEW c \in Procs, c \notin Range(kill), par[c] = kill[Len(kill)]
  PROVE  ParentOf([par EXCEPT ![c] = NULL], Append(kill, c)) = ParentOf(par, kill)
<1> DEFINE n == Len(kill)
           more == Append(kill, c)
           par2 == [par EXCEPT ![c] = NULL]
<1>1. /\ n \in Nat \ {0} /\ Len(more) = n + 1 /\ more[n + 1] = c
      /\ \A i \in 1..n : more[i] = kill[i]
      /\ \A i \in 1..n : kill[i] # c
  BY Ends, Elements
<1>2. par2[c] = NULL /\ \A x \in Procs : x # c => par2[x] = par[x]
  OBVIOUS
<1> HIDE DEF par2, more, n
<1>3. \A i : i \in 2..(n + 1) <=> i \in 2..n \/ i = n + 1
  BY <1>1
<1>4. \A i \in 2..n : i \in 1..n /\ i - 1 \in 1..n /\ i # n + 1
  BY <1>1
<1>5. n + 1 - 1 = n /\ n \in 1..n
  BY <1>1
<1>6. Called(kill, c) = {} /\ Called(more, c) = {n + 1}
  BY <1>1, <1>3, <1>4 DEF Called, n
<1>7. ASSUME NEW x \in Procs, x # c PROVE Called(more, x) = Called(kill, x)
  BY <1>1, <1>3, <1>4, <1>7 DEF Called, n
<1>8. ASSUME NEW x \in Procs PROVE ParentOf(par2, more)[x] = ParentOf(par, kill)[x]
  <2>1. CASE x = c
    <3> DEFINE j == CHOOSE i \in Called(more, c) : TRUE
    <3>1. j = n + 1
      BY <1>6
    <3> HIDE DEF j
    <3>2. ParentOf(par2, more)[c] = more[j - 1]
      <4>1. Called(more, c) # {}
        BY <1>6
      <4> QED
        BY <4>1 DEF ParentOf, j
    <3>3. ParentOf(par, kill)[c] = par[c]
      BY <1>6 DEF ParentOf
    <3> QED
      BY <1>1, <1>5, <2>1, <3>1, <3>2, <3>3 DEF n
  <2>2. CASE x # c /\ Called(kill, x) = {}
    BY <1>2, <1>7, <2>2 DEF ParentOf
  <2>3. CASE x # c /\ Called(kill, x) # {}
    <3> DEFINE j == CHOOSE i \in Called(kill, x) : TRUE
    <3>1. j \in 2..n
      BY <2>3 DEF Called, n
    <3> HIDE DEF j
    <3>2. j - 1 \in 1..n
      BY <1>4, <3>1
    <3>3. ParentOf(par2, more)[x] = more[j - 1] /\ ParentOf(par, kill)[x] = kill[j - 1]
      BY <1>7, <2>3 DEF ParentOf, j
    <3> QED
      BY <1>1, <3>2, <3>3
  <2> QED
    BY <2>1, <2>2, <2>3
<1> QED
  BY <1>8 DEF ParentOf, par2, more

(* When the last of the calls ends, its pcb has neither parent nor child.  *)
LEMMA ParentsCut ==
  ASSUME NEW par \in [Procs -> Procs \union {NULL}], NEW kill \in Seq(Procs), kill # <<>>,
         Once(kill), NEW p \in Procs, p = kill[Len(kill)]
  PROVE  /\ ParentOf(With(par, p, NULL), SubSeq(kill, 1, Len(kill) - 1))
              = With(ParentOf(par, kill), p, NULL)
         /\ (\A x \in Procs : par[x] # p) => \A x \in Procs : ParentOf(par, kill)[x] # p
         /\ Range(SubSeq(kill, 1, Len(kill) - 1)) = Range(kill) \ {p}
         /\ p \in Range(kill) /\ (Len(kill) = 1 <=> Range(kill) = {p})
<1> DEFINE n == Len(kill)
           left == SubSeq(kill, 1, n - 1)
           par2 == With(par, p, NULL)
<1>1. /\ n \in Nat \ {0} /\ left \in Seq(Procs) /\ Len(left) = n - 1
      /\ \A i \in 1..(n - 1) : left[i] = kill[i]
  BY Ends
<1>2. par2[p] = NULL /\ \A x \in Procs : x # p => par2[x] = par[x]
  BY DEF With
<1>3. \A i, j \in 1..n : kill[i] = kill[j] => i = j
  BY DEF Once
<1>4. p = kill[n]
  OBVIOUS
<1>5. \A x : x \in Range(kill) <=> \E i \in 1..n : kill[i] = x
  BY Elements
<1>6. \A x : x \in Range(left) <=> \E i \in 1..(n - 1) : left[i] = x
  BY <1>1, Elements
<1> HIDE DEF par2, left, n
<1>7. /\ \A i : i \in 1..n <=> i \in 1..(n - 1) \/ i = n
      /\ \A i \in 1..(n - 1) : i # n
      /\ \A i : i \in 2..n <=> i \in 2..(n - 1) \/ (i = n /\ n # 1)
      /\ \A i \in 2..n : i \in 1..n /\ i - 1 \in 1..n /\ i - 1 # n
      /\ \A i \in 2..(n - 1) : i - 1 \in 1..(n - 1) /\ i \in 1..(n - 1)
      /\ n \in 1..n /\ 1 \in 1..n
      /\ n = 1 => 1..n = {1}
  BY <1>1
<1>8. Called(left, p) = {}
  BY <1>1, <1>3, <1>4, <1>7 DEF Called
<1>9. ASSUME NEW x \in Procs, x # p PROVE Called(left, x) = Called(kill, x)
  BY <1>1, <1>4, <1>7, <1>9 DEF Called, n
<1>10. ASSUME NEW x \in Procs
       PROVE  ParentOf(par2, left)[x] = IF x = p THEN NULL ELSE ParentOf(par, kill)[x]
  <2>1. CASE x = p
    BY <1>2, <1>8, <2>1 DEF ParentOf
  <2>2. CASE x # p /\ Called(kill, x) = {}
    BY <1>2, <1>9, <2>2 DEF ParentOf
  <2>3. CASE x # p /\ Called(kill, x) # {}
    <3> DEFINE j == CHOOSE i \in Called(kill, x) : TRUE
    <3>1. j \in 2..(n - 1)
      BY <1>1, <1>9, <2>3 DEF Called
    <3> HIDE DEF j
    <3>2. j - 1 \in 1..(n - 1)
      BY <1>7, <3>1
    <3>3. ParentOf(par2, left)[x] = left[j - 1] /\ ParentOf(par, kill)[x] = kill[j - 1]
      BY <1>9, <2>3 DEF ParentOf, j
    <3> QED
      BY <1>1, <2>3, <3>2, <3>3
  <2> QED
    BY <2>1, <2>2, <2>3
<1>11. ParentOf(par2, left) = With(ParentOf(par, kill), p, NULL)
  BY <1>10 DEF ParentOf, With
<1>12. ASSUME \A x \in Procs : par[x] # p, NEW x \in Procs PROVE ParentOf(par, kill)[x] # p
  <2>1. CASE Called(kill, x) = {}
    BY <1>12, <2>1 DEF ParentOf
  <2>2. CASE Called(kill, x) # {}
    <3> DEFINE j == CHOOSE i \in Called(kill, x) : TRUE
    <3>1. j \in 2..n
      BY <2>2 DEF Called, n
    <3> HIDE DEF j
    <3>2. ParentOf(par, kill)[x] = kill[j - 1]
      BY <2>2 DEF ParentOf, j
    <3> QED
      BY <1>3, <1>4, <1>7, <3>1, <3>2
  <2> QED
    BY <2>1, <2>2
<1>13. Range(left) = Range(kill) \ {p}
  <2>1. ASSUME NEW x PROVE x \in Range(left) <=> x \in Range(kill) /\ x # p
    BY <1>1, <1>3, <1>4, <1>5, <1>6, <1>7
  <2> QED
    BY <2>1
<1>14. p \in Range(kill) /\ (n = 1 <=> Range(kill) = {p})
  <2>1. p \in Range(kill) /\ kill[1] \in Range(kill)
    BY <1>4, <1>5, <1>7
  <2>2. n = 1 => Range(kill) = {p}
    BY <1>4, <1>5, <1>7
  <2>3. kill[1] = p => n = 1
    BY <1>3, <1>4, <1>7
  <2> QED
    BY <2>1, <2>2, <2>3
<1> QED
  BY <1>11, <1>12, <1>13, <1>14 DEF n, left, par2

(* Nothing is doomed below nobody.                                         *)
LEMMA DoomedNone ==
  ASSUME NEW par \in [Procs -> Procs \union {NULL}]
  PROVE  Doomed(par, {}) = {}
<1>1. {} \in SUBSET Procs /\ {} \subseteq {} /\ Closed(par, {})
  BY DEF Closed
<1> QED
  BY <1>1 DEF Doomed

(* A child cut from its parent is doomed as before, by its own call.       *)
LEMMA DoomedCalled ==
  ASSUME NEW par \in [Procs -> Procs \union {NULL}], NEW S \in SUBSET Procs,
         NEW c \in Procs, par[c] \in S
  PROVE  Doomed(With(par, c, NULL), S \union {c}) = Doomed(par, S)
<1> DEFINE par2 == With(par, c, NULL)
<1>1. par2[c] = NULL /\ (\A x \in Procs : x # c => par2[x] = par[x]) /\ NULL \notin Procs
  BY PcbAssumption DEF With
<1> HIDE DEF par2
<1>2. \A D \in SUBSET Procs :
        S \union {c} \subseteq D /\ Closed(par2, D) <=> S \subseteq D /\ Closed(par, D)
  BY <1>1 DEF Closed
<1> QED
  BY <1>2 DEF Doomed, par2

(* Without a pcb that has no child the others are doomed as before.        *)
LEMMA DoomedCut ==
  ASSUME NEW par \in [Procs -> Procs \union {NULL}], NEW S \in SUBSET Procs,
         NEW p \in S, \A x \in Procs : par[x] # p
  PROVE  /\ Doomed(With(par, p, NULL), S \ {p}) = Doomed(par, S) \ {p}
         /\ S \subseteq Doomed(par, S)
         /\ S = {p} => Doomed(par, S) = {p}
<1> DEFINE par2 == With(par, p, NULL)
<1>1. par2[p] = NULL /\ (\A x \in Procs : x # p => par2[x] = par[x]) /\ NULL \notin Procs
  BY PcbAssumption DEF With
<1> HIDE DEF par2
<1>2. S \subseteq Doomed(par, S)
  BY DEF Doomed
<1>3. S = {p} => Doomed(par, S) = {p}
  <2>1. {p} \in SUBSET Procs /\ Closed(par, {p})
    BY DEF Closed
  <2>2. S = {p} => Doomed(par, S) \subseteq {p}
    BY <2>1 DEF Doomed
  <2> QED
    BY <1>2, <2>2
<1>4. ASSUME NEW x \in Doomed(par2, S \ {p}) PROVE x \in Doomed(par, S) /\ x # p
  <2>1. x \in Procs /\ \A D \in SUBSET Procs : S \ {p} \subseteq D /\ Closed(par2, D) => x \in D
    BY DEF Doomed
  <2>2. \A D \in SUBSET Procs : S \subseteq D /\ Closed(par, D) => Closed(par2, D)
    BY <1>1 DEF Closed
  <2>3. Procs \ {p} \in SUBSET Procs /\ S \ {p} \subseteq Procs \ {p} /\ Closed(par2, Procs \ {p})
    BY <1>1 DEF Closed
  <2>4. x # p
    BY <2>1, <2>3
  <2>5. \A D \in SUBSET Procs : S \subseteq D /\ Closed(par, D) => x \in D
    BY <2>1, <2>2
  <2> QED
    BY <2>1, <2>4, <2>5 DEF Doomed
<1>5. ASSUME NEW x \in Doomed(par, S), x # p PROVE x \in Doomed(par2, S \ {p})
  <2>1. x \in Procs /\ \A D \in SUBSET Procs : S \subseteq D /\ Closed(par, D) => x \in D
    BY DEF Doomed
  <2>2. ASSUME NEW D \in SUBSET Procs, S \ {p} \subseteq D, Closed(par2, D) PROVE x \in D
    <3>1. D \union {p} \in SUBSET Procs /\ S \subseteq D \union {p}
      BY <2>2
    <3>2. Closed(par, D \union {p})
      BY <1>1, <2>2 DEF Closed
    <3> QED
      BY <1>5, <2>1, <3>1, <3>2
  <2> QED
    BY <2>1, <2>2 DEF Doomed
<1> QED
  BY <1>2, <1>3, <1>4, <1>5 DEF par2

-----------------------------------------------------------------------------
(* The state of PcbPromise that a state of PcbLists stands for.            *)

FreeNow == {p \in Procs : Freed(p)}
ReadyNow == Order(head("ready"))
WaitingNow == [s \in Sems |-> Order(head(s))]
ParentNow == ParentOf(p_parent, killing)
DyingNow == Doomed(p_parent, Range(killing))

(* It is what the lists say.                                               *)
LEMMA SeenNow ==
  /\ \A F, K : Sound(link, F, K, p_parent, p_semAdd, act_proc, killing) =>
       FreeNow = On(F, "pcb_free") /\ ReadyNow = F["ready"] /\ WaitingNow = [s \in Sems |-> F[s]]
  /\ \A F, K : Sound(link', F, K, p_parent', p_semAdd', act_proc', killing') =>
       FreeNow' = On(F, "pcb_free") /\ ReadyNow' = F["ready"] /\ WaitingNow' = [s \in Sems |-> F[s]]
<1>1. \A F, K : Sound(link, F, K, p_parent, p_semAdd, act_proc, killing) =>
        FreeNow = On(F, "pcb_free") /\ ReadyNow = F["ready"] /\ WaitingNow = [s \in Sems |-> F[s]]
  <2> SUFFICES ASSUME NEW F, NEW K,
                      Sound(link, F, K, p_parent, p_semAdd, act_proc, killing)
               PROVE  /\ FreeNow = On(F, "pcb_free") /\ ReadyNow = F["ready"]
                      /\ WaitingNow = [s \in Sems |-> F[s]]
    OBVIOUS
  <2>1. /\ \A q \in Lists : Order(head(q)) = F[q]
        /\ \A p \in Procs : Freed(p) <=> p \in On(F, "pcb_free")
    BY Seen
  <2>2. /\ F \in [Lists -> Seq(Procs)] /\ "pcb_free" \in Lists /\ "ready" \in Lists
        /\ Sems \subseteq Lists
    BY HoldsParted, NodeFacts DEF Sound
  <2>3. On(F, "pcb_free") \subseteq Procs
    BY <2>2, Elements DEF On
  <2>4. FreeNow = On(F, "pcb_free")
    BY <2>1, <2>3 DEF FreeNow
  <2>5. WaitingNow = [s \in Sems |-> F[s]]
    BY <2>1, <2>2 DEF WaitingNow
  <2> QED
    BY <2>1, <2>2, <2>4, <2>5 DEF ReadyNow
<1>2. (\A F, K : Sound(link, F, K, p_parent, p_semAdd, act_proc, killing) =>
         FreeNow = On(F, "pcb_free") /\ ReadyNow = F["ready"] /\ WaitingNow = [s \in Sems |-> F[s]])'
  BY <1>1, PTL
<1> QED
  BY <1>1, <1>2

(* It is what KeepsPromise takes for the state.                            *)
LEMMA NowFacts ==
  /\ FreeNow = {p \in Procs : Freed(p)}
  /\ ReadyNow = Order(head("ready"))
  /\ WaitingNow = [s \in Sems |-> Order(head(s))]
  /\ ParentNow = [p \in Procs |-> IF Caller(p) = {} THEN p_parent[p]
                                  ELSE killing[(CHOOSE i \in Caller(p) : TRUE) - 1]]
  /\ DyingNow = In(Range(killing))
<1>1. ParentNow = [p \in Procs |-> IF Caller(p) = {} THEN p_parent[p]
                                   ELSE killing[(CHOOSE i \in Caller(p) : TRUE) - 1]]
  BY DEF ParentNow, ParentOf, Called, Caller
<1>2. DyingNow = In(Range(killing))
  BY DEF DyingNow, Doomed, Closed, In
<1> QED
  BY <1>1, <1>2 DEF FreeNow, ReadyNow, WaitingNow

(* The front of a that goes to the end of b.                               *)
Handed(F, G, a, b, p) ==
  /\ p = Head(F[a]) /\ G[a] = Tail(F[a]) /\ G[b] = Append(F[b], p)
  /\ On(G, a) = On(F, a) \ {p}
  /\ \A q \in Lists : q # a /\ q # b => G[q] = F[q]

(* Dropped from the one and queued on the other, p is handed on.           *)
LEMMA HandedOn ==
  ASSUME NEW F \in [Lists -> Seq(Procs)], NEW a \in Lists, NEW b \in Lists, a # b,
         Once(F[a]), F[a] # <<>>, NEW p \in Procs, p = F[a][1]
  PROVE  Handed(F, Queued(Dropped(F, a, p), b, p), a, b, p)
<1> DEFINE F1 == Dropped(F, a, p)
           G == Queued(F1, b, p)
<1>1. Shrunk(Lists, F, F1, a, p)
  BY DroppedOn
<1>2. /\ F1 \in [Lists -> Seq(Procs)] /\ On(F1, a) = On(F, a) \ {p}
      /\ \A q \in Lists : q # a => F1[q] = F[q]
  BY <1>1 DEF Shrunk
<1>3. p = Head(F[a]) /\ F1[a] = Tail(F[a])
  BY EndsOfQueues
<1> HIDE DEF F1
<1>4. G[b] = Append(F1[b], p)
  <2>1. \A r \in Procs : Queued(F1, b, r)[b] = Append(F1[b], r)
    BY <1>2, EndsOfQueues
  <2> QED
    BY <2>1
<1>5. Grown(Lists, F1, G, b, p)
  BY <1>2, QueuedOn
<1>6. \A q \in Lists : q # b => G[q] = F1[q]
  BY <1>5 DEF Grown
<1> HIDE DEF G
<1>7. On(G, a) = On(F1, a)
  BY <1>6 DEF On
<1> QED
  BY <1>2, <1>3, <1>4, <1>6, <1>7 DEF Handed, G, F1

(* The same after a step.                                                  *)
LEMMA NowFactsNext ==
  /\ FreeNow' = {p \in Procs : Freed(p)'}
  /\ ReadyNow' = Order(head("ready"))'
  /\ WaitingNow' = [s \in Sems |-> Order(head(s))']
  /\ ParentNow' = [p \in Procs |-> IF Caller(p)' = {} THEN p_parent'[p]
                                   ELSE killing'[(CHOOSE i \in Caller(p)' : TRUE) - 1]]
  /\ DyingNow' = In(Range(killing))'
<1>1. (/\ FreeNow = {p \in Procs : Freed(p)}
       /\ ReadyNow = Order(head("ready"))
       /\ WaitingNow = [s \in Sems |-> Order(head(s))]
       /\ ParentNow = [p \in Procs |-> IF Caller(p) = {} THEN p_parent[p]
                                       ELSE killing[(CHOOSE i \in Caller(p) : TRUE) - 1]]
       /\ DyingNow = In(Range(killing)))'
  BY NowFacts, PTL
<1> QED
  BY <1>1

Leaves(w, p) == [s \in Sems |-> Left(w[s], Procs \ {p})]

(* An action of PcbPromise, by what it says of these: a pcb is created,    *)
LEMMA MapsCreate ==
  ASSUME DyingNow = {}, NEW c \in FreeNow, act_proc # NULL \/ FreeNow = Procs,
         FreeNow' = FreeNow \ {c}, ParentNow' = With(ParentNow, c, act_proc),
         ReadyNow' = Append(ReadyNow, c), WaitingNow' = WaitingNow,
         act_proc' = act_proc, DyingNow' = DyingNow
  PROVE  Promise!Create(c)
  BY NowFacts, NowFactsNext DEF Promise!Create, With

(* a process changes queues,                                               *)
LEMMA MapsQueues ==
  ASSUME DyingNow = {}, DyingNow' = DyingNow, FreeNow' = FreeNow, ParentNow' = ParentNow
  PROVE  /\ /\ act_proc # NULL /\ ReadyNow' = Append(ReadyNow, act_proc) /\ act_proc' = NULL
            /\ WaitingNow' = WaitingNow
            => Promise!Enqueue
         /\ /\ act_proc = NULL /\ ReadyNow # <<>> /\ act_proc' = Head(ReadyNow)
            /\ ReadyNow' = Tail(ReadyNow) /\ WaitingNow' = WaitingNow
            => Promise!Dispatch
         /\ \A s \in Sems :
              /\ act_proc # NULL /\ act_proc' = NULL /\ ReadyNow' = ReadyNow
              /\ WaitingNow' = With(WaitingNow, s, Append(WaitingNow[s], act_proc))
              => Promise!Block(s)
         /\ \A s \in Sems :
              /\ WaitingNow[s] # <<>> /\ act_proc' = act_proc
              /\ WaitingNow' = With(WaitingNow, s, Tail(WaitingNow[s]))
              /\ ReadyNow' = Append(ReadyNow, Head(WaitingNow[s]))
              => Promise!Wake(s)
<1>1. ASSUME act_proc # NULL, ReadyNow' = Append(ReadyNow, act_proc), act_proc' = NULL,
             WaitingNow' = WaitingNow
      PROVE  Promise!Enqueue
  BY <1>1, NowFacts, NowFactsNext DEF Promise!Enqueue
<1>2. ASSUME act_proc = NULL, ReadyNow # <<>>, act_proc' = Head(ReadyNow),
             ReadyNow' = Tail(ReadyNow), WaitingNow' = WaitingNow
      PROVE  Promise!Dispatch
  BY <1>2, NowFacts, NowFactsNext DEF Promise!Dispatch
<1>3. ASSUME NEW s \in Sems, act_proc # NULL, act_proc' = NULL, ReadyNow' = ReadyNow,
             WaitingNow' = With(WaitingNow, s, Append(WaitingNow[s], act_proc))
      PROVE  Promise!Block(s)
  BY <1>3, NowFacts, NowFactsNext DEF Promise!Block, With
<1>4. ASSUME NEW s \in Sems, WaitingNow[s] # <<>>, act_proc' = act_proc,
             WaitingNow' = With(WaitingNow, s, Tail(WaitingNow[s])),
             ReadyNow' = Append(ReadyNow, Head(WaitingNow[s]))
      PROVE  Promise!Wake(s)
  BY <1>4, NowFacts, NowFactsNext DEF Promise!Wake, With
<1> QED
  BY <1>1, <1>2, <1>3, <1>4

(* a process and its progeny are condemned,                                *)
LEMMA MapsTerminate ==
  ASSUME DyingNow = {}, act_proc # NULL, NEW p, p \notin FreeNow, DyingNow' = Doomed(ParentNow, {p}),
         FreeNow' = FreeNow, ReadyNow' = ReadyNow, WaitingNow' = WaitingNow,
         ParentNow' = ParentNow, act_proc' = act_proc
  PROVE  Promise!Terminate(p)
<1>1. DyingNow' = {x \in Procs :
                     \A D \in SUBSET Procs :
                       p \in D /\ (\A y \in Procs : ParentNow[y] \in D => y \in D) => x \in D}
  BY DEF Doomed, Closed
<1> QED
  BY <1>1, NowFacts, NowFactsNext DEF Promise!Terminate

(* and one of them ends.                                                   *)
LEMMA MapsEnd ==
  ASSUME NEW p \in DyingNow, \A c \in DyingNow : ParentNow[c] # p,
         DyingNow' = DyingNow \ {p}, FreeNow' = FreeNow \union {p},
         ParentNow' = With(ParentNow, p, NULL),
         WaitingNow' = Leaves(WaitingNow, p),
         ReadyNow' = IF DyingNow = {p} /\ act_proc \notin FreeNow \union {p}
                     THEN Append(Left(ReadyNow, Procs \ {p}), act_proc)
                     ELSE Left(ReadyNow, Procs \ {p}),
         act_proc' = IF DyingNow = {p} THEN NULL ELSE act_proc
  PROVE  Promise!End(p)
  BY NowFacts, NowFactsNext, LeftIsKeep DEF Promise!End, With, Leaves

-----------------------------------------------------------------------------
(* Every step of PcbLists is a step of PcbPromise, or none.                *)

LEMMA Idle ==
  ASSUME NEW par \in [Procs -> Procs \union {NULL}], NEW kill, kill = <<>>
  PROVE  ParentOf(par, kill) = par /\ Doomed(par, Range(kill)) = {}
<1>1. Range(kill) = {} /\ 2..Len(kill) = {}
  BY NoCalls
<1> QED
  BY <1>1, ParentsPlain, DoomedNone

(* The first free pcb becomes a process, ready and below the one that runs.*)
LEMMA StepCreate ==
  ASSUME NEW F, NEW K, Sound(link, F, K, p_parent, p_semAdd, act_proc, killing),
         F["pcb_free"] # <<>>, killing = <<>>, act_proc # NULL \/ On(F, "pcb_free") = Procs,
         NEW J, Sound(link', Queued(Dropped(F, "pcb_free", first_free), "ready", first_free), J,
                      p_parent', p_semAdd', act_proc', killing'),
         act_proc' = act_proc, killing' = killing,
         p_parent' = With(p_parent, first_free, act_proc)
  PROVE  \E p \in Procs : Promise!Create(p)
<1>0. PICK c : c = first_free
  OBVIOUS
<1> DEFINE G == Queued(Dropped(F, "pcb_free", c), "ready", c)
<1>1. /\ F \in [Lists -> Seq(Procs)] /\ Parted(Living(F), Runs(F, act_proc), F, K)
      /\ p_parent \in [Procs -> Procs \union {NULL}]
  BY HoldsParted DEF Sound, Family
<1>2. c = F["pcb_free"][1] /\ c \in On(F, "pcb_free") /\ c \in Procs
  <2>1. IsFresh(link, F, K, p_parent, p_semAdd, act_proc, killing, pcb(link.next[pcb_free_h]))
    BY Fresh
  <2> QED
    BY <1>0, <2>1 DEF IsFresh, first_free
<1>3. /\ "pcb_free" \in Lists /\ "ready" \in Lists /\ "ready" # "pcb_free"
      /\ \A s \in Sems : s \in Lists /\ s # "ready" /\ s # "pcb_free"
  BY NodeFacts, PcbAssumption
<1>4. /\ FreeNow = On(F, "pcb_free") /\ ReadyNow = F["ready"] /\ WaitingNow = [s \in Sems |-> F[s]]
      /\ FreeNow' = On(G, "pcb_free") /\ ReadyNow' = G["ready"]
      /\ WaitingNow' = [s \in Sems |-> G[s]]
  BY <1>0, SeenNow
<1>5. Handed(F, G, "pcb_free", "ready", c)
  BY <1>1, <1>2, <1>3, HandedOn DEF Parted
<1> HIDE DEF G
<1>6. /\ FreeNow' = FreeNow \ {c} /\ ReadyNow' = Append(ReadyNow, c)
      /\ WaitingNow' = WaitingNow
  BY <1>3, <1>4, <1>5 DEF Handed
<1>7. DyingNow = {} /\ ParentNow = p_parent
  BY <1>1, Idle DEF DyingNow, ParentNow
<1>8. p_parent' \in [Procs -> Procs \union {NULL}]
  BY DEF Sound, Family
<1>9. DyingNow' = {} /\ ParentNow' = p_parent'
  BY <1>8, Idle DEF DyingNow, ParentNow
<1>10. ParentNow' = With(ParentNow, c, act_proc)
  BY <1>0, <1>7, <1>9
<1>11. Promise!Create(c)
  <2>1. /\ c \in FreeNow /\ DyingNow' = DyingNow /\ act_proc' = act_proc
        /\ act_proc # NULL \/ FreeNow = Procs
    BY <1>2, <1>4, <1>7, <1>9
  <2> QED
    BY <1>6, <1>7, <1>10, <2>1, MapsCreate
<1> QED
  BY <1>2, <1>11

(* create_init_proc creates the first process, when every pcb is free.     *)
LEMMA StepInitProc ==
  ASSUME NEW F, NEW K, Sound(link, F, K, p_parent, p_semAdd, act_proc, killing), create_init_proc
  PROVE  \E p \in Procs : Promise!Create(p)
<1>1. /\ F["pcb_free"] # <<>> /\ killing = <<>> /\ act_proc = NULL /\ On(F, "pcb_free") = Procs
      /\ Sound(link', Queued(Dropped(F, "pcb_free", first_free), "ready", first_free), K,
               p_parent', p_semAdd', act_proc', killing')
  BY SoundCreate
<1>2. p_parent' = p_parent /\ act_proc' = act_proc /\ killing' = killing
  BY DEF create_init_proc
<1>3. IsFresh(link, F, K, p_parent, p_semAdd, act_proc, killing, first_free)
  BY <1>1, Fresh DEF first_free
<1>4. p_parent \in [Procs -> Procs \union {NULL}] /\ p_parent[first_free] = NULL
  BY <1>3 DEF Sound, Family, IsFresh
<1>5. p_parent' = With(p_parent, first_free, act_proc)
  BY <1>1, <1>2, <1>4 DEF With
<1> QED
  BY <1>1, <1>2, <1>5, StepCreate

(* mk_proc creates a child of the process that runs.                       *)
LEMMA StepMkProc ==
  ASSUME NEW F, NEW K, Sound(link, F, K, p_parent, p_semAdd, act_proc, killing), mk_proc
  PROVE  \E p \in Procs : Promise!Create(p)
<1>1. /\ F["pcb_free"] # <<>> /\ act_proc \in Procs
      /\ Sound(link', Queued(Dropped(F, "pcb_free", first_free), "ready", first_free),
               Pushed(K, act_proc, first_free), p_parent', p_semAdd', act_proc', killing')
  BY SoundMkProc
<1>2. /\ killing = <<>> /\ act_proc # NULL /\ act_proc' = act_proc /\ killing' = killing
      /\ p_parent' = With(p_parent, first_free, act_proc)
  BY DEF mk_proc, With
<1> QED
  BY <1>1, <1>2, StepCreate

(* While no call of kill_parent_and_progeny is in progress nobody is dying *)
(* and the tree is that of p_parent.                                       *)
LEMMA StepsIdle ==
  ASSUME NEW F, NEW K, Sound(link, F, K, p_parent, p_semAdd, act_proc, killing),
         killing = <<>>, killing' = killing, p_parent' = p_parent
  PROVE  DyingNow = {} /\ DyingNow' = DyingNow /\ ParentNow = p_parent /\ ParentNow' = ParentNow
<1>1. p_parent \in [Procs -> Procs \union {NULL}]
  BY DEF Sound, Family
<1>2. DyingNow = {} /\ ParentNow = p_parent
  BY <1>1, Idle DEF DyingNow, ParentNow
<1>3. DyingNow' = DyingNow /\ ParentNow' = ParentNow
  BY DEF DyingNow, ParentNow
<1> QED
  BY <1>2, <1>3

(* A process that joins a queue is behind the others on it.                *)
LEMMA Joins ==
  ASSUME NEW F \in [Lists -> Seq(Procs)], NEW q \in Lists, NEW p \in Procs
  PROVE  /\ Queued(F, q, p)[q] = Append(F[q], p)
         /\ \A r \in Lists : r # q => Queued(F, q, p)[r] = F[r]
         /\ q # "pcb_free" => On(Queued(F, q, p), "pcb_free") = On(F, "pcb_free")
<1>1. \A r \in Procs : Queued(F, q, r)[q] = Append(F[q], r)
  BY EndsOfQueues
<1>2. Grown(Lists, F, Queued(F, q, p), q, p)
  BY QueuedOn
<1>3. \A r \in Lists : r # q => Queued(F, q, p)[r] = F[r]
  BY <1>2 DEF Grown
<1>4. q # "pcb_free" => On(Queued(F, q, p), "pcb_free") = On(F, "pcb_free")
  BY <1>3, NodeFacts DEF On
<1> QED
  BY <1>1, <1>3, <1>4

(* enqueue_proc is Enqueue.                                                *)
LEMMA StepEnqueue ==
  ASSUME NEW F, NEW K, Sound(link, F, K, p_parent, p_semAdd, act_proc, killing), enqueue_proc
  PROVE  Promise!Enqueue
<1> DEFINE G == Queued(F, "ready", act_proc)
<1>1. killing = <<>> /\ act_proc # NULL /\ act_proc' = NULL /\ killing' = killing /\ p_parent' = p_parent
  BY DEF enqueue_proc
<1>2. F \in [Lists -> Seq(Procs)] /\ act_proc \in Procs
  BY <1>1, HoldsParted DEF Sound, Unwinds
<1>3. /\ "pcb_free" \in Lists /\ "ready" \in Lists /\ "ready" # "pcb_free"
      /\ \A s \in Sems : s \in Lists /\ s # "ready"
  BY NodeFacts, PcbAssumption
<1>4. Sound(link', G, K, p_parent', p_semAdd', act_proc', killing')
  BY SoundEnqueue
<1>5. /\ G["ready"] = Append(F["ready"], act_proc) /\ On(G, "pcb_free") = On(F, "pcb_free")
      /\ \A r \in Lists : r # "ready" => G[r] = F[r]
  BY <1>2, <1>3, Joins
<1> HIDE DEF G
<1>6. /\ FreeNow = On(F, "pcb_free") /\ ReadyNow = F["ready"] /\ WaitingNow = [s \in Sems |-> F[s]]
      /\ FreeNow' = On(G, "pcb_free") /\ ReadyNow' = G["ready"]
      /\ WaitingNow' = [s \in Sems |-> G[s]]
  BY <1>4, SeenNow
<1>7. WaitingNow' = WaitingNow
  BY <1>3, <1>5, <1>6
<1>8. DyingNow = {} /\ DyingNow' = DyingNow /\ ParentNow' = ParentNow
  BY <1>1, StepsIdle
<1> QED
  BY <1>1, <1>5, <1>6, <1>7, <1>8, MapsQueues

(* insert_blocked is Block.                                                *)
LEMMA StepBlocked ==
  ASSUME NEW F, NEW K, Sound(link, F, K, p_parent, p_semAdd, act_proc, killing),
         NEW s \in Sems, insert_blocked(s)
  PROVE  Promise!Block(s)
<1> DEFINE G == Queued(F, s, act_proc)
<1>1. killing = <<>> /\ act_proc # NULL /\ act_proc' = NULL /\ killing' = killing /\ p_parent' = p_parent
  BY DEF insert_blocked
<1>2. F \in [Lists -> Seq(Procs)] /\ act_proc \in Procs
  BY <1>1, HoldsParted DEF Sound, Unwinds
<1>3. /\ "pcb_free" \in Lists /\ "ready" \in Lists /\ s \in Lists /\ s # "pcb_free" /\ s # "ready"
      /\ \A t \in Sems : t \in Lists
  BY NodeFacts, PcbAssumption
<1>4. Sound(link', G, K, p_parent', p_semAdd', act_proc', killing')
  BY SoundBlocked
<1>5. /\ G[s] = Append(F[s], act_proc) /\ On(G, "pcb_free") = On(F, "pcb_free")
      /\ \A r \in Lists : r # s => G[r] = F[r]
  BY <1>2, <1>3, Joins
<1> HIDE DEF G
<1>6. /\ FreeNow = On(F, "pcb_free") /\ ReadyNow = F["ready"] /\ WaitingNow = [t \in Sems |-> F[t]]
      /\ FreeNow' = On(G, "pcb_free") /\ ReadyNow' = G["ready"]
      /\ WaitingNow' = [t \in Sems |-> G[t]]
  BY <1>4, SeenNow
<1>7. ReadyNow' = ReadyNow /\ FreeNow' = FreeNow
  BY <1>3, <1>5, <1>6
<1>8. WaitingNow' = With(WaitingNow, s, Append(WaitingNow[s], act_proc))
  BY <1>3, <1>5, <1>6 DEF With
<1>9. DyingNow = {} /\ DyingNow' = DyingNow /\ ParentNow' = ParentNow
  BY <1>1, StepsIdle
<1> QED
  BY <1>1, <1>7, <1>8, <1>9, MapsQueues

(* dequeue_proc is Dispatch.                                               *)
LEMMA StepDequeue ==
  ASSUME NEW F, NEW K, Sound(link, F, K, p_parent, p_semAdd, act_proc, killing), dequeue_proc
  PROVE  Promise!Dispatch
<1>0. PICK p : p = F["ready"][1]
  OBVIOUS
<1> DEFINE G == Dropped(F, "ready", p)
<1>1. killing = <<>> /\ act_proc = NULL /\ killing' = killing /\ p_parent' = p_parent
  BY DEF dequeue_proc
<1>2. /\ F["ready"] # <<>> /\ act_proc' = p
      /\ Sound(link', G, K, p_parent', p_semAdd', act_proc', killing')
  BY <1>0, SoundDequeue
<1>3. F \in [Lists -> Seq(Procs)] /\ Parted(Living(F), Runs(F, act_proc), F, K)
  BY HoldsParted DEF Sound
<1>4. /\ "pcb_free" \in Lists /\ "ready" \in Lists /\ "ready" # "pcb_free"
      /\ \A s \in Sems : s \in Lists /\ s # "ready"
  BY NodeFacts, PcbAssumption
<1>5. p = Head(F["ready"]) /\ G["ready"] = Tail(F["ready"])
  BY <1>0, <1>2, <1>3, <1>4, EndsOfQueues DEF Parted
<1>6. \A r \in Lists : r # "ready" => G[r] = F[r]
  <2>1. Shrunk(Lists, F, G, "ready", p)
    BY <1>3, <1>4, DroppedOn DEF Parted
  <2> QED
    BY <2>1 DEF Shrunk
<1>7. /\ FreeNow = On(F, "pcb_free") /\ ReadyNow = F["ready"] /\ WaitingNow = [s \in Sems |-> F[s]]
      /\ FreeNow' = On(G, "pcb_free") /\ ReadyNow' = G["ready"]
      /\ WaitingNow' = [s \in Sems |-> G[s]]
  BY <1>2, SeenNow
<1> HIDE DEF G
<1>8. WaitingNow' = WaitingNow /\ FreeNow' = FreeNow
  BY <1>4, <1>6, <1>7 DEF On
<1>9. DyingNow = {} /\ DyingNow' = DyingNow /\ ParentNow' = ParentNow
  BY <1>1, StepsIdle
<1> QED
  BY <1>1, <1>2, <1>5, <1>7, <1>8, <1>9, MapsQueues

(* remove_blocked and enqueue_proc are Wake.                               *)
LEMMA StepWake ==
  ASSUME NEW F, NEW K, Sound(link, F, K, p_parent, p_semAdd, act_proc, killing),
         NEW s \in Sems, wake(s)
  PROVE  Promise!Wake(s)
<1>0. PICK p : p = F[s][1]
  OBVIOUS
<1> DEFINE G == Queued(Dropped(F, s, p), "ready", p)
<1>1. killing = <<>> /\ act_proc' = act_proc /\ killing' = killing /\ p_parent' = p_parent
  BY DEF wake
<1>2. /\ F[s] # <<>> /\ p \in Procs
      /\ Sound(link', G, K, p_parent', p_semAdd', act_proc', killing')
  BY <1>0, SoundWake
<1>3. F \in [Lists -> Seq(Procs)] /\ Parted(Living(F), Runs(F, act_proc), F, K)
  BY HoldsParted DEF Sound
<1>4. /\ "pcb_free" \in Lists /\ "ready" \in Lists /\ s \in Lists /\ s # "ready" /\ s # "pcb_free"
      /\ "ready" # "pcb_free" /\ \A t \in Sems : t \in Lists /\ t # "ready"
  BY NodeFacts, PcbAssumption
<1>5. Handed(F, G, s, "ready", p)
  BY <1>0, <1>2, <1>3, <1>4, HandedOn DEF Parted
<1>6. /\ FreeNow = On(F, "pcb_free") /\ ReadyNow = F["ready"] /\ WaitingNow = [t \in Sems |-> F[t]]
      /\ FreeNow' = On(G, "pcb_free") /\ ReadyNow' = G["ready"]
      /\ WaitingNow' = [t \in Sems |-> G[t]]
  BY <1>2, SeenNow
<1> HIDE DEF G
<1>7. FreeNow' = FreeNow /\ WaitingNow[s] = F[s] /\ ReadyNow' = Append(ReadyNow, Head(WaitingNow[s]))
  BY <1>4, <1>5, <1>6 DEF Handed, On
<1>8. WaitingNow' = With(WaitingNow, s, Tail(WaitingNow[s]))
  BY <1>4, <1>5, <1>6 DEF Handed, With
<1>9. DyingNow = {} /\ DyingNow' = DyingNow /\ ParentNow' = ParentNow
  BY <1>1, StepsIdle
<1> QED
  BY <1>1, <1>2, <1>7, <1>8, <1>9, MapsQueues

(* term_process condemns p and what is below it.                           *)
LEMMA StepTerm ==
  ASSUME NEW F, NEW K, Sound(link, F, K, p_parent, p_semAdd, act_proc, killing),
         NEW p \in Procs, term_process(p)
  PROVE  Promise!Terminate(p)
<1>1. /\ killing = <<>> /\ act_proc # NULL /\ ~Freed(p) /\ killing' = <<p>>
      /\ p_parent' = p_parent /\ act_proc' = act_proc
  BY DEF term_process
<1>2. p_parent \in [Procs -> Procs \union {NULL}]
  BY DEF Sound, Family
<1>3. DyingNow = {} /\ ParentNow = p_parent
  BY <1>1, <1>2, Idle DEF DyingNow, ParentNow
<1>4. PICK one : one = <<p>>
  OBVIOUS
<1>5. one \in Seq(Procs) /\ Len(one) = 1 /\ one[1] = p
  BY <1>4
<1>6. Range(one) = {p} /\ 2..Len(one) = {}
  BY <1>5, Elements
<1>7. DyingNow' = Doomed(ParentNow, {p}) /\ ParentNow' = ParentNow
  BY <1>1, <1>2, <1>3, <1>4, <1>6, ParentsPlain DEF DyingNow, ParentNow
<1>8. Sound(link', F, K, p_parent', p_semAdd', act_proc', killing')
  BY SoundTerm
<1>9. /\ FreeNow' = FreeNow /\ ReadyNow' = ReadyNow /\ WaitingNow' = WaitingNow
  BY <1>8, SeenNow
<1>10. p \notin FreeNow
  BY <1>1 DEF FreeNow
<1> QED
  BY <1>1, <1>3, <1>7, <1>9, <1>10, MapsTerminate

(* remove_child is a step of the program only.                             *)
LEMMA StepRemoveChild ==
  ASSUME NEW F, NEW K, Sound(link, F, K, p_parent, p_semAdd, act_proc, killing), remove_child
  PROVE  UNCHANGED Promise!vars
<1>0. PICK c : c = K[top][1]
  OBVIOUS
<1>1. /\ first_child(top) = c /\ c \in Procs /\ p_parent[c] = top /\ c \notin Range(killing)
      /\ Sound(link', F, Dropped(K, top, c), p_parent', p_semAdd', act_proc', killing')
  BY <1>0, SoundRemoveChild
<1>2. /\ killing # <<>> /\ p_parent' = [p_parent EXCEPT ![c] = NULL]
      /\ killing' = Append(killing, c) /\ act_proc' = act_proc
  BY <1>1 DEF remove_child
<1>3. /\ p_parent \in [Procs -> Procs \union {NULL}] /\ killing \in Seq(Procs)
      /\ top = killing[Len(killing)]
  BY DEF Sound, Family, Unwinds, top
<1>4. ParentNow' = ParentNow
  BY <1>1, <1>2, <1>3, ParentsCalled DEF ParentNow
<1>5. Range(killing') = Range(killing) \union {c} /\ top \in Range(killing) /\ Range(killing) \in SUBSET Procs
  <2>1. /\ Len(killing) \in Nat \ {0} /\ Append(killing, c) \in Seq(Procs)
        /\ Len(Append(killing, c)) = Len(killing) + 1
        /\ Append(killing, c)[Len(killing) + 1] = c
        /\ \A i \in 1..Len(killing) : Append(killing, c)[i] = killing[i]
    BY <1>1, <1>2, <1>3, Ends
  <2>2. /\ \A x : x \in Range(killing) <=> \E i \in 1..Len(killing) : killing[i] = x
        /\ Range(killing) \subseteq Procs
    BY <1>3, Elements
  <2>3. \A x : x \in Range(killing') <=> \E i \in 1..(Len(killing) + 1) : Append(killing, c)[i] = x
    BY <1>2, <2>1, Elements
  <2>4. /\ \A i : i \in 1..(Len(killing) + 1) <=> i \in 1..Len(killing) \/ i = Len(killing) + 1
        /\ Len(killing) \in 1..Len(killing)
    BY <2>1
  <2>5. ASSUME NEW x PROVE x \in Range(killing') <=> x \in Range(killing) \/ x = c
    BY <2>1, <2>2, <2>3, <2>4
  <2> QED
    BY <1>3, <2>2, <2>4, <2>5
<1>6. DyingNow' = DyingNow
  <2> DEFINE S == Range(killing)
  <2>1. S \in SUBSET Procs /\ p_parent[c] \in S
    BY <1>1, <1>5
  <2> HIDE DEF S
  <2>2. Doomed(With(p_parent, c, NULL), S \union {c}) = Doomed(p_parent, S)
    BY <1>1, <1>3, <2>1, DoomedCalled
  <2> QED
    BY <1>2, <1>5, <2>2 DEF DyingNow, With, S
<1>7. FreeNow' = FreeNow /\ ReadyNow' = ReadyNow /\ WaitingNow' = WaitingNow
  BY <1>1, SeenNow
<1> QED
  BY <1>2, <1>4, <1>6, <1>7, NowFacts, NowFactsNext DEF Promise!vars

(* kill_proc ends one of the dying, below whom nobody is any more, takes it*)
(* off its queue and leaves the others where they are.                     *)
LEMMA StepKill ==
  ASSUME NEW F, NEW K, Sound(link, F, K, p_parent, p_semAdd, act_proc, killing), kill_proc
  PROVE  \E p \in Procs : Promise!End(p)
<1>0. PICK p : p = top
  OBVIOUS
<1> DEFINE B == Buried(F, p_semAdd[p], p)
           over == Len(killing) = 1
           alive == act_proc \notin On(B, "pcb_free")
           G == IF over /\ alive THEN Queued(B, "ready", act_proc) ELSE B
           S == Range(killing)
<1>1. /\ p \in Procs /\ p \in Living(F) /\ K[p] = <<>> /\ act_proc \in Procs
      /\ act_proc' = IF over THEN NULL ELSE act_proc
      /\ Sound(link', G, Orphaned(K, p_parent[p], p), p_parent', p_semAdd', act_proc', killing')
  BY <1>0, SoundKill
<1>2. /\ killing # <<>> /\ p_parent' = [p_parent EXCEPT ![p] = NULL]
      /\ killing' = SubSeq(killing, 1, Len(killing) - 1)
  BY <1>0 DEF kill_proc
<1>3. /\ F \in [Lists -> Seq(Procs)] /\ K \in [Procs -> Seq(Procs)]
      /\ Parted(Living(F), Runs(F, act_proc), F, K) /\ Waits(F, p_semAdd)
  BY HoldsParted DEF Sound
<1>4. /\ p_parent \in [Procs -> Procs \union {NULL}] /\ killing \in Seq(Procs) /\ Once(killing)
      /\ p = killing[Len(killing)]
  BY <1>0 DEF Sound, Family, Unwinds, top
<1>5. \A x \in Procs : p_parent[x] # p
  <2>1. On(K, p) = {}
    BY <1>1, <1>3, Elements DEF On
  <2> QED
    BY <1>1, <2>1 DEF Sound, Family
<1>6. /\ ParentOf(With(p_parent, p, NULL), SubSeq(killing, 1, Len(killing) - 1))
           = With(ParentOf(p_parent, killing), p, NULL)
      /\ \A x \in Procs : ParentOf(p_parent, killing)[x] # p
      /\ Range(SubSeq(killing, 1, Len(killing) - 1)) = Range(killing) \ {p}
      /\ p \in Range(killing) /\ (Len(killing) = 1 <=> Range(killing) = {p})
  BY <1>1, <1>2, <1>4, <1>5, ParentsCut
<1>7. ParentNow' = With(ParentNow, p, NULL) /\ \A x \in Procs : ParentNow[x] # p
  BY <1>2, <1>6 DEF ParentNow, With
<1>8. p \in S /\ S \in SUBSET Procs /\ Range(killing') = S \ {p} /\ (over <=> S = {p})
  BY <1>2, <1>4, <1>6, Elements
<1> HIDE DEF over, S
<1>9. /\ Doomed(With(p_parent, p, NULL), S \ {p}) = Doomed(p_parent, S) \ {p}
      /\ S \subseteq Doomed(p_parent, S) /\ (S = {p} => Doomed(p_parent, S) = {p})
  <2>1. /\ p_parent \in [Procs -> Procs \union {NULL}] /\ S \in SUBSET Procs /\ p \in S
        /\ \A x \in Procs : p_parent[x] # p
    BY <1>4, <1>5, <1>8
  <2> HIDE DEF B, G, alive
  <2> QED
    BY <2>1, DoomedCut
<1>10. /\ DyingNow' = DyingNow \ {p} /\ p \in DyingNow /\ DyingNow \subseteq Procs
       /\ (DyingNow = {p} <=> over)
  <2>1. DyingNow = Doomed(p_parent, S) /\ DyingNow' = Doomed(With(p_parent, p, NULL), S \ {p})
    BY <1>2, <1>8 DEF DyingNow, With, S
  <2>2. DyingNow \subseteq Procs
    BY DEF DyingNow, Doomed
  <2> QED
    BY <1>8, <1>9, <2>1, <2>2
<1>11. /\ "pcb_free" \in Lists /\ "ready" \in Lists /\ "ready" # "pcb_free"
       /\ \A s \in Sems : s \in Lists /\ s # "ready" /\ s # "pcb_free"
  BY NodeFacts, PcbAssumption
<1>12. Burial(F, Unqueued(F, p_semAdd[p], p), B, p)
  <2>1. p \notin On(F, "pcb_free")
    BY <1>1 DEF Living
  <2> QED
    BY <1>1, <1>3, <2>1, BuriedOn
<1> HIDE DEF B
<1>13. /\ B \in [Lists -> Seq(Procs)] /\ On(B, "pcb_free") = On(F, "pcb_free") \union {p}
       /\ \A q \in Lists : q # "pcb_free" => B[q] = Left(F[q], Procs \ {p})
  <2>1. ASSUME NEW q \in Lists, q # "pcb_free" PROVE B[q] = Left(F[q], Procs \ {p})
    <3>1. B[q] = Dropped(F, q, p)[q]
      BY <1>12, <2>1 DEF Burial
    <3>2. Dropped(F, q, p)[q] = IF p \in On(F, q) THEN Without(F[q], Place(F[q], p)) ELSE F[q]
      BY <1>3 DEF Dropped
    <3>3. Left(F[q], Procs \ {p}) = IF p \in Range(F[q]) THEN Without(F[q], Place(F[q], p)) ELSE F[q]
      BY <1>1, <1>3, LeftDrops DEF Parted
    <3> QED
      BY <3>1, <3>2, <3>3 DEF On
  <2>2. B \in [Lists -> Seq(Procs)] /\ On(B, "pcb_free") = On(F, "pcb_free") \union {p}
    BY <1>11, <1>12 DEF Burial
  <2> QED
    BY <2>1, <2>2
<1>14. /\ On(G, "pcb_free") = On(B, "pcb_free")
       /\ G["ready"] = IF over /\ alive THEN Append(B["ready"], act_proc) ELSE B["ready"]
       /\ \A s \in Sems : G[s] = B[s]
  <2>1. /\ Queued(B, "ready", act_proc)["ready"] = Append(B["ready"], act_proc)
        /\ \A r \in Lists : r # "ready" => Queued(B, "ready", act_proc)[r] = B[r]
        /\ On(Queued(B, "ready", act_proc), "pcb_free") = On(B, "pcb_free")
    BY <1>1, <1>11, <1>13, Joins
  <2> HIDE DEF alive
  <2> QED
    BY <1>11, <2>1
<1>15. /\ FreeNow = On(F, "pcb_free") /\ ReadyNow = F["ready"] /\ WaitingNow = [s \in Sems |-> F[s]]
       /\ FreeNow' = On(G, "pcb_free") /\ ReadyNow' = G["ready"]
       /\ WaitingNow' = [s \in Sems |-> G[s]]
  BY <1>1, SeenNow
<1> HIDE DEF G
<1>16. FreeNow' = FreeNow \union {p} /\ (alive <=> act_proc \notin FreeNow \union {p})
  BY <1>13, <1>14, <1>15
<1> HIDE DEF alive
<1>17. WaitingNow' = Leaves(WaitingNow, p)
  BY <1>11, <1>13, <1>14, <1>15 DEF Leaves
<1>18. ReadyNow' = IF DyingNow = {p} /\ act_proc \notin FreeNow \union {p}
                   THEN Append(Left(ReadyNow, Procs \ {p}), act_proc)
                   ELSE Left(ReadyNow, Procs \ {p})
  BY <1>10, <1>11, <1>13, <1>14, <1>15, <1>16
<1>19. act_proc' = IF DyingNow = {p} THEN NULL ELSE act_proc
  BY <1>1, <1>10
<1>20. Promise!End(p)
  BY <1>7, <1>10, <1>16, <1>17, <1>18, <1>19, MapsEnd
<1> QED
  BY <1>1, <1>20

(* init_pcbs leaves every pcb free, whatever the order of the table.       *)
LEMMA StepInit == Init => Promise!Init
<1> SUFFICES ASSUME Init PROVE Promise!Init
  OBVIOUS
<1>1. /\ p_parent = [p \in Procs |-> NULL] /\ act_proc = NULL /\ killing = <<>>
  BY DEF Init
<1>2. PICK F : /\ Sound(link, F, [p \in Procs |-> <<>>], p_parent, p_semAdd, act_proc, killing)
               /\ On(F, "pcb_free") = Procs
               /\ \A q \in Queues : F[q] = <<>>
  BY SoundInit
<1>3. FreeNow = On(F, "pcb_free") /\ ReadyNow = F["ready"] /\ WaitingNow = [s \in Sems |-> F[s]]
  BY <1>2, SeenNow
<1>4. FreeNow = Procs /\ ReadyNow = <<>> /\ WaitingNow = [s \in Sems |-> <<>>]
  BY <1>2, <1>3 DEF Queues
<1>5. p_parent \in [Procs -> Procs \union {NULL}]
  BY <1>1
<1>6. DyingNow = {} /\ ParentNow = [p \in Procs |-> NULL]
  BY <1>1, <1>5, Idle DEF DyingNow, ParentNow
<1> QED
  BY <1>1, <1>4, <1>6, NowFacts DEF Promise!Init

(* The whole of Next.                                                      *)
LEMMA StepNext == IInv /\ [Next]_vars => [Promise!Next]_(Promise!vars)
<1> SUFFICES ASSUME IInv, [Next]_vars PROVE Promise!Next \/ UNCHANGED Promise!vars
  OBVIOUS
<1>1. PICK F, K : Sound(link, F, K, p_parent, p_semAdd, act_proc, killing)
  BY DEF IInv
<1>2. ASSUME create_init_proc PROVE \E p \in Procs : Promise!Create(p)
  BY <1>1, <1>2, StepInitProc
<1>3. ASSUME mk_proc PROVE \E p \in Procs : Promise!Create(p)
  BY <1>1, <1>3, StepMkProc
<1>4. ASSUME enqueue_proc PROVE Promise!Enqueue
  BY <1>1, <1>4, StepEnqueue
<1>5. ASSUME dequeue_proc PROVE Promise!Dispatch
  BY <1>1, <1>5, StepDequeue
<1>6. ASSUME NEW s \in Sems, insert_blocked(s) PROVE Promise!Block(s)
  BY <1>1, <1>6, StepBlocked
<1>7. ASSUME NEW s \in Sems, wake(s) PROVE Promise!Wake(s)
  BY <1>1, <1>7, StepWake
<1>8. ASSUME NEW p \in Procs, term_process(p) PROVE Promise!Terminate(p)
  BY <1>1, <1>8, StepTerm
<1>9. ASSUME remove_child PROVE UNCHANGED Promise!vars
  BY <1>1, <1>9, StepRemoveChild
<1>10. ASSUME kill_proc PROVE \E p \in Procs : Promise!End(p)
  BY <1>1, <1>10, StepKill
<1>11. ASSUME UNCHANGED vars PROVE UNCHANGED Promise!vars
  BY <1>11 DEF vars, Promise!vars, Freed, is_alive, Order, Caller, In
<1> QED
  BY <1>2, <1>3, <1>4, <1>5, <1>6, <1>7, <1>8, <1>9, <1>10, <1>11 DEF Next, Promise!Next

(* pcb.h keeps its promise: seen from the scheduler, the functions on the  *)
(* linked memory are those on a set, sequences and a tree, and a call of   *)
(* kill_parent_and_progeny ends all below p and nobody else, the children  *)
(* first.                                                                  *)
THEOREM Refinement == Spec => KeepsPromise
<1>1. Init => Promise!Init
  BY StepInit
<1>2. IInv /\ [Next]_vars => [Promise!Next]_(Promise!vars)
  BY StepNext
<1> QED
  BY <1>1, <1>2, Stands, PTL DEF Spec, KeepsPromise, Promise!Spec
=============================================================================
