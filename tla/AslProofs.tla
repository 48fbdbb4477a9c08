----------------------------- MODULE AslProofs -----------------------------
(***************************************************************************)
(* Proofs about the active semaphore list: no descriptor is ever leaked,   *)
(* insert_blocked never runs out of them, and the two lists together       *)
(* implement the queues that asl.h promises.                               *)
(***************************************************************************)
EXTENDS Asl, ProcQueueProofs

IInv == TypeOK /\ DescriptorsKept /\ QueuesMatchSemAdd

-----------------------------------------------------------------------------
(* get_semd answers the only active descriptor of the key.                 *)
LEMMA Found ==
  IInv => \A k \in Keys : with_key(k) # {} =>
            /\ get_semd(k) \in Elems(semd_h) /\ s_key[get_semd(k)] = k
            /\ \A d \in Elems(semd_h) : s_key[d] = k => d = get_semd(k)
<1> SUFFICES ASSUME IInv, NEW k \in Keys, with_key(k) # {}
             PROVE  /\ get_semd(k) \in Elems(semd_h) /\ s_key[get_semd(k)] = k
                    /\ \A d \in Elems(semd_h) : s_key[d] = k => d = get_semd(k)
  OBVIOUS
<1> DEFINE First(i) == /\ s_key[semd_h[i]] = k
                       /\ \A j \in 1..(i - 1) : s_key[semd_h[j]] # k
           at == CHOOSE i \in DOMAIN semd_h : First(i)
<1>1. Len(semd_h) \in Nat /\ DOMAIN semd_h = 1..Len(semd_h)
  BY LenProperties DEF IInv, TypeOK
<1>2. PICK i \in DOMAIN semd_h : s_key[semd_h[i]] = k
  BY DEF with_key, Elems
<1>3. ASSUME NEW j \in DOMAIN semd_h, s_key[semd_h[j]] = k PROVE j = i
  BY <1>2, <1>3 DEF IInv, DescriptorsKept, ListsPartition, ActiveIsUsed, Distinct, Elems
<1>4. First(i)
  BY <1>1, <1>2, <1>3
<1>5. at \in DOMAIN semd_h /\ First(at)
  BY <1>4
<1>6. get_semd(k) = semd_h[at]
  BY DEF get_semd
<1> HIDE DEF at
<1>7. get_semd(k) \in Elems(semd_h) /\ s_key[get_semd(k)] = k
  BY <1>5, <1>6 DEF Elems
<1> QED
  BY <1>7 DEF IInv, DescriptorsKept, ActiveIsUsed

(* A list of descriptors without repetition fits in semd_table.            *)
LEMMA ListLength ==
  ASSUME NEW l \in Seq(Semds), Distinct(l)
  PROVE  Len(l) <= MAXPROC
<1>1. Elems(l) \in SUBSET Semds
  BY LenProperties DEF Elems
<1>2. MAXPROC \in Nat /\ IsFiniteSet(Semds) /\ Cardinality(Semds) = MAXPROC
  BY AslAssumption, FS_Interval DEF Semds
<1> QED
  BY <1>1, <1>2, ElemsCardinality, FS_Subset

(* The two ways of putting one more descriptor on a list.                  *)
LEMMA AddDescriptor ==
  ASSUME NEW l \in Seq(Semds), NEW d \in Semds, Distinct(l), d \notin Elems(l)
  PROVE  /\ list_add(l, d) \in Seq(Semds) /\ Distinct(list_add(l, d))
         /\ Elems(list_add(l, d)) = Elems(l) \union {d}
         /\ Append(l, d) \in Seq(Semds) /\ Distinct(Append(l, d))
         /\ Elems(Append(l, d)) = Elems(l) \union {d}
<1> DEFINE t == <<d>>
<1>1. t \in Seq(Semds) /\ Elems(t) = {d} /\ Distinct(t)
  BY DEF Elems, Distinct
<1>2. list_add(l, d) = t \o l /\ Append(l, d) = insert_proc_q(l, d)
  BY DEF insert_proc_q, list_add
<1> HIDE DEF t
<1>3. t \o l \in Seq(Semds) /\ Distinct(t \o l) /\ Elems(t \o l) = Elems(l) \union {d}
  <2>1. Elems(t) \intersect Elems(l) = {}
    BY <1>1
  <2>2. /\ t \o l \in Seq(Semds) /\ Distinct(t \o l)
        /\ Elems(t \o l) = Elems(t) \union Elems(l)
    BY <1>1, <2>1, ConcatQueues
  <2> QED
    BY <1>1, <2>2
<1>4. /\ insert_proc_q(l, d) \in Seq(Semds) /\ Distinct(insert_proc_q(l, d))
      /\ Elems(insert_proc_q(l, d)) = Elems(l) \union {d}
  BY InsertProperties
<1> QED
  BY <1>2, <1>3, <1>4

(* Taking one off.                                                         *)
LEMMA DelDescriptor ==
  ASSUME NEW l \in Seq(Semds), NEW d, Distinct(l)
  PROVE  /\ list_del(l, d) \in Seq(Semds) /\ Distinct(list_del(l, d))
         /\ Elems(list_del(l, d)) = Elems(l) \ {d}
  BY KeepProperties DEF list_del

-----------------------------------------------------------------------------
LEMMA InitLemma == init_asl => IInv
<1> SUFFICES ASSUME init_asl PROVE IInv
  OBVIOUS
<1>1. MAXPROC \in Nat
  BY AslAssumption
<1>2. semd_free \in Seq(Semds) /\ Len(semd_free) = MAXPROC /\ DOMAIN semd_free = Semds
  BY <1>1, IsASeq, LenProperties DEF init_asl, Semds
<1>3. Elems(semd_free) = Semds /\ Distinct(semd_free)
  BY <1>2 DEF init_asl, Elems, Distinct
<1>4. Elems(semd_h) = {} /\ Distinct(semd_h) /\ semd_h \in Seq(Semds) /\ Len(semd_h) = 0
  BY DEF init_asl, Elems, Distinct
<1>5. TypeOK
  BY <1>1, <1>2, <1>4 DEF TypeOK, init_asl
<1>6. DescriptorsKept
  BY <1>3, <1>4 DEF DescriptorsKept, ListsPartition, ActiveIsUsed
<1>7. QueuesMatchSemAdd
  BY <1>4 DEF QueuesMatchSemAdd, init_asl
<1> QED
  BY <1>5, <1>6, <1>7 DEF IInv

(* insert_blocked: on the descriptor the key has, or on one it takes.      *)
LEMMA InsertStep ==
  ASSUME IInv, NEW k \in Keys, NEW p \in Procs, insert_blocked(k, p)
  PROVE  IInv'
<1> USE DEF IInv
<1>1. CASE with_key(k) = {} /\ semd_free = <<>>
  <2>1. UNCHANGED <<semd_free, semd_h, s_key, s_procq, p_semAdd>>
    BY <1>1 DEF insert_blocked
  <2> QED
    BY <2>1 DEF TypeOK, DescriptorsKept, ListsPartition, ActiveIsUsed,
                QueuesMatchSemAdd, with_key
<1>2. CASE with_key(k) # {}
  <2> DEFINE d == get_semd(k)
  <2>1. /\ s_procq' = [s_procq EXCEPT ![d] = insert_proc_q(@, p)]
        /\ p_semAdd' = [p_semAdd EXCEPT ![p] = k] /\ p_semAdd[p] = NULL
        /\ UNCHANGED <<semd_free, semd_h, s_key>>
    BY <1>2 DEF insert_blocked
  <2>2. /\ d \in Elems(semd_h) /\ s_key[d] = k
        /\ \A e \in Elems(semd_h) : s_key[e] = k => e = d
    BY <1>2, Found
  <2> HIDE DEF d
  <2>3. d \in Semds /\ s_procq[d] \in Seq(Procs) /\ Elems(semd_h) \subseteq Semds
    BY <2>2 DEF TypeOK, DescriptorsKept, ListsPartition
  <2>4. p \notin Elems(s_procq[d])
    BY <2>1, <2>2, AslAssumption DEF QueuesMatchSemAdd
  <2>5. /\ s_procq'[d] \in Seq(Procs) /\ s_procq'[d] # <<>> /\ Distinct(s_procq'[d])
        /\ Elems(s_procq'[d]) = Elems(s_procq[d]) \union {p}
    <3>1. s_procq'[d] = insert_proc_q(s_procq[d], p)
      BY <2>1, <2>2, <2>3 DEF TypeOK
    <3>2. Distinct(s_procq[d])
      BY <2>2 DEF QueuesMatchSemAdd
    <3>3. /\ insert_proc_q(s_procq[d], p) \in Seq(Procs)
          /\ insert_proc_q(s_procq[d], p) # <<>>
          /\ Elems(insert_proc_q(s_procq[d], p)) = Elems(s_procq[d]) \union {p}
          /\ Distinct(insert_proc_q(s_procq[d], p))
      BY <3>2, <2>3, <2>4, InsertProperties
    <3> QED
      BY <3>1, <3>3
  <2>6. \A e \in Semds : e # d => s_procq'[e] = s_procq[e]
    BY <2>1, <2>3 DEF TypeOK
  <2>7. TypeOK'
    BY <2>1, <2>3, <2>5 DEF TypeOK
  <2>8. DescriptorsKept'
    BY <2>1, <2>3, <2>5, <2>6 DEF DescriptorsKept, ListsPartition, ActiveIsUsed
  <2>9. QueuesMatchSemAdd'
    <3>1. p_semAdd'[p] = k /\ \A r \in Procs : r # p => p_semAdd'[r] = p_semAdd[r]
      BY <2>1 DEF TypeOK
    <3>2. \A e \in Elems(semd_h) : s_key[e] \in Keys /\ s_key[e] # NULL
      BY AslAssumption DEF DescriptorsKept, ActiveIsUsed
    <3>3. \A e \in Elems(semd_h) : Distinct(s_procq'[e])
      BY <2>3, <2>5, <2>6 DEF QueuesMatchSemAdd
    <3>4. ASSUME NEW r \in Procs, NEW e \in Elems(semd_h)
          PROVE  r \in Elems(s_procq'[e]) <=> p_semAdd'[r] = s_key[e]
      BY <2>1, <2>2, <2>3, <2>5, <2>6, <3>1, <3>2 DEF QueuesMatchSemAdd
    <3>5. \A x : with_key(x)' = with_key(x)
      BY <2>1 DEF with_key
    <3>6. \A r \in Procs : p_semAdd'[r] # NULL => with_key(p_semAdd'[r]) # {}
      BY <1>2, <3>1 DEF QueuesMatchSemAdd
    <3> QED
      BY <2>1, <3>3, <3>4, <3>5, <3>6 DEF QueuesMatchSemAdd
  <2> QED
    BY <2>7, <2>8, <2>9
<1>3. CASE with_key(k) = {} /\ semd_free # <<>>
  <2> DEFINE d == Head(semd_free)
  <2>1. /\ p_semAdd' = [p_semAdd EXCEPT ![p] = k] /\ p_semAdd[p] = NULL
        /\ semd_free' = Tail(semd_free) /\ semd_h' = list_add(semd_h, d)
        /\ s_key' = [s_key EXCEPT ![d] = k]
        /\ s_procq' = [s_procq EXCEPT ![d] = insert_proc_q(<<>>, p)]
    BY <1>3 DEF insert_blocked, take_semd
  <2>2. /\ d \in Semds /\ Tail(semd_free) \in Seq(Semds)
        /\ Elems(semd_free) = Elems(Tail(semd_free)) \union {d}
        /\ Distinct(Tail(semd_free)) /\ d \notin Elems(Tail(semd_free))
    BY <1>3, RemoveProperties DEF head_proc_q, TypeOK, DescriptorsKept, ListsPartition
  <2> HIDE DEF d
  <2>3. d \notin Elems(semd_h) /\ Elems(semd_h) \subseteq Semds
    BY <2>2 DEF DescriptorsKept, ListsPartition
  <2>4. /\ semd_h' \in Seq(Semds) /\ Distinct(semd_h')
        /\ Elems(semd_h') = Elems(semd_h) \union {d}
    BY <2>1, <2>2, <2>3, AddDescriptor DEF TypeOK, DescriptorsKept, ListsPartition
  <2>5. /\ s_procq'[d] = insert_proc_q(<<>>, p) /\ s_key'[d] = k
        /\ \A e \in Semds : e # d => s_procq'[e] = s_procq[e] /\ s_key'[e] = s_key[e]
    BY <2>1, <2>2 DEF TypeOK
  <2>6. /\ s_procq'[d] \in Seq(Procs) /\ s_procq'[d] # <<>>
        /\ Elems(s_procq'[d]) = {p} /\ Distinct(s_procq'[d])
    BY <2>5, InsertFirst
  <2>7. \A e \in Elems(semd_h) : s_key[e] # k
    BY <1>3 DEF with_key
  <2>8. TypeOK'
    BY <2>1, <2>2, <2>4, <2>6, ListLength DEF TypeOK
  <2>9. DescriptorsKept'
    <3>1. ListsPartition'
      BY <2>1, <2>2, <2>3, <2>4 DEF DescriptorsKept, ListsPartition
    <3>2. ActiveIsUsed'
      BY <2>3, <2>4, <2>5, <2>6, <2>7 DEF DescriptorsKept, ActiveIsUsed
    <3> QED
      BY <3>1, <3>2 DEF DescriptorsKept
  <2>10. QueuesMatchSemAdd'
    <3>1. p_semAdd'[p] = k /\ \A r \in Procs : r # p => p_semAdd'[r] = p_semAdd[r]
      BY <2>1 DEF TypeOK
    <3>2. \A e \in Elems(semd_h') : Distinct(s_procq'[e])
      BY <2>3, <2>4, <2>5, <2>6 DEF QueuesMatchSemAdd
    <3>3. \A r \in Procs : p_semAdd[r] # k
      BY <1>3, AslAssumption DEF QueuesMatchSemAdd
    <3>4. ASSUME NEW r \in Procs, NEW e \in Elems(semd_h')
          PROVE  r \in Elems(s_procq'[e]) <=> p_semAdd'[r] = s_key'[e]
      <4>1. CASE e = d
        BY <4>1, <2>5, <2>6, <3>1, <3>3
      <4>2. CASE e # d
        <5>1. e \in Elems(semd_h) /\ s_procq'[e] = s_procq[e] /\ s_key'[e] = s_key[e]
          BY <4>2, <2>3, <2>4, <2>5
        <5>2. s_key[e] # k /\ s_key[e] # NULL
          BY <5>1, <2>7, AslAssumption DEF DescriptorsKept, ActiveIsUsed
        <5> QED
          BY <5>1, <5>2, <2>1, <3>1 DEF QueuesMatchSemAdd
      <4> QED
        BY <4>1, <4>2
    <3>5. \A x : with_key(x) \subseteq with_key(x)' /\ d \in with_key(k)'
      BY <2>3, <2>4, <2>5 DEF with_key
    <3>6. \A r \in Procs : p_semAdd'[r] # NULL => with_key(p_semAdd[r])' # {}
      BY <3>1, <3>5 DEF QueuesMatchSemAdd
    <3>7. \A r \in Procs : p_semAdd'[r] # NULL => (\E e \in Elems(semd_h') : s_key'[e] = p_semAdd'[r])
      BY <3>6 DEF with_key
    <3> QED
      BY <3>2, <3>4, <3>7 DEF QueuesMatchSemAdd, with_key
  <2> QED
    BY <2>8, <2>9, <2>10
<1> QED
  BY <1>1, <1>2, <1>3

(* A process leaves the queue of an active descriptor, which is released   *)
(* when the queue is empty: the step of remove_blocked and of out_blocked. *)
Leaves(p, d, q, free) ==
  /\ d \in Elems(semd_h) /\ p \in Procs /\ p \in Elems(s_procq[d])
  /\ q \in Seq(Procs) /\ Distinct(q) /\ Elems(q) = Elems(s_procq[d]) \ {p}
  /\ free \in Seq(Semds) /\ Distinct(free) /\ Elems(free) = Elems(semd_free) \union {d}
  /\ release(d, q, free)
  /\ p_semAdd' = [p_semAdd EXCEPT ![p] = NULL] /\ UNCHANGED s_key

LEMMA ReleaseLemma ==
  ASSUME IInv, NEW p, NEW d, NEW q, NEW free, Leaves(p, d, q, free)
  PROVE  /\ IInv'
         /\ s_procq'[d] = q
         /\ \A e \in Semds : e # d => s_procq'[e] = s_procq[e]
         /\ Elems(semd_h') = IF q = <<>> THEN Elems(semd_h) \ {d} ELSE Elems(semd_h)
<1> USE DEF IInv
<1>0. /\ d \in Elems(semd_h) /\ p \in Procs /\ p \in Elems(s_procq[d])
      /\ q \in Seq(Procs) /\ Distinct(q) /\ Elems(q) = Elems(s_procq[d]) \ {p}
      /\ free \in Seq(Semds) /\ Distinct(free) /\ Elems(free) = Elems(semd_free) \union {d}
      /\ release(d, q, free)
      /\ p_semAdd' = [p_semAdd EXCEPT ![p] = NULL] /\ s_key' = s_key
  BY DEF Leaves
<1>1. Elems(semd_h) \subseteq Semds /\ d \in Semds /\ d \notin Elems(semd_free)
  BY <1>0 DEF DescriptorsKept, ListsPartition
<1>2. /\ s_procq'[d] = q
      /\ \A e \in Semds : e # d => s_procq'[e] = s_procq[e]
      /\ s_procq' \in [Semds -> Seq(Procs)]
  BY <1>0, <1>1 DEF release, TypeOK
<1>3. q = <<>> => Elems(q) = {}
  BY DEF Elems
<1>4. q # <<>> => Elems(q) # {}
  <2> SUFFICES ASSUME q # <<>> PROVE Elems(q) # {}
    OBVIOUS
  <2>1. head_proc_q(q) \in Elems(q)
    BY <1>0, RemoveProperties
  <2> QED
    BY <2>1
<1>5. /\ semd_h' \in Seq(Semds) /\ Distinct(semd_h')
      /\ semd_free' \in Seq(Semds) /\ Distinct(semd_free')
      /\ q = <<>> => Elems(semd_h') = Elems(semd_h) \ {d} /\ Elems(semd_free') = Elems(free)
      /\ q # <<>> => Elems(semd_h') = Elems(semd_h) /\ Elems(semd_free') = Elems(semd_free)
  <2>1. CASE q = <<>>
    <3>1. semd_h' = list_del(semd_h, d) /\ semd_free' = free
      BY <1>0, <2>1 DEF release, empty_proc_q
    <3>2. semd_h \in Seq(Semds) /\ Distinct(semd_h)
      BY DEF TypeOK, DescriptorsKept, ListsPartition
    <3>3. /\ list_del(semd_h, d) \in Seq(Semds) /\ Distinct(list_del(semd_h, d))
          /\ Elems(list_del(semd_h, d)) = Elems(semd_h) \ {d}
      BY <3>2, DelDescriptor
    <3> QED
      BY <1>0, <2>1, <3>1, <3>3
  <2>2. CASE q # <<>>
    BY <1>0, <2>2 DEF release, empty_proc_q, TypeOK, DescriptorsKept, ListsPartition
  <2> QED
    BY <2>1, <2>2
<1>6. p_semAdd'[p] = NULL /\ \A r \in Procs : r # p => p_semAdd'[r] = p_semAdd[r]
  BY <1>0 DEF TypeOK
<1>7. TypeOK'
  BY <1>0, <1>2, <1>5, <1>6, ListLength DEF TypeOK
<1>8. DescriptorsKept'
  <2>1. ListsPartition'
    BY <1>0, <1>1, <1>5 DEF DescriptorsKept, ListsPartition
  <2>2. ActiveIsUsed'
    BY <1>0, <1>1, <1>2, <1>5 DEF DescriptorsKept, ActiveIsUsed
  <2> QED
    BY <2>1, <2>2 DEF DescriptorsKept
<1>9. QueuesMatchSemAdd'
  <2>1. \A e \in Elems(semd_h') : e \in Elems(semd_h) /\ s_key[e] # NULL
    BY <1>0, <1>5, AslAssumption DEF DescriptorsKept, ActiveIsUsed
  <2>2. p_semAdd[p] = s_key[d]
    BY <1>0 DEF QueuesMatchSemAdd
  <2>3. \A e \in Elems(semd_h') : Distinct(s_procq'[e])
    BY <1>0, <1>1, <1>2, <2>1 DEF QueuesMatchSemAdd
  <2>4. ASSUME NEW r \in Procs, NEW e \in Elems(semd_h')
        PROVE  r \in Elems(s_procq'[e]) <=> p_semAdd'[r] = s_key[e]
    <3>1. CASE e = d
      BY <3>1, <1>0, <1>2, <1>6, <2>1 DEF QueuesMatchSemAdd
    <3>2. CASE e # d
      <4>1. e \in Elems(semd_h) /\ s_procq'[e] = s_procq[e] /\ s_key[e] # s_key[d]
        BY <3>2, <1>0, <1>1, <1>2, <2>1 DEF DescriptorsKept, ActiveIsUsed
      <4> QED
        BY <4>1, <1>0, <1>6, <2>1, <2>2 DEF QueuesMatchSemAdd
    <3> QED
      BY <3>1, <3>2
  <2>5. ASSUME NEW r \in Procs, p_semAdd'[r] # NULL
        PROVE  \E e \in Elems(semd_h') : s_key[e] = p_semAdd'[r]
    <3>1. r # p /\ p_semAdd'[r] = p_semAdd[r]
      BY <2>5, <1>6
    <3>2. PICK e \in Elems(semd_h) : s_key[e] = p_semAdd[r]
      BY <2>5, <3>1 DEF QueuesMatchSemAdd, with_key
    <3>3. r \in Elems(s_procq[e])
      BY <3>2 DEF QueuesMatchSemAdd
    <3>4. e \in Elems(semd_h')
      BY <3>1, <3>2, <3>3, <1>0, <1>3, <1>5
    <3> QED
      BY <3>1, <3>2, <3>4
  <2> QED
    BY <1>0, <2>3, <2>4, <2>5 DEF QueuesMatchSemAdd, with_key
<1> QED
  BY <1>2, <1>5, <1>7, <1>8, <1>9

(* remove_blocked: the first process of the queue, if there is one.        *)
LEMMA RemoveLeaves ==
  ASSUME IInv, NEW k \in Keys, remove_blocked(k), with_key(k) # {}
  PROVE  LET d == get_semd(k)
         IN  Leaves(head_proc_q(s_procq[d]), d, Tail(s_procq[d]), list_add(semd_free, d))
<1> USE DEF IInv
<1> DEFINE d == get_semd(k)
           p == head_proc_q(s_procq[d])
           free == list_add(semd_free, d)
<1>1. /\ p_semAdd' = [p_semAdd EXCEPT ![p] = NULL]
      /\ release(d, Tail(s_procq[d]), free) /\ UNCHANGED s_key
  BY DEF remove_blocked
<1>2. d \in Elems(semd_h)
  BY Found
<1> HIDE DEF d
<1>3. d \in Semds /\ d \notin Elems(semd_free) /\ semd_free \in Seq(Semds) /\ Distinct(semd_free)
  BY <1>2 DEF TypeOK, DescriptorsKept, ListsPartition
<1>4. s_procq[d] \in Seq(Procs) /\ s_procq[d] # <<>> /\ Distinct(s_procq[d])
  BY <1>2, <1>3 DEF TypeOK, DescriptorsKept, ActiveIsUsed, QueuesMatchSemAdd
<1>5. /\ p \in Procs /\ p \in Elems(s_procq[d])
      /\ Tail(s_procq[d]) \in Seq(Procs) /\ Distinct(Tail(s_procq[d]))
      /\ Elems(Tail(s_procq[d])) = Elems(s_procq[d]) \ {p}
  <2>1. /\ p \in Procs /\ p \in Elems(s_procq[d])
        /\ Tail(s_procq[d]) \in Seq(Procs) /\ Distinct(Tail(s_procq[d]))
        /\ Elems(s_procq[d]) = Elems(Tail(s_procq[d])) \union {p}
        /\ p \notin Elems(Tail(s_procq[d]))
    BY <1>4, RemoveProperties
  <2> QED
    BY <2>1
<1>6. free \in Seq(Semds) /\ Distinct(free) /\ Elems(free) = Elems(semd_free) \union {d}
  BY <1>3, AddDescriptor
<1> HIDE DEF p, free
<1>7. Leaves(p, d, Tail(s_procq[d]), free)
  BY <1>1, <1>2, <1>5, <1>6 DEF Leaves
<1> QED
  BY <1>7 DEF d, p, free

LEMMA RemoveStep ==
  ASSUME IInv, NEW k \in Keys, remove_blocked(k)
  PROVE  IInv'
<1>1. CASE with_key(k) = {} /\ UNCHANGED <<semd_free, semd_h, s_key, s_procq, p_semAdd>>
  BY <1>1 DEF IInv, TypeOK, DescriptorsKept, ListsPartition, ActiveIsUsed,
              QueuesMatchSemAdd, with_key
<1>2. CASE with_key(k) # {}
  BY <1>2, RemoveLeaves, ReleaseLemma
<1> QED
  BY <1>1, <1>2 DEF remove_blocked

(* out_blocked: the process, from wherever it is on the queue.             *)
LEMMA OutLeaves ==
  ASSUME IInv, NEW p \in Procs, out_blocked(p), p_semAdd[p] # NULL
  PROVE  LET d == get_semd(p_semAdd[p])
         IN  /\ Leaves(p, d, Keep(s_procq[d], Procs \ {p}), Append(semd_free, d))
             /\ p_semAdd[p] \in Keys /\ s_key[d] = p_semAdd[p] /\ answer' = p
<1> USE DEF IInv
<1>0. with_key(p_semAdd[p]) # {}
  BY DEF QueuesMatchSemAdd
<1> DEFINE d == get_semd(p_semAdd[p])
           q == Keep(s_procq[d], Procs \ {p})
           free == Append(semd_free, d)
<1>1. p_semAdd[p] \in Keys
  BY <1>0 DEF TypeOK
<1>2. d \in Elems(semd_h) /\ s_key[d] = p_semAdd[p]
  BY <1>0, <1>1, Found
<1>3. p \in Elems(s_procq[d])
  BY <1>2 DEF QueuesMatchSemAdd
<1>4. /\ p_semAdd' = [p_semAdd EXCEPT ![p] = NULL]
      /\ release(d, q, free) /\ UNCHANGED s_key
      /\ answer' = p
  BY <1>0, <1>3 DEF out_blocked
<1> HIDE DEF d
<1>5. d \in Semds /\ d \notin Elems(semd_free) /\ semd_free \in Seq(Semds) /\ Distinct(semd_free)
  BY <1>2 DEF TypeOK, DescriptorsKept, ListsPartition
<1>6. s_procq[d] \in Seq(Procs) /\ Distinct(s_procq[d])
  BY <1>2, <1>5 DEF TypeOK, QueuesMatchSemAdd
<1>7. q \in Seq(Procs) /\ Distinct(q) /\ Elems(q) = Elems(s_procq[d]) \ {p}
  <2>1. q \in Seq(Procs) /\ Distinct(q) /\ Elems(q) = Elems(s_procq[d]) \intersect (Procs \ {p})
    BY <1>6, KeepProperties
  <2>2. Elems(s_procq[d]) \subseteq Procs
    BY <1>6, LenProperties DEF Elems
  <2> QED
    BY <2>1, <2>2
<1>8. free \in Seq(Semds) /\ Distinct(free) /\ Elems(free) = Elems(semd_free) \union {d}
  BY <1>5, AddDescriptor
<1> HIDE DEF q, free
<1> QED
  BY <1>1, <1>2, <1>3, <1>4, <1>7, <1>8 DEF Leaves, d, q, free

LEMMA OutStep ==
  ASSUME IInv, NEW p \in Procs, out_blocked(p)
  PROVE  IInv'
<1>1. CASE p_semAdd[p] = NULL
  <2>1. UNCHANGED <<semd_free, semd_h, s_key, s_procq, p_semAdd>>
    BY <1>1 DEF out_blocked
  <2> QED
    BY <2>1 DEF IInv, TypeOK, DescriptorsKept, ListsPartition, ActiveIsUsed,
                QueuesMatchSemAdd, with_key
<1>2. CASE p_semAdd[p] # NULL
  BY <1>2, OutLeaves, ReleaseLemma
<1> QED
  BY <1>1, <1>2

LEMMA StepLemma == IInv /\ [Next]_vars => IInv'
<1> SUFFICES ASSUME IInv, [Next]_vars PROVE IInv'
  OBVIOUS
<1>1. ASSUME NEW k \in Keys, NEW p \in Procs, insert_blocked(k, p) PROVE IInv'
  BY <1>1, InsertStep
<1>2. ASSUME NEW k \in Keys, remove_blocked(k) PROVE IInv'
  BY <1>2, RemoveStep
<1>3. ASSUME NEW p \in Procs, out_blocked(p) PROVE IInv'
  BY <1>3, OutStep
<1>4. ASSUME UNCHANGED <<semd_free, semd_h, s_key, s_procq, p_semAdd>> PROVE IInv'
  BY <1>4 DEF IInv, TypeOK, DescriptorsKept, ListsPartition, ActiveIsUsed,
              QueuesMatchSemAdd, with_key
<1>5. ASSUME NEW k \in Keys, head_blocked(k) PROVE IInv'
  BY <1>4, <1>5 DEF head_blocked
<1>6. CASE UNCHANGED vars
  BY <1>4, <1>6 DEF vars
<1> QED
  BY <1>1, <1>2, <1>3, <1>5, <1>6 DEF Next

(* Whatever is called in whatever order, the lists stay in IInv.           *)
THEOREM Invariance == Spec => []IInv
<1> QED
  BY InitLemma, StepLemma, PTL DEF Spec

(* The fields keep their types, and no list outgrows semd_table.           *)
THEOREM TypeCorrect == Spec => []TypeOK
<1>1. IInv => TypeOK
  BY DEF IInv
<1> QED
  BY <1>1, Invariance, PTL

(* release and take_semd never leak a descriptor nor hand one out twice,   *)
(* and no descriptor is kept without a process on its queue.               *)
THEOREM NoDescriptorLost == Spec => []DescriptorsKept
<1>1. IInv => DescriptorsKept
  BY DEF IInv
<1> QED
  BY <1>1, Invariance, PTL

(* p_semAdd and the queues always agree, so that out_blocked finds every   *)
(* process that kill_proc takes off a semaphore.                           *)
THEOREM SemAddRight == Spec => []QueuesMatchSemAdd
<1>1. IInv => QueuesMatchSemAdd
  BY DEF IInv
<1> QED
  BY <1>1, Invariance, PTL

-----------------------------------------------------------------------------
(* Every active descriptor has a first process of its own, which the one   *)
(* that asks is not: there are fewer active descriptors than pcbs.         *)
LEMMA EnoughDescriptors == IInv => NeverRefuses
<1> SUFFICES ASSUME IInv, NEW p \in Procs, p_semAdd[p] = NULL, semd_free = <<>>
             PROVE  FALSE
  BY DEF NeverRefuses
<1> DEFINE others == Procs \ {p}
           first == [d \in Semds |-> head_proc_q(s_procq[d])]
<1>1. Elems(semd_h) = Semds
  BY DEF IInv, DescriptorsKept, ListsPartition, Elems
<1>2. ASSUME NEW d \in Semds
      PROVE  first[d] \in Procs /\ p_semAdd[first[d]] = s_key[d] /\ s_key[d] # NULL
  <2>1. s_procq[d] \in Seq(Procs) /\ s_procq[d] # <<>> /\ s_key[d] # NULL
    BY <1>1, AslAssumption DEF IInv, TypeOK, DescriptorsKept, ActiveIsUsed
  <2>2. first[d] \in Procs /\ first[d] \in Elems(s_procq[d])
    BY <2>1, RemoveProperties
  <2> QED
    BY <1>1, <2>1, <2>2 DEF IInv, QueuesMatchSemAdd
<1>3. first \in [Semds -> others]
  BY <1>2
<1>4. \A d, e \in Semds : first[d] = first[e] => d = e
  <2> SUFFICES ASSUME NEW d \in Semds, NEW e \in Semds, first[d] = first[e] PROVE d = e
    OBVIOUS
  <2>1. s_key[d] = s_key[e]
    BY <1>2
  <2> QED
    BY <1>1, <2>1 DEF IInv, DescriptorsKept, ActiveIsUsed
<1>5. first \in Injection(Semds, others)
  BY <1>3, <1>4 DEF Injection, IsInjective
<1>6. /\ IsFiniteSet(others) /\ Cardinality(others) < MAXPROC
      /\ Cardinality(Semds) = MAXPROC
  <2>1. IsFiniteSet(Procs) /\ Cardinality(Procs) \in Nat /\ Cardinality(Procs) <= MAXPROC
    BY AslAssumption, FS_CardinalityType
  <2>2. IsFiniteSet(others) /\ Cardinality(others) = Cardinality(Procs) - 1
    BY <2>1, FS_RemoveElement
  <2>3. Cardinality(Semds) = MAXPROC /\ MAXPROC \in Nat
    BY AslAssumption, FS_Interval DEF Semds
  <2> QED
    BY <2>1, <2>2, <2>3
<1>7. Cardinality(Semds) <= Cardinality(others)
  BY <1>5, <1>6, FS_Injection
<1> QED
  BY <1>6, <1>7, FS_CardinalityType, AslAssumption

(* insert_blocked always finds a descriptor for a process that is not      *)
(* blocked: the PANIC that its TRUE means to passeren cannot be reached.   *)
THEOREM InsertSucceeds == Spec => []NeverRefuses
<1> QED
  BY EnoughDescriptors, Invariance, PTL

-----------------------------------------------------------------------------
(***************************************************************************)
(* The refinement: each call of asl.c is the call of SemQueues on the      *)
(* queues that queue_of reads off the two lists.                           *)
(***************************************************************************)

(* The queue of a semaphore is that of the active descriptor of its key.   *)
QueuesRead ==
  \A k \in Keys :
    /\ with_key(k) = {} => queue_of(k) = <<>>
    /\ \A d \in Elems(semd_h) : s_key[d] = k => queue_of(k) = s_procq[d]
    /\ queue_of(k) \in Seq(Procs)
    /\ \A p \in Procs : p \in Elems(queue_of(k)) <=> p_semAdd[p] = k

LEMMA QueueOf == IInv => QueuesRead
<1> SUFFICES ASSUME IInv, NEW k \in Keys
             PROVE  /\ with_key(k) = {} => queue_of(k) = <<>>
                    /\ \A d \in Elems(semd_h) : s_key[d] = k => queue_of(k) = s_procq[d]
                    /\ queue_of(k) \in Seq(Procs)
                    /\ \A p \in Procs : p \in Elems(queue_of(k)) <=> p_semAdd[p] = k
  BY DEF QueuesRead
<1>1. CASE with_key(k) = {}
  <2>1. queue_of(k) = <<>> /\ \A d \in Elems(semd_h) : s_key[d] # k
    BY <1>1 DEF queue_of, with_key
  <2>2. \A p \in Procs : p_semAdd[p] # k
    BY <1>1, AslAssumption DEF IInv, QueuesMatchSemAdd
  <2>3. Elems(<<>>) = {} /\ <<>> \in Seq(Procs)
    BY DEF Elems
  <2> QED
    BY <2>1, <2>2, <2>3
<1>2. CASE with_key(k) # {}
  <2> DEFINE d == get_semd(k)
  <2>1. /\ d \in Elems(semd_h) /\ s_key[d] = k
        /\ \A e \in Elems(semd_h) : s_key[e] = k => e = d
    BY <1>2, Found
  <2>2. queue_of(k) = s_procq[d]
    BY <1>2 DEF queue_of
  <2> HIDE DEF d
  <2>3. s_procq[d] \in Seq(Procs)
    BY <2>1 DEF IInv, TypeOK, DescriptorsKept, ListsPartition
  <2>4. \A p \in Procs : p \in Elems(s_procq[d]) <=> p_semAdd[p] = k
    BY <2>1 DEF IInv, QueuesMatchSemAdd
  <2> QED
    BY <1>2, <2>1, <2>2, <2>3, <2>4
<1> QED
  BY <1>1, <1>2

LEMMA QueueOfNext == IInv' => QueuesRead'
  BY QueueOf, PTL

(* What waits in the promised queues is what p_semAdd says is blocked.     *)
LEMMA WaitingIsBlocked ==
  IInv => \A p \in Procs : p \in Promise!Waiting <=> p_semAdd[p] # NULL
<1> SUFFICES ASSUME IInv, NEW p \in Procs
             PROVE  p \in Promise!Waiting <=> p_semAdd[p] # NULL
  OBVIOUS
<1>1. p \in Promise!Waiting <=> \E k \in Keys : p \in Elems(queue_of(k))
  BY DEF Promise!Waiting, Promise!Elems, Elems, queues
<1>2. \A k \in Keys : p \in Elems(queue_of(k)) <=> p_semAdd[p] = k
  BY QueueOf DEF QueuesRead
<1> QED
  BY <1>1, <1>2, AslAssumption DEF IInv, TypeOK

(* At the start no semaphore has a queue.                                  *)
LEMMA InitRefines == init_asl => Promise!Init
<1> SUFFICES ASSUME init_asl PROVE Promise!Init
  OBVIOUS
<1>1. \A k \in Keys : with_key(k) = {}
  BY DEF init_asl, with_key, Elems
<1> QED
  BY <1>1 DEF init_asl, Promise!Init, queues, queue_of

(* The queues that a step does not touch: those of the other keys.         *)
LEMMA OtherQueues ==
  ASSUME IInv, IInv', NEW k \in Keys,
         \A d \in Elems(semd_h) : s_key[d] # k =>
            d \in Elems(semd_h') /\ s_key'[d] = s_key[d] /\ s_procq'[d] = s_procq[d],
         \A d \in Elems(semd_h') : s_key'[d] # k => d \in Elems(semd_h) /\ s_key[d] = s_key'[d]
  PROVE  \A j \in Keys : j # k => queue_of(j)' = queue_of(j)
<1> SUFFICES ASSUME NEW j \in Keys, j # k PROVE queue_of(j)' = queue_of(j)
  OBVIOUS
<1>1. /\ with_key(j) = {} => queue_of(j) = <<>>
      /\ \A d \in Elems(semd_h) : s_key[d] = j => queue_of(j) = s_procq[d]
  BY QueueOf DEF QueuesRead
<1>2. /\ with_key(j)' = {} => queue_of(j)' = <<>>
      /\ \A d \in Elems(semd_h') : s_key'[d] = j => queue_of(j)' = s_procq'[d]
  BY QueueOfNext DEF QueuesRead
<1>3. CASE with_key(j) = {}
  BY <1>1, <1>2, <1>3 DEF with_key
<1>4. CASE with_key(j) # {}
  BY <1>1, <1>2, <1>4 DEF with_key
<1> QED
  BY <1>3, <1>4

(* release leaves q on the queue of the descriptor's key.                  *)
LEMMA LeavesView ==
  ASSUME IInv, NEW p, NEW d, NEW q, NEW free, Leaves(p, d, q, free),
         NEW k \in Keys, s_key[d] = k
  PROVE  /\ queue_of(k) = s_procq[d] /\ queue_of(k)' = q
         /\ \A j \in Keys : j # k => queue_of(j)' = queue_of(j)
<1>1. /\ IInv' /\ s_key' = s_key /\ s_procq'[d] = q
      /\ \A e \in Semds : e # d => s_procq'[e] = s_procq[e]
      /\ Elems(semd_h') = IF q = <<>> THEN Elems(semd_h) \ {d} ELSE Elems(semd_h)
  BY ReleaseLemma DEF Leaves
<1>2. /\ d \in Elems(semd_h) /\ Elems(semd_h) \subseteq Semds
      /\ \A e \in Elems(semd_h) : s_key[e] = k => e = d
  BY DEF Leaves, IInv, DescriptorsKept, ListsPartition, ActiveIsUsed
<1>3. queue_of(k) = s_procq[d]
  BY <1>2, QueueOf DEF QueuesRead
<1>4. \A j \in Keys : j # k => queue_of(j)' = queue_of(j)
  <2>1. \A e \in Elems(semd_h) : s_key[e] # k =>
          e \in Elems(semd_h') /\ s_key'[e] = s_key[e] /\ s_procq'[e] = s_procq[e]
    BY <1>1, <1>2
  <2>2. \A e \in Elems(semd_h') : s_key'[e] # k => e \in Elems(semd_h) /\ s_key[e] = s_key'[e]
    BY <1>1
  <2> QED
    BY <1>1, <2>1, <2>2, OtherQueues
<1>5. queue_of(k)' = q
  <2>1. /\ with_key(k)' = {} => queue_of(k)' = <<>>
        /\ \A e \in Elems(semd_h') : s_key'[e] = k => queue_of(k)' = s_procq'[e]
    BY <1>1, QueueOfNext DEF QueuesRead
  <2>2. CASE q = <<>>
    <3>1. with_key(k)' = {}
      BY <1>1, <1>2, <2>2 DEF with_key
    <3> QED
      BY <2>1, <2>2, <3>1
  <2>3. CASE q # <<>>
    BY <1>1, <1>2, <2>1, <2>3
  <2> QED
    BY <2>2, <2>3
<1> QED
  BY <1>3, <1>4, <1>5

(* insert_blocked appends to the queue of its semaphore, on the descriptor *)
(* it found or on the one it took; it never answers TRUE.                  *)
LEMMA InsertRefines ==
  ASSUME IInv, IInv', NEW k \in Keys, NEW p \in Procs, insert_blocked(k, p)
  PROVE  Promise!Insert(k, p)
<1>1. p_semAdd[p] = NULL /\ p \notin Promise!Waiting
  BY WaitingIsBlocked DEF insert_blocked
<1>2. with_key(k) # {} \/ semd_free # <<>>
  BY <1>1, EnoughDescriptors DEF NeverRefuses
<1>3. answer' = FALSE
  BY <1>2 DEF insert_blocked
<1>4. /\ queue_of(k)' = insert_proc_q(queue_of(k), p)
      /\ \A j \in Keys : j # k => queue_of(j)' = queue_of(j)
  <2>1. Elems(semd_h) \subseteq Semds
    BY DEF IInv, DescriptorsKept, ListsPartition
  <2>2. CASE with_key(k) # {}
    <3> DEFINE d == get_semd(k)
    <3>1. /\ s_procq' = [s_procq EXCEPT ![d] = insert_proc_q(@, p)]
          /\ UNCHANGED <<semd_h, s_key>>
      BY <2>2 DEF insert_blocked
    <3>2. d \in Elems(semd_h) /\ s_key[d] = k
      BY <2>2, Found
    <3> HIDE DEF d
    <3>3. /\ s_procq'[d] = insert_proc_q(s_procq[d], p)
          /\ \A e \in Semds : e # d => s_procq'[e] = s_procq[e]
      BY <2>1, <3>1, <3>2 DEF IInv, TypeOK
    <3>4. queue_of(k) = s_procq[d] /\ queue_of(k)' = s_procq'[d]
      BY <3>1, <3>2, QueueOf, QueueOfNext DEF QueuesRead
    <3>5. \A j \in Keys : j # k => queue_of(j)' = queue_of(j)
      <4>1. \A e \in Elems(semd_h) : s_key[e] # k =>
              e \in Elems(semd_h') /\ s_key'[e] = s_key[e] /\ s_procq'[e] = s_procq[e]
        BY <2>1, <3>1, <3>2, <3>3
      <4>2. \A e \in Elems(semd_h') : s_key'[e] # k => e \in Elems(semd_h) /\ s_key[e] = s_key'[e]
        BY <3>1
      <4> QED
        BY <4>1, <4>2, OtherQueues
    <3> QED
      BY <3>3, <3>4, <3>5
  <2>3. CASE with_key(k) = {}
    <3> DEFINE d == Head(semd_free)
    <3>1. /\ semd_h' = list_add(semd_h, d)
          /\ s_key' = [s_key EXCEPT ![d] = k]
          /\ s_procq' = [s_procq EXCEPT ![d] = insert_proc_q(<<>>, p)]
      BY <1>2, <2>3 DEF insert_blocked, take_semd
    <3>2. d \in Semds /\ d \notin Elems(semd_h)
      <4>1. semd_free \in Seq(Semds) /\ semd_free # <<>>
        BY <1>2, <2>3 DEF IInv, TypeOK
      <4>2. d \in Semds /\ d \in Elems(semd_free)
        BY <4>1, RemoveProperties DEF head_proc_q
      <4> QED
        BY <4>2 DEF IInv, DescriptorsKept, ListsPartition
    <3> HIDE DEF d
    <3>3. Elems(semd_h') = Elems(semd_h) \union {d}
      <4>1. semd_h \in Seq(Semds) /\ Distinct(semd_h)
        BY DEF IInv, TypeOK, DescriptorsKept, ListsPartition
      <4> QED
        BY <3>1, <3>2, <4>1, AddDescriptor
    <3>4. /\ s_procq'[d] = insert_proc_q(<<>>, p) /\ s_key'[d] = k
          /\ \A e \in Semds : e # d => s_procq'[e] = s_procq[e] /\ s_key'[e] = s_key[e]
      BY <3>1, <3>2 DEF IInv, TypeOK
    <3>5. queue_of(k) = <<>>
      BY <2>3 DEF queue_of
    <3>6. queue_of(k)' = insert_proc_q(<<>>, p)
      BY <3>3, <3>4, QueueOfNext DEF QueuesRead
    <3>7. \A j \in Keys : j # k => queue_of(j)' = queue_of(j)
      <4>1. \A e \in Elems(semd_h) : s_key[e] # k =>
              e \in Elems(semd_h') /\ s_key'[e] = s_key[e] /\ s_procq'[e] = s_procq[e]
        BY <2>1, <3>2, <3>3, <3>4
      <4>2. \A e \in Elems(semd_h') : s_key'[e] # k => e \in Elems(semd_h) /\ s_key[e] = s_key'[e]
        BY <2>1, <3>2, <3>3, <3>4
      <4> QED
        BY <4>1, <4>2, OtherQueues
    <3> QED
      BY <3>5, <3>6, <3>7
  <2> QED
    BY <2>2, <2>3
<1>5. queues' = [queues EXCEPT ![k] = insert_proc_q(@, p)]
  BY <1>4 DEF queues
<1> QED
  BY <1>1, <1>3, <1>5 DEF Promise!Insert, Promise!insert_proc_q, insert_proc_q

(* remove_blocked takes the first process of the queue.                    *)
LEMMA RemoveRefines ==
  ASSUME IInv, IInv', NEW k \in Keys, remove_blocked(k)
  PROVE  Promise!Remove(k)
<1>1. CASE with_key(k) = {}
  <2>1. /\ queue_of(k) = <<>> /\ answer' = NULL
        /\ UNCHANGED <<semd_h, s_key, s_procq>>
    BY <1>1 DEF remove_blocked, queue_of
  <2>2. queues' = queues /\ queues[k] = queue_of(k)
    BY <2>1 DEF queues, queue_of, with_key, get_semd
  <2> QED
    BY <2>1, <2>2 DEF Promise!Remove, Promise!empty_proc_q
<1>2. CASE with_key(k) # {}
  <2> DEFINE d == get_semd(k)
             q == s_procq[d]
             p == head_proc_q(q)
             rest == Tail(q)
             free == list_add(semd_free, d)
  <2>1. Leaves(p, d, rest, free)
    BY <1>2, RemoveLeaves
  <2>2. answer' = p /\ d \in Elems(semd_h) /\ s_key[d] = k
    BY <1>2, Found DEF remove_blocked
  <2> HIDE DEF d, free
  <2>3. q # <<>>
    BY <2>2 DEF IInv, DescriptorsKept, ActiveIsUsed
  <2>4. /\ queue_of(k) = s_procq[d] /\ queue_of(k)' = rest
        /\ \A j \in Keys : j # k => queue_of(j)' = queue_of(j)
    <3> HIDE DEF q, p, rest
    <3> QED
      BY <2>1, <2>2, LeavesView
  <2>5. queues' = [queues EXCEPT ![k] = Tail(queue_of(k))] /\ queues[k] = queue_of(k)
    BY <2>4 DEF queues
  <2> QED
    BY <2>2, <2>3, <2>4, <2>5
       DEF Promise!Remove, Promise!empty_proc_q, Promise!head_proc_q, head_proc_q
<1> QED
  BY <1>1, <1>2

(* head_blocked reads the queue that remove_blocked would take from.       *)
LEMMA HeadRefines ==
  ASSUME IInv, NEW k \in Keys, head_blocked(k)
  PROVE  Promise!HeadOf(k)
<1>1. UNCHANGED <<semd_h, s_key, s_procq>>
  BY DEF head_blocked
<1>2. queues' = queues /\ queues[k] = queue_of(k)
  BY <1>1 DEF queues, queue_of, with_key, get_semd
<1>3. answer' = IF queue_of(k) = <<>> THEN NULL ELSE Head(queue_of(k))
  BY DEF head_blocked, queue_of, head_proc_q
<1> QED
  BY <1>2, <1>3 DEF Promise!HeadOf, Promise!empty_proc_q, Promise!head_proc_q

(* out_blocked takes the process off whatever queue it is on.              *)
LEMMA OutRefines ==
  ASSUME IInv, IInv', NEW p \in Procs, out_blocked(p)
  PROVE  Promise!Out(p)
<1> DEFINE S == Procs \ {p}
<1>1. /\ \A q : Promise!Keep(q, S) = Keep(q, S)
      /\ p \in Promise!Waiting <=> p_semAdd[p] # NULL
  <2>1. \A q : Promise!Keep(q, S) = Keep(q, S)
    BY Zenon DEF Promise!Keep, Promise!Kept, Promise!Rank, Promise!Cardinality,
                 Keep, Kept, Rank, Cardinality
  <2> QED
    BY <2>1, WaitingIsBlocked
<1>2. ASSUME NEW j \in Keys, p_semAdd[p] # j PROVE Keep(queue_of(j), S) = queue_of(j)
  <2>1. queue_of(j) \in Seq(Procs) /\ p \notin Elems(queue_of(j))
    BY <1>2, QueueOf DEF QueuesRead
  <2>2. Elems(queue_of(j)) \subseteq S
    BY <2>1, LenProperties DEF Elems
  <2> HIDE DEF S
  <2> QED
    BY <2>1, <2>2, KeepAll
<1>3. /\ answer' = IF p_semAdd[p] # NULL THEN p ELSE NULL
      /\ \A j \in Keys : queue_of(j)' = Keep(queue_of(j), S)
  <2>1. CASE p_semAdd[p] = NULL
    <3>1. UNCHANGED <<semd_h, s_key, s_procq>> /\ answer' = NULL
      BY <2>1 DEF out_blocked
    <3>2. \A j \in Keys : queue_of(j)' = queue_of(j) /\ p_semAdd[p] # j
      BY <2>1, <3>1, AslAssumption DEF queue_of, with_key, get_semd
    <3> QED
      BY <2>1, <3>1, <3>2, <1>2
  <2>2. CASE p_semAdd[p] # NULL
    <3> DEFINE d == get_semd(p_semAdd[p])
               q == Keep(s_procq[d], S)
               free == Append(semd_free, d)
    <3>1. /\ Leaves(p, d, q, free)
          /\ p_semAdd[p] \in Keys /\ s_key[d] = p_semAdd[p] /\ answer' = p
      BY <2>2, OutLeaves
    <3> HIDE DEF d, free, S, q
    <3>2. PICK k \in Keys : k = p_semAdd[p]
      BY <3>1
    <3>3. s_key[d] = k
      BY <3>1, <3>2
    <3>4. /\ queue_of(k) = s_procq[d] /\ queue_of(k)' = q
          /\ \A j \in Keys : j # k => queue_of(j)' = queue_of(j)
      BY <3>1, <3>3, LeavesView
    <3>5. \A j \in Keys : j # k => Keep(queue_of(j), S) = queue_of(j)
      BY <3>2, <1>2
    <3> QED
      BY <2>2, <3>1, <3>4, <3>5 DEF q
  <2> QED
    BY <2>1, <2>2
<1>4. queues' = [j \in Keys |-> Promise!Keep(queues[j], S)]
  BY <1>1, <1>3 DEF queues
<1> QED
  BY <1>1, <1>3, <1>4 DEF Promise!Out

(* asl.c keeps what asl.h promises: for every number of pcbs and every set *)
(* of semaphores, each call is the call of SemQueues with the same answer. *)
THEOREM Refinement == Spec => KeepsPromise
<1>1. IInv /\ IInv' /\ [Next]_vars
        => [Promise!Next]_<<queues, answer>>
  <2> SUFFICES ASSUME IInv, IInv', [Next]_vars
               PROVE  [Promise!Next]_<<queues, answer>>
    OBVIOUS
  <2>1. ASSUME NEW k \in Keys, NEW p \in Procs, insert_blocked(k, p) PROVE Promise!Next
    BY <2>1, InsertRefines DEF Promise!Next
  <2>2. ASSUME NEW k \in Keys, remove_blocked(k) PROVE Promise!Next
    BY <2>2, RemoveRefines DEF Promise!Next
  <2>3. ASSUME NEW k \in Keys, head_blocked(k) PROVE Promise!Next
    BY <2>3, HeadRefines DEF Promise!Next
  <2>4. ASSUME NEW p \in Procs, out_blocked(p) PROVE Promise!Next
    BY <2>4, OutRefines DEF Promise!Next
  <2>5. ASSUME UNCHANGED vars
        PROVE  UNCHANGED <<queues, answer>>
    BY <2>5 DEF vars, queues, queue_of, with_key, get_semd
  <2> QED
    BY <2>1, <2>2, <2>3, <2>4, <2>5 DEF Next
<1> QED
  BY <1>1, InitRefines, Invariance, PTL DEF Spec, KeepsPromise, Promise!Spec

=============================================================================
