-------------------------- MODULE ProcQueueProofs --------------------------
(***************************************************************************)
(* Facts about the process queues of ProcQueue, for queues of any length,  *)
(* and about the least and greatest of a set of numbers, for the CHOOSEs   *)
(* that the modules take them with.                                        *)
(***************************************************************************)
EXTENDS ProcQueue, Integers, FiniteSetTheorems, SequenceTheorems, WellFoundedInduction, TLAPS

(* A set of natural numbers that is not empty has a least element.         *)
LEMMA Smallest ==
  ASSUME NEW S \in SUBSET Nat, S # {}
  PROVE  \E i \in S : \A j \in S : i <= j
<1>1. \E i \in S : \A j \in S : <<j, i>> \notin OpToRel(<, Nat)
  BY NatLessThanWellFounded, WFMin
<1>2. \A i, j \in Nat : <<j, i>> \notin OpToRel(<, Nat) => ~(j < i)
  BY Zenon DEF OpToRel
<1>3. \E i \in S : \A j \in S : ~(j < i)
  BY <1>1, <1>2, Zenon
<1> QED
  BY <1>3

(* And a greatest one, if it has a bound.                                  *)
LEMMA Largest ==
  ASSUME NEW N \in Nat, NEW S \in SUBSET (0..N), S # {}
  PROVE  \E i \in S : \A j \in S : i >= j
<1> DEFINE T == {n \in 0..N : N - n \in S}
<1>1. T \in SUBSET Nat /\ T # {}
  <2>1. PICK i \in S : TRUE
    OBVIOUS
  <2>2. i \in 0..N /\ N - i \in 0..N /\ N - (N - i) = i
    OBVIOUS
  <2>3. N - i \in T
    BY <2>2
  <2>4. T \in SUBSET Nat
    OBVIOUS
  <2> HIDE DEF T
  <2> QED
    BY <2>3, <2>4
<1>2. PICK n \in T : \A m \in T : n <= m
  <2> HIDE DEF T
  <2> QED
    BY <1>1, Smallest
<1>3. \A j \in S : N - j \in T /\ j \in 0..N
  <2> TAKE j \in S
  <2>1. j \in 0..N /\ N - j \in 0..N /\ N - (N - j) = j
    OBVIOUS
  <2> QED
    BY <2>1
<1>4. n \in 0..N /\ N - n \in S
  BY <1>2
<1>5. \A j \in S : N - n >= j
  <2> TAKE j \in S
  <2>1. n <= N - j
    BY <1>2, <1>3
  <2> QED
    BY <1>3, <1>4, <2>1
<1> QED
  BY <1>4, <1>5

(* The ranks in a finite set of positions are 1, 2, ... up to its size.    *)
LEMMA RankBijection ==
  ASSUME NEW n \in Nat, NEW I \in SUBSET (1..n)
  PROVE  /\ IsFiniteSet(I) /\ Cardinality(I) \in Nat
         /\ \A i \in I : Rank(I, i) \in 1..Cardinality(I)
         /\ \A i, j \in I : Rank(I, i) = Rank(I, j) => i = j
         /\ \A k \in 1..Cardinality(I) : \E i \in I : Rank(I, i) = k
<1> DEFINE upto(i) == {j \in I : j <= i}
           f == [i \in I |-> Rank(I, i)]
           c == Cardinality(I)
<1>0. I \subseteq Int
  OBVIOUS
<1>1. IsFiniteSet(I) /\ c \in Nat
  <2>1. IsFiniteSet(1..n)
    BY FS_Interval
  <2> QED
    BY <2>1, FS_Subset, FS_CardinalityType
<1>2. \A i \in I : IsFiniteSet(upto(i)) /\ Cardinality(upto(i)) \in 1..c
  <2> TAKE i \in I
  <2>1. IsFiniteSet(upto(i)) /\ Cardinality(upto(i)) <= c
    BY <1>1, FS_Subset
  <2>2. Cardinality(upto(i)) \in Nat
    BY <2>1, FS_CardinalityType
  <2>3. i \in upto(i)
    OBVIOUS
  <2>4. Cardinality(upto(i)) # 0
    BY <2>1, <2>3, FS_EmptySet
  <2> HIDE DEF upto, c
  <2> QED
    BY <1>1, <2>1, <2>2, <2>4
<1>3. \A i, j \in I : i < j => Rank(I, i) # Rank(I, j)
  <2> SUFFICES ASSUME NEW i \in I, NEW j \in I, i < j PROVE Rank(I, i) # Rank(I, j)
    OBVIOUS
  <2>0. i \in Int /\ j \in Int /\ \A x \in I : x \in Int
    BY <1>0
  <2>1. upto(i) \subseteq upto(j) /\ j \in upto(j) /\ j \notin upto(i)
    <3>1. \A x \in I : x <= i => x <= j
      BY <2>0
    <3>2. j <= j /\ ~(j <= i)
      BY <2>0
    <3> QED
      BY <3>1, <3>2
  <2>2. Cardinality(upto(j)) # Cardinality(upto(i))
    BY <1>2, <2>1, FS_Subset
  <2> QED
    BY <2>2 DEF Rank
<1>4. \A i, j \in I : Rank(I, i) = Rank(I, j) => i = j
  <2> SUFFICES ASSUME NEW i \in I, NEW j \in I, i # j PROVE Rank(I, i) # Rank(I, j)
    OBVIOUS
  <2>1. i < j \/ j < i
    BY <1>0
  <2> QED
    BY <1>3, <2>1
<1>5. f \in [I -> 1..c]
  BY <1>2 DEF Rank
<1>6. f \in Injection(I, 1..c)
  BY <1>4, <1>5 DEF Injection, IsInjective
<1>7. IsFiniteSet(1..c) /\ Cardinality(1..c) = c
  BY <1>1, FS_Interval
<1>8. f \in Surjection(I, 1..c)
  BY <1>6, <1>7, FS_Injection
<1>9. \A k \in 1..c : \E i \in I : f[i] = k
  BY <1>8 DEF Surjection
<1> QED
  BY <1>1, <1>4, <1>5, <1>9

(* Keep(q, S) holds the elements of q that are in S, in their order, once  *)
(* if q holds them once.                                                   *)
LEMMA KeepProperties ==
  ASSUME NEW P, NEW q \in Seq(P), NEW S
  PROVE  /\ Keep(q, S) \in Seq(P)
         /\ Elems(Keep(q, S)) = Elems(q) \intersect S
         /\ Distinct(q) => Distinct(Keep(q, S))
<1> DEFINE I == Kept(q, S)
           c == Cardinality(I)
           at(k) == CHOOSE i \in I : Rank(I, i) = k
<1>1. Len(q) \in Nat /\ DOMAIN q = 1..Len(q) /\ q \in [1..Len(q) -> P]
  BY LenProperties
<1>2. I \in SUBSET (1..Len(q)) /\ \A i \in 1..Len(q) : i \in I <=> q[i] \in S
  BY <1>1 DEF Kept
<1> HIDE DEF I
<1>3. /\ c \in Nat
      /\ \A i \in I : Rank(I, i) \in 1..c
      /\ \A i, j \in I : Rank(I, i) = Rank(I, j) => i = j
      /\ \A k \in 1..c : \E i \in I : Rank(I, i) = k
  BY <1>1, <1>2, RankBijection
<1>4. \A k \in 1..c : at(k) \in I /\ Rank(I, at(k)) = k
  BY <1>3
<1>5. \A i \in I : at(Rank(I, i)) = i
  BY <1>3
<1> HIDE DEF c, at
<1>6. Keep(q, S) = [k \in 1..c |-> q[at(k)]]
  BY DEF Keep, I, c, at
<1>7. Keep(q, S) \in [1..c -> P]
  BY <1>1, <1>2, <1>4, <1>6
<1>8. Keep(q, S) \in Seq(P)
  BY <1>3, <1>7, SeqDef
<1>9. Elems(Keep(q, S)) = {q[at(k)] : k \in 1..c}
  BY <1>6 DEF Elems
<1>10. Elems(Keep(q, S)) = Elems(q) \intersect S
  <2>1. ASSUME NEW x \in Elems(Keep(q, S)) PROVE x \in Elems(q) \intersect S
    <3>1. PICK k \in 1..c : x = q[at(k)]
      BY <1>9, <2>1
    <3>2. at(k) \in 1..Len(q) /\ q[at(k)] \in S
      BY <1>2, <1>4
    <3> QED
      BY <1>1, <3>1, <3>2 DEF Elems
  <2>2. ASSUME NEW x \in Elems(q) \intersect S PROVE x \in Elems(Keep(q, S))
    <3>1. PICK i \in 1..Len(q) : x = q[i]
      BY <1>1, <2>2 DEF Elems
    <3>2. i \in I
      BY <1>2, <2>2, <3>1
    <3>3. Rank(I, i) \in 1..c /\ at(Rank(I, i)) = i
      BY <1>3, <1>5, <3>2
    <3> QED
      BY <1>9, <3>1, <3>3
  <2> QED
    BY <2>1, <2>2
<1>11. ASSUME Distinct(q) PROVE Distinct(Keep(q, S))
  <2> SUFFICES ASSUME NEW k \in 1..c, NEW l \in 1..c, q[at(k)] = q[at(l)] PROVE k = l
    BY <1>6 DEF Distinct
  <2>1. at(k) \in 1..Len(q) /\ at(l) \in 1..Len(q)
    BY <1>2, <1>4
  <2>2. at(k) = at(l)
    BY <1>1, <1>11, <2>1 DEF Distinct
  <2> QED
    BY <1>4, <2>2
<1> QED
  BY <1>8, <1>10, <1>11

(* list_del of a pcb that is not on the queue would leave it as it is.     *)
LEMMA KeepAll ==
  ASSUME NEW P, NEW q \in Seq(P), NEW S, Elems(q) \subseteq S
  PROVE  Keep(q, S) = q
<1> DEFINE n == Len(q)
           I == Kept(q, S)
           at(k) == CHOOSE i \in I : Rank(I, i) = k
<1>1. n \in Nat /\ DOMAIN q = 1..n /\ q = [i \in 1..n |-> q[i]]
  BY LenProperties
<1>2. I = 1..n
  BY <1>1 DEF Kept, Elems
<1>3. ASSUME NEW k \in 1..n PROVE Rank(I, k) = k
  <2>1. {j \in I : j <= k} = 1..k
    BY <1>1, <1>2
  <2>2. k \in Int /\ 1 \in Int /\ ~(1 > k) /\ k - 1 + 1 = k
    BY <1>1
  <2>3. Cardinality(1..k) = k
    BY <2>2, FS_Interval
  <2> HIDE DEF I
  <2> QED
    BY <2>1, <2>3 DEF Rank
<1>4. Cardinality(I) = n
  BY <1>1, <1>2, FS_Interval
<1> HIDE DEF I
<1>5. \A k \in 1..n : at(k) = k
  BY <1>2, <1>3
<1>6. Keep(q, S) = [k \in 1..Cardinality(I) |-> q[at(k)]]
  BY DEF Keep, I
<1> HIDE DEF at
<1> QED
  BY <1>1, <1>4, <1>5, <1>6

(* insert_proc_q puts p on the queue and changes nothing else.             *)
LEMMA InsertProperties ==
  ASSUME NEW P, NEW q \in Seq(P), NEW p \in P
  PROVE  /\ insert_proc_q(q, p) \in Seq(P)
         /\ insert_proc_q(q, p) # <<>>
         /\ Elems(insert_proc_q(q, p)) = Elems(q) \union {p}
         /\ Distinct(q) /\ p \notin Elems(q) => Distinct(insert_proc_q(q, p))
<1> DEFINE r == insert_proc_q(q, p)
           n == Len(q)
<1>1. /\ n \in Nat /\ DOMAIN q = 1..n
      /\ r \in Seq(P) /\ r # <<>> /\ Len(r) = n + 1
      /\ \A i \in 1..n : r[i] = q[i]
      /\ r[n + 1] = p
  BY LenProperties, AppendProperties DEF insert_proc_q
<1>2. DOMAIN r = 1..(n + 1)
  BY <1>1, LenProperties
<1> HIDE DEF r, n
<1>3. \A i \in DOMAIN r : i \in 1..n \/ i = n + 1
  BY <1>1, <1>2
<1>4. n + 1 \in DOMAIN r /\ \A i \in 1..n : i \in DOMAIN r
  BY <1>1, <1>2
<1>5. Elems(r) = Elems(q) \union {p}
  BY <1>1, <1>3, <1>4 DEF Elems
<1>6. ASSUME Distinct(q), p \notin Elems(q) PROVE Distinct(r)
  <2>1. \A i \in 1..n : q[i] # p
    BY <1>1, <1>6 DEF Elems
  <2>2. \A i, j \in 1..n : q[i] = q[j] => i = j
    BY <1>1, <1>6 DEF Distinct
  <2> SUFFICES ASSUME NEW i \in DOMAIN r, NEW j \in DOMAIN r, r[i] = r[j] PROVE i = j
    BY DEF Distinct
  <2> QED
    BY <1>1, <1>3, <2>1, <2>2
<1> QED
  BY <1>1, <1>5, <1>6 DEF r

(* And on an empty one it is alone.                                        *)
LEMMA InsertFirst ==
  ASSUME NEW P, NEW p \in P
  PROVE  /\ insert_proc_q(<<>>, p) \in Seq(P)
         /\ insert_proc_q(<<>>, p) # <<>>
         /\ Elems(insert_proc_q(<<>>, p)) = {p}
         /\ Distinct(insert_proc_q(<<>>, p))
<1>1. insert_proc_q(<<>>, p) = <<p>>
  BY DEF insert_proc_q
<1>2. <<p>> \in Seq(P) /\ <<p>> # <<>> /\ Elems(<<p>>) = {p} /\ Distinct(<<p>>)
  BY DEF Elems, Distinct
<1> QED
  BY <1>1, <1>2

(* remove_proc_q takes the front and leaves the others.                    *)
LEMMA RemoveProperties ==
  ASSUME NEW P, NEW q \in Seq(P), q # <<>>
  PROVE  /\ head_proc_q(q) \in P /\ head_proc_q(q) \in Elems(q)
         /\ Tail(q) \in Seq(P)
         /\ Elems(q) = Elems(Tail(q)) \union {head_proc_q(q)}
         /\ Distinct(q) => Distinct(Tail(q)) /\ head_proc_q(q) \notin Elems(Tail(q))
<1> DEFINE r == Tail(q)
           n == Len(q)
<1>1. /\ n \in Nat \ {0} /\ DOMAIN q = 1..n /\ q \in [1..n -> P]
      /\ head_proc_q(q) = q[1]
      /\ r \in Seq(P) /\ Len(r) = n - 1
      /\ \A i \in 1..(n - 1) : r[i] = q[i + 1]
  BY LenProperties, EmptySeq, HeadTailProperties DEF head_proc_q
<1>2. DOMAIN r = 1..(n - 1)
  BY <1>1, LenProperties
<1> HIDE DEF r, n
<1>3. 1 \in 1..n /\ \A i \in 1..(n - 1) : i + 1 \in 1..n /\ i + 1 # 1
  BY <1>1
<1>4. \A i \in 1..n : i = 1 \/ (i - 1 \in 1..(n - 1) /\ q[i] = r[i - 1])
  BY <1>1
<1>5. Elems(q) = Elems(r) \union {q[1]}
  <2>1. ASSUME NEW x \in Elems(q) PROVE x \in Elems(r) \union {q[1]}
    <3>1. PICK i \in 1..n : x = q[i]
      BY <1>1, <2>1 DEF Elems
    <3>2. CASE i = 1
      BY <3>1, <3>2
    <3>3. CASE i - 1 \in 1..(n - 1) /\ q[i] = r[i - 1]
      BY <1>2, <3>1, <3>3 DEF Elems
    <3> QED
      BY <1>4, <3>2, <3>3
  <2>2. \A x \in Elems(r) \union {q[1]} : x \in Elems(q)
    BY <1>1, <1>2, <1>3 DEF Elems
  <2> QED
    BY <2>1, <2>2
<1>6. ASSUME Distinct(q) PROVE Distinct(r) /\ q[1] \notin Elems(r)
  <2>1. \A i, j \in 1..n : q[i] = q[j] => i = j
    BY <1>1, <1>6 DEF Distinct
  <2>2. \A i \in 1..(n - 1) : r[i] # q[1]
    BY <1>1, <1>3, <2>1
  <2>3. \A i, j \in 1..(n - 1) : r[i] = r[j] => i = j
    BY <1>1, <1>3, <2>1
  <2> QED
    BY <1>2, <2>2, <2>3 DEF Distinct, Elems
<1>7. q[1] \in P /\ q[1] \in Elems(q)
  BY <1>1, <1>3 DEF Elems
<1> QED
  BY <1>1, <1>5, <1>6, <1>7 DEF r

(* A queue put behind another.                                             *)
LEMMA ConcatQueues ==
  ASSUME NEW P, NEW q \in Seq(P), NEW r \in Seq(P)
  PROVE  /\ q \o r \in Seq(P)
         /\ Elems(q \o r) = Elems(q) \union Elems(r)
         /\ Distinct(q) /\ Distinct(r) /\ Elems(q) \intersect Elems(r) = {}
              => Distinct(q \o r)
<1> DEFINE u == q \o r
           m == Len(q)
           n == Len(r)
<1>1. /\ m \in Nat /\ n \in Nat /\ DOMAIN q = 1..m /\ DOMAIN r = 1..n
      /\ u \in Seq(P) /\ Len(u) = m + n
      /\ \A i \in 1..(m + n) : u[i] = IF i <= m THEN q[i] ELSE r[i - m]
  BY LenProperties, ConcatProperties
<1>2. DOMAIN u = 1..(m + n)
  BY <1>1, LenProperties
<1> HIDE DEF u, m, n
<1>3. \A i \in 1..m : i \in 1..(m + n) /\ u[i] = q[i]
  BY <1>1
<1>4. \A i \in 1..n : i + m \in 1..(m + n) /\ ~(i + m <= m) /\ (i + m) - m = i
  BY <1>1
<1>5. \A i \in 1..n : i + m \in 1..(m + n) /\ u[i + m] = r[i]
  BY <1>1, <1>4
<1>6. \A i \in 1..(m + n) :
        \/ i \in 1..m /\ u[i] = q[i]
        \/ i - m \in 1..n /\ u[i] = r[i - m]
  BY <1>1
<1>7. Elems(u) = Elems(q) \union Elems(r)
  <2>1. ASSUME NEW x \in Elems(u) PROVE x \in Elems(q) \union Elems(r)
    <3>1. PICK i \in 1..(m + n) : x = u[i]
      BY <1>2, <2>1 DEF Elems
    <3>2. CASE i \in 1..m /\ u[i] = q[i]
      BY <1>1, <3>1, <3>2 DEF Elems
    <3>3. CASE i - m \in 1..n /\ u[i] = r[i - m]
      BY <1>1, <3>1, <3>3 DEF Elems
    <3> QED
      BY <1>6, <3>2, <3>3
  <2>2. \A x \in Elems(q) : x \in Elems(u)
    BY <1>1, <1>2, <1>3 DEF Elems
  <2>3. ASSUME NEW x \in Elems(r) PROVE x \in Elems(u)
    <3>1. PICK i \in 1..n : x = r[i]
      BY <1>1, <2>3 DEF Elems
    <3>2. i + m \in DOMAIN u /\ u[i + m] = x
      BY <1>2, <1>5, <3>1
    <3> QED
      BY <3>2 DEF Elems
  <2> QED
    BY <2>1, <2>2, <2>3
<1>8. ASSUME Distinct(q), Distinct(r), Elems(q) \intersect Elems(r) = {}
      PROVE  Distinct(u)
  <2>1. \A i \in 1..m, j \in 1..n : q[i] # r[j]
    BY <1>1, <1>8 DEF Elems
  <2>2. \A i, j \in 1..m : q[i] = q[j] => i = j
    BY <1>1, <1>8 DEF Distinct
  <2>3. \A i, j \in 1..n : r[i] = r[j] => i = j
    BY <1>1, <1>8 DEF Distinct
  <2> SUFFICES ASSUME NEW i \in 1..(m + n), NEW j \in 1..(m + n), u[i] = u[j] PROVE i = j
    BY <1>2 DEF Distinct
  <2>4. CASE i \in 1..m /\ u[i] = q[i]
    BY <1>6, <2>1, <2>2, <2>4
  <2>5. CASE i - m \in 1..n /\ u[i] = r[i - m]
    <3>1. ~(j \in 1..m /\ u[j] = q[j])
      BY <2>1, <2>5
    <3>2. j - m \in 1..n /\ u[j] = r[j - m]
      BY <1>6, <3>1
    <3>3. i - m = j - m
      BY <2>3, <2>5, <3>2
    <3> QED
      BY <1>1, <3>3
  <2> QED
    BY <1>6, <2>4, <2>5
<1> QED
  BY <1>1, <1>7, <1>8 DEF u

(* A queue without repetitions is as long as the set of its processes.     *)
LEMMA ElemsCardinality ==
  ASSUME NEW P, NEW q \in Seq(P), Distinct(q)
  PROVE  IsFiniteSet(Elems(q)) /\ Cardinality(Elems(q)) = Len(q)
<1>1. Len(q) \in Nat /\ DOMAIN q = 1..Len(q) /\ q \in [1..Len(q) -> P]
  BY LenProperties
<1>2. q \in [1..Len(q) -> Elems(q)]
  BY <1>1 DEF Elems
<1>3. q \in Surjection(1..Len(q), Elems(q))
  BY <1>1, <1>2 DEF Surjection, Elems
<1>4. q \in Injection(1..Len(q), Elems(q))
  BY <1>1, <1>2 DEF Injection, IsInjective, Distinct
<1>5. IsFiniteSet(1..Len(q)) /\ Cardinality(1..Len(q)) = Len(q)
  BY <1>1, FS_Interval
<1> QED
  BY <1>3, <1>4, <1>5, FS_Surjection

=============================================================================
