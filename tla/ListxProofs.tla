---------------------------- MODULE ListxProofs ----------------------------
(***************************************************************************)
(* Facts about the rings of listx.h.                                       *)
(***************************************************************************)
EXTENDS Listx, Integers, FiniteSetTheorems, SequenceTheorems, TLAPS

Facts == INSTANCE ProcQueueProofs

MemoryOf(D) == [next : [D -> D], prev : [D -> D]]

(* The nodes of the ring of h by number: h is before the first and after   *)
(* the last.                                                               *)
At(h, s, i) == IF i \in 1..Len(s) THEN s[i] ELSE h
Ring(h, s) == {At(h, s, i) : i \in 0..Len(s)}

(* s with x behind its first i elements, and s without its element i.      *)
Inserted(s, i, x) ==
  [k \in 1..(Len(s) + 1) |-> IF k <= i THEN s[k] ELSE IF k = i + 1 THEN x ELSE s[k - 1]]
Without(s, i) == [k \in 1..(Len(s) - 1) |-> IF k < i THEN s[k] ELSE s[k + 1]]

(* Threads, by numbers.                                                    *)
RingOf(L, h, s) ==
  /\ \A i, j \in 0..Len(s) : At(h, s, i) = At(h, s, j) => i = j
  /\ \A i \in 0..Len(s) : /\ L.next[At(h, s, i)] = At(h, s, i + 1)
                          /\ L.prev[At(h, s, i + 1)] = At(h, s, i)

(* What Threads says of a ring and what RingOf says of it are the same.    *)
LEMMA ThreadsAt ==
  ASSUME NEW X, NEW h \in X, NEW s \in Seq(X), NEW L
  PROVE  Threads(L, h, s) <=> RingOf(L, h, s)
<1> DEFINE ring == <<h>> \o s
           after(i) == IF i = Len(ring) THEN 1 ELSE i + 1
           n == Len(s)
           one == <<h>>
<1>1. n \in Nat /\ DOMAIN s = 1..n
  BY LenProperties
<1>2. one \in Seq(X) /\ Len(one) = 1 /\ one[1] = h
  OBVIOUS
<1>3. /\ ring \in Seq(X) /\ Len(ring) = n + 1
      /\ \A i \in 1..(n + 1) : ring[i] = IF i <= 1 THEN h ELSE s[i - 1]
  <2>1. ring = one \o s
    OBVIOUS
  <2> HIDE DEF one, ring
  <2>2. /\ ring \in Seq(X) /\ Len(ring) = 1 + n
        /\ \A i \in 1..(1 + n) : ring[i] = IF i <= 1 THEN one[i] ELSE s[i - 1]
    BY <1>2, <2>1, ConcatProperties
  <2> QED
    BY <1>1, <1>2, <2>2
<1>4. DOMAIN ring = 1..(n + 1)
  BY <1>3, LenProperties
<1> HIDE DEF ring, n
<1>5. \A i \in 1..(n + 1) : ring[i] = At(h, s, i - 1)
  BY <1>1, <1>3 DEF At, n
<1>6. \A i \in 1..(n + 1) : ring[after(i)] = At(h, s, i)
  BY <1>1, <1>3 DEF At, n
<1>7. \A i \in 0..n : i + 1 \in 1..(n + 1) /\ (i + 1) - 1 = i
  BY <1>1
<1>8. \A i \in 1..(n + 1) : i - 1 \in 0..n /\ (i - 1) + 1 = i
  BY <1>1
<1>9. Threads(L, h, s) <=>
        /\ \A i, j \in 1..(n + 1) : ring[i] = ring[j] => i = j
        /\ \A i \in 1..(n + 1) : /\ L.next[ring[i]] = ring[after(i)]
                                 /\ L.prev[ring[after(i)]] = ring[i]
  BY <1>4 DEF Threads, ring
<1> HIDE DEF after
<1>10. RingOf(L, h, s) <=>
        /\ \A i, j \in 0..n : At(h, s, i) = At(h, s, j) => i = j
        /\ \A i \in 0..n : /\ L.next[At(h, s, i)] = At(h, s, i + 1)
                           /\ L.prev[At(h, s, i + 1)] = At(h, s, i)
  BY DEF RingOf, n
<1>11. (\A i, j \in 1..(n + 1) : ring[i] = ring[j] => i = j)
         <=> \A i, j \in 0..n : At(h, s, i) = At(h, s, j) => i = j
  <2>1. ASSUME \A i, j \in 1..(n + 1) : ring[i] = ring[j] => i = j,
               NEW i \in 0..n, NEW j \in 0..n, At(h, s, i) = At(h, s, j)
        PROVE  i = j
    <3>1. i + 1 = j + 1
      BY <1>5, <1>7, <2>1
    <3> QED
      BY <1>1, <3>1
  <2>2. ASSUME \A i, j \in 0..n : At(h, s, i) = At(h, s, j) => i = j,
               NEW i \in 1..(n + 1), NEW j \in 1..(n + 1), ring[i] = ring[j]
        PROVE  i = j
    <3>1. i - 1 = j - 1
      BY <1>5, <1>8, <2>2
    <3> QED
      BY <1>1, <3>1
  <2> QED
    BY <2>1, <2>2
<1>12. (\A i \in 1..(n + 1) : /\ L.next[ring[i]] = ring[after(i)]
                              /\ L.prev[ring[after(i)]] = ring[i])
         <=> \A i \in 0..n : /\ L.next[At(h, s, i)] = At(h, s, i + 1)
                             /\ L.prev[At(h, s, i + 1)] = At(h, s, i)
  BY <1>5, <1>6, <1>7, <1>8
<1> QED
  BY <1>9, <1>10, <1>11, <1>12

(* What the numbers of a ring are.                                         *)
LEMMA AtProperties ==
  ASSUME NEW X, NEW h \in X, NEW s \in Seq(X)
  PROVE  /\ Len(s) \in Nat
         /\ DOMAIN s = 1..Len(s)
         /\ \A i \in Int : At(h, s, i) \in X
         /\ At(h, s, 0) = h
         /\ At(h, s, Len(s) + 1) = h
         /\ \A i \in 1..Len(s) : At(h, s, i) = s[i]
         /\ Ring(h, s) \subseteq X
         /\ h \in Ring(h, s)
         /\ \A i \in 0..(Len(s) + 1) : At(h, s, i) \in Ring(h, s)
         /\ Ring(h, s) = {h} \union {s[i] : i \in 1..Len(s)}
<1>1. Len(s) \in Nat /\ DOMAIN s = 1..Len(s) /\ \A i \in 1..Len(s) : s[i] \in X
  BY LenProperties, ElementOfSeq
<1> DEFINE n == Len(s)
<1> HIDE DEF n
<1>2. \A i \in Int : At(h, s, i) \in X
  BY <1>1 DEF At, n
<1>3. /\ At(h, s, 0) = h /\ At(h, s, n + 1) = h
      /\ \A i \in 1..n : At(h, s, i) = s[i]
  BY <1>1 DEF At, n
<1>4. Ring(h, s) = {At(h, s, i) : i \in 0..n}
  BY DEF Ring, n
<1>5. 0 \in 0..n /\ \A i \in 0..(n + 1) : i \in Int /\ (i \in 0..n \/ i = n + 1)
  BY <1>1 DEF n
<1>6. /\ Ring(h, s) \subseteq X
      /\ h \in Ring(h, s)
      /\ \A i \in 0..(n + 1) : At(h, s, i) \in Ring(h, s)
  BY <1>2, <1>3, <1>4, <1>5
<1>7. Ring(h, s) = {h} \union {s[i] : i \in 1..n}
  <2>1. \A i \in 0..n : i = 0 \/ i \in 1..n
    BY <1>1 DEF n
  <2>2. \A i \in 1..n : i \in 0..n
    BY <1>1 DEF n
  <2> QED
    BY <1>3, <1>4, <1>5, <2>1, <2>2
<1> QED
  BY <1>1, <1>2, <1>3, <1>6, <1>7 DEF n

(* No node has two numbers, whether the head is 0 or the last.             *)
LEMMA AtInjective ==
  ASSUME NEW X, NEW h \in X, NEW s \in Seq(X), NEW L, RingOf(L, h, s)
  PROVE  /\ \A i, j \in 0..Len(s) : At(h, s, i) = At(h, s, j) => i = j
         /\ \A i, j \in 1..(Len(s) + 1) : At(h, s, i) = At(h, s, j) => i = j
<1> DEFINE n == Len(s)
<1>1. n \in Nat /\ At(h, s, 0) = At(h, s, n + 1)
  BY AtProperties
<1>2. \A i, j \in 0..n : At(h, s, i) = At(h, s, j) => i = j
  BY DEF RingOf
<1> HIDE DEF n
<1>3. ASSUME NEW i \in 1..(n + 1), NEW j \in 1..(n + 1), At(h, s, i) = At(h, s, j)
      PROVE  i = j
  <2>1. 0 \in 0..n /\ \A k \in 1..(n + 1) : k = n + 1 \/ (k \in 0..n /\ k # 0)
    BY <1>1
  <2> QED
    BY <1>1, <1>2, <1>3, <2>1
<1> QED
  BY <1>2, <1>3 DEF n

(* The numbers of a ring with a new node.                                  *)
LEMMA InsertedAt ==
  ASSUME NEW X, NEW h \in X, NEW s \in Seq(X), NEW x \in X, NEW i \in 0..Len(s)
  PROVE  /\ Inserted(s, i, x) \in Seq(X)
         /\ Len(Inserted(s, i, x)) = Len(s) + 1
         /\ \A k \in 0..(Len(s) + 2) :
              At(h, Inserted(s, i, x), k) =
                IF k <= i THEN At(h, s, k) ELSE IF k = i + 1 THEN x ELSE At(h, s, k - 1)
<1> DEFINE n == Len(s)
           t == Inserted(s, i, x)
<1>1. n \in Nat /\ \A j \in 1..n : s[j] \in X
  BY LenProperties, ElementOfSeq
<1>2. t \in [1..(n + 1) -> X]
  BY <1>1 DEF Inserted
<1>3. t \in Seq(X) /\ Len(t) = n + 1
  BY <1>1, <1>2, SeqDef, LenProperties
<1>4. \A k \in 0..(n + 2) :
        At(h, t, k) = IF k <= i THEN At(h, s, k)
                      ELSE IF k = i + 1 THEN x ELSE At(h, s, k - 1)
  <2> SUFFICES ASSUME NEW k \in 0..(n + 2)
               PROVE  At(h, t, k) = IF k <= i THEN At(h, s, k)
                                    ELSE IF k = i + 1 THEN x ELSE At(h, s, k - 1)
    OBVIOUS
  <2>1. k \in 1..(n + 1) => t[k] = IF k <= i THEN s[k] ELSE IF k = i + 1 THEN x ELSE s[k - 1]
    BY DEF Inserted
  <2>2. At(h, t, k) = IF k \in 1..(n + 1) THEN t[k] ELSE h
    BY <1>3 DEF At
  <2> HIDE DEF t, n
  <2>3. i \in 0..n
    BY DEF n
  <2> QED
    BY <1>1, <2>1, <2>2, <2>3 DEF At, n
<1> QED
  BY <1>3, <1>4

(* It has the nodes it had and the new one.                                *)
LEMMA InsertedRing ==
  ASSUME NEW X, NEW h \in X, NEW s \in Seq(X), NEW x \in X, NEW i \in 0..Len(s)
  PROVE  Ring(h, Inserted(s, i, x)) = Ring(h, s) \union {x}
<1> DEFINE n == Len(s)
           t == Inserted(s, i, x)
<1>1. n \in Nat /\ i \in 0..n
  BY LenProperties
<1>2. /\ Len(t) = n + 1
      /\ \A k \in 0..(n + 2) :
           At(h, t, k) = IF k <= i THEN At(h, s, k)
                         ELSE IF k = i + 1 THEN x ELSE At(h, s, k - 1)
  BY InsertedAt
<1> HIDE DEF t
<1>3. Ring(h, t) = {At(h, t, k) : k \in 0..(n + 1)} /\ Ring(h, s) = {At(h, s, k) : k \in 0..n}
  BY <1>2 DEF Ring
<1> HIDE DEF n
<1>4. i + 1 \in 0..(n + 1) /\ At(h, t, i + 1) = x
  BY <1>1, <1>2
<1>5. \A k \in 0..n : k <= i => k \in 0..(n + 1) /\ At(h, t, k) = At(h, s, k)
  BY <1>1, <1>2
<1>6. \A k \in 0..n : k > i => k + 1 \in 0..(n + 1) /\ At(h, t, k + 1) = At(h, s, k)
  BY <1>1, <1>2
<1>7. \A k \in 0..(n + 1) :
        \/ k \in 0..n /\ At(h, t, k) = At(h, s, k)
        \/ At(h, t, k) = x
        \/ k - 1 \in 0..n /\ At(h, t, k) = At(h, s, k - 1)
  BY <1>1, <1>2
<1>8. \A k \in 0..n : k <= i \/ k > i
  BY <1>1
<1> QED
  BY <1>3, <1>4, <1>5, <1>6, <1>7, <1>8 DEF t

(* And of a ring without one of its nodes.                                 *)
LEMMA WithoutAt ==
  ASSUME NEW X, NEW h \in X, NEW s \in Seq(X), NEW i \in 1..Len(s)
  PROVE  /\ Without(s, i) \in Seq(X)
         /\ Len(Without(s, i)) = Len(s) - 1
         /\ \A k \in 0..Len(s) :
              At(h, Without(s, i), k) = IF k < i THEN At(h, s, k) ELSE At(h, s, k + 1)
         /\ Ring(h, Without(s, i)) \subseteq Ring(h, s)
         /\ Ring(h, s) = Ring(h, Without(s, i)) \union {s[i]}
<1> DEFINE n == Len(s)
           t == Without(s, i)
<1>1. n \in Nat /\ n - 1 \in Nat /\ \A j \in 1..n : s[j] \in X
  BY LenProperties, ElementOfSeq
<1>2. t \in [1..(n - 1) -> X]
  BY <1>1 DEF Without
<1>3. t \in Seq(X) /\ Len(t) = n - 1
  BY <1>1, <1>2, SeqDef, LenProperties
<1>4. \A k \in 0..n : At(h, t, k) = IF k < i THEN At(h, s, k) ELSE At(h, s, k + 1)
  <2> SUFFICES ASSUME NEW k \in 0..n
               PROVE  At(h, t, k) = IF k < i THEN At(h, s, k) ELSE At(h, s, k + 1)
    OBVIOUS
  <2>1. k \in 1..(n - 1) => t[k] = IF k < i THEN s[k] ELSE s[k + 1]
    BY DEF Without
  <2>2. At(h, t, k) = IF k \in 1..(n - 1) THEN t[k] ELSE h
    BY <1>3 DEF At
  <2> HIDE DEF t, n
  <2>3. i \in 1..n
    BY DEF n
  <2> QED
    BY <1>1, <2>1, <2>2, <2>3 DEF At, n
<1>5. Ring(h, t) \subseteq Ring(h, s) /\ Ring(h, s) = Ring(h, t) \union {s[i]}
  <2> HIDE DEF t
  <2>1. Ring(h, t) = {At(h, t, k) : k \in 0..(n - 1)} /\ Ring(h, s) = {At(h, s, k) : k \in 0..n}
    BY <1>3 DEF Ring
  <2>2. At(h, s, i) = s[i]
    BY DEF At
  <2> HIDE DEF n
  <2>3. i \in 1..n
    BY DEF n
  <2>4. \A k \in 0..n : k < i => k \in 0..(n - 1) /\ At(h, t, k) = At(h, s, k)
    BY <1>1, <1>4, <2>3
  <2>5. \A k \in 0..n : k > i => k - 1 \in 0..(n - 1) /\ At(h, t, k - 1) = At(h, s, k)
    BY <1>1, <1>4, <2>3
  <2>6. \A k \in 0..(n - 1) :
          \/ k \in 0..n /\ At(h, t, k) = At(h, s, k)
          \/ k + 1 \in 0..n /\ At(h, t, k) = At(h, s, k + 1)
    BY <1>1, <1>4, <2>3
  <2>7. i \in 0..n /\ \A k \in 0..n : k < i \/ k > i \/ k = i
    BY <1>1, <2>3
  <2> QED
    BY <2>1, <2>2, <2>4, <2>5, <2>6, <2>7
<1> QED
  BY <1>3, <1>4, <1>5

(* __list_add between two neighbours of a ring.                            *)
LEMMA LinkBetween ==
  ASSUME NEW D, NEW L \in MemoryOf(D), NEW h \in D, NEW s \in Seq(D), RingOf(L, h, s),
         NEW x \in D, x \notin Ring(h, s), NEW i \in 0..Len(s)
  PROVE  /\ link_between(L, x, At(h, s, i), At(h, s, i + 1)) \in MemoryOf(D)
         /\ RingOf(link_between(L, x, At(h, s, i), At(h, s, i + 1)), h, Inserted(s, i, x))
<1> DEFINE n == Len(s)
           t == Inserted(s, i, x)
           before == At(h, s, i)
           behind == At(h, s, i + 1)
           M == link_between(L, x, before, behind)
<1>1. /\ n \in Nat /\ i \in 0..n
      /\ \A k \in Int : At(h, s, k) \in D
      /\ \A k \in 0..(n + 1) : At(h, s, k) # x
      /\ \A j, k \in 0..n : At(h, s, j) = At(h, s, k) => j = k
      /\ \A j, k \in 1..(n + 1) : At(h, s, j) = At(h, s, k) => j = k
      /\ \A k \in 0..n : /\ L.next[At(h, s, k)] = At(h, s, k + 1)
                         /\ L.prev[At(h, s, k + 1)] = At(h, s, k)
  <2>1. n \in Nat /\ i \in 0..n /\ \A k \in Int : At(h, s, k) \in D
    BY AtProperties
  <2>2. \A k \in 0..(n + 1) : At(h, s, k) \in Ring(h, s)
    BY AtProperties
  <2>3. /\ \A j, k \in 0..n : At(h, s, j) = At(h, s, k) => j = k
        /\ \A j, k \in 1..(n + 1) : At(h, s, j) = At(h, s, k) => j = k
    BY AtInjective
  <2> QED
    BY <2>1, <2>2, <2>3 DEF RingOf
<1>2. /\ Len(t) = n + 1
      /\ \A k \in 0..(n + 2) :
           At(h, t, k) = IF k <= i THEN At(h, s, k)
                         ELSE IF k = i + 1 THEN x ELSE At(h, s, k - 1)
  BY InsertedAt
<1>3. before \in D /\ behind \in D /\ before # x /\ behind # x
  BY <1>1
<1>4. /\ M \in MemoryOf(D)
      /\ M.next[x] = behind /\ M.next[before] = x
      /\ M.prev[behind] = x /\ M.prev[x] = before
      /\ \A y \in D : y # x /\ y # before => M.next[y] = L.next[y]
      /\ \A y \in D : y # x /\ y # behind => M.prev[y] = L.prev[y]
  <2> HIDE DEF before, behind
  <2> QED
    BY <1>3 DEF link_between, MemoryOf
<1> HIDE DEF n, t, M
<1>5. \A j, k \in 0..(n + 1) : At(h, t, j) = At(h, t, k) => j = k
  BY <1>1, <1>2
<1>6. ASSUME NEW k \in 0..(n + 1)
      PROVE  M.next[At(h, t, k)] = At(h, t, k + 1) /\ M.prev[At(h, t, k + 1)] = At(h, t, k)
  <2>1. CASE k < i
    <3>1. /\ At(h, t, k) = At(h, s, k) /\ At(h, t, k + 1) = At(h, s, k + 1)
          /\ k \in 0..n /\ k # i /\ k + 1 # i + 1
      BY <1>1, <1>2, <2>1
    <3>2. At(h, s, k) # before
      BY <1>1, <3>1
    <3>3. At(h, s, k + 1) # behind
      <4>1. k + 1 \in 1..(n + 1) /\ i + 1 \in 1..(n + 1)
        BY <1>1, <3>1
      <4> QED
        BY <1>1, <3>1, <4>1
    <3> QED
      BY <1>1, <1>4, <3>1, <3>2, <3>3
  <2>2. CASE k = i
    BY <1>1, <1>2, <1>4, <2>2
  <2>3. CASE k = i + 1
    BY <1>1, <1>2, <1>4, <2>3
  <2>4. CASE k > i + 1
    <3>1. /\ At(h, t, k) = At(h, s, k - 1) /\ At(h, t, k + 1) = At(h, s, k)
          /\ k - 1 \in 0..n /\ (k - 1) + 1 = k
      <4>1. /\ k - 1 \in 0..n /\ (k - 1) + 1 = k /\ (k + 1) - 1 = k
            /\ k \in 0..(n + 2) /\ ~(k <= i) /\ k # i + 1
            /\ k + 1 \in 0..(n + 2) /\ ~(k + 1 <= i) /\ k + 1 # i + 1
        BY <1>1, <2>4
      <4>2. At(h, t, k) = At(h, s, k - 1)
        BY <1>2, <4>1
      <4>3. At(h, t, k + 1) = At(h, s, (k + 1) - 1)
        BY <1>2, <4>1
      <4> QED
        BY <4>1, <4>2, <4>3
    <3>2. At(h, s, k - 1) # before
      BY <1>1, <2>4, <3>1
    <3>3. At(h, s, k) # behind
      <4>1. k \in 1..(n + 1) /\ i + 1 \in 1..(n + 1) /\ k # i + 1
        BY <1>1, <2>4
      <4> QED
        BY <1>1, <4>1
    <3> QED
      BY <1>1, <1>4, <3>1, <3>2, <3>3
  <2> QED
    BY <1>1, <2>1, <2>2, <2>3, <2>4
<1> QED
  BY <1>2, <1>4, <1>5, <1>6 DEF RingOf, M, t

(* list_del of an element of a ring.                                       *)
LEMMA ListDel ==
  ASSUME NEW D, NEW L \in MemoryOf(D), NEW h \in D, NEW s \in Seq(D), RingOf(L, h, s),
         NEW i \in 1..Len(s)
  PROVE  /\ list_del(L, s[i]) \in MemoryOf(D)
         /\ RingOf(list_del(L, s[i]), h, Without(s, i))
<1> DEFINE n == Len(s)
           t == Without(s, i)
           x == s[i]
           before == At(h, s, i - 1)
           behind == At(h, s, i + 1)
           M == list_del(L, x)
<1>1. /\ n \in Nat /\ i \in 1..n
      /\ \A k \in Int : At(h, s, k) \in D
      /\ x = At(h, s, i)
      /\ \A j, k \in 0..n : At(h, s, j) = At(h, s, k) => j = k
      /\ \A j, k \in 1..(n + 1) : At(h, s, j) = At(h, s, k) => j = k
      /\ \A k \in 0..n : /\ L.next[At(h, s, k)] = At(h, s, k + 1)
                         /\ L.prev[At(h, s, k + 1)] = At(h, s, k)
  <2>1. n \in Nat /\ i \in 1..n /\ \A k \in Int : At(h, s, k) \in D
    BY AtProperties
  <2>2. x = At(h, s, i)
    BY AtProperties
  <2>3. /\ \A j, k \in 0..n : At(h, s, j) = At(h, s, k) => j = k
        /\ \A j, k \in 1..(n + 1) : At(h, s, j) = At(h, s, k) => j = k
    BY AtInjective
  <2> QED
    BY <2>1, <2>2, <2>3 DEF RingOf
<1>2. /\ Len(t) = n - 1
      /\ \A k \in 0..n : At(h, t, k) = IF k < i THEN At(h, s, k) ELSE At(h, s, k + 1)
  BY WithoutAt
<1>3. before \in D /\ behind \in D /\ L.next[x] = behind /\ L.prev[x] = before
  <2>1. i - 1 \in 0..n /\ (i - 1) + 1 = i /\ i \in 0..n /\ i - 1 \in Int /\ i + 1 \in Int
    BY <1>1
  <2>2. L.next[At(h, s, i)] = behind /\ L.prev[At(h, s, (i - 1) + 1)] = before
    BY <1>1, <2>1
  <2>3. L.next[x] = behind /\ L.prev[x] = before
    BY <1>1, <2>1, <2>2
  <2> QED
    BY <1>1, <2>1, <2>3
<1>4. /\ M \in MemoryOf(D)
      /\ M.next[before] = behind /\ M.prev[behind] = before
      /\ \A y \in D : y # before => M.next[y] = L.next[y]
      /\ \A y \in D : y # behind => M.prev[y] = L.prev[y]
  <2> HIDE DEF before, behind, x
  <2> QED
    BY <1>3 DEF list_del, MemoryOf
<1> HIDE DEF n, t, M
<1>5. \A j, k \in 0..(n - 1) : At(h, t, j) = At(h, t, k) => j = k
  <2> SUFFICES ASSUME NEW j \in 0..(n - 1), NEW k \in 0..(n - 1), At(h, t, j) = At(h, t, k)
               PROVE  j = k
    OBVIOUS
  <2> DEFINE old(m) == IF m < i THEN m ELSE m + 1
  <2>1. j \in 0..n /\ k \in 0..n /\ old(j) \in 0..n /\ old(k) \in 0..n
    BY <1>1
  <2>2. At(h, t, j) = At(h, s, old(j)) /\ At(h, t, k) = At(h, s, old(k))
    BY <1>2, <2>1
  <2>3. old(j) = old(k) => j = k
    BY <1>1
  <2> HIDE DEF old
  <2> QED
    BY <1>1, <2>1, <2>2, <2>3
<1>6. ASSUME NEW k \in 0..(n - 1)
      PROVE  M.next[At(h, t, k)] = At(h, t, k + 1) /\ M.prev[At(h, t, k + 1)] = At(h, t, k)
  <2>0. k \in 0..n /\ k + 1 \in 0..n /\ i - 1 \in 0..n
    BY <1>1
  <2>1. CASE k + 1 < i
    <3>1. /\ At(h, t, k) = At(h, s, k) /\ At(h, t, k + 1) = At(h, s, k + 1)
          /\ k # i - 1
      <4>1. k < i /\ k # i - 1
        BY <1>1, <2>0, <2>1
      <4> QED
        BY <1>2, <2>0, <2>1, <4>1
    <3>2. At(h, s, k) # before
      BY <1>1, <2>0, <3>1
    <3>3. At(h, s, k + 1) # behind
      <4>1. k + 1 \in 1..(n + 1) /\ i + 1 \in 1..(n + 1) /\ k + 1 # i + 1
        BY <1>1, <2>0, <2>1
      <4> QED
        BY <1>1, <4>1
    <3> QED
      BY <1>1, <1>4, <2>0, <3>1, <3>2, <3>3
  <2>2. CASE k + 1 = i
    <3>1. k = i - 1 /\ k < i /\ ~(k + 1 < i) /\ (k + 1) + 1 = i + 1
      BY <1>1, <2>2
    <3>2. At(h, t, k) = before /\ At(h, t, k + 1) = behind
      BY <1>2, <2>0, <3>1
    <3> QED
      BY <1>4, <3>2
  <2>3. CASE k >= i
    <3>1. /\ At(h, t, k) = At(h, s, k + 1) /\ At(h, t, k + 1) = At(h, s, (k + 1) + 1)
          /\ k + 1 # i - 1
      BY <1>1, <1>2, <2>0, <2>3
    <3>2. At(h, s, k + 1) # before
      BY <1>1, <2>0, <3>1
    <3>3. At(h, s, (k + 1) + 1) # behind
      <4>1. (k + 1) + 1 \in 1..(n + 1) /\ i + 1 \in 1..(n + 1) /\ (k + 1) + 1 # i + 1
        BY <1>1, <2>0, <2>3
      <4> QED
        BY <1>1, <4>1
    <3> QED
      BY <1>1, <1>4, <2>0, <3>1, <3>2, <3>3
  <2> QED
    BY <1>1, <2>1, <2>2, <2>3
<1> QED
  BY <1>2, <1>4, <1>5, <1>6 DEF RingOf, M, t

(* A ring of which no node is written stays.                               *)
LEMMA RingStays ==
  ASSUME NEW X, NEW h \in X, NEW s \in Seq(X), NEW L, NEW M, RingOf(L, h, s),
         \A y \in Ring(h, s) : M.next[y] = L.next[y] /\ M.prev[y] = L.prev[y]
  PROVE  RingOf(M, h, s)
<1>1. \A i \in 0..Len(s) : i \in 0..(Len(s) + 1) /\ i + 1 \in 0..(Len(s) + 1)
  BY AtProperties
<1>2. \A i \in 0..Len(s) : At(h, s, i) \in Ring(h, s) /\ At(h, s, i + 1) \in Ring(h, s)
  BY <1>1, AtProperties
<1> QED
  BY <1>2 DEF RingOf

(* f[k] is where a cursor that starts at h is after k steps.               *)
Follows(f, nx, h) == \A k \in Nat : f[k] = IF k = 0 THEN h ELSE nx[f[k - 1]]

(* A cursor that follows next is a function: it exists, one step at a time *)
(* (induction by the least number of steps for which it does not).         *)
LEMMA Iterates ==
  ASSUME NEW D, NEW nx \in [D -> D], NEW h \in D
  PROVE  \E f \in [Nat -> D] : Follows(f, nx, h)
<1> DEFINE runs(g, k) == /\ g \in [0..k -> D] /\ g[0] = h
                         /\ \A i \in 1..k : g[i] = nx[g[i - 1]]
           Bad == {k \in Nat : ~\E g \in [0..k -> D] : runs(g, k)}
<1>1. Bad = {}
  <2> SUFFICES ASSUME Bad # {} PROVE FALSE
    OBVIOUS
  <2>1. PICK k \in Bad : \A j \in Bad : k <= j
    <3>1. Bad \in SUBSET Nat
      OBVIOUS
    <3> HIDE DEF Bad
    <3> QED
      BY <3>1, Facts!Smallest
  <2>2. k \in Nat /\ ~\E g \in [0..k -> D] : runs(g, k)
    OBVIOUS
  <2>3. k # 0
    <3>1. runs([i \in 0..0 |-> h], 0) /\ [i \in 0..0 |-> h] \in [0..0 -> D]
      OBVIOUS
    <3> QED
      BY <2>2, <3>1
  <2>4. k - 1 \in Nat /\ k - 1 \notin Bad
    <3>1. k - 1 \in Nat /\ ~(k <= k - 1)
      BY <2>2, <2>3
    <3> QED
      BY <2>1, <3>1
  <2>5. PICK g \in [0..(k - 1) -> D] : runs(g, k - 1)
    BY <2>4
  <2> DEFINE f == [i \in 0..k |-> IF i = k THEN nx[g[k - 1]] ELSE g[i]]
  <2>6. k - 1 \in 0..(k - 1) /\ \A i \in 0..k : i = k \/ i \in 0..(k - 1)
    BY <2>4
  <2>7. f \in [0..k -> D]
    BY <2>5, <2>6
  <2>8. 0 \in 0..(k - 1) /\ 0 \in 0..k /\ k # 0
    BY <2>2, <2>3
  <2>9. \A i \in 1..k : /\ i - 1 \in 0..(k - 1) /\ i - 1 \in 0..k /\ i - 1 # k
                        /\ i \in 0..k /\ (i = k \/ i \in 1..(k - 1))
    BY <2>2
  <2>10. f[0] = h
    BY <2>5, <2>8
  <2>11. \A i \in 1..k : f[i] = nx[f[i - 1]]
    BY <2>5, <2>9
  <2> QED
    BY <2>2, <2>7, <2>10, <2>11
<1>2. ASSUME NEW j \in Nat, NEW k \in Nat, NEW g, NEW f, runs(g, j), runs(f, k)
      PROVE  \A i \in 0..j : i <= k => g[i] = f[i]
  <2> DEFINE Differ == {i \in 0..j : i <= k /\ g[i] # f[i]}
  <2> SUFFICES ASSUME Differ # {} PROVE FALSE
    OBVIOUS
  <2>1. PICK i \in Differ : \A m \in Differ : i <= m
    <3>1. Differ \in SUBSET Nat
      OBVIOUS
    <3> HIDE DEF Differ
    <3> QED
      BY <3>1, Facts!Smallest
  <2>2. i \in 0..j /\ i <= k /\ g[i] # f[i]
    OBVIOUS
  <2>3. i # 0
    BY <1>2, <2>2
  <2>4. /\ i - 1 \in 0..j /\ i - 1 <= k /\ i - 1 \notin Differ
        /\ i \in 1..j /\ i \in 1..k
    <3>1. i - 1 \in 0..j /\ i - 1 <= k /\ ~(i <= i - 1) /\ i \in 1..j /\ i \in 1..k
      BY <2>2, <2>3
    <3> QED
      BY <2>1, <3>1
  <2>5. g[i - 1] = f[i - 1]
    BY <2>4
  <2> QED
    BY <1>2, <2>2, <2>4, <2>5
<1> DEFINE run(k) == CHOOSE g \in [0..k -> D] : runs(g, k)
           f == [k \in Nat |-> run(k)[k]]
<1>3. \A k \in Nat : run(k) \in [0..k -> D] /\ runs(run(k), k)
  BY <1>1
<1> HIDE DEF run
<1>4. f \in [Nat -> D]
  <2>1. \A k \in Nat : k \in 0..k
    OBVIOUS
  <2> QED
    BY <1>3, <2>1
<1>5. \A k \in Nat : f[k] = IF k = 0 THEN h ELSE nx[f[k - 1]]
  <2> SUFFICES ASSUME NEW k \in Nat PROVE f[k] = IF k = 0 THEN h ELSE nx[f[k - 1]]
    OBVIOUS
  <2>1. CASE k = 0
    BY <1>3, <2>1
  <2>2. CASE k # 0
    <3>1. k - 1 \in Nat /\ k - 1 \in 0..(k - 1) /\ k - 1 <= k /\ k \in 1..k
      BY <2>2
    <3>2. run(k)[k] = nx[run(k)[k - 1]]
      BY <1>3, <3>1
    <3>3. run(k - 1)[k - 1] = run(k)[k - 1]
      <4>1. runs(run(k - 1), k - 1) /\ runs(run(k), k)
        BY <1>3, <3>1
      <4> HIDE DEF runs
      <4> QED
        BY <1>2, <3>1, <4>1
    <3>4. f[k] = run(k)[k] /\ f[k - 1] = run(k - 1)[k - 1]
      BY <3>1
    <3> QED
      BY <2>2, <3>2, <3>3, <3>4
  <2> QED
    BY <2>1, <2>2
<1> HIDE DEF f
<1> QED
  BY <1>4, <1>5 DEF Follows

(* list_for_each visits a ring from its first node to its last and ends.   *)
LEMMA ForEach ==
  ASSUME NEW D, IsFiniteSet(D), NEW L \in MemoryOf(D), NEW h \in D, NEW s \in Seq(D),
         RingOf(L, h, s)
  PROVE  /\ visits(L, h).ends
         /\ list_for_each(L, h) = s
<1> DEFINE n == Len(s)
           N == Cardinality(D)
           at[k \in Nat] == IF k = 0 THEN h ELSE L.next[at[k - 1]]
           back == {k \in 1..N : at[k] = h}
<1>1. /\ n \in Nat /\ DOMAIN s = 1..n
      /\ \A i \in Int : At(h, s, i) \in D
      /\ At(h, s, 0) = h /\ At(h, s, n + 1) = h
      /\ \A i \in 1..n : At(h, s, i) = s[i]
  BY AtProperties
<1>2. L.next \in [D -> D]
  BY DEF MemoryOf
<1>3. N \in Nat /\ n + 1 <= N
  <2> DEFINE f == [i \in 0..n |-> At(h, s, i)]
  <2>1. f \in [0..n -> D]
    BY <1>1
  <2>2. \A i, j \in 0..n : f[i] = f[j] => i = j
    BY DEF RingOf
  <2>3. f \in Injection(0..n, D)
    <3> HIDE DEF f
    <3> QED
      BY <2>1, <2>2 DEF Injection, IsInjective
  <2>4. IsFiniteSet(0..n) /\ Cardinality(0..n) = n + 1
    <3> HIDE DEF n
    <3>1. 0 \in Int /\ n \in Int /\ ~(0 > n) /\ n - 0 + 1 = n + 1
      BY <1>1
    <3> QED
      BY <3>1, FS_Interval
  <2> HIDE DEF f, n
  <2>5. Cardinality(0..n) <= N
    BY <2>3, FS_Injection
  <2> QED
    BY <2>4, <2>5, FS_CardinalityType
<1>4. /\ at[0] = h
      /\ \A k \in Nat \ {0} : at[k] = L.next[at[k - 1]]
  <2> DEFINE solves(f) == f = [k \in Nat |-> IF k = 0 THEN h ELSE L.next[f[k - 1]]]
  <2>1. at = CHOOSE f : solves(f)
    OBVIOUS
  <2>2. PICK f \in [Nat -> D] : Follows(f, L.next, h)
    BY <1>2, Iterates
  <2>3. f = [k \in Nat |-> IF k = 0 THEN h ELSE L.next[f[k - 1]]]
    BY <2>2 DEF Follows
  <2>4. solves(f)
    BY <2>3
  <2> HIDE DEF solves, at
  <2>5. solves(at)
    BY <2>1, <2>4
  <2>6. at = [k \in Nat |-> IF k = 0 THEN h ELSE L.next[at[k - 1]]]
    BY <2>5 DEF solves
  <2> QED
    BY <2>6
<1>5. list_for_each(L, h) = (LET last == IF back = {} THEN N ELSE (CHOOSE k \in back : \A j \in back : k <= j) - 1
                             IN  [k \in 1..last |-> at[k]])
      /\ visits(L, h).ends = (back # {})
  <2>1. DOMAIN L.next = D
    BY <1>2
  <2> QED
    BY <2>1 DEF list_for_each, visits
<1> HIDE DEF at, n, N
<1>7. \A k \in 0..(n + 1) : at[k] = At(h, s, k)
  <2> DEFINE Bad == {k \in 0..(n + 1) : at[k] # At(h, s, k)}
  <2> SUFFICES ASSUME Bad # {} PROVE FALSE
    OBVIOUS
  <2>1. PICK k \in Bad : \A j \in Bad : k <= j
    <3>1. Bad \in SUBSET Nat
      BY <1>1
    <3> HIDE DEF Bad
    <3> QED
      BY <3>1, Facts!Smallest
  <2>2. k \in 0..(n + 1) /\ at[k] # At(h, s, k)
    OBVIOUS
  <2>3. k # 0
    BY <1>1, <1>4, <2>2
  <2>4. /\ k - 1 \in 0..n /\ k - 1 \in 0..(n + 1) /\ (k - 1) + 1 = k /\ k \in Nat \ {0}
        /\ ~(k <= k - 1)
    BY <1>1, <2>2, <2>3
  <2>5. at[k - 1] = At(h, s, k - 1)
    BY <2>1, <2>4
  <2>6. L.next[At(h, s, k - 1)] = At(h, s, k)
    BY <2>4 DEF RingOf, n
  <2> QED
    BY <1>4, <2>2, <2>4, <2>5, <2>6
<1>8. \A k \in 1..n : at[k] = s[k] /\ s[k] # h
  <2> SUFFICES ASSUME NEW k \in 1..n PROVE at[k] = s[k] /\ s[k] # h
    OBVIOUS
  <2>1. k \in 0..n /\ 0 \in 0..n /\ k # 0 /\ k \in 0..(n + 1)
    BY <1>1
  <2>2. At(h, s, k) # At(h, s, 0)
    BY <2>1 DEF RingOf, n
  <2> QED
    BY <1>1, <1>7, <2>1, <2>2
<1>9. n + 1 \in back /\ \A k \in back : n + 1 <= k
  <2>1. n + 1 \in 1..N /\ n + 1 \in 0..(n + 1)
    BY <1>1, <1>3
  <2>2. at[n + 1] = h
    BY <1>1, <1>7, <2>1
  <2>3. \A k \in 1..N : k \in 1..n \/ n + 1 <= k
    BY <1>1, <1>3
  <2> QED
    BY <1>8, <2>1, <2>2, <2>3
<1>10. back \subseteq Int
  BY <1>3
<1> HIDE DEF back
<1>11. (CHOOSE k \in back : \A j \in back : k <= j) = n + 1
  <2>1. ASSUME NEW k \in back, \A j \in back : k <= j PROVE k = n + 1
    BY <1>1, <1>9, <1>10, <2>1
  <2> QED
    BY <1>9, <2>1
<1>12. list_for_each(L, h) = [k \in 1..n |-> at[k]] /\ visits(L, h).ends
  <2>1. (n + 1) - 1 = n
    BY <1>1
  <2> QED
    BY <1>5, <1>9, <1>11, <2>1
<1>13. s = [k \in 1..n |-> s[k]]
  BY <1>1, LenProperties
<1> QED
  BY <1>8, <1>12, <1>13

(* What the first node of a ring says.                                     *)
LEMMA RingFirst ==
  ASSUME NEW X, NEW h \in X, NEW s \in Seq(X), NEW L, RingOf(L, h, s)
  PROVE  /\ list_empty(L, h) <=> s = <<>>
         /\ s # <<>> => Len(s) \in Nat \ {0} /\ L.next[h] = s[1] /\ s[1] # h
<1>1. /\ Len(s) \in Nat /\ At(h, s, 0) = h /\ At(h, s, Len(s) + 1) = h
      /\ \A i \in 1..Len(s) : At(h, s, i) = s[i]
  BY AtProperties
<1>2. L.next[At(h, s, 0)] = At(h, s, 0 + 1)
  <2>1. 0 \in 0..Len(s)
    BY <1>1
  <2> QED
    BY <2>1 DEF RingOf
<1>3. L.next[h] = At(h, s, 1)
  BY <1>1, <1>2
<1>4. CASE s = <<>>
  <2>1. Len(s) = 0
    BY <1>4
  <2> QED
    BY <1>1, <1>3, <1>4, <2>1 DEF list_empty
<1>5. CASE s # <<>>
  <2>1. Len(s) \in Nat \ {0}
    BY <1>5, EmptySeq
  <2>2. 1 \in 1..Len(s) /\ 1 \in 0..Len(s) /\ 0 \in 0..Len(s)
    BY <2>1
  <2>3. At(h, s, 1) = s[1] /\ At(h, s, 1) # At(h, s, 0)
    BY <1>1, <2>2 DEF RingOf
  <2> QED
    BY <1>1, <1>3, <1>5, <2>1, <2>3 DEF list_empty
<1> QED
  BY <1>4, <1>5

(* Q has the ring of every head in A, and they share no node.              *)
Rings(L, A, Q) ==
  /\ \A h \in A : RingOf(L, h, Q[h])
  /\ \A g, h \in A : g # h => Ring(g, Q[g]) \intersect Ring(h, Q[h]) = {}

(* No node outside S is written; no ring has a node of X.                  *)
Untouched(D, L, M, S) == \A y \in D \ S : M.next[y] = L.next[y] /\ M.prev[y] = L.prev[y]
Clear(A, Q, X) == \A g \in A : Ring(g, Q[g]) \intersect X = {}

(* A memory whose other rings are untouched.                               *)
LEMMA OneRing ==
  ASSUME NEW D, NEW L, NEW M, NEW A \in SUBSET D, NEW Q \in [A -> Seq(D)], Rings(L, A, Q),
         NEW h \in A, NEW t \in Seq(D), RingOf(M, h, t), NEW X,
         Ring(h, t) \subseteq Ring(h, Q[h]) \union X,
         Clear(A, Q, X), Untouched(D, L, M, Ring(h, Q[h]) \union X)
  PROVE  /\ [Q EXCEPT ![h] = t] \in [A -> Seq(D)]
         /\ Rings(M, A, [Q EXCEPT ![h] = t])
<1> DEFINE R == [Q EXCEPT ![h] = t]
<1>1. R \in [A -> Seq(D)] /\ R[h] = t /\ \A g \in A \ {h} : R[g] = Q[g]
  OBVIOUS
<1> HIDE DEF R
<1>2. \A g \in A : Q[g] \in Seq(D) /\ g \in D
  OBVIOUS
<1>3. \A g \in A \ {h} : RingOf(M, g, R[g])
  <2> SUFFICES ASSUME NEW g \in A \ {h} PROVE RingOf(M, g, R[g])
    OBVIOUS
  <2>1. RingOf(L, g, Q[g]) /\ Ring(g, Q[g]) \subseteq D
    BY <1>2, AtProperties DEF Rings
  <2>2. \A y \in Ring(g, Q[g]) : y \in D \ (Ring(h, Q[h]) \union X)
    BY <2>1 DEF Rings, Clear
  <2> QED
    BY <1>1, <1>2, <2>1, <2>2, RingStays DEF Untouched
<1>4. \A g \in A \ {h} : Ring(g, R[g]) \intersect Ring(h, R[h]) = {}
  BY <1>1 DEF Rings, Clear
<1>5. \A f, g \in A \ {h} : f # g => Ring(f, R[f]) \intersect Ring(g, R[g]) = {}
  BY <1>1 DEF Rings
<1> QED
  BY <1>1, <1>3, <1>4, <1>5 DEF Rings, R

(* __list_add of a node that is in no ring.                                *)
LEMMA RingsAdd ==
  ASSUME NEW D, NEW L \in MemoryOf(D), NEW A \in SUBSET D, NEW Q \in [A -> Seq(D)],
         Rings(L, A, Q), NEW h \in A, NEW x \in D, \A g \in A : x \notin Ring(g, Q[g]),
         NEW i \in 0..Len(Q[h])
  PROVE  LET M == link_between(L, x, At(h, Q[h], i), At(h, Q[h], i + 1))
             R == [Q EXCEPT ![h] = Inserted(Q[h], i, x)]
         IN  M \in MemoryOf(D) /\ R \in [A -> Seq(D)] /\ Rings(M, A, R)
<1> DEFINE s == Q[h]
           t == Inserted(s, i, x)
           before == At(h, s, i)
           behind == At(h, s, i + 1)
           M == link_between(L, x, before, behind)
<1>1. /\ s \in Seq(D) /\ RingOf(L, h, s) /\ h \in D /\ x \notin Ring(h, s)
      /\ i \in 0..Len(s)
  BY DEF Rings
<1> HIDE DEF s
<1>2. M \in MemoryOf(D) /\ RingOf(M, h, t)
  BY <1>1, LinkBetween
<1>3. t \in Seq(D) /\ Ring(h, t) = Ring(h, s) \union {x}
  <2> HIDE DEF M
  <2>1. t \in Seq(D)
    BY <1>1, InsertedAt
  <2>2. Ring(h, t) = Ring(h, s) \union {x}
    BY <1>1, InsertedRing
  <2> QED
    BY <2>1, <2>2
<1>4. before \in Ring(h, s) /\ behind \in Ring(h, s)
  <2>1. Len(s) \in Nat
    BY <1>1, LenProperties
  <2>2. i \in 0..(Len(s) + 1) /\ i + 1 \in 0..(Len(s) + 1)
    BY <1>1, <2>1
  <2> QED
    BY <1>1, <2>2, AtProperties
<1>5. \A y \in D \ (Ring(h, s) \union {x}) : M.next[y] = L.next[y] /\ M.prev[y] = L.prev[y]
  <2> HIDE DEF before, behind
  <2>1. \A y \in D : y # x /\ y # before /\ y # behind
                       => M.next[y] = L.next[y] /\ M.prev[y] = L.prev[y]
    BY DEF link_between, MemoryOf
  <2> HIDE DEF M
  <2> QED
    BY <1>4, <2>1
<1> HIDE DEF t, M
<1>6. [Q EXCEPT ![h] = t] \in [A -> Seq(D)] /\ Rings(M, A, [Q EXCEPT ![h] = t])
  <2>1. Ring(h, t) \subseteq Ring(h, Q[h]) \union {x}
    BY <1>3 DEF s
  <2>2. Clear(A, Q, {x})
    BY DEF Clear
  <2>3. Untouched(D, L, M, Ring(h, Q[h]) \union {x})
    BY <1>5 DEF s, Untouched
  <2> QED
    BY <1>2, <1>3, <2>1, <2>2, <2>3, OneRing
<1> QED
  BY <1>2, <1>6 DEF t, M, s

(* list_add puts a node that is in no ring behind the head of one, and     *)
(* leaves the other rings alone.                                           *)
LEMMA RingsAddFirst ==
  ASSUME NEW D, NEW L \in MemoryOf(D), NEW A \in SUBSET D, NEW Q \in [A -> Seq(D)],
         Rings(L, A, Q), NEW h \in A, NEW x \in D, \A g \in A : x \notin Ring(g, Q[g])
  PROVE  LET R == [Q EXCEPT ![h] = Inserted(Q[h], 0, x)]
         IN  /\ list_add(L, x, h) \in MemoryOf(D)
             /\ R \in [A -> Seq(D)]
             /\ Rings(list_add(L, x, h), A, R)
<1> DEFINE n == 0
<1>1. Q[h] \in Seq(D) /\ RingOf(L, h, Q[h]) /\ h \in D
  BY DEF Rings
<1>2. n \in 0..Len(Q[h]) /\ At(h, Q[h], n) = h
  BY <1>1, AtProperties
<1> HIDE DEF n
<1>3. At(h, Q[h], n + 1) = L.next[h]
  BY <1>1, <1>2 DEF RingOf
<1>4. list_add(L, x, h) = link_between(L, x, At(h, Q[h], n), At(h, Q[h], n + 1))
  BY <1>2, <1>3 DEF list_add
<1>5. LET M == link_between(L, x, At(h, Q[h], n), At(h, Q[h], n + 1))
          R == [Q EXCEPT ![h] = Inserted(Q[h], n, x)]
      IN  M \in MemoryOf(D) /\ R \in [A -> Seq(D)] /\ Rings(M, A, R)
  BY <1>2, RingsAdd
<1> QED
  BY <1>4, <1>5 DEF n

(* list_add_tail puts it before the head, at the end of the list.          *)
LEMMA RingsAddLast ==
  ASSUME NEW D, NEW L \in MemoryOf(D), NEW A \in SUBSET D, NEW Q \in [A -> Seq(D)],
         Rings(L, A, Q), NEW h \in A, NEW x \in D, \A g \in A : x \notin Ring(g, Q[g])
  PROVE  LET R == [Q EXCEPT ![h] = Inserted(Q[h], Len(Q[h]), x)]
         IN  /\ list_add_tail(L, x, h) \in MemoryOf(D)
             /\ R \in [A -> Seq(D)]
             /\ Rings(list_add_tail(L, x, h), A, R)
<1> DEFINE n == Len(Q[h])
<1>1. Q[h] \in Seq(D) /\ RingOf(L, h, Q[h]) /\ h \in D
  BY DEF Rings
<1>2. n \in 0..Len(Q[h]) /\ At(h, Q[h], n + 1) = h
  BY <1>1, AtProperties
<1>3. At(h, Q[h], n) = L.prev[h]
  BY <1>2 DEF RingOf, Rings
<1>4. list_add_tail(L, x, h) = link_between(L, x, At(h, Q[h], n), At(h, Q[h], n + 1))
  BY <1>2, <1>3 DEF list_add_tail
<1> HIDE DEF n
<1>5. LET M == link_between(L, x, At(h, Q[h], n), At(h, Q[h], n + 1))
          R == [Q EXCEPT ![h] = Inserted(Q[h], n, x)]
      IN  M \in MemoryOf(D) /\ R \in [A -> Seq(D)] /\ Rings(M, A, R)
  BY <1>2, RingsAdd
<1> QED
  BY <1>4, <1>5 DEF n

(* list_del of an element of a ring: afterwards it is in none.             *)
LEMMA RingsDel ==
  ASSUME NEW D, NEW L \in MemoryOf(D), NEW A \in SUBSET D, NEW Q \in [A -> Seq(D)],
         Rings(L, A, Q), NEW h \in A, NEW i \in 1..Len(Q[h])
  PROVE  LET x == Q[h][i]
             M == list_del(L, x)
             R == [Q EXCEPT ![h] = Without(Q[h], i)]
         IN  /\ M \in MemoryOf(D) /\ R \in [A -> Seq(D)] /\ Rings(M, A, R)
             /\ x \in D /\ \A g \in A : x \notin Ring(g, R[g])
<1> DEFINE s == Q[h]
           t == Without(s, i)
           x == s[i]
           M == list_del(L, x)
           R == [Q EXCEPT ![h] = t]
<1>1. s \in Seq(D) /\ RingOf(L, h, s) /\ h \in D /\ i \in 1..Len(s)
  BY DEF Rings
<1> HIDE DEF s
<1>2. M \in MemoryOf(D) /\ RingOf(M, h, t)
  BY <1>1, ListDel
<1>3. t \in Seq(D) /\ Ring(h, t) \subseteq Ring(h, s)
  BY <1>1, WithoutAt
<1>4. /\ Len(s) \in Nat /\ x = At(h, s, i) /\ x \in D /\ x \in Ring(h, s)
      /\ At(h, s, i - 1) \in Ring(h, s) /\ At(h, s, i + 1) \in Ring(h, s)
  <2>1. Len(s) \in Nat /\ x = At(h, s, i) /\ x \in D
    BY <1>1, AtProperties, ElementOfSeq
  <2>2. i \in 0..(Len(s) + 1) /\ i - 1 \in 0..(Len(s) + 1) /\ i + 1 \in 0..(Len(s) + 1)
    BY <1>1, <2>1
  <2>3. \A k \in 0..(Len(s) + 1) : At(h, s, k) \in Ring(h, s)
    BY <1>1, AtProperties
  <2> QED
    BY <2>1, <2>2, <2>3
<1>5. L.next[x] = At(h, s, i + 1) /\ L.prev[x] = At(h, s, i - 1)
  <2>1. i \in 0..Len(s) /\ i - 1 \in 0..Len(s) /\ (i - 1) + 1 = i
    BY <1>1, <1>4
  <2>2. L.next[At(h, s, i)] = At(h, s, i + 1) /\ L.prev[At(h, s, (i - 1) + 1)] = At(h, s, i - 1)
    BY <1>1, <2>1 DEF RingOf
  <2> QED
    BY <1>4, <2>1, <2>2
<1>6. \A y \in D \ (Ring(h, s) \union {}) : M.next[y] = L.next[y] /\ M.prev[y] = L.prev[y]
  <2>1. \A y \in D : y # L.prev[x] /\ y # L.next[x]
                       => M.next[y] = L.next[y] /\ M.prev[y] = L.prev[y]
    <3> HIDE DEF x
    <3> QED
      BY DEF list_del, MemoryOf
  <2> QED
    BY <1>4, <1>5, <2>1
<1>7. R \in [A -> Seq(D)] /\ Rings(M, A, R)
  <2> HIDE DEF t, M, x
  <2>1. Ring(h, t) \subseteq Ring(h, Q[h]) \union {}
    BY <1>3 DEF s
  <2>2. Clear(A, Q, {})
    BY DEF Clear
  <2>3. Untouched(D, L, M, Ring(h, Q[h]) \union {})
    BY <1>6 DEF s, Untouched
  <2> QED
    BY <1>2, <1>3, <2>1, <2>2, <2>3, OneRing
<1>8. x \notin Ring(h, t)
  <2>1. Len(t) = Len(s) - 1
        /\ \A k \in 0..Len(s) : At(h, t, k) = IF k < i THEN At(h, s, k) ELSE At(h, s, k + 1)
    BY <1>1, WithoutAt
  <2>2. \A k \in 0..(Len(s) - 1) : At(h, t, k) # x
    <3> SUFFICES ASSUME NEW k \in 0..(Len(s) - 1), At(h, t, k) = x PROVE FALSE
      OBVIOUS
    <3>1. k \in 0..Len(s) /\ k + 1 \in 0..Len(s) /\ i \in 0..Len(s)
      BY <1>1, <1>4
    <3>2. \A j \in 0..Len(s) : At(h, s, j) = At(h, s, i) => j = i
      BY <1>1, <3>1 DEF RingOf
    <3>3. CASE k < i
      BY <1>1, <1>4, <2>1, <3>1, <3>2, <3>3
    <3>4. CASE ~(k < i)
      <4>1. k + 1 # i
        BY <1>1, <3>1, <3>4
      <4>2. At(h, t, k) = At(h, s, k + 1)
        BY <2>1, <3>1, <3>4
      <4> QED
        BY <1>4, <3>1, <3>2, <4>1, <4>2
    <3> QED
      BY <3>3, <3>4
  <2> QED
    BY <2>1, <2>2 DEF Ring
<1>9. \A g \in A : x \notin Ring(g, R[g])
  <2>1. \A g \in A \ {h} : R[g] = Q[g] /\ x \notin Ring(g, Q[g])
    BY <1>4 DEF Rings, s
  <2>2. R[h] = t
    OBVIOUS
  <2> QED
    BY <1>8, <2>1, <2>2
<1> QED
  BY <1>2, <1>4, <1>7, <1>9 DEF s

(* The rings of Q and that of x alone.                                     *)
Alone(A, Q, x) == [g \in A \union {x} |-> IF g = x THEN <<>> ELSE Q[g]]

(* INIT_LIST_HEAD of a node that is in no ring makes it one.               *)
LEMMA RingsInit ==
  ASSUME NEW D, NEW L \in MemoryOf(D), NEW A \in SUBSET D, NEW Q \in [A -> Seq(D)],
         Rings(L, A, Q), NEW x \in D, \A g \in A : x \notin Ring(g, Q[g])
  PROVE  /\ INIT_LIST_HEAD(L, x) \in MemoryOf(D)
         /\ Alone(A, Q, x) \in [(A \union {x}) -> Seq(D)]
         /\ Rings(INIT_LIST_HEAD(L, x), A \union {x}, Alone(A, Q, x))
<1> DEFINE M == INIT_LIST_HEAD(L, x)
           R == Alone(A, Q, x)
           none == <<>>
<1>1. none \in Seq(D) /\ Len(none) = 0
  OBVIOUS
<1>2. /\ M \in MemoryOf(D) /\ M.next[x] = x /\ M.prev[x] = x
      /\ \A y \in D \ {x} : M.next[y] = L.next[y] /\ M.prev[y] = L.prev[y]
  BY DEF INIT_LIST_HEAD, MemoryOf
<1> HIDE DEF none
<1>3. \A g \in A : Q[g] \in Seq(D) /\ g \in D /\ g # x
  <2>1. \A g \in A : Q[g] \in Seq(D) /\ g \in D
    OBVIOUS
  <2>2. \A g \in A : g \in Ring(g, Q[g])
    BY <2>1, AtProperties
  <2> QED
    BY <2>1, <2>2
<1>4. /\ R \in [(A \union {x}) -> Seq(D)]
      /\ R[x] = none /\ \A g \in A : R[g] = Q[g]
  BY <1>1, <1>3 DEF none, Alone
<1> HIDE DEF M, R
<1>5. RingOf(M, x, none) /\ Ring(x, none) = {x}
  <2>1. \A i \in Int : At(x, none, i) = x
    BY <1>1 DEF At
  <2>2. \A i \in 0..0 : i = 0
    OBVIOUS
  <2> QED
    BY <1>1, <1>2, <2>1, <2>2 DEF RingOf, Ring
<1>6. \A g \in A : RingOf(M, g, R[g])
  <2> SUFFICES ASSUME NEW g \in A PROVE RingOf(M, g, R[g])
    OBVIOUS
  <2>1. RingOf(L, g, Q[g]) /\ Ring(g, Q[g]) \subseteq D
    BY <1>3, AtProperties DEF Rings
  <2>2. \A y \in Ring(g, Q[g]) : y \in D \ {x}
    BY <2>1
  <2> QED
    BY <1>2, <1>3, <1>4, <2>1, <2>2, RingStays
<1> QED
  BY <1>2, <1>4, <1>5, <1>6 DEF Rings, M, R

(* Fewer heads.                                                            *)
LEMMA RingsFewer ==
  ASSUME NEW D, NEW L, NEW A \in SUBSET D, NEW Q \in [A -> Seq(D)], Rings(L, A, Q),
         NEW B \in SUBSET A
  PROVE  LET R == [g \in B |-> Q[g]]
         IN  R \in [B -> Seq(D)] /\ Rings(L, B, R)
  BY DEF Rings
=============================================================================
