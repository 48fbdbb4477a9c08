--------------------------- MODULE NucleusProofs ---------------------------
(***************************************************************************)
(* Proofs about Nucleus, for any number of processes, semaphores and       *)
(* devices and for all Uses.  The inductive invariant is IInv.  The        *)
(* exception handlers share the tail of exception_handler, so the proof    *)
(* has one lemma for it (ResumeLemma) and one for each handler.            *)
(***************************************************************************)
EXTENDS Nucleus, ProcQueueProofs, TLAPS

IInv == TypeOK /\ OnePlace /\ CountsExact /\ Resting

(* The ready processes of the queues rq, and what the queues have to be:   *)
(* each process once, on the queue of its priority.                        *)
ReadyOf(rq) == Elems(rq["high"]) \union Elems(rq["low"])
GoodQueues(rq) ==
  /\ rq \in [Prios -> Seq(Procs)]
  /\ \A r \in Prios : Distinct(rq[r]) /\ \A p \in Elems(rq[r]) : p_prio'[p] = r

(* A pcb, or NULL, as a set.                                               *)
Just(p) == {p} \ {NULL}

LEMMA ElemsType == ASSUME NEW P, NEW q \in Seq(P) PROVE Elems(q) \subseteq P
BY LenProperties DEF Elems

LEMMA ElemsEmpty == Elems(<<>>) = {} /\ Distinct(<<>>)
BY DEF Elems, Distinct

(* enqueue_proc adds p to the queue of its priority.                       *)
LEMMA EnqueueGood ==
  ASSUME NEW rq, GoodQueues(rq), NEW p \in Procs, p \notin ReadyOf(rq),
         p_prio' \in [Procs -> Prios]
  PROVE  /\ GoodQueues(enqueue_proc(rq, p))
         /\ ReadyOf(enqueue_proc(rq, p)) = ReadyOf(rq) \union {p}
<1> DEFINE r == p_prio'[p]
           q == insert_proc_q(rq[r], p)
           rq1 == enqueue_proc(rq, p)
<1>1. r \in Prios /\ rq[r] \in Seq(Procs) /\ Distinct(rq[r]) /\ p \notin Elems(rq[r])
  BY DEF GoodQueues, ReadyOf, Prios
<1>2. q \in Seq(Procs) /\ Distinct(q) /\ Elems(q) = Elems(rq[r]) \union {p}
  BY <1>1, InsertProperties
<1>3. /\ rq1 \in [Prios -> Seq(Procs)]
      /\ \A t \in Prios : rq1[t] = IF t = r THEN q ELSE rq[t]
  BY <1>1, <1>2 DEF enqueue_proc, GoodQueues
<1> HIDE DEF q, rq1
<1>4. \A t \in Prios : Distinct(rq1[t]) /\ \A x \in Elems(rq1[t]) : p_prio'[x] = t
  BY <1>2, <1>3 DEF GoodQueues
<1>5. ReadyOf(rq1) = ReadyOf(rq) \union {p}
  BY <1>1, <1>2, <1>3 DEF ReadyOf, Prios
<1> QED
  BY <1>3, <1>4, <1>5 DEF GoodQueues, rq1

(* dequeue_proc takes the first process of a queue from the ready ones.    *)
LEMMA DequeueGood ==
  ASSUME NEW rq, GoodQueues(rq), NEW r \in Prios, rq[r] # <<>>
  PROVE  LET p == head_proc_q(rq[r])
             rq1 == [rq EXCEPT ![r] = Tail(@)]
         IN  /\ GoodQueues(rq1)
             /\ p \in Procs /\ p \notin ReadyOf(rq1)
             /\ ReadyOf(rq) = ReadyOf(rq1) \union {p}
<1> DEFINE p == head_proc_q(rq[r])
           q == Tail(rq[r])
           rq1 == [rq EXCEPT ![r] = Tail(@)]
<1>1. rq[r] \in Seq(Procs) /\ Distinct(rq[r])
  BY DEF GoodQueues
<1>2. /\ p \in Procs /\ p \in Elems(rq[r])
      /\ q \in Seq(Procs) /\ Distinct(q)
      /\ Elems(rq[r]) = Elems(q) \union {p} /\ p \notin Elems(q)
  BY <1>1, RemoveProperties
<1>3. /\ rq1 \in [Prios -> Seq(Procs)]
      /\ \A t \in Prios : rq1[t] = IF t = r THEN q ELSE rq[t]
  BY <1>2 DEF GoodQueues
<1> HIDE DEF p, q, rq1
<1>4. \A t \in Prios : Distinct(rq1[t]) /\ \A x \in Elems(rq1[t]) : p_prio'[x] = t
  BY <1>2, <1>3 DEF GoodQueues
<1>5. \A t \in Prios : t # r => p \notin Elems(rq[t])
  BY <1>2 DEF GoodQueues
<1>6. p \notin ReadyOf(rq1) /\ ReadyOf(rq) = ReadyOf(rq1) \union {p}
  BY <1>2, <1>3, <1>5 DEF ReadyOf, Prios
<1> QED
  BY <1>2, <1>3, <1>4, <1>6 DEF GoodQueues, p, rq1

(* What the tail of exception_handler leaves, S being the processes that   *)
(* can be given the processor and y the one that yielded: one of them runs *)
(* and the others are ready.  The machine waits or stops only if there is  *)
(* none but y, and how is decided by the counters.                         *)
After(S, y) ==
  /\ machine' \in {"running", "waiting", "halted", "deadlock"}
  /\ act_proc' \in Procs \union {NULL} /\ yielded_proc' \in Procs \union {NULL}
  /\ machine' = "running" => act_proc' \in Procs
  /\ GoodQueues(ready_q')
  /\ Running' \intersect Ready' = {}
  /\ Running' \union Ready' \subseteq S
  /\ machine' \in {"running", "waiting"} => yielded_proc' = NULL /\ S = Running' \union Ready'
  /\ machine' = "waiting" => act_proc' = NULL
  /\ machine' # "running" => S = Just(y)
  /\ machine' = "halted" => procs_count' = 0
  /\ machine' \in {"waiting", "deadlock"} => procs_count' > 0
  /\ machine' = "deadlock" => sb_procs' = 0

LEMMA RequeueGood ==
  ASSUME NEW rq, GoodQueues(rq), p_prio' \in [Procs -> Prios],
         NEW y \in Procs \union {NULL}, y \notin ReadyOf(rq)
  PROVE  /\ GoodQueues(requeue_yielded(rq, y))
         /\ ReadyOf(requeue_yielded(rq, y)) = ReadyOf(rq) \union Just(y)
<1>1. CASE y = NULL
  BY <1>1 DEF requeue_yielded, Just
<1>2. CASE y # NULL
  <2>1. requeue_yielded(rq, y) = enqueue_proc(rq, y) /\ Just(y) = {y} /\ y \in Procs
    BY <1>2 DEF requeue_yielded, Just
  <2> QED
    BY <2>1, EnqueueGood
<1> QED
  BY <1>1, <1>2

LEMMA LoadLemma ==
  ASSUME NEW rq, GoodQueues(rq), p_prio' \in [Procs -> Prios],
         NEW p \in Procs, p \notin ReadyOf(rq),
         NEW y \in Procs \union {NULL}, y \notin ReadyOf(rq), y # p,
         load_proc(p, rq, y)
  PROVE  After(ReadyOf(rq) \union {p} \union Just(y), y)
<1>1. /\ machine' = "running" /\ act_proc' = p /\ yielded_proc' = NULL
      /\ ready_q' = requeue_yielded(rq, y)
  BY DEF load_proc
<1>2. GoodQueues(ready_q') /\ ReadyOf(ready_q') = ReadyOf(rq) \union Just(y)
  BY <1>1, RequeueGood
<1>3. Running' = {p} /\ Ready' = ReadyOf(rq) \union Just(y)
  BY <1>1, <1>2 DEF Running, Ready, ReadyOf
<1>4. Running' \intersect Ready' = {}
  BY <1>3 DEF Just
<1> QED
  BY <1>1, <1>2, <1>3, <1>4 DEF After

LEMMA SchedulerLemma ==
  ASSUME NEW rq, GoodQueues(rq), p_prio' \in [Procs -> Prios],
         act_proc \in Procs \union {NULL},
         NEW y \in Procs \union {NULL}, y \notin ReadyOf(rq),
         scheduler_next(rq, y)
  PROVE  After(ReadyOf(rq) \union Just(y), y)
<1>1. ASSUME NEW r \in Prios, rq[r] # <<>>, load_first(r, rq, y)
      PROVE  After(ReadyOf(rq) \union Just(y), y)
  <2> DEFINE p == head_proc_q(rq[r])
             rq1 == [rq EXCEPT ![r] = Tail(@)]
  <2>1. /\ GoodQueues(rq1) /\ p \in Procs /\ p \notin ReadyOf(rq1)
        /\ ReadyOf(rq) = ReadyOf(rq1) \union {p}
    BY <1>1, DequeueGood
  <2>2. load_proc(p, rq1, y)
    BY <1>1 DEF load_first
  <2> HIDE DEF p, rq1
  <2>3. After(ReadyOf(rq1) \union {p} \union Just(y), y)
    BY <2>1, <2>2, LoadLemma
  <2> QED
    BY <2>1, <2>3
<1>2. ASSUME \A r \in Prios : rq[r] = <<>>, procs_count' > 0, wait(rq, y)
      PROVE  After(ReadyOf(rq) \union Just(y), y)
  <2>1. /\ machine' = "waiting" /\ act_proc' = NULL /\ yielded_proc' = NULL
        /\ ready_q' = requeue_yielded(rq, y)
    BY <1>2 DEF wait
  <2>2. GoodQueues(ready_q') /\ ReadyOf(ready_q') = ReadyOf(rq) \union Just(y)
    BY <2>1, RequeueGood
  <2>3. Running' = {} /\ Ready' = ReadyOf(rq) \union Just(y)
    BY <2>1, <2>2 DEF Running, Ready, ReadyOf
  <2>4. ReadyOf(rq) = {}
    BY <1>2, ElemsEmpty DEF ReadyOf, Prios
  <2> QED
    BY <1>2, <2>1, <2>2, <2>3, <2>4 DEF After
<1>3. ASSUME \A r \in Prios : rq[r] = <<>>, NEW how \in {"halted", "deadlock"},
             how = "halted" => procs_count' = 0,
             how = "deadlock" => procs_count' > 0 /\ sb_procs' = 0,
             stop(how, rq, y)
      PROVE  After(ReadyOf(rq) \union Just(y), y)
  <2>1. machine' = how /\ ready_q' = rq /\ yielded_proc' = y /\ act_proc' = act_proc
    BY <1>3 DEF stop
  <2>2. Running' = {} /\ Ready' = ReadyOf(rq)
    BY <2>1 DEF Running, Ready, ReadyOf
  <2>3. ReadyOf(rq) = {}
    BY <1>3, ElemsEmpty DEF ReadyOf, Prios
  <2> QED
    BY <1>3, <2>1, <2>2, <2>3 DEF After
<1>4. \A r \in Prios : r = "high" \/ r = "low"
  BY DEF Prios
<1>5. CASE \A r \in Prios : rq[r] = <<>>
  BY <1>2, <1>3, <1>5 DEF scheduler_next, empty_proc_q, Prios
<1>6. CASE \E r \in Prios : rq[r] # <<>>
  BY <1>1, <1>4, <1>6 DEF scheduler_next, empty_proc_q, Prios
<1> QED
  BY <1>5, <1>6

(* The processes that can be given the processor after a handler.          *)
Kept_on(eh) == IF eh \in {"CONTINUE", "RENQUEUE"} THEN Just(act_proc) ELSE {}

(* The end of a handler that leaves the ready queues rq.                   *)
Resumes(eh, rq, y) ==
  /\ resume(eh, rq, y) /\ eh \in eh_act
  /\ GoodQueues(rq)
  /\ After(ReadyOf(rq) \union Kept_on(eh) \union Just(y), y)

LEMMA ResumeLemma ==
  ASSUME NEW rq, GoodQueues(rq), p_prio' \in [Procs -> Prios],
         act_proc \in Procs \union {NULL}, NULL \notin Procs,
         NEW y \in Procs \union {NULL}, y \notin ReadyOf(rq),
         NEW eh \in eh_act,
         \A p \in Kept_on(eh) : p \notin ReadyOf(rq) /\ p # y,
         resume(eh, rq, y)
  PROVE  Resumes(eh, rq, y)
<1> SUFFICES After(ReadyOf(rq) \union Kept_on(eh) \union Just(y), y)
  BY DEF Resumes
<1>1. CASE act_proc # NULL /\ eh = "CONTINUE" /\ load_proc(act_proc, rq, y)
  <2>1. Kept_on(eh) = {act_proc} /\ act_proc \in Procs
    BY <1>1 DEF Kept_on, Just
  <2>2. After(ReadyOf(rq) \union {act_proc} \union Just(y), y)
    BY <1>1, <2>1, LoadLemma
  <2> QED
    BY <2>1, <2>2
<1>2. CASE act_proc # NULL /\ eh = "RENQUEUE" /\ scheduler_next(enqueue_proc(rq, act_proc), y)
  <2> DEFINE rq1 == enqueue_proc(rq, act_proc)
  <2>1. Kept_on(eh) = {act_proc} /\ act_proc \in Procs
    BY <1>2 DEF Kept_on, Just
  <2>2. GoodQueues(rq1) /\ ReadyOf(rq1) = ReadyOf(rq) \union {act_proc}
    BY <2>1, EnqueueGood
  <2> HIDE DEF rq1
  <2>3. y \notin ReadyOf(rq1)
    BY <2>1, <2>2
  <2>4. After(ReadyOf(rq1) \union Just(y), y)
    BY <1>2, <2>2, <2>3, SchedulerLemma DEF rq1
  <2> QED
    BY <2>1, <2>2, <2>4
<1>3. CASE (act_proc = NULL \/ eh \in {"NOTHING", "-1"}) /\ scheduler_next(rq, y)
  <2>1. Kept_on(eh) = {}
    BY <1>3 DEF Kept_on, Just
  <2>2. After(ReadyOf(rq) \union Just(y), y)
    BY <1>3, SchedulerLemma
  <2> QED
    BY <2>1, <2>2
<1> QED
  BY <1>1, <1>2, <1>3 DEF resume

-----------------------------------------------------------------------------
(***************************************************************************)
(* The invariant, taken apart: After gives the part about the processor    *)
(* and the ready queues, each handler the rest.                            *)
(***************************************************************************)
TypeRest ==
  /\ procs_count \in Int /\ sb_procs \in Int
  /\ pcb_free \subseteq Procs
  /\ p_parent \in [Procs -> Procs \union {NULL}]
  /\ p_prio \in [Procs -> Prios]
  /\ p_support \subseteq Procs
  /\ p_semAdd \in [Procs -> Sems \union {NULL}]
  /\ a0 \in [Procs -> {"PASSEREN", "VERHOGEN", "DOIO", "CLOCKWAIT", NULL}]
  /\ v0 \in [Procs -> Devs \union {NULL}]
  /\ s_procq \in [Sems -> Seq(Procs)]
  /\ sem \in [Sems -> {0, 1}]
  /\ busy \subseteq Devs
FreeOK == \A p \in pcb_free : p_parent[p] = NULL /\ v0[p] = NULL
BusyOK == \A d \in busy : sem[d] = 0
QueuesOK ==
  /\ \A s \in Sems : Distinct(s_procq[s])
  /\ \A s \in Sems, p \in Procs : p \in Elems(s_procq[s]) <=> p_semAdd[p] = s

LEMMA SettleLemma ==
  ASSUME NEW S, NEW y, After(S, y), S \subseteq Alive', S \intersect Blocked' = {},
         Blocked' \subseteq Alive',
         TypeRest', QueuesOK', CountsExact', FreeOK', BusyOK'
  PROVE  IInv'
<1>1. TypeOK'
  BY DEF After, TypeRest, TypeOK, GoodQueues
<1>2. OnePlace'
  BY DEF After, QueuesOK, OnePlace, GoodQueues
<1>3. Resting'
  BY DEF After, FreeOK, BusyOK, Resting
<1> QED
  BY <1>1, <1>2, <1>3 DEF IInv

(* Where a handler starts from.                                            *)
Start ==
  /\ TypeRest /\ FreeOK /\ BusyOK /\ QueuesOK /\ CountsExact
  /\ act_proc \in Procs \union {NULL} /\ yielded_proc = NULL
  /\ NULL \notin Procs
  /\ Running = Just(act_proc)
  /\ ReadyOf(ready_q) = Ready
  /\ Running \intersect Ready = {}
  /\ Running \intersect Blocked = {}
  /\ Ready \intersect Blocked = {}
  /\ Running \union Ready \union Blocked \subseteq Alive
  /\ ready_q \in [Prios -> Seq(Procs)]
  /\ \A r \in Prios : Distinct(ready_q[r]) /\ \A p \in Elems(ready_q[r]) : p_prio[p] = r

LEMMA StartLemma == IInv /\ interruptible => Start
<1> SUFFICES ASSUME IInv, interruptible PROVE Start
  OBVIOUS
<1>1. TypeRest /\ ready_q \in [Prios -> Seq(Procs)] /\ act_proc \in Procs \union {NULL}
  BY DEF IInv, TypeOK, TypeRest
<1>2. FreeOK /\ BusyOK /\ QueuesOK /\ CountsExact /\ yielded_proc = NULL
  BY DEF IInv, Resting, OnePlace, FreeOK, BusyOK, QueuesOK, interruptible
<1>3. Running = Just(act_proc)
  BY ProcsAssumption DEF IInv, Resting, TypeOK, Running, Just, interruptible
<1>4. ReadyOf(ready_q) = Ready
  BY DEF ReadyOf, Ready
<1>5. /\ Running \intersect Ready = {}
      /\ Running \intersect Blocked = {}
      /\ Ready \intersect Blocked = {}
      /\ Running \union Ready \union Blocked \subseteq Alive
      /\ \A r \in Prios : Distinct(ready_q[r]) /\ \A p \in Elems(ready_q[r]) : p_prio[p] = r
  BY DEF IInv, OnePlace
<1> QED
  BY <1>1, <1>2, <1>3, <1>4, <1>5, ProcsAssumption DEF Start

(* While priorities stay, the ready queues are good as they are.           *)
LEMMA StartQueues ==
  ASSUME Start, UNCHANGED p_prio
  PROVE  GoodQueues(ready_q) /\ p_prio' \in [Procs -> Prios]
BY DEF Start, GoodQueues, TypeRest

(* A handler that moves no process between the semaphores and the ready    *)
(* queues, with any of the three actions.                                  *)
LEMMA PassLemma ==
  ASSUME Start, NEW eh \in eh_act, UNCHANGED <<counts, tree, asl>>,
         NEW y \in {NULL, act_proc}, y # NULL => eh = "NOTHING",
         resume(eh, ready_q, y),
         TypeRest', FreeOK', BusyOK'
  PROVE  IInv' /\ Resumes(eh, ready_q, y)
<1> DEFINE S == ReadyOf(ready_q) \union Kept_on(eh) \union Just(y)
<1>1. GoodQueues(ready_q) /\ p_prio' \in [Procs -> Prios]
  BY StartQueues DEF tree
<1>2. /\ y \in Procs \union {NULL} /\ act_proc \in Procs \union {NULL} /\ NULL \notin Procs
      /\ Kept_on(eh) \subseteq Just(act_proc) /\ Just(y) \subseteq Just(act_proc)
      /\ Just(act_proc) \intersect ReadyOf(ready_q) = {}
  BY DEF Start, Kept_on, Just
<1>3. y \notin ReadyOf(ready_q) /\ \A p \in Kept_on(eh) : p \notin ReadyOf(ready_q) /\ p # y
  <2>1. ReadyOf(ready_q) \subseteq Procs
    BY ElemsType DEF Start, ReadyOf, Prios
  <2> QED
    BY <1>2, <2>1 DEF Kept_on, Just
<1>4. Resumes(eh, ready_q, y)
  BY <1>1, <1>2, <1>3, ResumeLemma
<1>5. Alive' = Alive /\ Blocked' = Blocked /\ CountsExact' /\ QueuesOK'
  BY DEF Start, counts, tree, asl, Alive, Blocked, CountsExact, QueuesOK
<1>6. S \subseteq Alive /\ S \intersect Blocked = {} /\ Blocked \subseteq Alive
  BY <1>2 DEF Start
<1>7. After(S, y)
  BY <1>4 DEF Resumes
<1> HIDE DEF S
<1> QED
  BY <1>4, <1>5, <1>6, <1>7, SettleLemma

-----------------------------------------------------------------------------
(***************************************************************************)
(* The semaphore operations.  Side is what a handler has to see to besides *)
(* the queues.                                                             *)
(***************************************************************************)
Side ==
  /\ v0' \in [Procs -> Devs \union {NULL}]
  /\ busy' \subseteq Devs
  /\ \A p \in pcb_free : v0'[p] = NULL

LEMMA StartFinite ==
  ASSUME Start
  PROVE  /\ IsFiniteSet(Procs) /\ IsFiniteSet(Alive) /\ IsFiniteSet(Blocked)
         /\ Cardinality(Alive) \in Nat /\ Cardinality(Blocked) \in Nat
<1>1. Alive \subseteq Procs /\ Blocked \subseteq Procs
  BY DEF Alive, Blocked
<1> QED
  BY <1>1, ProcsAssumption, FS_Subset, FS_CardinalityType

(* MAXPROC descriptors are enough: each semaphore that owns one has a      *)
(* process blocked on it, no process is blocked on two, and the one that   *)
(* asks for a descriptor is blocked on none.                               *)
LEMMA DescriptorLemma ==
  ASSUME Start, act_proc # NULL, NEW s \in Sems
  PROVE  ~no_free_semd(s)
<1> DEFINE T == {t \in Sems : s_procq[t] # <<>>}
           Others == Procs \ {act_proc}
           f == [t \in T |-> Head(s_procq[t])]
<1>1. act_proc \in Procs /\ act_proc \notin Blocked
  BY DEF Start, Just
<1>2. \A t \in T : f[t] \in Procs /\ p_semAdd[f[t]] = t
  <2> SUFFICES ASSUME NEW t \in T
               PROVE  Head(s_procq[t]) \in Procs /\ p_semAdd[Head(s_procq[t])] = t
    OBVIOUS
  <2>1. s_procq[t] \in Seq(Procs) /\ s_procq[t] # <<>> /\ t \in Sems
    BY DEF Start, TypeRest
  <2>2. Head(s_procq[t]) \in Procs /\ Head(s_procq[t]) \in Elems(s_procq[t])
    BY <2>1, RemoveProperties DEF head_proc_q
  <2> QED
    BY <2>1, <2>2 DEF Start, QueuesOK
<1>3. \A t \in T : t # NULL
  BY SemsAssumption
<1>4. \A t \in T : f[t] \in Others
  BY <1>1, <1>2, <1>3 DEF Blocked
<1>5. f \in Injection(T, Others)
  <2>1. f \in [T -> Others] /\ DOMAIN f = T
    BY <1>4
  <2>2. \A t, u \in T : f[t] = f[u] => t = u
    BY <1>2
  <2> HIDE DEF f
  <2> QED
    BY <2>1, <2>2 DEF Injection, IsInjective
<1>6. /\ IsFiniteSet(Others) /\ Cardinality(Others) = Cardinality(Procs) - 1
      /\ Cardinality(Procs) \in Nat
  BY <1>1, StartFinite, FS_RemoveElement, FS_CardinalityType
<1>7. IsFiniteSet(T) /\ Cardinality(T) <= Cardinality(Others)
  BY <1>5, <1>6, FS_Injection
<1>8. Cardinality(T) \in Nat
  BY <1>7, FS_CardinalityType
<1> HIDE DEF T, Others
<1>9. ~(Cardinality(T) >= Cardinality(Procs))
  BY <1>6, <1>7, <1>8
<1> QED
  BY <1>9 DEF no_free_semd, T

(* What the semaphore operations do: the running process blocks on s, the  *)
(* first waiter of s becomes ready, or the value of s changes and nobody   *)
(* moves.                                                                  *)
Blocks(s, call) ==
  /\ insert_blocked(s, act_proc, call) /\ UNCHANGED <<tree, sem>>
  /\ Resumes("NOTHING", ready_q, NULL)
Wakes(s, eh) ==
  LET p == head_proc_q(s_procq[s])
  IN  /\ s_procq[s] # <<>> /\ p \in Blocked /\ p_semAdd[p] = s
      /\ remove_blocked(s) /\ UNCHANGED <<tree, sem>>
      /\ Resumes(eh, enqueue_proc(ready_q, p), NULL)
      /\ ReadyOf(enqueue_proc(ready_q, p)) = Ready \union {p}
Sets(s, value, eh) ==
  /\ s_procq[s] = <<>>
  /\ sem' = [sem EXCEPT ![s] = value] /\ UNCHANGED <<tree, asl>>
  /\ Resumes(eh, ready_q, NULL)

(* The running process blocks on s.                                        *)
LEMMA BlockLemma ==
  ASSUME Start, act_proc # NULL, NEW s \in Sems,
         NEW call \in {"PASSEREN", "VERHOGEN", "DOIO", "CLOCKWAIT"},
         UNCHANGED <<procs_count, tree>>, Side, BusyOK',
         block_on(s, call, "NOTHING")
  PROVE  IInv' /\ Blocks(s, call)
<1>1. act_proc \in Procs /\ act_proc \notin Blocked /\ act_proc \in Alive /\ s # NULL
  BY SemsAssumption DEF Start, Just
<1>2. /\ insert_blocked(s, act_proc, call) /\ sb_procs' = sb_procs + 1 /\ sem' = sem
      /\ resume("NOTHING", ready_q, yielded_proc)
  BY DescriptorLemma DEF block_on
<1> DEFINE q == insert_proc_q(s_procq[s], act_proc)
<1>3. act_proc \notin Elems(s_procq[s])
  BY <1>1 DEF Start, QueuesOK, Blocked
<1>4. q \in Seq(Procs) /\ Distinct(q) /\ Elems(q) = Elems(s_procq[s]) \union {act_proc}
  BY <1>1, <1>3, InsertProperties DEF Start, TypeRest, QueuesOK
<1>5. /\ s_procq' = [s_procq EXCEPT ![s] = q]
      /\ p_semAdd' = [p_semAdd EXCEPT ![act_proc] = s]
      /\ a0' = [a0 EXCEPT ![act_proc] = call]
  BY <1>2 DEF insert_blocked
<1> HIDE DEF q
<1>6. /\ s_procq' \in [Sems -> Seq(Procs)]
      /\ \A t \in Sems : s_procq'[t] = IF t = s THEN q ELSE s_procq[t]
      /\ p_semAdd' \in [Procs -> Sems \union {NULL}]
      /\ \A p \in Procs : p_semAdd'[p] = IF p = act_proc THEN s ELSE p_semAdd[p]
      /\ a0' \in [Procs -> {"PASSEREN", "VERHOGEN", "DOIO", "CLOCKWAIT", NULL}]
  BY <1>1, <1>4, <1>5 DEF Start, TypeRest
<1>7. TypeRest'
  BY <1>2, <1>6 DEF Start, TypeRest, tree, Side
<1>8. Blocked' = Blocked \union {act_proc}
  BY <1>1, <1>6 DEF Blocked
<1>9. Alive' = Alive
  BY DEF Alive, tree
<1>10. CountsExact'
  BY <1>1, <1>2, <1>8, <1>9, StartFinite, FS_AddElement DEF Start, CountsExact
<1>11. QueuesOK'
  <2> SUFFICES ASSUME NEW t \in Sems
               PROVE  /\ Distinct(s_procq'[t])
                      /\ \A p \in Procs : p \in Elems(s_procq'[t]) <=> p_semAdd'[p] = t
    BY DEF QueuesOK
  <2>1. Distinct(s_procq[t]) /\ \A p \in Procs : p \in Elems(s_procq[t]) <=> p_semAdd[p] = t
    BY DEF Start, QueuesOK
  <2>2. p_semAdd[act_proc] = NULL /\ t # NULL
    BY <1>1, SemsAssumption DEF Blocked
  <2>3. CASE t = s
    BY <1>4, <1>6, <2>1, <2>3
  <2>4. CASE t # s
    BY <1>6, <2>1, <2>2, <2>4
  <2> QED
    BY <2>3, <2>4
<1>12. FreeOK'
  BY DEF Start, FreeOK, Side, tree
<1>13. Resumes("NOTHING", ready_q, NULL) /\ After(ReadyOf(ready_q), NULL)
  <2>1. GoodQueues(ready_q) /\ p_prio' \in [Procs -> Prios]
    BY StartQueues DEF tree
  <2>2. NULL \notin ReadyOf(ready_q)
    BY DEF Start, Alive
  <2>3. Kept_on("NOTHING") = {} /\ Just(NULL) = {}
    BY DEF Kept_on, Just
  <2>4. /\ act_proc \in Procs \union {NULL} /\ NULL \notin Procs /\ yielded_proc = NULL
        /\ "NOTHING" \in eh_act
    BY DEF Start, eh_act
  <2>5. Resumes("NOTHING", ready_q, NULL)
    BY <1>2, <2>1, <2>2, <2>3, <2>4, ResumeLemma
  <2>6. After(ReadyOf(ready_q) \union Kept_on("NOTHING") \union Just(NULL), NULL)
    BY <2>5 DEF Resumes
  <2> QED
    BY <2>3, <2>5, <2>6
<1>14. /\ ReadyOf(ready_q) \subseteq Alive' /\ ReadyOf(ready_q) \intersect Blocked' = {}
       /\ Blocked' \subseteq Alive'
  BY <1>1, <1>8, <1>9 DEF Start, Just
<1>15. Blocks(s, call)
  BY <1>2, <1>13 DEF Blocks
<1> QED
  BY <1>7, <1>10, <1>11, <1>12, <1>13, <1>14, <1>15, SettleLemma

(* The first waiter of s becomes ready.                                    *)
LEMMA WakeLemma ==
  ASSUME Start, NEW s \in Sems, s_procq[s] # <<>>,
         NEW eh \in eh_act,
         UNCHANGED <<procs_count, tree>>, Side, BusyOK',
         wake_first(s, eh)
  PROVE  IInv' /\ Wakes(s, eh)
<1> DEFINE p == head_proc_q(s_procq[s])
           q == Tail(s_procq[s])
           rq == enqueue_proc(ready_q, p)
<1>1. /\ s_procq[s] \in Seq(Procs) /\ Distinct(s_procq[s]) /\ s # NULL
  BY SemsAssumption DEF Start, TypeRest, QueuesOK
<1>2. /\ p \in Procs /\ p \in Elems(s_procq[s])
      /\ q \in Seq(Procs) /\ Distinct(q)
      /\ Elems(s_procq[s]) = Elems(q) \union {p} /\ p \notin Elems(q)
  BY <1>1, RemoveProperties
<1>3. /\ s_procq' = [s_procq EXCEPT ![s] = q]
      /\ p_semAdd' = [p_semAdd EXCEPT ![p] = NULL]
      /\ a0' = [a0 EXCEPT ![p] = NULL]
      /\ sb_procs' = sb_procs - 1 /\ sem' = sem
      /\ resume(eh, rq, yielded_proc)
  BY DEF wake_first, remove_blocked
<1> HIDE DEF p, q, rq
<1>4. p_semAdd[p] = s /\ p \in Blocked
  BY <1>1, <1>2 DEF Start, QueuesOK, Blocked
<1>5. p \in Alive /\ p \notin Running /\ p \notin Ready
  BY <1>4 DEF Start
<1>6. /\ s_procq' \in [Sems -> Seq(Procs)]
      /\ \A t \in Sems : s_procq'[t] = IF t = s THEN q ELSE s_procq[t]
      /\ p_semAdd' \in [Procs -> Sems \union {NULL}]
      /\ \A x \in Procs : p_semAdd'[x] = IF x = p THEN NULL ELSE p_semAdd[x]
      /\ a0' \in [Procs -> {"PASSEREN", "VERHOGEN", "DOIO", "CLOCKWAIT", NULL}]
  BY <1>2, <1>3 DEF Start, TypeRest
<1>7. TypeRest'
  BY <1>3, <1>6 DEF Start, TypeRest, tree, Side
<1>8. Blocked' = Blocked \ {p}
  BY <1>6 DEF Blocked
<1>9. Alive' = Alive
  BY DEF Alive, tree
<1>10. CountsExact'
  BY <1>3, <1>4, <1>8, <1>9, StartFinite, FS_RemoveElement DEF Start, CountsExact
<1>11. QueuesOK'
  <2> SUFFICES ASSUME NEW t \in Sems
               PROVE  /\ Distinct(s_procq'[t])
                      /\ \A x \in Procs : x \in Elems(s_procq'[t]) <=> p_semAdd'[x] = t
    BY DEF QueuesOK
  <2>1. Distinct(s_procq[t]) /\ \A x \in Procs : x \in Elems(s_procq[t]) <=> p_semAdd[x] = t
    BY DEF Start, QueuesOK
  <2>2. t # NULL
    BY SemsAssumption
  <2>3. CASE t = s
    BY <1>2, <1>6, <2>1, <2>2, <2>3
  <2>4. CASE t # s
    BY <1>4, <1>6, <2>1, <2>2, <2>4
  <2> QED
    BY <2>3, <2>4
<1>12. FreeOK'
  BY DEF Start, FreeOK, Side, tree
<1>13. GoodQueues(rq) /\ ReadyOf(rq) = Ready \union {p} /\ p_prio' \in [Procs -> Prios]
  <2>1. GoodQueues(ready_q) /\ p_prio' \in [Procs -> Prios]
    BY StartQueues DEF tree
  <2>2. p \notin ReadyOf(ready_q)
    BY <1>5 DEF Start
  <2> QED
    BY <1>2, <2>1, <2>2, EnqueueGood DEF Start, rq
<1>14. Resumes(eh, rq, NULL) /\ After(ReadyOf(rq) \union Kept_on(eh), NULL)
  <2>1. NULL \notin ReadyOf(rq)
    BY <1>2, <1>13 DEF Start, Alive
  <2>2. Just(NULL) = {} /\ yielded_proc = NULL
    BY DEF Just, Start
  <2>3. \A x \in Kept_on(eh) : x \notin ReadyOf(rq) /\ x # NULL
    BY <1>5, <1>13 DEF Kept_on, Just, Start
  <2>4. act_proc \in Procs \union {NULL} /\ NULL \notin Procs
    BY DEF Start
  <2>5. Resumes(eh, rq, NULL)
    BY <1>3, <1>13, <2>1, <2>2, <2>3, <2>4, ResumeLemma
  <2>6. After(ReadyOf(rq) \union Kept_on(eh) \union Just(NULL), NULL)
    BY <2>5 DEF Resumes
  <2> QED
    BY <2>2, <2>5, <2>6
<1>15. /\ ReadyOf(rq) \union Kept_on(eh) \subseteq Alive'
       /\ (ReadyOf(rq) \union Kept_on(eh)) \intersect Blocked' = {}
       /\ Blocked' \subseteq Alive'
  BY <1>5, <1>8, <1>9, <1>13 DEF Start, Kept_on
<1>16. Wakes(s, eh)
  BY <1>4, <1>13, <1>14 DEF Wakes, wake_first, p, rq
<1> QED
  BY <1>7, <1>10, <1>11, <1>12, <1>14, <1>15, <1>16, SettleLemma

(* The value of s changes and nobody moves.                                *)
LEMMA SetLemma ==
  ASSUME Start, NEW s \in Sems, NEW value \in {0, 1}, NEW eh \in eh_act,
         UNCHANGED <<procs_count, tree>>, Side, BusyOK',
         s_procq[s] = <<>>, set_sem(s, value, eh)
  PROVE  IInv' /\ Sets(s, value, eh)
<1>1. /\ sem' = [sem EXCEPT ![s] = value]
      /\ UNCHANGED <<counts, tree, asl>>
      /\ resume(eh, ready_q, NULL)
  BY DEF set_sem, counts, Start
<1>2. TypeRest' /\ FreeOK'
  BY <1>1 DEF Start, TypeRest, FreeOK, Side, counts, tree, asl
<1>3. IInv' /\ Resumes(eh, ready_q, NULL)
  BY <1>1, <1>2, PassLemma
<1> QED
  BY <1>1, <1>3 DEF Sets

Does_P(s, call, eh) ==
  \/ sem[s] = 0 /\ Blocks(s, call)
  \/ sem[s] # 0 /\ Wakes(s, eh)
  \/ sem[s] # 0 /\ Sets(s, 0, eh)
Does_V(s, eh) ==
  \/ sem[s] = 1 /\ Blocks(s, "VERHOGEN")
  \/ sem[s] # 1 /\ Wakes(s, eh)
  \/ sem[s] # 1 /\ Sets(s, 1, eh)

(* PASSEREN, DOIO and CLOCKWAIT do P with the interrupts off.  The last    *)
(* assumption is that a command is given only to a device whose semaphore  *)
(* the P leaves at 0.                                                      *)
LEMMA PasserenLemma ==
  ASSUME Start, act_proc # NULL, NEW s \in Sems,
         NEW call \in {"PASSEREN", "DOIO", "CLOCKWAIT"}, NEW eh \in eh_act,
         UNCHANGED <<procs_count, tree>>, Side, passeren(s, call, eh),
         s_procq[s] # <<>> => busy' = busy, busy' \subseteq busy \union {s}
  PROVE  IInv' /\ Does_P(s, call, eh)
<1>1. CASE sem[s] = 0 /\ block_on(s, call, "NOTHING")
  <2>1. sem' = sem
    BY <1>1 DEF block_on
  <2>2. BusyOK'
    BY <1>1, <2>1 DEF BusyOK, Start
  <2> QED
    BY <1>1, <2>2, BlockLemma DEF Does_P
<1>2. CASE sem[s] # 0 /\ s_procq[s] # <<>> /\ wake_first(s, eh)
  <2>1. sem' = sem /\ busy' = busy
    BY <1>2 DEF wake_first
  <2>2. BusyOK'
    BY <2>1 DEF BusyOK, Start
  <2> QED
    BY <1>2, <2>2, WakeLemma DEF Does_P
<1>3. CASE sem[s] # 0 /\ s_procq[s] = <<>> /\ set_sem(s, 0, eh)
  <2>1. sem' = [sem EXCEPT ![s] = 0] /\ sem \in [Sems -> {0, 1}]
    BY <1>3 DEF set_sem, Start, TypeRest
  <2>2. BusyOK'
    BY <2>1 DEF BusyOK, Start, Side, Sems
  <2> QED
    BY <1>3, <2>2, SetLemma DEF Does_P
<1> QED
  BY <1>1, <1>2, <1>3 DEF passeren, Does_P

(* V, by a process or by an interrupt of a device: the second never finds  *)
(* the value 1, at which V blocks the process that happened to run.        *)
LEMMA VerhogenLemma ==
  ASSUME Start, NEW s \in Sems, NEW eh1 \in eh_act, NEW eh \in eh_act,
         eh1 = "NOTHING" \/ sem[s] = 0,
         UNCHANGED <<procs_count, tree>>, Side, verhogen(s, eh1, eh),
         busy' \subseteq busy, s \notin busy'
  PROVE  IInv' /\ (Does_V(s, eh) \/ (sem[s] = 1 /\ act_proc = NULL))
<1>1. CASE sem[s] = 1 /\ act_proc # NULL /\ block_on(s, "VERHOGEN", eh1)
  <2>1. sem' = sem
    BY <1>1 DEF block_on
  <2>2. BusyOK' /\ eh1 = "NOTHING"
    BY <1>1, <2>1 DEF BusyOK, Start
  <2> QED
    BY <1>1, <2>2, BlockLemma DEF Does_V
<1>2. CASE sem[s] = 1 /\ act_proc = NULL /\ UNCHANGED <<asl, sem, sb_procs>>
             /\ resume(eh1, ready_q, yielded_proc)
  <2>1. UNCHANGED <<counts, tree, asl>> /\ resume(eh1, ready_q, NULL)
    BY <1>2 DEF counts, Start
  <2>2. TypeRest' /\ FreeOK' /\ BusyOK'
    BY <1>2, <2>1 DEF Start, TypeRest, FreeOK, BusyOK, Side, counts, tree, asl
  <2>3. IInv' /\ Resumes(eh1, ready_q, NULL)
    BY <2>1, <2>2, PassLemma
  <2> QED
    BY <1>2, <2>1, <2>3
<1>3. CASE sem[s] # 1 /\ s_procq[s] # <<>> /\ wake_first(s, eh)
  <2>1. BusyOK'
    BY <1>3 DEF wake_first, BusyOK, Start
  <2> QED
    BY <1>3, <2>1, WakeLemma DEF Does_V
<1>4. CASE sem[s] # 1 /\ s_procq[s] = <<>> /\ set_sem(s, 1, eh)
  <2>1. sem' = [sem EXCEPT ![s] = 1] /\ sem \in [Sems -> {0, 1}]
    BY <1>4 DEF set_sem, Start, TypeRest
  <2>2. \A d \in busy' : d # s /\ d \in Sems /\ sem[d] = 0
    BY DEF BusyOK, Start, Side, Sems
  <2>3. BusyOK'
    BY <2>1, <2>2 DEF BusyOK
  <2> QED
    BY <1>4, <2>3, SetLemma DEF Does_V
<1> QED
  BY <1>1, <1>2, <1>3, <1>4 DEF verhogen, Does_V

-----------------------------------------------------------------------------
(***************************************************************************)
(* Creation and death of processes.                                        *)
(***************************************************************************)
Creates(c) ==
  LET rq == enqueue_proc(ready_q, c)
  IN  /\ pcb_free' = pcb_free \ {c}
      /\ p_parent' = [p_parent EXCEPT ![c] = act_proc]
      /\ p_prio' \in [Procs -> Prios] /\ \A p \in Procs \ {c} : p_prio'[p] = p_prio[p]
      /\ UNCHANGED <<asl, sem, busy>>
      /\ Resumes("CONTINUE", rq, NULL) /\ ReadyOf(rq) = Ready \union {c}

LEMMA CreateLemma ==
  ASSUME Start, act_proc # NULL, NEW c \in pcb_free, NEW prio \in Prios,
         NEW support \in BOOLEAN, Side,
         mk_proc(c, prio, support),
         resume("CONTINUE", enqueue_proc(ready_q, c), yielded_proc)
  PROVE  IInv' /\ Creates(c)
<1> DEFINE rq == enqueue_proc(ready_q, c)
<1>1. /\ pcb_free' = pcb_free \ {c}
      /\ p_parent' = [p_parent EXCEPT ![c] = act_proc]
      /\ p_prio' = [p_prio EXCEPT ![c] = prio]
      /\ p_support' \in {p_support, p_support \union {c}}
      /\ procs_count' = procs_count + 1
      /\ UNCHANGED <<sb_procs, asl, sem, busy>>
  BY DEF mk_proc
<1>2. c \in Procs /\ act_proc \in Procs /\ c \notin Alive /\ c \notin Ready /\ c # act_proc
  BY DEF Start, TypeRest, Alive, Just
<1>3. TypeRest'
  BY <1>1, <1>2 DEF Start, TypeRest, Side, asl
<1>4. Alive' = Alive \union {c} /\ Blocked' = Blocked
  BY <1>1, <1>2 DEF Alive, Blocked, asl
<1>5. CountsExact'
  BY <1>1, <1>2, <1>4, StartFinite, FS_AddElement DEF Start, CountsExact
<1>6. QueuesOK' /\ BusyOK'
  BY <1>1 DEF Start, QueuesOK, BusyOK, asl
<1>7. FreeOK'
  BY <1>1 DEF Start, FreeOK, Side, TypeRest
<1>8. GoodQueues(ready_q) /\ p_prio' \in [Procs -> Prios]
  <2>1. \A r \in Prios : \A p \in Elems(ready_q[r]) : p \in Ready /\ p \in Procs
    BY ElemsType DEF Start, Ready, Prios
  <2>2. \A r \in Prios : \A p \in Elems(ready_q[r]) : p_prio'[p] = p_prio[p]
    BY <1>1, <1>2, <2>1 DEF Start, TypeRest
  <2> QED
    BY <1>1, <2>2 DEF Start, GoodQueues, TypeRest
<1>9. GoodQueues(rq) /\ ReadyOf(rq) = Ready \union {c}
  BY <1>2, <1>8, EnqueueGood DEF Start
<1>10. Resumes("CONTINUE", rq, NULL) /\ After(ReadyOf(rq) \union {act_proc}, NULL)
  <2>1. Kept_on("CONTINUE") = {act_proc} /\ Just(NULL) = {}
    BY DEF Kept_on, Just, Start
  <2>2. NULL \notin ReadyOf(rq) /\ act_proc \notin ReadyOf(rq) /\ act_proc # NULL
    BY <1>2, <1>9 DEF Start, Alive, Just
  <2>3. yielded_proc = NULL /\ NULL \notin Procs /\ "CONTINUE" \in eh_act
    BY DEF Start, eh_act
  <2> HIDE DEF rq
  <2>4. Resumes("CONTINUE", rq, NULL)
    BY <1>2, <1>8, <1>9, <2>1, <2>2, <2>3, ResumeLemma DEF rq
  <2>5. After(ReadyOf(rq) \union Kept_on("CONTINUE") \union Just(NULL), NULL)
    BY <2>4 DEF Resumes
  <2> QED
    BY <2>1, <2>4, <2>5
<1>11. /\ ReadyOf(rq) \union {act_proc} \subseteq Alive'
       /\ (ReadyOf(rq) \union {act_proc}) \intersect Blocked' = {}
       /\ Blocked' \subseteq Alive'
  BY <1>2, <1>4, <1>9 DEF Start, Just
<1>12. Creates(c)
  BY <1>1, <1>2, <1>8, <1>9, <1>10 DEF Creates, rq, Start, TypeRest
<1> HIDE DEF rq
<1> QED
  BY <1>3, <1>5, <1>6, <1>7, <1>10, <1>11, <1>12, SettleLemma

(* The progeny of a process that is alive is alive: the parent of a dead   *)
(* one is NULL, so Alive is closed under taking children.                  *)
LEMMA ProgenyLemma ==
  ASSUME Start, NEW p \in Alive
  PROVE  Progeny(p) \subseteq Alive
<1>1. Alive \in SUBSET Procs
  BY DEF Alive
<1>2. \A y \in Procs : p_parent[y] \in Alive => y \in Alive
  BY DEF Start, FreeOK, Alive
<1> QED
  BY <1>1, <1>2 DEF Progeny

(* kill_proc finds every blocked process on the queue of its semaphore.    *)
LEMMA FoundLemma ==
  ASSUME Start, NEW K
  PROVE  ~not_on_its_queue(K)
<1> SUFFICES ASSUME NEW x \in K \intersect Blocked
             PROVE  x \in Elems(s_procq[p_semAdd[x]])
  BY DEF not_on_its_queue
<1>1. x \in Procs /\ p_semAdd[x] \in Sems
  BY DEF Blocked, Start, TypeRest
<1> QED
  BY <1>1 DEF Start, QueuesOK

Kills(K, eh) ==
  /\ p_parent' = [x \in Procs |-> IF x \in K THEN NULL ELSE p_parent[x]]
  /\ p_semAdd' = [x \in Procs |-> IF x \in K THEN NULL ELSE p_semAdd[x]]
  /\ a0' = [x \in Procs |-> IF x \in K THEN NULL ELSE a0[x]]
  /\ s_procq' = [s \in Sems |-> Keep(s_procq[s], Procs \ K)]
  /\ pcb_free' = pcb_free \union K
  /\ p_prio' \in [Procs -> Prios] /\ \A p \in Procs \ K : p_prio'[p] = p_prio[p]
  /\ UNCHANGED <<sem, busy>>
  /\ Resumes(eh, ready_without(K), NULL)
  /\ ReadyOf(ready_without(K)) = Ready \ K

LEMMA KillLemma ==
  ASSUME Start, NEW K, K \subseteq Alive, NEW eh \in {"NOTHING", "RENQUEUE"},
         eh = "RENQUEUE" => act_proc \notin K,
         v0' \in [Procs -> Devs \union {NULL}], \A p \in pcb_free' : v0'[p] = NULL,
         kill_parent_and_progeny(K, eh)
  PROVE  IInv' /\ Kills(K, eh)
<1> DEFINE rq == ready_without(K)
<1>1. /\ procs_count' = procs_count - Cardinality(K)
      /\ sb_procs' = sb_procs - Cardinality(K \intersect Blocked)
      /\ p_parent' = [x \in Procs |-> IF x \in K THEN NULL ELSE p_parent[x]]
      /\ p_semAdd' = [x \in Procs |-> IF x \in K THEN NULL ELSE p_semAdd[x]]
      /\ a0' = [x \in Procs |-> IF x \in K THEN NULL ELSE a0[x]]
      /\ s_procq' = [s \in Sems |-> Keep(s_procq[s], Procs \ K)]
      /\ pcb_free' = pcb_free \union K
      /\ p_prio' = [x \in Procs |-> IF x \in K THEN "low" ELSE p_prio[x]]
      /\ p_support' = p_support \ K
      /\ UNCHANGED <<sem, busy>>
      /\ resume(eh, rq, yielded_proc)
  BY DEF kill_parent_and_progeny, blocked_in
<1>2. K \subseteq Procs
  BY DEF Alive
<1>3. Alive' = Alive \ K /\ Blocked' = Blocked \ K
  BY <1>1 DEF Alive, Blocked
<1>4. /\ IsFiniteSet(K) /\ Cardinality(K) \in Nat
      /\ IsFiniteSet(K \intersect Blocked) /\ Cardinality(K \intersect Blocked) \in Nat
      /\ Cardinality(Alive \ K) = Cardinality(Alive) - Cardinality(K)
      /\ Cardinality(Blocked \ K) = Cardinality(Blocked) - Cardinality(K \intersect Blocked)
  <2>1. IsFiniteSet(K) /\ IsFiniteSet(K \intersect Blocked)
    BY StartFinite, FS_Subset
  <2>2. K = Alive \intersect K /\ K \intersect Blocked = Blocked \intersect K
    OBVIOUS
  <2>3. /\ Cardinality(Alive \ K) = Cardinality(Alive) - Cardinality(Alive \intersect K)
        /\ Cardinality(Blocked \ K) = Cardinality(Blocked) - Cardinality(Blocked \intersect K)
    BY StartFinite, FS_Difference
  <2> QED
    BY <2>1, <2>2, <2>3, FS_CardinalityType
<1>5. CountsExact'
  BY <1>1, <1>3, <1>4 DEF Start, CountsExact
<1> HIDE DEF rq
<1>6. \A s \in Sems : /\ s_procq'[s] \in Seq(Procs)
                      /\ Elems(s_procq'[s]) = Elems(s_procq[s]) \intersect (Procs \ K)
                      /\ Distinct(s_procq'[s])
  <2> TAKE s \in Sems
  <2>1. s_procq[s] \in Seq(Procs) /\ Distinct(s_procq[s])
    BY DEF Start, TypeRest, QueuesOK
  <2>2. s_procq'[s] = Keep(s_procq[s], Procs \ K)
    BY <1>1
  <2> QED
    BY <2>1, <2>2, KeepProperties
<1>7. QueuesOK'
  <2> SUFFICES ASSUME NEW s \in Sems
               PROVE  /\ Distinct(s_procq'[s])
                      /\ \A p \in Procs : p \in Elems(s_procq'[s]) <=> p_semAdd'[p] = s
    BY DEF QueuesOK
  <2>1. \A p \in Procs : p \in Elems(s_procq[s]) <=> p_semAdd[p] = s
    BY DEF Start, QueuesOK
  <2>2. s # NULL
    BY SemsAssumption
  <2>3. \A p \in Procs : p_semAdd'[p] = IF p \in K THEN NULL ELSE p_semAdd[p]
    BY <1>1
  <2> QED
    BY <1>6, <2>1, <2>2, <2>3
<1>8. TypeRest'
  <2>1. /\ procs_count' \in Int /\ sb_procs' \in Int
    BY <1>1, <1>4 DEF Start, TypeRest
  <2>2. /\ pcb_free' \subseteq Procs /\ p_support' \subseteq Procs
        /\ sem' \in [Sems -> {0, 1}] /\ busy' \subseteq Devs
    BY <1>1, <1>2 DEF Start, TypeRest
  <2>3. s_procq' \in [Sems -> Seq(Procs)]
    BY <1>1, <1>6
  <2>4. /\ p_parent' \in [Procs -> Procs \union {NULL}]
        /\ p_semAdd' \in [Procs -> Sems \union {NULL}]
    BY <1>1 DEF Start, TypeRest
  <2>5. /\ p_prio' \in [Procs -> Prios]
        /\ a0' \in [Procs -> {"PASSEREN", "VERHOGEN", "DOIO", "CLOCKWAIT", NULL}]
    BY <1>1 DEF Start, TypeRest, Prios
  <2> QED
    BY <2>1, <2>2, <2>3, <2>4, <2>5 DEF TypeRest
<1>9. FreeOK' /\ BusyOK'
  BY <1>1, <1>2 DEF Start, FreeOK, BusyOK, TypeRest
<1>10. GoodQueues(rq) /\ ReadyOf(rq) = Ready \ K
  <2>1. /\ rq = [r \in Prios |-> Keep(ready_q[r], Procs \ K)]
        /\ ready_q \in [Prios -> Seq(Procs)]
    BY DEF rq, ready_without, Start
  <2>2. \A r \in Prios : /\ rq[r] \in Seq(Procs)
                         /\ Elems(rq[r]) = Elems(ready_q[r]) \intersect (Procs \ K)
                         /\ Distinct(rq[r])
    <3> TAKE r \in Prios
    <3>1. ready_q[r] \in Seq(Procs) /\ Distinct(ready_q[r]) /\ rq[r] = Keep(ready_q[r], Procs \ K)
      BY <2>1 DEF Start
    <3> QED
      BY <3>1, KeepProperties
  <2>3. \A r \in Prios : \A p \in Elems(rq[r]) : p_prio'[p] = r
    BY <1>1, <2>2 DEF Start
  <2>4. Ready \subseteq Procs
    BY DEF Start, Alive
  <2>5. ReadyOf(rq) = Ready \ K
    BY <2>2, <2>4 DEF ReadyOf, Ready, Prios
  <2> QED
    BY <2>1, <2>2, <2>3, <2>5 DEF GoodQueues
<1>11. Resumes(eh, rq, NULL) /\ After(ReadyOf(rq) \union Kept_on(eh), NULL)
  <2>1. Just(NULL) = {} /\ yielded_proc = NULL /\ NULL \notin Procs
    BY DEF Just, Start
  <2>2. NULL \notin ReadyOf(rq) /\ \A p \in Kept_on(eh) : p \notin ReadyOf(rq) /\ p # NULL
    BY <1>10 DEF Kept_on, Just, Start, Alive
  <2>3. p_prio' \in [Procs -> Prios] /\ eh \in eh_act /\ act_proc \in Procs \union {NULL}
    BY <1>8 DEF TypeRest, eh_act, Start
  <2>4. Resumes(eh, rq, NULL)
    BY <1>1, <1>10, <2>1, <2>2, <2>3, ResumeLemma
  <2>5. After(ReadyOf(rq) \union Kept_on(eh) \union Just(NULL), NULL)
    BY <2>4 DEF Resumes
  <2> QED
    BY <2>1, <2>4, <2>5
<1>12. /\ ReadyOf(rq) \union Kept_on(eh) \subseteq Alive'
       /\ (ReadyOf(rq) \union Kept_on(eh)) \intersect Blocked' = {}
       /\ Blocked' \subseteq Alive'
  BY <1>3, <1>10 DEF Start, Kept_on, Just
<1>13. Kills(K, eh)
  <2>1. p_prio' \in [Procs -> Prios] /\ \A p \in Procs \ K : p_prio'[p] = p_prio[p]
    BY <1>1, <1>8 DEF TypeRest
  <2> QED
    BY <1>1, <1>10, <1>11, <2>1 DEF Kills, rq
<1> QED
  BY <1>5, <1>7, <1>8, <1>9, <1>11, <1>12, <1>13, SettleLemma

-----------------------------------------------------------------------------
(***************************************************************************)
(* The tick of the pseudo-clock.                                           *)
(***************************************************************************)
ready_with(w) ==
  [r \in Prios |-> ready_q[r] \o Keep(w, {p \in Procs : p_prio[p] = r})]
Ticks ==
  LET W == Elems(woken_by_tick)
  IN  /\ s_procq' = [s_procq EXCEPT ![Clock] = Keep(@, Procs \ W)]
      /\ p_semAdd' = [p \in Procs |-> IF p \in W THEN NULL ELSE p_semAdd[p]]
      /\ a0' = [p \in Procs |-> IF p \in W THEN NULL ELSE a0[p]]
      /\ sem' = [sem EXCEPT ![Clock] = 0]
      /\ UNCHANGED <<tree, v0, busy>>
      /\ W \subseteq Blocked
      /\ Resumes("CONTINUE", ready_with(woken_by_tick), NULL)
      /\ ReadyOf(ready_with(woken_by_tick)) = Ready \union W

LEMMA TickLemma ==
  ASSUME Start, interval_timer
  PROVE  IInv' /\ Ticks
<1> DEFINE w == woken_by_tick
           W == Elems(w)
           q == s_procq[Clock]
           rq == ready_with(w)
<1>1. Clock \in Sems /\ Clock # NULL /\ Clock \notin Devs
  BY SemsAssumption DEF Sems
<1>2. /\ s_procq' = [s_procq EXCEPT ![Clock] = Keep(@, Procs \ W)]
      /\ p_semAdd' = [p \in Procs |-> IF p \in W THEN NULL ELSE p_semAdd[p]]
      /\ a0' = [p \in Procs |-> IF p \in W THEN NULL ELSE a0[p]]
      /\ sb_procs' = sb_procs - Len(w)
      /\ sem' = [sem EXCEPT ![Clock] = 0]
      /\ UNCHANGED <<procs_count, tree, v0, busy>>
      /\ resume("CONTINUE", rq, yielded_proc)
  BY DEF interval_timer, ready_with
<1>3. q \in Seq(Procs) /\ Distinct(q) /\ \A p \in Procs : p \in Elems(q) <=> p_semAdd[p] = Clock
  BY <1>1 DEF Start, TypeRest, QueuesOK
<1>4. w \in Seq(Procs) /\ Distinct(w) /\ W \subseteq Elems(q)
  <2>1. CASE w = q
    BY <1>3, <2>1
  <2>2. CASE w = <<>>
    BY <2>2, ElemsEmpty
  <2> QED
    BY <2>1, <2>2 DEF woken_by_tick
<1>5. W \subseteq Procs /\ W \subseteq Blocked /\ IsFiniteSet(W) /\ Cardinality(W) = Len(w)
  BY <1>1, <1>3, <1>4, ElemsType, ElemsCardinality DEF Blocked
<1>6. /\ Keep(q, Procs \ W) \in Seq(Procs)
      /\ Elems(Keep(q, Procs \ W)) = Elems(q) \intersect (Procs \ W)
      /\ Distinct(Keep(q, Procs \ W))
  BY <1>3, KeepProperties
<1> DEFINE q1 == Keep(q, Procs \ W)
<1>7. /\ s_procq' \in [Sems -> Seq(Procs)]
      /\ \A s \in Sems : s_procq'[s] = IF s = Clock THEN q1 ELSE s_procq[s]
  BY <1>1, <1>2, <1>6 DEF Start, TypeRest
<1> HIDE DEF w, W, q, q1, rq
<1>8. Blocked' = Blocked \ W /\ Alive' = Alive
  BY <1>2 DEF Blocked, Alive, tree
<1>9. CountsExact'
  <2>1. Cardinality(Blocked \ W) = Cardinality(Blocked) - Cardinality(W)
    <3>1. Blocked \intersect W = W
      BY <1>5
    <3> QED
      BY <3>1, StartFinite, FS_Difference
  <2> QED
    BY <1>2, <1>5, <1>8, <2>1 DEF Start, CountsExact
<1>10. QueuesOK'
  <2> SUFFICES ASSUME NEW s \in Sems
               PROVE  /\ Distinct(s_procq'[s])
                      /\ \A p \in Procs : p \in Elems(s_procq'[s]) <=> p_semAdd'[p] = s
    BY DEF QueuesOK
  <2>1. Distinct(s_procq[s]) /\ \A p \in Procs : p \in Elems(s_procq[s]) <=> p_semAdd[p] = s
    BY DEF Start, QueuesOK
  <2>2. s # NULL
    BY SemsAssumption
  <2>3. \A p \in Procs : p_semAdd'[p] = IF p \in W THEN NULL ELSE p_semAdd[p]
    BY <1>2
  <2>4. CASE s = Clock
    BY <1>3, <1>6, <1>7, <2>2, <2>3, <2>4 DEF q1
  <2>5. CASE s # Clock
    BY <1>3, <1>4, <1>7, <2>1, <2>2, <2>3, <2>5
  <2> QED
    BY <2>4, <2>5
<1>11. TypeRest'
  <2>1. sb_procs' \in Int /\ procs_count' \in Int
    BY <1>2, <1>4, LenProperties DEF Start, TypeRest
  <2>2. sem' \in [Sems -> {0, 1}]
    BY <1>2 DEF Start, TypeRest
  <2>3. /\ p_semAdd' \in [Procs -> Sems \union {NULL}]
        /\ a0' \in [Procs -> {"PASSEREN", "VERHOGEN", "DOIO", "CLOCKWAIT", NULL}]
    BY <1>2 DEF Start, TypeRest
  <2> QED
    BY <1>2, <1>7, <2>1, <2>2, <2>3 DEF Start, TypeRest, tree
<1>12. FreeOK' /\ BusyOK'
  BY <1>1, <1>2 DEF Start, FreeOK, BusyOK, TypeRest, tree
<1>13. p_prio' \in [Procs -> Prios] /\ p_prio' = p_prio
  BY <1>2 DEF Start, TypeRest, tree
<1>14. GoodQueues(rq) /\ ReadyOf(rq) = Ready \union W
  <2>1. \A r \in Prios :
          /\ rq[r] \in Seq(Procs)
          /\ Elems(rq[r]) = Elems(ready_q[r]) \union {p \in W : p_prio[p] = r}
          /\ Distinct(rq[r])
    <3> TAKE r \in Prios
    <3> DEFINE P == {p \in Procs : p_prio[p] = r}
               u == Keep(w, P)
    <3>1. rq[r] = ready_q[r] \o u
      BY DEF rq, ready_with
    <3> HIDE DEF P
    <3>2. u \in Seq(Procs) /\ Elems(u) = W \intersect P /\ Distinct(u)
      BY <1>4, KeepProperties DEF W
    <3> HIDE DEF u
    <3>3. ready_q[r] \in Seq(Procs) /\ Distinct(ready_q[r]) /\ Elems(ready_q[r]) \subseteq Ready
      BY DEF Start, Ready, Prios
    <3>4. Elems(ready_q[r]) \intersect Elems(u) = {}
      BY <1>5, <3>2, <3>3 DEF Start
    <3>5. /\ ready_q[r] \o u \in Seq(Procs)
          /\ Elems(ready_q[r] \o u) = Elems(ready_q[r]) \union Elems(u)
          /\ Distinct(ready_q[r] \o u)
      BY <3>2, <3>3, <3>4, ConcatQueues
    <3>6. W \intersect P = {p \in W : p_prio[p] = r}
      BY <1>5 DEF P
    <3> QED
      BY <3>1, <3>2, <3>5, <3>6
  <2>2. DOMAIN rq = Prios /\ rq = [r \in Prios |-> rq[r]]
    BY DEF rq, ready_with
  <2>3. \A r \in Prios : \A p \in Elems(rq[r]) : p_prio'[p] = r
    BY <1>13, <2>1 DEF Start
  <2>4. \A p \in W : p_prio[p] = "high" \/ p_prio[p] = "low"
    BY <1>5 DEF Start, TypeRest, Prios
  <2>5. ReadyOf(rq) = Ready \union W
    BY <2>1, <2>4 DEF ReadyOf, Ready, Prios
  <2> QED
    BY <2>1, <2>2, <2>3, <2>5 DEF GoodQueues
<1>15. Resumes("CONTINUE", rq, NULL) /\ After(ReadyOf(rq) \union Kept_on("CONTINUE"), NULL)
  <2>1. Just(NULL) = {} /\ yielded_proc = NULL /\ NULL \notin Procs
    BY DEF Just, Start
  <2>2. /\ NULL \notin ReadyOf(rq)
        /\ \A p \in Kept_on("CONTINUE") : p \notin ReadyOf(rq) /\ p # NULL
    BY <1>5, <1>14 DEF Kept_on, Just, Start, Alive
  <2>3. "CONTINUE" \in eh_act /\ act_proc \in Procs \union {NULL}
    BY DEF eh_act, Start
  <2>4. Resumes("CONTINUE", rq, NULL)
    BY <1>2, <1>13, <1>14, <2>1, <2>2, <2>3, ResumeLemma
  <2>5. After(ReadyOf(rq) \union Kept_on("CONTINUE") \union Just(NULL), NULL)
    BY <2>4 DEF Resumes
  <2> QED
    BY <2>1, <2>4, <2>5
<1>16. /\ ReadyOf(rq) \union Kept_on("CONTINUE") \subseteq Alive'
       /\ (ReadyOf(rq) \union Kept_on("CONTINUE")) \intersect Blocked' = {}
       /\ Blocked' \subseteq Alive'
  BY <1>5, <1>8, <1>14 DEF Start, Kept_on, Just
<1>17. Ticks
  BY <1>2, <1>5, <1>14, <1>15 DEF Ticks, w, W, rq
<1> QED
  BY <1>9, <1>10, <1>11, <1>12, <1>15, <1>16, <1>17, SettleLemma

-----------------------------------------------------------------------------
(***************************************************************************)
(* The handlers of Next.                                                   *)
(***************************************************************************)
(* A handler runs while the machine runs or waits.                         *)
LEMMA RunningStart ==
  ASSUME IInv, machine = "running"
  PROVE  /\ Start /\ act_proc \in Procs /\ act_proc # NULL
         /\ act_proc \in Alive /\ act_proc \notin pcb_free /\ p_semAdd[act_proc] = NULL
<1>1. Start
  BY StartLemma DEF interruptible
<1>2. act_proc \in Procs /\ act_proc \in Running
  BY DEF IInv, TypeOK, Running
<1>3. act_proc \in Alive /\ act_proc \notin Blocked
  BY <1>2 DEF IInv, OnePlace
<1> QED
  BY <1>1, <1>2, <1>3, ProcsAssumption DEF Alive, Blocked

(* The process that makes a call, or is interrupted, and what an exception *)
(* does with the statuses that were stored and not read yet.               *)
Caller ==
  /\ machine = "running" /\ act_proc \in Alive /\ p_semAdd[act_proc] = NULL
  /\ \A p \in Procs : v0'[p] \in {v0[p], NULL}

(* What a system call does: its handler runs for a process that is alive   *)
(* and blocked nowhere, and no pcb that is free has a status in its v0.    *)
LEMMA SyscallLemma ==
  ASSUME IInv, NEW ACTION call, handle_syscall(call)
  PROVE  /\ Start /\ act_proc \in Procs /\ act_proc # NULL
         /\ act_proc \in Alive /\ p_semAdd[act_proc] = NULL
         /\ call
         /\ v0' \in [Procs -> Devs \union {NULL}]
         /\ \A p \in pcb_free : v0'[p] = NULL
         /\ \A p \in Procs : p \in pcb_free' => v0'[p] = NULL
         /\ Caller
<1>1. /\ machine = "running"
      /\ v0' = [p \in Procs |-> IF p = act_proc \/ p \in pcb_free' THEN NULL ELSE v0[p]]
  BY DEF handle_syscall
<1>2. /\ Start /\ act_proc \in Procs /\ act_proc # NULL
      /\ act_proc \in Alive /\ act_proc \notin pcb_free /\ p_semAdd[act_proc] = NULL
  BY <1>1, RunningStart
<1>3. call
  BY <1>2 DEF handle_syscall
<1>4. v0 \in [Procs -> Devs \union {NULL}] /\ \A p \in pcb_free : p \in Procs /\ v0[p] = NULL
  BY <1>2 DEF Start, TypeRest, FreeOK
<1> QED
  BY <1>1, <1>2, <1>3, <1>4 DEF Caller

(* What becomes of the processes and the semaphores in each exception.     *)
Quiet(eh, y) ==
  /\ UNCHANGED <<tree, asl, sem, busy>>
  /\ Resumes(eh, ready_q, y)
Ends(p, eh) ==
  LET K == Progeny(p)
  IN  /\ p \in Alive /\ K \subseteq Alive
      /\ "killIO" \in Uses \/ \A x \in K : p_semAdd[x] \notin Devs
      /\ eh = (IF act_proc \in K THEN "NOTHING" ELSE "RENQUEUE")
      /\ Kills(K, eh)
Answers(d) ==
  /\ d \in busy /\ sem[d] = 0 /\ busy' = busy \ {d}
  /\ v0' = IF verhogen_answer(d) = NULL THEN v0 ELSE [v0 EXCEPT ![verhogen_answer(d)] = d]
  /\ Does_V(d, "CONTINUE")

LEMMA CreateStep ==
  ASSUME IInv, NEW k \in Kinds, create_process(k[1], k[2])
  PROVE  /\ IInv' /\ Caller
         /\ (\E c \in pcb_free : Creates(c)) \/ ("createFull" \in Uses /\ Quiet("-1", NULL))
<1>1. k[1] \in Prios /\ k[2] \in BOOLEAN
  BY UsesAssumption
<1> DEFINE call ==
      \/ \E c \in pcb_free :
           /\ mk_proc(c, k[1], k[2])
           /\ resume("CONTINUE", enqueue_proc(ready_q, c), yielded_proc)
      \/ /\ pcb_free = {} /\ "createFull" \in Uses
         /\ UNCHANGED <<counts, tree, asl, sem, busy>>
         /\ resume("-1", ready_q, yielded_proc)
<1>2. handle_syscall(call)
  BY DEF create_process
<1> HIDE DEF call
<1>3. /\ Start /\ act_proc # NULL /\ call /\ Caller
      /\ v0' \in [Procs -> Devs \union {NULL}] /\ \A p \in pcb_free : v0'[p] = NULL
  BY <1>2, SyscallLemma
<1>4. ASSUME NEW c \in pcb_free, mk_proc(c, k[1], k[2]),
             resume("CONTINUE", enqueue_proc(ready_q, c), yielded_proc)
      PROVE  IInv' /\ Creates(c)
  <2>1. Side
    BY <1>3, <1>4 DEF Side, mk_proc, Start, TypeRest
  <2> QED
    BY <1>1, <1>3, <1>4, <2>1, CreateLemma
<1>5. ASSUME UNCHANGED <<counts, tree, asl, sem, busy>>, resume("-1", ready_q, yielded_proc)
      PROVE  IInv' /\ Quiet("-1", NULL)
  <2>1. TypeRest' /\ FreeOK' /\ BusyOK'
    BY <1>3, <1>5 DEF Start, TypeRest, FreeOK, BusyOK, counts, tree, asl
  <2>2. resume("-1", ready_q, NULL) /\ "-1" \in eh_act /\ UNCHANGED <<counts, tree, asl>>
    BY <1>3, <1>5 DEF Start, eh_act
  <2>3. IInv' /\ Resumes("-1", ready_q, NULL)
    BY <1>3, <2>1, <2>2, PassLemma
  <2> QED
    BY <1>5, <2>3 DEF Quiet
<1> QED
  BY <1>3, <1>4, <1>5 DEF call

LEMMA TermStep ==
  ASSUME IInv, NEW p \in Procs, term_process(p)
  PROVE  IInv' /\ Caller /\ \E eh \in eh_act : Ends(p, eh)
<1> DEFINE K == Progeny(p)
           eh == IF act_proc \in K THEN "NOTHING" ELSE "RENQUEUE"
           call == /\ p \in Alive
                   /\ "killIO" \in Uses \/ \A x \in K : p_semAdd[x] \notin Devs
                   /\ IF not_on_its_queue(K) THEN PANIC ELSE kill_parent_and_progeny(K, eh)
<1>1. handle_syscall(call)
  BY DEF term_process
<1> HIDE DEF call
<1>2. /\ Start /\ call /\ Caller
      /\ v0' \in [Procs -> Devs \union {NULL}]
      /\ \A x \in Procs : x \in pcb_free' => v0'[x] = NULL
  BY <1>1, SyscallLemma
<1>3. K \subseteq Alive
  BY <1>2, ProgenyLemma DEF call
<1>4. kill_parent_and_progeny(K, eh)
  BY <1>2, FoundLemma DEF call
<1>7. Kills(K, eh) => Ends(p, eh)
  BY <1>2, <1>3 DEF call, Ends
<1> HIDE DEF K
<1>5. pcb_free' \subseteq Procs
  BY <1>2, <1>3, <1>4 DEF kill_parent_and_progeny, Start, TypeRest, Alive
<1>6. eh \in {"NOTHING", "RENQUEUE"} /\ (eh = "RENQUEUE" => act_proc \notin K)
  OBVIOUS
<1> HIDE DEF eh
<1>8. IInv' /\ Kills(K, eh)
  BY <1>2, <1>3, <1>4, <1>5, <1>6, KillLemma
<1> QED
  BY <1>2, <1>6, <1>7, <1>8 DEF eh_act

LEMMA PassupStep ==
  ASSUME IInv, passup_or_die
  PROVE  IInv' /\ Caller /\ Ends(act_proc, "NOTHING")
<1> DEFINE K == Progeny(act_proc)
<1>1. machine = "running"
  BY DEF passup_or_die
<1>2. Start /\ act_proc \in Alive /\ p_semAdd[act_proc] = NULL /\ act_proc \in Procs
  BY <1>1, RunningStart
<1>3. K \subseteq Alive /\ act_proc \in K
  BY <1>2, ProgenyLemma DEF Progeny
<1>4. /\ kill_parent_and_progeny(K, "NOTHING")
      /\ v0' = [p \in Procs |-> IF p \in pcb_free' THEN NULL ELSE v0[p]]
  BY <1>2, FoundLemma DEF passup_or_die
<1>7. Kills(K, "NOTHING") => Ends(act_proc, "NOTHING")
  BY <1>2, <1>3 DEF passup_or_die, Ends
<1> HIDE DEF K
<1>5. pcb_free' \subseteq Procs /\ v0' \in [Procs -> Devs \union {NULL}]
  BY <1>2, <1>3, <1>4 DEF kill_parent_and_progeny, Start, TypeRest, Alive
<1>6. \A p \in pcb_free' : v0'[p] = NULL
  BY <1>4, <1>5
<1>8. IInv' /\ Kills(K, "NOTHING")
  BY <1>2, <1>3, <1>4, <1>5, <1>6, KillLemma
<1>9. Caller
  BY <1>1, <1>2, <1>4 DEF Caller
<1> QED
  BY <1>7, <1>8, <1>9

LEMMA SemStep ==
  ASSUME IInv, NEW s \in UserSems, PASSEREN(s) \/ VERHOGEN(s)
  PROVE  /\ IInv' /\ Caller /\ busy' = busy
         /\ Does_P(s, "PASSEREN", "RENQUEUE") \/ Does_V(s, "RENQUEUE")
<1>1. s \in Sems /\ s \notin Devs
  BY SemsAssumption DEF Sems
<1>2. CASE PASSEREN(s)
  <2> DEFINE call == UNCHANGED <<procs_count, tree, busy>> /\ passeren(s, "PASSEREN", "RENQUEUE")
  <2>1. handle_syscall(call)
    BY <1>2 DEF PASSEREN
  <2> HIDE DEF call
  <2>2. /\ Start /\ act_proc # NULL /\ call /\ Caller
        /\ v0' \in [Procs -> Devs \union {NULL}] /\ \A p \in pcb_free : v0'[p] = NULL
    BY <2>1, SyscallLemma
  <2>3. /\ UNCHANGED <<procs_count, tree>> /\ busy' = busy
        /\ passeren(s, "PASSEREN", "RENQUEUE")
    BY <2>2 DEF call
  <2>4. Side /\ "RENQUEUE" \in eh_act
    BY <2>2, <2>3 DEF Side, Start, TypeRest, eh_act
  <2> QED
    BY <1>1, <2>2, <2>3, <2>4, PasserenLemma
<1>3. CASE VERHOGEN(s)
  <2> DEFINE call == UNCHANGED <<procs_count, tree, busy>> /\ verhogen(s, "NOTHING", "RENQUEUE")
  <2>1. handle_syscall(call)
    BY <1>3 DEF VERHOGEN
  <2> HIDE DEF call
  <2>2. /\ Start /\ act_proc # NULL /\ call /\ Caller
        /\ v0' \in [Procs -> Devs \union {NULL}] /\ \A p \in pcb_free : v0'[p] = NULL
    BY <2>1, SyscallLemma
  <2>3. /\ UNCHANGED <<procs_count, tree>> /\ busy' = busy
        /\ verhogen(s, "NOTHING", "RENQUEUE")
    BY <2>2 DEF call
  <2>4. Side /\ "RENQUEUE" \in eh_act /\ "NOTHING" \in eh_act /\ s \notin busy'
    BY <1>1, <2>2, <2>3 DEF Side, Start, TypeRest, eh_act
  <2> QED
    BY <1>1, <2>2, <2>3, <2>4, VerhogenLemma
<1> QED
  BY <1>2, <1>3

LEMMA DoIOStep ==
  ASSUME IInv, NEW d \in Devs, do_io(d)
  PROVE  /\ IInv' /\ Caller /\ s_procq[d] = <<>> /\ busy' = busy \union {d}
         /\ Does_P(d, "DOIO", "NOTHING")
<1> DEFINE call == /\ s_procq[d] = <<>>
                   /\ UNCHANGED <<procs_count, tree>>
                   /\ passeren(d, "DOIO", "NOTHING")
                   /\ busy' = busy \union {d}
<1>1. handle_syscall(call)
  BY DEF do_io
<1> HIDE DEF call
<1>2. /\ Start /\ act_proc # NULL /\ call /\ Caller
      /\ v0' \in [Procs -> Devs \union {NULL}] /\ \A p \in pcb_free : v0'[p] = NULL
  BY <1>1, SyscallLemma
<1>3. /\ s_procq[d] = <<>> /\ UNCHANGED <<procs_count, tree>>
      /\ passeren(d, "DOIO", "NOTHING") /\ busy' = busy \union {d}
  BY <1>2 DEF call
<1>4. Side /\ "NOTHING" \in eh_act /\ d \in Sems
  BY <1>2, <1>3 DEF Side, Start, TypeRest, eh_act, Sems
<1> QED
  BY <1>2, <1>3, <1>4, PasserenLemma

LEMMA ClockStep ==
  ASSUME IInv, wait_for_clock
  PROVE  IInv' /\ Caller /\ busy' = busy /\ Does_P(Clock, "CLOCKWAIT", "RENQUEUE")
<1> DEFINE call == UNCHANGED <<procs_count, tree, busy>> /\ passeren(Clock, "CLOCKWAIT", "RENQUEUE")
<1>1. handle_syscall(call)
  BY DEF wait_for_clock
<1> HIDE DEF call
<1>2. /\ Start /\ act_proc # NULL /\ call /\ Caller
      /\ v0' \in [Procs -> Devs \union {NULL}] /\ \A p \in pcb_free : v0'[p] = NULL
  BY <1>1, SyscallLemma
<1>3. /\ UNCHANGED <<procs_count, tree>> /\ busy' = busy
      /\ passeren(Clock, "CLOCKWAIT", "RENQUEUE")
  BY <1>2 DEF call
<1>4. Side /\ "RENQUEUE" \in eh_act /\ Clock \in Sems
  BY <1>2, <1>3 DEF Side, Start, TypeRest, eh_act, Sems
<1> QED
  BY <1>2, <1>3, <1>4, PasserenLemma

(* The calls that leave the semaphores alone, and the end of a time slice. *)
LEMMA PassStep ==
  ASSUME IInv, get_info \/ yield \/ time_slice
  PROVE  /\ IInv' /\ Caller
         /\ \/ \E eh \in {"CONTINUE", "RENQUEUE"} : Quiet(eh, NULL)
            \/ ("loneYield" \in Uses \/ Ready # {}) /\ Quiet("NOTHING", act_proc)
<1>1. ASSUME Start, v0' \in [Procs -> Devs \union {NULL}], \A p \in pcb_free : v0'[p] = NULL,
             UNCHANGED <<counts, tree, asl, sem, busy>>,
             NEW eh \in eh_act, NEW y \in {NULL, act_proc}, y # NULL => eh = "NOTHING",
             resume(eh, ready_q, y)
      PROVE  IInv' /\ Quiet(eh, y)
  <2>1. TypeRest' /\ FreeOK' /\ BusyOK' /\ UNCHANGED <<counts, tree, asl>>
    BY <1>1 DEF Start, TypeRest, FreeOK, BusyOK, counts, tree, asl
  <2>2. IInv' /\ Resumes(eh, ready_q, y)
    BY <1>1, <2>1, PassLemma
  <2> QED
    BY <1>1, <2>2 DEF Quiet
<1>2. CASE get_info
  <2> DEFINE call == UNCHANGED <<counts, tree, asl, sem, busy>>
                       /\ resume("CONTINUE", ready_q, yielded_proc)
  <2>1. handle_syscall(call)
    BY <1>2 DEF get_info
  <2> HIDE DEF call
  <2>2. /\ Start /\ call /\ Caller
        /\ v0' \in [Procs -> Devs \union {NULL}] /\ \A p \in pcb_free : v0'[p] = NULL
    BY <2>1, SyscallLemma
  <2>3. UNCHANGED <<counts, tree, asl, sem, busy>> /\ resume("CONTINUE", ready_q, NULL)
    BY <2>2 DEF call, Start
  <2>4. "CONTINUE" \in eh_act
    BY DEF eh_act
  <2> QED
    BY <1>1, <2>2, <2>3, <2>4
<1>3. CASE yield
  <2> DEFINE call ==
        /\ "loneYield" \in Uses \/ \E r \in Prios : ~empty_proc_q(ready_q[r])
        /\ UNCHANGED <<counts, tree, asl, sem, busy>>
        /\ resume("NOTHING", ready_q, act_proc)
  <2>1. handle_syscall(call)
    BY <1>3 DEF yield
  <2> HIDE DEF call
  <2>2. /\ Start /\ call /\ Caller
        /\ v0' \in [Procs -> Devs \union {NULL}] /\ \A p \in pcb_free : v0'[p] = NULL
    BY <2>1, SyscallLemma
  <2>3. UNCHANGED <<counts, tree, asl, sem, busy>> /\ resume("NOTHING", ready_q, act_proc)
    BY <2>2 DEF call
  <2>4. "NOTHING" \in eh_act
    BY DEF eh_act
  <2>5. "loneYield" \in Uses \/ Ready # {}
    <3>1. ASSUME NEW r \in Prios, ~empty_proc_q(ready_q[r]) PROVE Ready # {}
      <4>1. ready_q[r] \in Seq(Procs) /\ ready_q[r] # <<>>
        BY <2>2, <3>1 DEF Start, empty_proc_q
      <4>2. head_proc_q(ready_q[r]) \in Elems(ready_q[r])
        BY <4>1, RemoveProperties
      <4> QED
        BY <4>2 DEF Ready, Prios
    <3> QED
      BY <2>2, <3>1 DEF call
  <2> QED
    BY <1>1, <2>2, <2>3, <2>4, <2>5
<1>4. CASE time_slice
  <2>1. Start /\ machine = "running" /\ act_proc \in Alive /\ p_semAdd[act_proc] = NULL
    BY <1>4, RunningStart DEF time_slice
  <2>2. UNCHANGED <<counts, tree, asl, sem, v0, busy>> /\ resume("RENQUEUE", ready_q, NULL)
    BY <1>4, <2>1 DEF time_slice, Start
  <2>3. v0' \in [Procs -> Devs \union {NULL}] /\ \A p \in pcb_free : v0'[p] = NULL
    BY <2>1, <2>2 DEF Start, TypeRest, FreeOK
  <2>4. "RENQUEUE" \in eh_act
    BY DEF eh_act
  <2>5. Caller
    BY <2>1, <2>2 DEF Caller
  <2> QED
    BY <1>1, <2>1, <2>2, <2>3, <2>4, <2>5
<1> QED
  BY <1>2, <1>3, <1>4

LEMMA DeviceStep ==
  ASSUME IInv, NEW d \in Devs, device_interrupt(d)
  PROVE  IInv' /\ Answers(d)
<1>1. /\ d \in busy /\ busy' = busy \ {d}
      /\ v0' = IF verhogen_answer(d) = NULL THEN v0 ELSE [v0 EXCEPT ![verhogen_answer(d)] = d]
      /\ UNCHANGED <<procs_count, tree>>
      /\ verhogen(d, "CONTINUE", "CONTINUE")
  BY DEF device_interrupt
<1>2. Start /\ d \in Sems
  BY StartLemma DEF device_interrupt, Sems
<1>3. sem[d] = 0
  BY <1>1, <1>2 DEF Start, BusyOK
<1>4. verhogen_answer(d) \in Alive \union {NULL}
  <2>1. CASE s_procq[d] # <<>>
    <3>1. s_procq[d] \in Seq(Procs) /\ d # NULL
      BY <1>2, SemsAssumption DEF Start, TypeRest
    <3>2. head_proc_q(s_procq[d]) \in Procs /\ head_proc_q(s_procq[d]) \in Elems(s_procq[d])
      BY <2>1, <3>1, RemoveProperties
    <3>3. head_proc_q(s_procq[d]) \in Blocked
      BY <1>2, <3>1, <3>2 DEF Start, QueuesOK, Blocked
    <3> QED
      BY <1>2, <1>3, <2>1, <3>3 DEF verhogen_answer, Start
  <2>2. CASE s_procq[d] = <<>>
    BY <1>2, <1>3, <2>2 DEF verhogen_answer, Start, Just
  <2> QED
    BY <2>1, <2>2
<1>5. Side
  BY <1>1, <1>2, <1>4 DEF Side, Start, TypeRest, FreeOK, Alive
<1>6. "CONTINUE" \in eh_act
  BY DEF eh_act
<1>7. IInv' /\ Does_V(d, "CONTINUE")
  BY <1>1, <1>2, <1>3, <1>5, <1>6, VerhogenLemma
<1> QED
  BY <1>1, <1>3, <1>7 DEF Answers

-----------------------------------------------------------------------------
LEMMA InitLemma == Init => IInv
<1> SUFFICES ASSUME NEW init \in Procs,
                    machine = "running", act_proc = init, yielded_proc = NULL,
                    procs_count = 1, sb_procs = 0, ready_q = [r \in Prios |-> <<>>],
                    pcb_free = Procs \ {init}, p_parent = [p \in Procs |-> NULL],
                    p_prio = [p \in Procs |-> "low"], p_support = {},
                    p_semAdd = [p \in Procs |-> NULL], a0 = [p \in Procs |-> NULL],
                    v0 = [p \in Procs |-> NULL], s_procq = [s \in Sems |-> <<>>],
                    sem \in [Sems -> {0, 1}], busy = {}
             PROVE  IInv
  BY DEF Init
<1>1. TypeOK
  BY DEF TypeOK, Prios
<1>2. Alive = {init} /\ Blocked = {} /\ Running = {init} /\ Ready = {}
  BY ElemsEmpty DEF Alive, Blocked, Running, Ready, Prios
<1>3. OnePlace
  BY <1>2, ElemsEmpty, SemsAssumption DEF OnePlace
<1>4. CountsExact
  BY <1>2, FS_Singleton, FS_EmptySet DEF CountsExact
<1>5. Resting
  BY DEF Resting
<1> QED
  BY <1>1, <1>3, <1>4, <1>5 DEF IInv

LEMMA StepLemma == IInv /\ [Next]_vars => IInv'
<1> SUFFICES ASSUME IInv, [Next]_vars PROVE IInv'
  OBVIOUS
<1>1. ASSUME NEW k \in Kinds, create_process(k[1], k[2]) PROVE IInv'
  BY <1>1, CreateStep
<1>2. ASSUME NEW p \in Procs, term_process(p) PROVE IInv'
  BY <1>2, TermStep
<1>3. ASSUME NEW s \in UserSems, PASSEREN(s) \/ VERHOGEN(s) PROVE IInv'
  BY <1>3, SemStep
<1>4. ASSUME NEW d \in Devs, do_io(d) PROVE IInv'
  BY <1>4, DoIOStep
<1>5. CASE wait_for_clock
  BY <1>5, ClockStep
<1>6. CASE get_info \/ yield \/ time_slice
  BY <1>6, PassStep
<1>7. CASE passup_or_die
  BY <1>7, PassupStep
<1>8. CASE interval_timer
  <2>1. Start
    BY <1>8, StartLemma DEF interval_timer
  <2> QED
    BY <1>8, <2>1, TickLemma
<1>9. ASSUME NEW d \in Devs, device_interrupt(d) PROVE IInv'
  BY <1>9, DeviceStep
<1>10. CASE UNCHANGED vars
  <2>1. /\ UNCHANGED <<machine, act_proc, yielded_proc, procs_count, sb_procs, ready_q, pcb_free>>
        /\ UNCHANGED <<p_parent, p_prio, p_support, p_semAdd, a0, v0, s_procq, sem, busy>>
    BY <1>10 DEF vars, cpu, counts, tree, asl
  <2>2. TypeOK' /\ Resting' /\ CountsExact'
    BY <2>1 DEF IInv, TypeOK, Resting, CountsExact, Alive, Blocked
  <2>3. OnePlace'
    BY <2>1 DEF IInv, OnePlace, Running, Ready, Blocked, Alive
  <2> QED
    BY <2>2, <2>3 DEF IInv
<1> QED
  BY <1>1, <1>2, <1>3, <1>4, <1>5, <1>6, <1>7, <1>8, <1>9, <1>10 DEF Next

(* The nucleus always rests in IInv between two exceptions.                *)
THEOREM Invariance == Spec => []IInv
<1> QED
  BY InitLemma, StepLemma, PTL DEF Spec

(* The fields of the nucleus keep their types, and the semaphores stay     *)
(* binary: V never raises a value above 1.                                 *)
THEOREM TypeCorrect == Spec => []TypeOK
<1>1. IInv => TypeOK
  BY DEF IInv
<1> QED
  BY <1>1, Invariance, PTL

(* No process is ever in two places: on the processor, on a ready queue,   *)
(* on a semaphore, on the free list; whatever the programs do.             *)
THEOREM EachInOnePlace == Spec => []OnePlace
<1>1. IInv => OnePlace
  BY DEF IInv
<1> QED
  BY <1>1, Invariance, PTL

(* procs_count and sb_procs are right at every decision of the scheduler.  *)
THEOREM CountersExact == Spec => []CountsExact
<1>1. IInv => CountsExact
  BY DEF IInv
<1> QED
  BY <1>1, Invariance, PTL

(* The PANICs of handle_syscall, passeren, verhogen and kill_proc cannot   *)
(* be reached: Resting excludes the machine "panic".                       *)
THEOREM RestsWell == Spec => []Resting
<1>1. IInv => Resting
  BY DEF IInv
<1> QED
  BY <1>1, Invariance, PTL

=============================================================================
