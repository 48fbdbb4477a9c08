---------------------------- MODULE PagerProofs ----------------------------
(***************************************************************************)
(* Proofs about the pager: the swap pool is exclusive and the TLB coherent *)
(* without any condition; pages keep their frames, and their last stores,  *)
(* as long as no clean_frames is preempted between its load and its store. *)
(***************************************************************************)
EXTENDS Pager, ProcQueueProofs

(* Where a process has chosen a frame, and where the frame may already be  *)
(* out of the page tables.                                                 *)
Moving == {"write", "writing", "read", "reading", "fill", "lost"}
Holding == {"free"} \union Moving

(* PoolExclusive without cardinalities.                                    *)
Mutex ==
  /\ \A a, b \in Inside : a = b
  /\ sp_sem = 0 <=> Inside # {}
  /\ Elems(sp_queue) = {a \in Asids : pc[a] = "blocked"}
  /\ sp_sem = 1 => sp_queue = <<>>

(* The locals of tlb_exc_handler: the missing page is the process's own    *)
(* and still missing; the chosen frame is occupied while it is saved.      *)
Jobs ==
  \A a \in Asids :
    /\ pc[a] \in {"blocked", "choose"} \union Holding =>
         job[a].pg \in Pages /\ Owner(job[a].pg) = a /\ pte[job[a].pg] = None
    /\ pc[a] \in Holding => job[a].frame \in Frames
    /\ pc[a] = "free" => sp_tbl[job[a].frame] # None
    /\ pc[a] \in {"write", "writing"} =>
         sp_tbl[job[a].frame] # None /\ pte[sp_tbl[job[a].frame]] = None

(* A page in the swap pool table is valid, in the frame that has it there, *)
(* unless that frame is being moved.                                       *)
Filled ==
  \A f \in Frames : sp_tbl[f] # None =>
    \/ pte[sp_tbl[f]] = f
    \/ \E a \in Asids : pc[a] \in Moving /\ job[a].frame = f

BInv == TypeOK /\ Mutex /\ Jobs /\ Filled /\ TlbCoherent

-----------------------------------------------------------------------------
(* choose_frame finds a frame: the first free one, if there is one.        *)
LEMMA ChooseFrame ==
  ASSUME frame_top \in Frames
  PROVE  choose_frame \in Frames
<1> DEFINE after(i) == (frame_top + i) % SP_SIZE
           free == {i \in Frames : sp_tbl[after(i)] = None}
           first == CHOOSE i \in free : \A j \in free : i <= j
<1>1. SP_SIZE \in Nat /\ SP_SIZE > 0 /\ frame_top \in Int
  BY PagerAssumption DEF Frames
<1>2. ASSUME NEW i \in Int PROVE after(i) \in Frames
  BY <1>1 DEF Frames
<1>3. free # {} => first \in free
  <2>1. free \in SUBSET Nat
    BY DEF Frames
  <2> HIDE DEF free
  <2> QED
    BY <2>1, Smallest
<1>4. free # {} => first \in Int
  BY <1>3 DEF Frames
<1>5. choose_frame = IF free = {} THEN after(1) ELSE after(first)
  BY DEF choose_frame
<1> HIDE DEF after, free, first
<1> QED
  BY <1>2, <1>4, <1>5

-----------------------------------------------------------------------------
LEMMA BasicInit == Init => BInv
<1> SUFFICES ASSUME Init PROVE BInv
  OBVIOUS
<1>1. Elems(<<>>) = {} /\ Distinct(<<>>) /\ <<>> \in Seq(Asids)
  BY DEF Elems, Distinct
<1>2. TypeOK
  BY <1>1, PagerAssumption
     DEF Init, init_supp_structures, TypeOK, Frames, Pages, Copies, Blank, NoJob, Empty
<1>3. Inside = {} /\ \A a \in Asids : pc[a] = "user"
  BY DEF Init, Inside
<1>4. Mutex
  BY <1>1, <1>3 DEF Init, init_supp_structures, Mutex
<1>5. Jobs /\ Filled /\ TlbCoherent
  BY <1>3 DEF Init, init_supp_structures, Jobs, Filled, TlbCoherent, Empty, Holding, Moving
<1> QED
  BY <1>2, <1>4, <1>5 DEF BInv

(* A slot that is written with the page table entry of a page: no other    *)
(* slot has that page.                                                     *)
LEMMA WriteSlot ==
  ASSUME BInv, NEW pg \in Pages, NEW f \in Frames \union {None}, NEW s \in Slots,
         TLBP(pg) \subseteq {s},
         pte' = [pte EXCEPT ![pg] = f],
         tlb' = [tlb EXCEPT ![s] = [page |-> pg, frame |-> f]]
  PROVE  /\ pte' \in [Pages -> Frames \union {None}]
         /\ pte'[pg] = f /\ \A p \in Pages : p # pg => pte'[p] = pte[p]
         /\ tlb' \in [Slots -> [page : Pages \union {None}, frame : Frames \union {None}]]
         /\ TlbCoherent'
<1>1. /\ pte' \in [Pages -> Frames \union {None}]
      /\ pte'[pg] = f /\ \A p \in Pages : p # pg => pte'[p] = pte[p]
  BY DEF BInv, TypeOK
<1>2. /\ tlb \in [Slots -> [page : Pages \union {None}, frame : Frames \union {None}]]
      /\ TlbCoherent
  BY DEF BInv, TypeOK
<1>3. tlb' \in [Slots -> [page : Pages \union {None}, frame : Frames \union {None}]]
  BY <1>2
<1>4. /\ tlb'[s].page = pg /\ tlb'[s].frame = f
      /\ \A t \in Slots : t # s => tlb'[t] = tlb[t] /\ tlb[t].page # pg
  BY <1>2 DEF TLBP
<1>5. \A t \in Slots : tlb'[t].page # None => tlb'[t].frame = pte'[tlb'[t].page]
  <2> SUFFICES ASSUME NEW t \in Slots, tlb'[t].page # None
               PROVE  tlb'[t].frame = pte'[tlb'[t].page]
    OBVIOUS
  <2>1. CASE t = s
    BY <2>1, <1>1, <1>4
  <2>2. CASE t # s
    <3>1. tlb'[t] = tlb[t] /\ tlb[t].page \in Pages /\ tlb[t].page # pg
      BY <2>2, <1>2, <1>4
    <3>2. tlb[t].frame = pte[tlb[t].page]
      BY <3>1, <1>2 DEF TlbCoherent
    <3> QED
      BY <3>1, <3>2, <1>1
  <2> QED
    BY <2>1, <2>2
<1>6. \A t, u \in Slots : tlb'[t].page # None /\ tlb'[t].page = tlb'[u].page => t = u
  BY <1>2, <1>4 DEF TlbCoherent
<1> QED
  BY <1>1, <1>3, <1>5, <1>6 DEF TlbCoherent

(* The entry of a page in the TLB is the one of its page table.            *)
LEMMA Probed ==
  ASSUME BInv, NEW pg \in Pages, NEW s \in TLBP(pg)
  PROVE  tlb[s].frame = pte[pg]
<1>1. s \in Slots /\ tlb[s].page = pg /\ pg # None
  BY PagerAssumption DEF TLBP, Pages
<1> QED
  BY <1>1 DEF BInv, TlbCoherent

LEMMA RefillBasic ==
  ASSUME BInv, NEW pg \in Pages, uTLB_RefillHandler(pg)
  PROVE  BInv'
<1>1. /\ TLBP(pg) = {}
      /\ UNCHANGED <<sp_tbl, sp_sem, sp_queue, sp_asids, frame_top, pte, flash_sem,
                     ram, flash, pc, job, tmp>>
  BY DEF uTLB_RefillHandler
<1>2. PICK s \in Slots : tlb' = [tlb EXCEPT ![s] = [page |-> pg, frame |-> pte[pg]]]
  BY DEF uTLB_RefillHandler
<1>3. /\ pte[pg] \in Frames \union {None} /\ pte' = [pte EXCEPT ![pg] = pte[pg]]
      /\ TLBP(pg) \subseteq {s}
  BY <1>1 DEF BInv, TypeOK
<1>4. /\ tlb' \in [Slots -> [page : Pages \union {None}, frame : Frames \union {None}]]
      /\ TlbCoherent'
  BY <1>2, <1>3, WriteSlot
<1>5. TypeOK'
  BY <1>1, <1>4 DEF BInv, TypeOK
<1>6. Mutex' /\ Jobs' /\ Filled'
  BY <1>1 DEF BInv, Mutex, Jobs, Filled, Inside
<1> QED
  BY <1>4, <1>5, <1>6 DEF BInv

LEMMA StoreBasic ==
  ASSUME BInv, NEW pg \in Pages, store(pg)
  PROVE  BInv'
<1>1. /\ UNCHANGED <<sp_tbl, sp_sem, sp_queue, sp_asids, frame_top, pte, tlb,
                     flash_sem, pc, job, tmp>>
  BY DEF store
<1>2. ram' \in [Frames -> Copies]
  <2>1. PICK s \in TLBP(pg) : ram' = [f \in Frames |->
                    IF f # tlb[s].frame THEN Outdated(ram[f], pg)
                    ELSE [ram[f] EXCEPT !.last = @ /\ ram[f].page = pg]]
    BY DEF store
  <2>2. \A f \in Frames : ram[f] \in Copies
    BY DEF BInv, TypeOK
  <2>3. \A c \in Copies : Outdated(c, pg) \in Copies /\ [c EXCEPT !.last = @ /\ c.page = pg] \in Copies
    BY DEF Copies, Outdated
  <2> QED
    BY <2>1, <2>2, <2>3
<1>3. flash' \in [Pages -> Copies]
  <2>1. flash' = [b \in Pages |-> Outdated(flash[b], pg)]
    BY DEF store
  <2>2. \A b \in Pages : flash[b] \in Copies
    BY DEF BInv, TypeOK
  <2>3. \A c \in Copies : Outdated(c, pg) \in Copies
    BY DEF Copies, Outdated
  <2> QED
    BY <2>1, <2>2, <2>3
<1>4. TypeOK'
  BY <1>1, <1>2, <1>3 DEF BInv, TypeOK
<1>5. Mutex' /\ Jobs' /\ Filled' /\ TlbCoherent'
  BY <1>1 DEF BInv, Mutex, Jobs, Filled, Inside, TlbCoherent
<1> QED
  BY <1>4, <1>5 DEF BInv

(* P: the process goes in, or waits on the queue.                          *)
LEMMA FaultBasic ==
  ASSUME BInv, NEW pg \in Pages, page_fault(pg)
  PROVE  BInv'
<1> DEFINE a == Owner(pg)
<1>1. /\ a \in Asids /\ pc[a] = "user" /\ pte[pg] = None
      /\ job' = [job EXCEPT ![a].pg = pg]
      /\ UNCHANGED <<sp_tbl, sp_asids, frame_top, pte, tlb, flash_sem, ram, flash, tmp>>
  BY Probed DEF page_fault, Pages, Owner
<1>2. /\ sp_sem \in {0, 1} /\ sp_queue \in Seq(Asids) /\ Distinct(sp_queue)
      /\ a \notin Elems(sp_queue) /\ a \notin Inside
  BY <1>1 DEF BInv, TypeOK, Mutex, Inside
<1> HIDE DEF a
<1>3. \/ /\ sp_sem = 0 /\ sp_sem' = sp_sem /\ sp_queue' = insert_proc_q(sp_queue, a)
         /\ pc' = [pc EXCEPT ![a] = "blocked"]
      \/ /\ sp_sem = 1 /\ sp_sem' = 0 /\ sp_queue' = sp_queue
         /\ pc' = [pc EXCEPT ![a] = "choose"]
  BY <1>2 DEF page_fault, sp_P, goto, a
<1>4. /\ insert_proc_q(sp_queue, a) \in Seq(Asids)
      /\ Distinct(insert_proc_q(sp_queue, a))
      /\ Elems(insert_proc_q(sp_queue, a)) = Elems(sp_queue) \union {a}
  BY <1>1, <1>2, InsertProperties
<1>5. TypeOK'
  <2>1. job' \in [Asids -> [pg : Pages \union {None}, frame : Frames \union {None}]]
    BY <1>1 DEF BInv, TypeOK
  <2>2. sp_queue' \in Seq(Asids) /\ Distinct(sp_queue') /\ sp_sem' \in {0, 1}
    BY <1>2, <1>3, <1>4
  <2>3. pc' \in [Asids -> {"user", "blocked", "choose", "free", "write", "writing",
                           "read", "reading", "fill", "release", "lost",
                           "sys2", "clean", "term", "dead"}]
    BY <1>3 DEF BInv, TypeOK
  <2> QED
    BY <1>1, <2>1, <2>2, <2>3 DEF BInv, TypeOK
<1>6. /\ pc'[a] \in {"blocked", "choose"} /\ job'[a].pg = pg
      /\ \A b \in Asids : b # a => pc'[b] = pc[b] /\ job'[b] = job[b]
  BY <1>1, <1>3 DEF BInv, TypeOK
<1>7. Mutex'
  <2>1. CASE sp_sem = 0
    <3>1. Inside' = Inside /\ sp_sem' = 0
      BY <2>1, <1>1, <1>3, <1>6 DEF Inside, BInv, TypeOK
    <3>2. Elems(sp_queue') = {b \in Asids : pc'[b] = "blocked"}
      BY <2>1, <1>1, <1>3, <1>4, <1>6 DEF BInv, TypeOK, Mutex
    <3> QED
      BY <2>1, <3>1, <3>2 DEF BInv, Mutex
  <2>2. CASE sp_sem = 1
    <3>1. Inside = {} /\ Inside' = {a}
      BY <2>2, <1>1, <1>3, <1>6 DEF Inside, BInv, TypeOK, Mutex
    <3>2. Elems(sp_queue') = {b \in Asids : pc'[b] = "blocked"}
      BY <2>2, <1>1, <1>3, <1>6 DEF BInv, TypeOK, Mutex
    <3> QED
      BY <2>2, <1>3, <3>1, <3>2 DEF Mutex
  <2> QED
    BY <2>1, <2>2, <1>2
<1>8. Jobs'
  BY <1>1, <1>6 DEF BInv, Jobs, Holding, Moving, a
<1>9. Filled'
  BY <1>1, <1>6 DEF BInv, Filled, Moving
<1>10. TlbCoherent'
  BY <1>1 DEF BInv, TlbCoherent
<1> QED
  BY <1>5, <1>7, <1>8, <1>9, <1>10 DEF BInv

(* A process that neither enters nor leaves the pool, nor waits for it.    *)
LEMMA PoolKept ==
  ASSUME BInv, NEW a \in Asids, NEW l, goto(a, l), pc[a] # "blocked", l # "blocked",
         a \in Inside <=> l \in {"choose", "free", "write", "writing", "read",
                                 "reading", "fill", "release", "lost"},
         UNCHANGED <<sp_sem, sp_queue>>
  PROVE  Mutex' /\ Inside' = Inside
<1>1. /\ pc' = [pc EXCEPT ![a] = l] /\ sp_sem' = sp_sem /\ sp_queue' = sp_queue
      /\ a \in Inside <=> l \in {"choose", "free", "write", "writing", "read",
                                 "reading", "fill", "release", "lost"}
  BY DEF goto
<1>2. pc'[a] = l /\ \A b \in Asids : b # a => pc'[b] = pc[b]
  BY <1>1 DEF BInv, TypeOK
<1>3. Inside' = Inside
  BY <1>1, <1>2 DEF Inside
<1>4. {b \in Asids : pc'[b] = "blocked"} = {b \in Asids : pc[b] = "blocked"}
  BY <1>2
<1> QED
  BY <1>1, <1>3, <1>4 DEF BInv, Mutex

LEMMA ChooseBasic ==
  ASSUME BInv, NEW a \in Asids, choose(a)
  PROVE  BInv'
<1>1. PICK l \in {"free", "read"} :
        /\ goto(a, l)
        /\ l = IF to_be_saved(choose_frame, a) THEN "free" ELSE "read"
  BY DEF choose
<1>2. /\ pc[a] = "choose" /\ pc' = [pc EXCEPT ![a] = l]
      /\ frame_top' = choose_frame /\ job' = [job EXCEPT ![a].frame = choose_frame]
      /\ UNCHANGED <<sp_tbl, sp_sem, sp_queue, sp_asids, pte, tlb, flash_sem, ram, flash, tmp>>
  BY <1>1 DEF choose, goto
<1>3. choose_frame \in Frames
  BY ChooseFrame DEF BInv, TypeOK
<1>4. l = "free" => sp_tbl[choose_frame] # None
  BY <1>1 DEF to_be_saved
<1> DEFINE f == choose_frame
<1> HIDE DEF f
<1>5. f \in Frames /\ frame_top' = f /\ job' = [job EXCEPT ![a].frame = f]
  BY <1>2, <1>3 DEF f
<1>6. TypeOK'
  <2>1. job' \in [Asids -> [pg : Pages \union {None}, frame : Frames \union {None}]]
    BY <1>5 DEF BInv, TypeOK
  <2> QED
    BY <1>2, <1>5, <2>1 DEF BInv, TypeOK
<1>7. /\ pc'[a] = l /\ job'[a].frame = f /\ job'[a].pg = job[a].pg
      /\ \A b \in Asids : b # a => pc'[b] = pc[b] /\ job'[b] = job[b]
  BY <1>2, <1>5 DEF BInv, TypeOK
<1>8. Mutex'
  BY <1>1, <1>2, PoolKept DEF Inside
<1>9. Jobs'
  BY <1>2, <1>4, <1>5, <1>7 DEF BInv, Jobs, Holding, Moving, f
<1>10. Filled'
  BY <1>2, <1>5, <1>7 DEF BInv, Filled, Moving
<1>11. TlbCoherent'
  BY <1>2 DEF BInv, TlbCoherent
<1> QED
  BY <1>6, <1>8, <1>9, <1>10, <1>11 DEF BInv

(* update_tlb and the page table change together: the entry of the page,   *)
(* or if it has none slot 0, is now the one of its page table.             *)
LEMMA UpdateTlb ==
  ASSUME BInv, NEW pg \in Pages, NEW f \in Frames \union {None},
         pte' = [pte EXCEPT ![pg] = f], tlb' = update_tlb(pg, f)
  PROVE  /\ pte' \in [Pages -> Frames \union {None}]
         /\ pte'[pg] = f /\ \A p \in Pages : p # pg => pte'[p] = pte[p]
         /\ tlb' \in [Slots -> [page : Pages \union {None}, frame : Frames \union {None}]]
         /\ TlbCoherent'
<1> DEFINE index == IF TLBP(pg) = {} THEN 0 ELSE CHOOSE s \in TLBP(pg) : TRUE
<1>1. tlb' = [tlb EXCEPT ![index] = [page |-> pg, frame |-> f]]
  BY DEF update_tlb
<1>2. 0 \in Slots /\ TLBP(pg) \subseteq Slots
  BY PagerAssumption DEF Slots, TLBP
<1>3. \A s, t \in TLBP(pg) : s = t
  BY PagerAssumption DEF TLBP, Pages, BInv, TlbCoherent
<1>4. index \in Slots /\ TLBP(pg) \subseteq {index}
  <2>1. CASE TLBP(pg) = {}
    BY <2>1, <1>2
  <2>2. CASE TLBP(pg) # {}
    <3>1. index \in TLBP(pg)
      BY <2>2
    <3> QED
      BY <3>1, <1>2, <1>3
  <2> QED
    BY <2>1, <2>2
<1> HIDE DEF index
<1> QED
  BY <1>1, <1>4, WriteSlot

LEMMA InvalidateBasic ==
  ASSUME BInv, NEW a \in Asids, invalidate(a)
  PROVE  BInv'
<1> DEFINE f == job[a].frame
           pg == sp_tbl[f]
<1>1. /\ pc[a] = "free" /\ goto(a, "write") /\ pc' = [pc EXCEPT ![a] = "write"]
      /\ pte' = [pte EXCEPT ![pg] = None] /\ tlb' = update_tlb(pg, None)
      /\ UNCHANGED <<sp_tbl, sp_sem, sp_queue, sp_asids, frame_top, flash_sem, ram,
                     flash, job, tmp>>
  BY DEF invalidate, goto
<1>2. f \in Frames /\ pg \in Pages
  BY <1>1 DEF BInv, TypeOK, Jobs, Holding
<1>3. /\ pte' \in [Pages -> Frames \union {None}]
      /\ pte'[pg] = None /\ \A p \in Pages : p # pg => pte'[p] = pte[p]
      /\ tlb' \in [Slots -> [page : Pages \union {None}, frame : Frames \union {None}]]
      /\ TlbCoherent'
  BY <1>1, <1>2, UpdateTlb
<1>4. TypeOK'
  BY <1>1, <1>3 DEF BInv, TypeOK
<1>5. pc'[a] = "write" /\ \A b \in Asids : b # a => pc'[b] = pc[b]
  BY <1>1 DEF BInv, TypeOK
<1>6. Mutex'
  BY <1>1, PoolKept DEF Inside
<1>7. Jobs'
  <2> SUFFICES ASSUME NEW b \in Asids
               PROVE  /\ pc'[b] \in {"blocked", "choose"} \union Holding =>
                           job[b].pg \in Pages /\ Owner(job[b].pg) = b /\ pte'[job[b].pg] = None
                      /\ pc'[b] \in Holding => job[b].frame \in Frames
                      /\ pc'[b] = "free" => sp_tbl[job[b].frame] # None
                      /\ pc'[b] \in {"write", "writing"} =>
                           sp_tbl[job[b].frame] # None /\ pte'[sp_tbl[job[b].frame]] = None
    BY <1>1 DEF Jobs
  <2>1. CASE b = a
    BY <2>1, <1>1, <1>2, <1>3, <1>5 DEF BInv, Jobs, Holding, Moving
  <2>2. CASE b # a
    <3>1. pc'[b] = pc[b]
      BY <2>2, <1>5
    <3>2. pc[b] \in {"write", "writing"} => sp_tbl[job[b].frame] \in Pages
      BY DEF BInv, TypeOK, Jobs, Holding, Moving
    <3> QED
      BY <3>1, <3>2, <1>3 DEF BInv, Jobs
  <2> QED
    BY <2>1, <2>2
<1>8. Filled'
  <2> SUFFICES ASSUME NEW g \in Frames, sp_tbl[g] # None
               PROVE  \/ pte'[sp_tbl[g]] = g
                      \/ \E b \in Asids : pc'[b] \in Moving /\ job[b].frame = g
    BY <1>1 DEF Filled
  <2>1. CASE \E b \in Asids : pc[b] \in Moving /\ job[b].frame = g
    BY <2>1, <1>1, <1>5 DEF Moving
  <2>2. CASE g = f
    BY <2>2, <1>5 DEF Moving
  <2>3. CASE g # f /\ pte[sp_tbl[g]] = g
    <3>1. pte[pg] = f
      <4>1. \A b \in Asids : pc[b] \notin Moving
        BY <1>1 DEF BInv, Mutex, Inside, Moving
      <4> QED
        BY <4>1, <1>1, <1>2 DEF BInv, Filled, Jobs
    <3>2. sp_tbl[g] # pg /\ sp_tbl[g] \in Pages
      BY <2>3, <3>1 DEF BInv, TypeOK
    <3> QED
      BY <2>3, <3>2, <1>3
  <2> QED
    BY <2>1, <2>2, <2>3 DEF BInv, Filled
<1> QED
  BY <1>3, <1>4, <1>6, <1>7, <1>8 DEF BInv

(* The steps that wait for the flash; only the saved frame may become free. *)
LEMMA FlashBasic ==
  ASSUME BInv, NEW a \in Asids, flash_start(a) \/ written(a) \/ read(a)
  PROVE  BInv'
<1> DEFINE f == job[a].frame
<1>1. PICK l \in {"writing", "reading", "read", "fill", "lost"} :
        /\ goto(a, l)
        /\ \/ pc[a] = "write" /\ l = "writing" /\ UNCHANGED sp_tbl
           \/ pc[a] = "read" /\ l = "reading" /\ UNCHANGED sp_tbl
           \/ pc[a] = "writing" /\ l = "read"
                /\ (sp_tbl' = [sp_tbl EXCEPT ![f] = None] \/ UNCHANGED sp_tbl)
           \/ pc[a] = "reading" /\ l \in {"fill", "lost"} /\ UNCHANGED sp_tbl
  BY DEF flash_start, written, read
<1>2. /\ pc' = [pc EXCEPT ![a] = l] /\ pc[a] \in {"write", "read", "writing", "reading"}
      /\ UNCHANGED <<sp_sem, sp_queue, sp_asids, frame_top, pte, tlb, job, tmp>>
  BY <1>1 DEF flash_start, written, read, goto
<1>3. f \in Frames /\ job[a].pg \in Pages
  BY <1>2 DEF BInv, Jobs, Holding, Moving
<1>4. /\ flash_sem' \in [Asids -> {0, 1}]
      /\ flash' \in [Pages -> Copies] /\ ram' \in [Frames -> Copies]
  <2>1. flash_sem \in [Asids -> {0, 1}] /\ flash \in [Pages -> Copies] /\ ram \in [Frames -> Copies]
    BY DEF BInv, TypeOK
  <2>2. CASE flash_start(a)
    BY <2>1, <2>2 DEF flash_start
  <2>3. CASE written(a)
    <3>1. flash' = flash \/ flash' = [flash EXCEPT ![block(a, sp_tbl[f])] = ram[f]]
      BY <2>3 DEF written
    <3>2. flash' \in [Pages -> Copies]
      BY <2>1, <3>1, <1>3
    <3> QED
      BY <2>1, <2>3, <3>2 DEF written, v_on_dev
  <2>4. CASE read(a)
    <3>1. ram' = ram \/ ram' = [ram EXCEPT ![f] = flash[job[a].pg]]
      BY <2>4 DEF read
    <3>2. ram' \in [Frames -> Copies]
      BY <2>1, <3>1, <1>3
    <3> QED
      BY <2>1, <2>4, <3>2 DEF read, v_on_dev
  <2> QED
    BY <2>2, <2>3, <2>4
<1>5. /\ sp_tbl' \in [Frames -> Pages \union {None}]
      /\ \A g \in Frames : g # f => sp_tbl'[g] = sp_tbl[g]
      /\ sp_tbl'[f] = sp_tbl[f] \/ (l = "read" /\ sp_tbl'[f] = None)
  <2>1. sp_tbl \in [Frames -> Pages \union {None}]
    BY DEF BInv, TypeOK
  <2>2. CASE sp_tbl' = sp_tbl
    BY <2>1, <2>2
  <2>3. CASE l = "read" /\ sp_tbl' = [sp_tbl EXCEPT ![f] = None]
    BY <2>1, <2>3, <1>3
  <2> QED
    BY <1>1, <2>2, <2>3
<1>6. TypeOK'
  BY <1>2, <1>4, <1>5 DEF BInv, TypeOK
<1>7. pc'[a] = l /\ \A b \in Asids : b # a => pc'[b] = pc[b]
  BY <1>2 DEF BInv, TypeOK
<1>8. Mutex'
  BY <1>1, <1>2, PoolKept DEF Inside
<1>9. \A b \in Asids : b # a => pc[b] \notin Holding
  BY <1>2 DEF BInv, Mutex, Inside, Holding, Moving
<1>10. Jobs'
  <2> SUFFICES ASSUME NEW b \in Asids
               PROVE  /\ pc'[b] \in {"blocked", "choose"} \union Holding =>
                           job[b].pg \in Pages /\ Owner(job[b].pg) = b /\ pte[job[b].pg] = None
                      /\ pc'[b] \in Holding => job[b].frame \in Frames
                      /\ pc'[b] = "free" => sp_tbl'[job[b].frame] # None
                      /\ pc'[b] \in {"write", "writing"} =>
                           sp_tbl'[job[b].frame] # None /\ pte[sp_tbl'[job[b].frame]] = None
    BY <1>2 DEF Jobs
  <2>1. CASE b = a
    <3>1. /\ job[b].pg \in Pages /\ Owner(job[b].pg) = b /\ pte[job[b].pg] = None
          /\ job[b].frame \in Frames
      BY <2>1, <1>2 DEF BInv, Jobs, Holding, Moving
    <3>2. l = "writing" => sp_tbl'[f] # None /\ pte[sp_tbl'[f]] = None
      BY <1>1, <1>2 DEF BInv, Jobs
    <3> QED
      BY <2>1, <3>1, <3>2, <1>7
  <2>2. CASE b # a
    <3>1. pc'[b] = pc[b] /\ pc'[b] \notin Holding
      BY <2>2, <1>7, <1>9
    <3> QED
      BY <3>1 DEF BInv, Jobs, Holding, Moving
  <2> QED
    BY <2>1, <2>2
<1>11. Filled'
  <2> SUFFICES ASSUME NEW g \in Frames, sp_tbl'[g] # None
               PROVE  \/ pte[sp_tbl'[g]] = g
                      \/ \E b \in Asids : pc'[b] \in Moving /\ job[b].frame = g
    BY <1>2 DEF Filled
  <2>1. CASE g = f
    BY <2>1, <1>7 DEF Moving
  <2>2. CASE g # f
    BY <2>2, <1>5, <1>7 DEF BInv, Filled, Moving
  <2> QED
    BY <2>1, <2>2
<1>12. TlbCoherent'
  BY <1>2 DEF BInv, TlbCoherent
<1> QED
  BY <1>6, <1>8, <1>10, <1>11, <1>12 DEF BInv

(* fill_frame: the page was nowhere, and the chosen frame is now its own.  *)
LEMMA FillBasic ==
  ASSUME BInv, NEW a \in Asids, fill_frame(a)
  PROVE  BInv'
<1> DEFINE f == job[a].frame
           pg == job[a].pg
<1>1. /\ pc[a] = "fill" /\ goto(a, "release") /\ pc' = [pc EXCEPT ![a] = "release"]
      /\ sp_tbl' = [sp_tbl EXCEPT ![f] = pg] /\ sp_asids' = sp_asids \union {a}
      /\ pte' = [pte EXCEPT ![pg] = f] /\ tlb' = update_tlb(pg, f)
      /\ UNCHANGED <<sp_sem, sp_queue, frame_top, flash_sem, ram, flash, job, tmp>>
  BY DEF fill_frame, goto
<1>2. f \in Frames /\ pg \in Pages /\ Owner(pg) = a /\ pte[pg] = None
  BY <1>1 DEF BInv, Jobs, Holding, Moving
<1>3. /\ pte' \in [Pages -> Frames \union {None}]
      /\ pte'[pg] = f /\ \A p \in Pages : p # pg => pte'[p] = pte[p]
      /\ tlb' \in [Slots -> [page : Pages \union {None}, frame : Frames \union {None}]]
      /\ TlbCoherent'
  BY <1>1, <1>2, UpdateTlb
<1>4. /\ sp_tbl' \in [Frames -> Pages \union {None}] /\ sp_tbl'[f] = pg
      /\ \A g \in Frames : g # f => sp_tbl'[g] = sp_tbl[g]
  BY <1>1, <1>2 DEF BInv, TypeOK
<1>5. pc'[a] = "release" /\ \A b \in Asids : b # a => pc'[b] = pc[b]
  BY <1>1 DEF BInv, TypeOK
<1>6. TypeOK'
  BY <1>1, <1>3, <1>4 DEF BInv, TypeOK
<1>7. Mutex'
  BY <1>1, PoolKept DEF Inside
<1>8. \A b \in Asids : b # a => pc[b] \notin Holding
  BY <1>1 DEF BInv, Mutex, Inside, Holding, Moving
<1>9. Jobs'
  <2> SUFFICES ASSUME NEW b \in Asids
               PROVE  /\ pc'[b] \in {"blocked", "choose"} \union Holding =>
                           job[b].pg \in Pages /\ Owner(job[b].pg) = b /\ pte'[job[b].pg] = None
                      /\ pc'[b] \notin Holding \/ b = a
    BY <1>1, <1>5 DEF Jobs, Holding, Moving
  <2>1. CASE b = a
    BY <2>1, <1>5 DEF Holding, Moving
  <2>2. CASE b # a
    <3>1. pc'[b] = pc[b] /\ pc'[b] \notin Holding
      BY <2>2, <1>5, <1>8
    <3>2. pc[b] \in {"blocked", "choose"} =>
            job[b].pg \in Pages /\ Owner(job[b].pg) = b /\ pte[job[b].pg] = None
      BY DEF BInv, Jobs
    <3> QED
      BY <2>2, <3>1, <3>2, <1>2, <1>3
  <2> QED
    BY <2>1, <2>2
<1>10. Filled'
  <2> SUFFICES ASSUME NEW g \in Frames, sp_tbl'[g] # None
               PROVE  pte'[sp_tbl'[g]] = g
    BY DEF Filled
  <2>1. CASE g = f
    BY <2>1, <1>3, <1>4
  <2>2. CASE g # f
    <3>1. sp_tbl'[g] = sp_tbl[g] /\ sp_tbl[g] \in Pages
      BY <2>2, <1>4 DEF BInv, TypeOK
    <3>2. pte[sp_tbl[g]] = g
      BY <2>2, <3>1, <1>8 DEF BInv, Filled, Holding
    <3>3. sp_tbl[g] # pg
      BY <3>2, <1>2, PagerAssumption DEF Frames
    <3> QED
      BY <3>1, <3>2, <3>3, <1>3
  <2> QED
    BY <2>1, <2>2
<1> QED
  BY <1>3, <1>6, <1>7, <1>9, <1>10 DEF BInv

(* V: the pool is free, or the first that waits has it.                    *)
LEMMA ReleaseBasic ==
  ASSUME BInv, NEW a \in Asids, release(a)
  PROVE  BInv'
<1>1. /\ pc[a] = "release" /\ sp_V(a, "user") /\ job' = [job EXCEPT ![a] = NoJob]
      /\ UNCHANGED <<sp_tbl, sp_asids, frame_top, pte, tlb, flash_sem, ram, flash, tmp>>
  BY DEF release
<1>2. job' \in [Asids -> [pg : Pages \union {None}, frame : Frames \union {None}]]
  BY <1>1 DEF BInv, TypeOK, NoJob
<1>3. /\ sp_sem = 0 /\ Inside = {a} /\ \A b \in Asids : pc[b] \notin Holding
      /\ sp_queue \in Seq(Asids) /\ Distinct(sp_queue)
  BY <1>1 DEF BInv, TypeOK, Mutex, Inside, Holding, Moving
<1>4. /\ TypeOK' /\ Mutex'
      /\ \A b \in Asids : /\ pc'[b] \notin Holding
                          /\ pc'[b] \in {"blocked", "choose"} => b # a /\ pc[b] = "blocked"
  <2>1. CASE sp_queue = <<>>
    <3>1. sp_sem' = 1 /\ pc' = [pc EXCEPT ![a] = "user"] /\ sp_queue' = sp_queue
      BY <2>1, <1>1 DEF sp_V, empty_proc_q, goto
    <3>2. pc'[a] = "user" /\ \A b \in Asids : b # a => pc'[b] = pc[b]
      BY <3>1 DEF BInv, TypeOK
    <3>3. TypeOK'
      BY <1>1, <1>2, <3>1 DEF BInv, TypeOK
    <3>4. Inside' = {} /\ {b \in Asids : pc'[b] = "blocked"} = {b \in Asids : pc[b] = "blocked"}
      BY <1>1, <1>3, <3>2 DEF Inside
    <3>5. Mutex'
      BY <2>1, <3>1, <3>4 DEF BInv, Mutex
    <3> QED
      BY <1>3, <3>2, <3>3, <3>5 DEF Holding, Moving, Inside
  <2>2. CASE sp_queue # <<>>
    <3> DEFINE h == head_proc_q(sp_queue)
    <3>1. /\ sp_sem' = sp_sem /\ pc' = [pc EXCEPT ![a] = "user", ![h] = "choose"]
          /\ sp_queue' = Tail(sp_queue)
      BY <2>2, <1>1 DEF sp_V, empty_proc_q
    <3>2. /\ h \in Asids /\ h \in Elems(sp_queue)
          /\ Tail(sp_queue) \in Seq(Asids) /\ Distinct(Tail(sp_queue))
          /\ Elems(sp_queue) = Elems(Tail(sp_queue)) \union {h}
          /\ h \notin Elems(Tail(sp_queue))
      BY <2>2, <1>3, RemoveProperties
    <3> HIDE DEF h
    <3>3. pc[h] = "blocked" /\ h # a
      BY <1>1, <3>2 DEF BInv, Mutex
    <3>4. /\ pc'[a] = "user" /\ pc'[h] = "choose"
          /\ \A b \in Asids : b # a /\ b # h => pc'[b] = pc[b]
      BY <3>1, <3>2, <3>3 DEF BInv, TypeOK
    <3>5. TypeOK'
      BY <1>1, <1>2, <3>1, <3>2 DEF BInv, TypeOK
    <3>6. Inside' = {h}
      BY <1>1, <1>3, <3>2, <3>4 DEF Inside
    <3>7. Elems(sp_queue') = {b \in Asids : pc'[b] = "blocked"}
      BY <1>1, <3>1, <3>2, <3>3, <3>4 DEF BInv, Mutex
    <3>8. Mutex'
      <4>1. sp_sem' = 0
        BY <1>3, <3>1
      <4> QED
        BY <3>6, <3>7, <4>1 DEF Mutex
    <3> QED
      BY <1>3, <3>3, <3>4, <3>5, <3>8 DEF Holding, Moving, Inside
  <2> QED
    BY <2>1, <2>2
<1>5. \A b \in Asids : b # a => job'[b] = job[b]
  BY <1>1 DEF BInv, TypeOK
<1>6. Jobs'
  BY <1>1, <1>4, <1>5 DEF BInv, Jobs, Holding, Moving
<1>7. Filled'
  BY <1>1, <1>3 DEF BInv, Filled, Holding
<1>8. TlbCoherent'
  BY <1>1 DEF BInv, TlbCoherent
<1> QED
  BY <1>4, <1>6, <1>7, <1>8 DEF BInv

(* The end of a process touches neither the pool nor the page tables.      *)
LEMMA EndBasic ==
  ASSUME BInv, NEW a \in Asids,
         terminate(a) \/ load_sp_asids(a) \/ clean_frames(a) \/ TERMPROCESS(a)
  PROVE  BInv'
<1>1. PICK l \in {"sys2", "clean", "term", "dead"} :
        /\ goto(a, l) /\ pc' = [pc EXCEPT ![a] = l]
        /\ pc[a] \in {"user", "sys2", "clean", "term"}
        /\ UNCHANGED <<sp_tbl, sp_sem, sp_queue, frame_top, pte, tlb, flash_sem, ram, flash, job>>
  BY DEF terminate, load_sp_asids, clean_frames, TERMPROCESS, executes, goto
<1>2. tmp' \in [Asids -> SUBSET Asids] /\ sp_asids' \subseteq Asids
  BY DEF terminate, load_sp_asids, clean_frames, TERMPROCESS, turned_off, BInv, TypeOK
<1>3. TypeOK'
  BY <1>1, <1>2 DEF BInv, TypeOK
<1>4. Mutex'
  BY <1>1, PoolKept DEF Inside
<1>5. pc'[a] = l /\ \A b \in Asids : b # a => pc'[b] = pc[b]
  BY <1>1 DEF BInv, TypeOK
<1>6. Jobs'
  BY <1>1, <1>5 DEF BInv, Jobs, Holding, Moving
<1>7. Filled'
  BY <1>1, <1>5 DEF BInv, Filled, Moving
<1>8. TlbCoherent'
  BY <1>1 DEF BInv, TlbCoherent
<1> QED
  BY <1>3, <1>4, <1>6, <1>7, <1>8 DEF BInv

LEMMA BasicStep == BInv /\ [Next]_vars => BInv'
<1> SUFFICES ASSUME BInv, [Next]_vars PROVE BInv'
  OBVIOUS
<1>1. ASSUME NEW pg \in Pages, uTLB_RefillHandler(pg) \/ store(pg) \/ page_fault(pg)
      PROVE  BInv'
  BY <1>1, RefillBasic, StoreBasic, FaultBasic
<1>2. ASSUME NEW a \in Asids, tlb_exc_handler(a) PROVE BInv'
  BY <1>2, ChooseBasic, InvalidateBasic, FlashBasic, FillBasic, ReleaseBasic DEF tlb_exc_handler
<1>3. ASSUME NEW a \in Asids,
             terminate(a) \/ load_sp_asids(a) \/ clean_frames(a) \/ TERMPROCESS(a)
      PROVE  BInv'
  BY <1>3, EndBasic
<1>4. CASE UNCHANGED vars
  BY <1>4 DEF vars, BInv, TypeOK, Mutex, Inside, Jobs, Filled, TlbCoherent
<1> QED
  BY <1>1, <1>2, <1>3, <1>4 DEF Next

(* Whatever fails and whoever dies, the pager stays in BInv.               *)
THEOREM Invariance == Spec => []BInv
<1> QED
  BY BasicInit, BasicStep, PTL DEF Spec

(* The pool, the page tables, the TLB, the flash devices and the locals of *)
(* tlb_exc_handler and clean_frames keep their types.                      *)
THEOREM TypeCorrect == Spec => []TypeOK
<1>1. BInv => TypeOK
  BY DEF BInv
<1> QED
  BY <1>1, Invariance, PTL

(* P and V of tlb_exc_handler make the swap pool the business of one       *)
(* process at a time, also of one that is lost in it.                      *)
THEOREM OneInThePool == Spec => []PoolExclusive
<1>1. BInv => PoolExclusive
  <2> SUFFICES ASSUME BInv PROVE Cardinality(Inside) = 1 - sp_sem
    BY DEF BInv, Mutex, PoolExclusive
  <2>1. CASE sp_sem = 0
    <3>1. PICK a : Inside = {a}
      BY <2>1 DEF BInv, Mutex
    <3>2. Cardinality({a}) = 1
      BY FS_Singleton
    <3> QED
      BY <2>1, <3>1, <3>2
  <2>2. CASE sp_sem = 1
    <3>1. Inside = {}
      BY <2>2 DEF BInv, Mutex
    <3> QED
      BY <2>2, <3>1, FS_EmptySet
  <2> QED
    BY <2>1, <2>2 DEF BInv, TypeOK
<1> QED
  BY <1>1, Invariance, PTL

(* No entry of the TLB outlives a change of the page table.                *)
THEOREM TlbAgrees == Spec => []TlbCoherent
<1>1. BInv => TlbCoherent
  BY DEF BInv
<1> QED
  BY <1>1, Invariance, PTL

-----------------------------------------------------------------------------
(***************************************************************************)
(* While every clean_frames finds sp_asids as it loaded it.                *)
(***************************************************************************)

(* A bit is 1 for who is about to give it up, and 0 for who has done so.   *)
Bits ==
  \A a \in Asids :
    /\ pc[a] \in {"sys2", "clean"} => a \in sp_asids
    /\ pc[a] = "term" => a \notin sp_asids

FInv == Agree /\ Quiet /\ Bits

LEMMA FreshInit == Init => FInv
<1> SUFFICES ASSUME Init PROVE FInv
  OBVIOUS
<1>1. Agree
  BY DEF Init, Agree
<1>2. Quiet /\ Bits
  BY DEF Init, Quiet, Bits
<1> QED
  BY <1>1, <1>2 DEF FInv

(* A step that leaves the page tables, the pool and sp_asids alone, and    *)
(* makes nobody living who was not.                                        *)
LEMMA FreshKept ==
  ASSUME BInv, BInv', FInv,
         UNCHANGED <<sp_tbl, sp_asids, pte>>,
         \A b \in Asids : Living(b)' => Living(b),
         \A b \in Asids : pc'[b] \in {"sys2", "clean", "term"} => pc'[b] = pc[b],
         \A b \in Asids : pc'[b] \in {"write", "writing", "read", "reading", "fill"} =>
           pc[b] \in {"write", "writing", "read", "reading", "fill"} /\ job'[b].frame = job[b].frame
  PROVE  FInv'
<1>1. \A pg \in Pages : Owner(pg) \in Asids
  BY DEF Pages, Owner
<1>2. Agree'
  BY <1>1 DEF FInv, Agree
<1>3. Bits'
  BY DEF FInv, Bits
<1>4. Quiet'
  <2> SUFFICES ASSUME NEW b \in Asids,
                      pc'[b] \in {"write", "writing", "read", "reading", "fill"}
               PROVE  /\ \A pg \in Pages : Living(Owner(pg))' => pte'[pg] # job'[b].frame
                      /\ \A s \in Slots : tlb'[s].page # None /\ Living(Owner(tlb[s].page))' =>
                           tlb'[s].frame # job'[b].frame
    BY DEF Quiet
  <2>1. \A pg \in Pages : Living(Owner(pg))' => pte'[pg] # job'[b].frame
    BY <1>1 DEF FInv, Quiet
  <2>2. \A s \in Slots : tlb'[s].page # None =>
          tlb'[s].frame = pte'[tlb'[s].page] /\ tlb'[s].page \in Pages
    BY DEF BInv, TypeOK, TlbCoherent
  <2> QED
    BY <2>1, <2>2
<1> QED
  BY <1>2, <1>3, <1>4 DEF FInv

(* The frame that a process is moving: no page of a living process is in   *)
(* it, and so no entry of the TLB is for it.                               *)
LEMMA QuietIfUnmapped ==
  ASSUME BInv', NEW a \in Asids, a \in Inside',
         \A pg \in Pages : Living(Owner(pg))' => pte'[pg] # job'[a].frame
  PROVE  Quiet'
<1>1. \A b \in Asids : pc'[b] \in {"write", "writing", "read", "reading", "fill"} => b = a
  BY DEF BInv, Mutex, Inside
<1>2. \A s \in Slots : tlb'[s].page # None =>
        tlb'[s].frame = pte'[tlb'[s].page] /\ tlb'[s].page \in Pages
  BY DEF BInv, TypeOK, TlbCoherent
<1> QED
  BY <1>1, <1>2 DEF Quiet

(* The program's own steps, and V, do not touch what FInv is about.        *)
LEMMA UserFresh ==
  ASSUME BInv, BInv', FInv, NEW pg \in Pages,
         uTLB_RefillHandler(pg) \/ store(pg) \/ page_fault(pg)
  PROVE  FInv'
<1>1. UNCHANGED <<sp_tbl, sp_asids, pte>>
  BY DEF uTLB_RefillHandler, store, page_fault
<1>2. CASE uTLB_RefillHandler(pg) \/ store(pg)
  <2>1. pc' = pc /\ job' = job
    BY <1>2 DEF uTLB_RefillHandler, store
  <2> QED
    BY <1>1, <2>1, FreshKept DEF Living
<1>3. CASE page_fault(pg)
  <2> DEFINE a == Owner(pg)
  <2>1. a \in Asids
    BY DEF Owner, Pages
  <2>2. /\ pc[a] = "user" /\ job' = [job EXCEPT ![a].pg = pg]
        /\ pc' = [pc EXCEPT ![a] = "blocked"] \/ pc' = [pc EXCEPT ![a] = "choose"]
    BY <1>3 DEF page_fault, sp_P, goto
  <2> HIDE DEF a
  <2>3. /\ pc'[a] \in {"blocked", "choose"}
        /\ \A b \in Asids : b # a => pc'[b] = pc[b] /\ job'[b] = job[b]
    BY <2>1, <2>2 DEF BInv, TypeOK
  <2>4. \A b \in Asids : Living(b)' => Living(b)
    BY <2>2, <2>3 DEF Living
  <2>5. \A b \in Asids : pc'[b] \in {"sys2", "clean", "term"} => pc'[b] = pc[b]
    BY <2>3
  <2>6. \A b \in Asids : pc'[b] \in {"write", "writing", "read", "reading", "fill"} =>
          pc[b] \in {"write", "writing", "read", "reading", "fill"} /\ job'[b].frame = job[b].frame
    BY <2>3
  <2> QED
    BY <1>1, <2>4, <2>5, <2>6, FreshKept
<1> QED
  BY <1>2, <1>3

LEMMA FlashFresh ==
  ASSUME BInv, BInv', FInv, NEW a \in Asids, flash_start(a) \/ read(a)
  PROVE  FInv'
<1>1. /\ UNCHANGED <<sp_tbl, sp_asids, pte, job>>
      /\ pc[a] \in {"write", "read", "reading"}
      /\ \E l \in {"writing", "reading", "fill", "lost"} : pc' = [pc EXCEPT ![a] = l]
  BY DEF flash_start, read, goto
<1>2. /\ pc'[a] \in {"writing", "reading", "fill", "lost"}
      /\ \A b \in Asids : b # a => pc'[b] = pc[b]
  BY <1>1 DEF BInv, TypeOK
<1>3. \A b \in Asids : Living(b)' => Living(b)
  BY <1>1, <1>2 DEF Living
<1>4. \A b \in Asids : pc'[b] \in {"sys2", "clean", "term"} => pc'[b] = pc[b]
  BY <1>2
<1>5. \A b \in Asids : pc'[b] \in {"write", "writing", "read", "reading", "fill"} =>
        pc[b] \in {"write", "writing", "read", "reading", "fill"} /\ job'[b].frame = job[b].frame
  BY <1>1, <1>2
<1> QED
  BY <1>1, <1>3, <1>4, <1>5, FreshKept

(* V takes its process out of the pool and lets the next one in.           *)
LEMMA ReleaseMoves ==
  ASSUME BInv, NEW a \in Asids, release(a)
  PROVE  \A b \in Asids :
           \/ pc'[b] = pc[b] /\ job'[b] = job[b]
           \/ pc'[b] \in {"user", "choose"} /\ pc[b] \in {"release", "blocked"}
<1>1. /\ pc[a] = "release" /\ job' = [job EXCEPT ![a] = NoJob] /\ sp_V(a, "user")
  BY DEF release
<1>2. \A b \in Asids : b # a => job'[b] = job[b]
  BY <1>1 DEF BInv, TypeOK
<1>3. CASE sp_queue = <<>>
  BY <1>1, <1>2, <1>3 DEF sp_V, empty_proc_q, goto, BInv, TypeOK
<1>4. CASE sp_queue # <<>>
  <2>1. head_proc_q(sp_queue) \in Elems(sp_queue) /\ head_proc_q(sp_queue) \in Asids
    BY <1>4, RemoveProperties DEF BInv, TypeOK
  <2>2. pc[head_proc_q(sp_queue)] = "blocked"
    BY <2>1 DEF BInv, Mutex
  <2>3. pc' = [pc EXCEPT ![a] = "user", ![head_proc_q(sp_queue)] = "choose"]
    BY <1>1, <1>4 DEF sp_V, empty_proc_q
  <2> QED
    BY <1>1, <1>2, <2>1, <2>2, <2>3 DEF BInv, TypeOK
<1> QED
  BY <1>3, <1>4

LEMMA ReleaseFresh ==
  ASSUME BInv, BInv', FInv, NEW a \in Asids, release(a)
  PROVE  FInv'
<1>1. UNCHANGED <<sp_tbl, sp_asids, pte>>
  BY DEF release
<1>2. \A b \in Asids : \/ pc'[b] = pc[b] /\ job'[b] = job[b]
                       \/ pc'[b] \in {"user", "choose"} /\ pc[b] \in {"release", "blocked"}
  BY ReleaseMoves
<1>3. \A b \in Asids : Living(b)' => Living(b)
  BY <1>2 DEF Living
<1>4. \A b \in Asids : pc'[b] \in {"sys2", "clean", "term"} => pc'[b] = pc[b]
  BY <1>2
<1>5. \A b \in Asids : pc'[b] \in {"write", "writing", "read", "reading", "fill"} =>
        pc[b] \in {"write", "writing", "read", "reading", "fill"} /\ job'[b].frame = job[b].frame
  BY <1>2
<1> QED
  BY <1>1, <1>3, <1>4, <1>5, FreshKept

(* The frame that is not saved is free, or belongs to a process without    *)
(* bit, which is not living.                                               *)
LEMMA ChooseFresh ==
  ASSUME BInv, BInv', FInv, NEW a \in Asids, choose(a)
  PROVE  FInv'
<1> DEFINE f == choose_frame
           l == IF to_be_saved(f, a) THEN "free" ELSE "read"
<1>1. /\ pc[a] = "choose" /\ pc' = [pc EXCEPT ![a] = l]
      /\ job' = [job EXCEPT ![a].frame = f]
      /\ UNCHANGED <<sp_tbl, sp_asids, pte>>
  BY DEF choose, goto
<1>2. l = "free" \/ (l = "read" /\ (sp_tbl[f] = None \/ Owner(sp_tbl[f]) \notin sp_asids))
  BY DEF to_be_saved
<1> HIDE DEF l, f
<1>3. /\ pc'[a] = l /\ job'[a].frame = f
      /\ \A b \in Asids : b # a => pc'[b] = pc[b] /\ job'[b] = job[b]
  BY <1>1 DEF BInv, TypeOK
<1>4. \A b \in Asids : Living(b)' => Living(b)
  BY <1>1, <1>3 DEF Living
<1>5. CASE l = "free"
  <2>1. \A b \in Asids : pc'[b] \in {"sys2", "clean", "term"} => pc'[b] = pc[b]
    BY <1>3, <1>5
  <2>2. \A b \in Asids : pc'[b] \in {"write", "writing", "read", "reading", "fill"} =>
          pc[b] \in {"write", "writing", "read", "reading", "fill"} /\ job'[b].frame = job[b].frame
    BY <1>3, <1>5
  <2> QED
    BY <1>1, <1>4, <2>1, <2>2, FreshKept
<1>6. CASE l = "read"
  <2>0. \A pg \in Pages : Owner(pg) \in Asids
    BY DEF Owner, Pages
  <2>1. Agree' /\ Bits'
    BY <1>1, <1>3, <1>4, <1>6, <2>0 DEF FInv, Agree, Bits
  <2>2. a \in Inside'
    BY <1>3, <1>6 DEF Inside
  <2>3. f \in Frames
    BY ChooseFrame DEF f, BInv, TypeOK
  <2>4. \A pg \in Pages : Living(Owner(pg))' => pte'[pg] # job'[a].frame
    <3> SUFFICES ASSUME NEW pg \in Pages, Living(Owner(pg))', pte'[pg] = f
                 PROVE  FALSE
      BY <1>3
    <3>1. Living(Owner(pg)) /\ pte[pg] = f /\ f # None
      BY <1>1, <1>4, <2>0, <2>3, PagerAssumption DEF Frames
    <3>2. sp_tbl[f] = pg /\ Owner(pg) \in sp_asids
      BY <3>1 DEF FInv, Agree
    <3>3. pg # None
      BY PagerAssumption DEF Pages
    <3> QED
      BY <1>2, <1>6, <3>2, <3>3
  <2>5. Quiet'
    BY <2>2, <2>4, QuietIfUnmapped
  <2> QED
    BY <2>1, <2>5 DEF FInv
<1> QED
  BY <1>2, <1>5, <1>6

(* A living page of the frame can only be the one just invalidated.        *)
LEMMA InvalidateFresh ==
  ASSUME BInv, BInv', FInv, NEW a \in Asids, invalidate(a)
  PROVE  FInv'
<1> DEFINE f == job[a].frame
           out == sp_tbl[f]
<1>1. /\ pc[a] = "free" /\ pc' = [pc EXCEPT ![a] = "write"]
      /\ pte' = [pte EXCEPT ![out] = None]
      /\ UNCHANGED <<sp_tbl, sp_asids, job>>
  BY DEF invalidate, goto
<1>2. f \in Frames /\ f # None
  BY <1>1, PagerAssumption DEF BInv, Jobs, Holding, Frames
<1>3. \A pg \in Pages : Owner(pg) \in Asids
  BY DEF Owner, Pages
<1>4. pc'[a] = "write" /\ \A b \in Asids : b # a => pc'[b] = pc[b]
  BY <1>1 DEF BInv, TypeOK
<1>5. \A b \in Asids : Living(b)' => Living(b)
  BY <1>1, <1>4 DEF Living
<1>6. \A pg \in Pages : pte'[pg] # None => pg # out /\ pte'[pg] = pte[pg]
  BY <1>1 DEF BInv, TypeOK
<1> HIDE DEF f, out
<1>7. Agree'
  BY <1>1, <1>3, <1>5, <1>6 DEF FInv, Agree
<1>8. Bits'
  BY <1>1, <1>4 DEF FInv, Bits
<1>9. \A pg \in Pages : Living(Owner(pg))' => pte'[pg] # job'[a].frame
  <2> SUFFICES ASSUME NEW pg \in Pages, Living(Owner(pg))', pte'[pg] = f
               PROVE  FALSE
    BY <1>1 DEF f
  <2>1. Living(Owner(pg)) /\ pte[pg] = f /\ pg # out
    BY <1>2, <1>3, <1>5, <1>6
  <2>2. sp_tbl[f] = pg
    BY <1>2, <2>1 DEF FInv, Agree
  <2> QED
    BY <2>1, <2>2 DEF out
<1>10. a \in Inside'
  BY <1>4 DEF Inside
<1> QED
  BY <1>7, <1>8, <1>9, <1>10, QuietIfUnmapped DEF FInv

(* The frame that leaves the pool table has no page of a living process.   *)
LEMMA WrittenFresh ==
  ASSUME BInv, BInv', FInv, NEW a \in Asids, written(a)
  PROVE  FInv'
<1> DEFINE f == job[a].frame
<1>1. /\ pc[a] = "writing" /\ pc' = [pc EXCEPT ![a] = "read"]
      /\ sp_tbl' = sp_tbl \/ sp_tbl' = [sp_tbl EXCEPT ![f] = None]
      /\ UNCHANGED <<sp_asids, pte, job>>
  BY DEF written, goto
<1>2. \A pg \in Pages : Owner(pg) \in Asids
  BY DEF Owner, Pages
<1>3. pc'[a] = "read" /\ \A b \in Asids : b # a => pc'[b] = pc[b]
  BY <1>1 DEF BInv, TypeOK
<1>4. \A b \in Asids : Living(b)' => Living(b)
  BY <1>1, <1>3 DEF Living
<1>5. \A pg \in Pages : Living(Owner(pg)) => pte[pg] # f
  BY <1>1 DEF FInv, Quiet
<1>6. \A g \in Frames : g # f => sp_tbl'[g] = sp_tbl[g]
  BY <1>1 DEF BInv, TypeOK
<1>7. \A pg \in Pages : pte[pg] # None => pte[pg] \in Frames
  BY DEF BInv, TypeOK
<1> HIDE DEF f
<1>8. Agree'
  BY <1>1, <1>2, <1>4, <1>5, <1>6, <1>7 DEF FInv, Agree
<1>9. Bits'
  BY <1>1, <1>3 DEF FInv, Bits
<1>10. \A pg \in Pages : Living(Owner(pg))' => pte'[pg] # job'[a].frame
  BY <1>1, <1>2, <1>4, <1>5 DEF f
<1>11. a \in Inside'
  BY <1>3 DEF Inside
<1> QED
  BY <1>8, <1>9, <1>10, <1>11, QuietIfUnmapped DEF FInv

(* The frame goes to the missing page; nobody living was in it.            *)
LEMMA FillFresh ==
  ASSUME BInv, BInv', FInv, NEW a \in Asids, fill_frame(a)
  PROVE  FInv'
<1> DEFINE f == job[a].frame
           new == job[a].pg
<1>1. /\ pc[a] = "fill" /\ pc' = [pc EXCEPT ![a] = "release"]
      /\ sp_tbl' = [sp_tbl EXCEPT ![f] = new]
      /\ pte' = [pte EXCEPT ![new] = f]
      /\ sp_asids' = sp_asids \union {a}
      /\ job' = job
  BY DEF fill_frame, goto
<1>2. f \in Frames /\ new \in Pages /\ Owner(new) = a
  BY <1>1 DEF BInv, Jobs, Holding, Moving
<1>3. \A pg \in Pages : Owner(pg) \in Asids
  BY DEF Owner, Pages
<1>4. pc'[a] = "release" /\ \A b \in Asids : b # a => pc'[b] = pc[b]
  BY <1>1 DEF BInv, TypeOK
<1>5. \A b \in Asids : Living(b)' => Living(b)
  BY <1>1, <1>4 DEF Living
<1>6. \A pg \in Pages : Living(Owner(pg)) => pte[pg] # f
  BY <1>1 DEF FInv, Quiet
<1>7. /\ \A g \in Frames : sp_tbl'[g] = IF g = f THEN new ELSE sp_tbl[g]
      /\ \A pg \in Pages : pte'[pg] = IF pg = new THEN f ELSE pte[pg]
      /\ \A pg \in Pages : pte[pg] # None => pte[pg] \in Frames
  BY <1>1, <1>2 DEF BInv, TypeOK
<1> HIDE DEF f, new
<1>8. Agree'
  <2> SUFFICES ASSUME NEW pg \in Pages, Living(Owner(pg))', pte'[pg] # None
               PROVE  sp_tbl'[pte'[pg]] = pg /\ Owner(pg) \in sp_asids'
    BY DEF Agree
  <2>1. CASE pg = new
    BY <1>1, <1>2, <1>7, <2>1
  <2>2. CASE pg # new
    <3>1. Living(Owner(pg)) /\ pte'[pg] = pte[pg]
      BY <1>3, <1>5, <1>7, <2>2
    <3>2. sp_tbl[pte[pg]] = pg /\ Owner(pg) \in sp_asids /\ pte[pg] \in Frames /\ pte[pg] # f
      BY <1>6, <1>7, <3>1 DEF FInv, Agree
    <3> QED
      BY <1>1, <1>7, <3>1, <3>2
  <2> QED
    BY <2>1, <2>2
<1>9. Bits'
  BY <1>1, <1>4 DEF FInv, Bits
<1>10. \A b \in Asids : pc'[b] \notin {"write", "writing", "read", "reading", "fill"}
  BY <1>1, <1>4 DEF BInv, Mutex, Inside
<1>11. Quiet'
  BY <1>10 DEF Quiet
<1> QED
  BY <1>8, <1>9, <1>11 DEF FInv

(* A program that calls SYS2 has a valid page, and so its bit.  With a     *)
(* fresh copy of sp_asids, clean_frames takes this bit away and no other.  *)
LEMMA EndFresh ==
  ASSUME BInv, BInv', BitsFresh, FInv, NEW a \in Asids,
         terminate(a) \/ load_sp_asids(a) \/ clean_frames(a) \/ TERMPROCESS(a)
  PROVE  FInv'
<1>1. PICK l \in {"sys2", "clean", "term", "dead"} :
        /\ pc' = [pc EXCEPT ![a] = l]
        /\ pc[a] \in {"user", "sys2", "clean", "term"}
        /\ UNCHANGED <<sp_tbl, pte, job>>
  BY DEF terminate, load_sp_asids, clean_frames, TERMPROCESS, executes, goto
<1>2. pc'[a] = l /\ \A b \in Asids : b # a => pc'[b] = pc[b]
  BY <1>1 DEF BInv, TypeOK
<1>3. \A b \in Asids : Living(b)' => Living(b) /\ b # a
  BY <1>1, <1>2 DEF Living
<1>4. \A pg \in Pages : Owner(pg) \in Asids
  BY DEF Owner, Pages
<1>5. sp_asids \ {a} \subseteq sp_asids' /\ sp_asids' \subseteq sp_asids
  <2>1. CASE clean_frames(a)
    <3>1. pc[a] = "clean" /\ sp_asids' = turned_off(tmp[a], a)
      BY <2>1 DEF clean_frames
    <3>2. tmp[a] = sp_asids /\ a \in sp_asids
      BY <3>1 DEF BitsFresh, FInv, Bits
    <3> QED
      BY <3>1, <3>2 DEF turned_off
  <2>2. CASE terminate(a) \/ load_sp_asids(a) \/ TERMPROCESS(a)
    BY <2>2 DEF terminate, load_sp_asids, TERMPROCESS
  <2> QED
    BY <2>1, <2>2
<1>6. Agree'
  BY <1>1, <1>3, <1>4, <1>5 DEF FInv, Agree
<1>7. Quiet'
  <2> SUFFICES ASSUME NEW b \in Asids,
                      pc'[b] \in {"write", "writing", "read", "reading", "fill"}
               PROVE  Quiet'
    BY DEF Quiet
  <2>1. b # a /\ pc'[b] = pc[b]
    BY <1>2
  <2>2. \A pg \in Pages : Living(Owner(pg))' => pte'[pg] # job'[b].frame
    BY <1>1, <1>3, <1>4, <2>1 DEF FInv, Quiet
  <2>3. b \in Inside'
    BY DEF Inside
  <2> QED
    BY <2>2, <2>3, QuietIfUnmapped
<1>8. Bits'
  <2>1. pc'[a] \in {"sys2", "clean"} => a \in sp_asids'
    <3>1. CASE terminate(a)
      <4>1. PICK pg \in Pages : Owner(pg) = a /\ pte[pg] # None /\ pc[a] = "user"
        BY <3>1 DEF terminate, executes
      <4>2. a \in sp_asids
        BY <4>1 DEF FInv, Agree, Living
      <4> QED
        BY <3>1, <4>2 DEF terminate
    <3>2. CASE load_sp_asids(a)
      BY <3>2 DEF load_sp_asids, FInv, Bits
    <3>3. CASE clean_frames(a)
      BY <3>3 DEF clean_frames, goto, BInv, TypeOK
    <3>4. CASE TERMPROCESS(a)
      BY <3>4 DEF TERMPROCESS, goto, BInv, TypeOK
    <3> QED
      BY <3>1, <3>2, <3>3, <3>4
  <2>2. pc'[a] = "term" => a \notin sp_asids'
    <3>1. CASE clean_frames(a)
      <4>1. pc[a] = "clean" /\ sp_asids' = turned_off(tmp[a], a)
        BY <3>1 DEF clean_frames
      <4>2. tmp[a] = sp_asids /\ a \in sp_asids
        BY <4>1 DEF BitsFresh, FInv, Bits
      <4> QED
        BY <4>1, <4>2 DEF turned_off
    <3>2. CASE terminate(a) \/ load_sp_asids(a) \/ TERMPROCESS(a)
      BY <3>2 DEF terminate, load_sp_asids, TERMPROCESS, goto, BInv, TypeOK
    <3> QED
      BY <3>1, <3>2
  <2> QED
    BY <1>2, <1>5, <2>1, <2>2 DEF FInv, Bits
<1> QED
  BY <1>6, <1>7, <1>8 DEF FInv

LEMMA FreshStep == BInv /\ BInv' /\ BitsFresh /\ FInv /\ [Next]_vars => FInv'
<1> SUFFICES ASSUME BInv, BInv', BitsFresh, FInv, [Next]_vars PROVE FInv'
  OBVIOUS
<1>1. ASSUME NEW pg \in Pages, uTLB_RefillHandler(pg) \/ store(pg) \/ page_fault(pg)
      PROVE  FInv'
  BY <1>1, UserFresh
<1>2. ASSUME NEW a \in Asids, tlb_exc_handler(a) PROVE FInv'
  BY <1>2, ChooseFresh, InvalidateFresh, FlashFresh, WrittenFresh, FillFresh, ReleaseFresh
     DEF tlb_exc_handler
<1>3. ASSUME NEW a \in Asids,
             terminate(a) \/ load_sp_asids(a) \/ clean_frames(a) \/ TERMPROCESS(a)
      PROVE  FInv'
  BY <1>3, EndFresh
<1>4. CASE UNCHANGED vars
  BY <1>4 DEF vars, FInv, Agree, Quiet, Bits, Living
<1> QED
  BY <1>1, <1>2, <1>3, <1>4 DEF Next

(* In a behaviour where no clean_frames is preempted.                      *)
THEOREM FreshInvariance == Spec /\ []BitsFresh => []FInv
<1>1. Spec => []BInv
  BY Invariance
<1>2. Init => FInv
  BY FreshInit
<1>3. BInv /\ BInv' /\ BitsFresh /\ FInv /\ [Next]_vars => FInv'
  BY FreshStep
<1> QED
  BY <1>1, <1>2, <1>3, PTL DEF Spec

(* A valid page of a process that runs is in the frame that the pool table *)
(* has it in, and its process has its bit, as long as no clean_frames is   *)
(* preempted between its load and its store.                               *)
THEOREM FramesBelong == Spec => FrameBelongsToPage
<1>1. FInv => Agree
  BY DEF FInv
<1> QED
  BY <1>1, FreshInvariance, PTL DEF FrameBelongsToPage

(* On the same condition no program reaches a frame while it is moved.     *)
THEOREM QuietFrames == Spec => QuietWhileMoved
<1>1. FInv => Quiet
  BY DEF FInv
<1> QED
  BY <1>1, FreshInvariance, PTL DEF QuietWhileMoved

(* And a process that clean_frames is done with has no bit left.           *)
THEOREM BitsOfTheLiving == Spec => BitMeansAlive
<1> DEFINE P == \A a \in sp_asids : pc[a] # "term"
<1>1. BInv /\ FInv => P
  BY DEF BInv, TypeOK, FInv, Bits
<1>2. Spec /\ []BitsFresh => []P
  <2> HIDE DEF P
  <2> QED
    BY <1>1, Invariance, FreshInvariance, PTL
<1> QED
  BY <1>2, PTL DEF BitMeansAlive

-----------------------------------------------------------------------------
(***************************************************************************)
(* The last stores to a page are found again.                              *)
(***************************************************************************)
Last(pg) == [page |-> pg, last |-> TRUE]

(* Who is in the pool is alone in it.                                      *)
LEMMA Alone ==
  ASSUME BInv, NEW a \in Asids,
         pc[a] \in {"choose", "free", "write", "writing", "read", "reading", "fill", "release"}
  PROVE  \A b \in Asids : b # a => pc[b] \notin {"write", "writing", "fill"} \union Moving
BY DEF BInv, Mutex, Inside, Moving

(* With another pc a process neither saves nor loads anything.             *)
LEMMA Nobody ==
  ASSUME NEW pg \in Pages, \A b \in Asids : pc[b] \notin {"write", "writing", "fill"}
  PROVE  Saving(pg) = {} /\ Loading(pg) = {}
BY DEF Saving, Loading

(* Most steps move no page and change none of those that are being moved.  *)
LEMMA FoundKept ==
  ASSUME NEW pg \in Pages, Found(pg),
         UNCHANGED <<sp_tbl, pte, ram, flash>>,
         \A b \in Asids :
           \/ pc'[b] = pc[b] /\ job'[b] = job[b]
           \/ pc[b] \notin {"write", "writing", "fill"} /\ pc'[b] \notin {"write", "writing", "fill"}
           \/ pc[b] = "write" /\ pc'[b] = "writing" /\ job'[b] = job[b]
  PROVE  Found(pg)'
<1>1. Saving(pg)' = Saving(pg) /\ \A b \in Saving(pg) : job'[b] = job[b]
  BY DEF Saving
<1>2. Loading(pg)' = Loading(pg) /\ \A b \in Loading(pg) : job'[b] = job[b]
  BY DEF Loading
<1>3. CASE pte[pg] # None
  BY <1>3 DEF Found
<1>4. CASE pte[pg] = None /\ Saving(pg) # {}
  <2>1. \A b \in Saving(pg) : ram[job[b].frame] = Last(pg)
    BY <1>4 DEF Found, Last
  <2>2. \A b \in Saving(pg)' : ram'[job'[b].frame] = Last(pg)
    BY <1>1, <2>1
  <2> QED
    BY <1>1, <1>4, <2>2 DEF Found, Last
<1>5. CASE pte[pg] = None /\ Saving(pg) = {} /\ Loading(pg) # {}
  <2>1. \A b \in Loading(pg) : ram[job[b].frame] = Last(pg)
    BY <1>5 DEF Found, Last
  <2>2. \A b \in Loading(pg)' : ram'[job'[b].frame] = Last(pg)
    BY <1>2, <2>1
  <2> QED
    BY <1>1, <1>2, <1>5, <2>2 DEF Found, Last
<1>6. CASE pte[pg] = None /\ Saving(pg) = {} /\ Loading(pg) = {}
  BY <1>1, <1>2, <1>6 DEF Found
<1> QED
  BY <1>3, <1>4, <1>5, <1>6

(* A store makes another copy of its own page outdated, and it reaches     *)
(* neither the frame of another page nor one that is moved.                *)
LEMMA StoreFound ==
  ASSUME BInv, NEW pg \in Pages, Agree, Quiet, Found(pg), Living(Owner(pg))',
         NEW p \in Pages, store(p)
  PROVE  Found(pg)'
<1> DEFINE f == pte[p]
<1>1. /\ pc[Owner(p)] = "user" /\ Owner(p) \in Asids
      /\ UNCHANGED <<sp_tbl, pte, pc, job>>
      /\ flash' = [b \in Pages |-> Outdated(flash[b], p)]
  BY DEF store, Owner, Pages
<1>2. PICK s \in TLBP(p) :
        /\ tlb[s].frame # None
        /\ ram' = [g \in Frames |-> IF g # tlb[s].frame THEN Outdated(ram[g], p)
                                    ELSE [ram[g] EXCEPT !.last = @ /\ ram[g].page = p]]
  BY DEF store
<1>3. tlb[s].frame = f
  BY Probed
<1>4. f \in Frames /\ f # None
  BY <1>2, <1>3 DEF BInv, TypeOK
<1>5. Living(Owner(p)) /\ Living(Owner(pg))
  BY <1>1 DEF Living
<1> HIDE DEF f
<1>6. p # pg => Outdated(Last(pg), p) = Last(pg)
  <2>1. p # pg => (TRUE /\ pg # p) = TRUE
    BY Zenon
  <2> QED
    BY <2>1 DEF Outdated, Last
<1>7. \A g \in Frames : g # f /\ p # pg /\ ram[g] = Last(pg) => ram'[g] = Last(pg)
  BY <1>2, <1>3, <1>6
<1>8. p = pg /\ ram[f] = Last(pg) => ram'[f] = Last(pg)
  <2>1. p = pg /\ ram[f] = Last(pg) => ram'[f] = [Last(pg) EXCEPT !.last = @ /\ pg = p]
    BY <1>2, <1>3, <1>4 DEF Last
  <2>2. p = pg => (TRUE /\ pg = p) = TRUE
    BY Zenon
  <2> QED
    BY <2>1, <2>2 DEF Last
<1>9. p # pg /\ flash[pg] = Last(pg) => flash'[pg] = Last(pg)
  BY <1>1, <1>6
<1>10. Saving(pg)' = Saving(pg) /\ Loading(pg)' = Loading(pg)
  BY <1>1 DEF Saving, Loading
<1>11. \A a \in Saving(pg) \union Loading(pg) : job[a].frame \in Frames /\ job[a].frame # f
  BY <1>5 DEF Saving, Loading, Quiet, f, BInv, Jobs, Holding, Moving
<1>12. pte[pg] # None => pte[pg] \in Frames /\ (pg # p => pte[pg] # f)
  BY <1>4, <1>5 DEF Agree, f, BInv, TypeOK
<1>13. CASE p = pg
  BY <1>1, <1>4, <1>8, <1>13 DEF Found, f, Last
<1>14. CASE p # pg
  <2>1. CASE pte[pg] # None
    BY <1>1, <1>7, <1>12, <1>14, <2>1 DEF Found, Last
  <2>2. CASE pte[pg] = None /\ Saving(pg) # {}
    BY <1>1, <1>7, <1>10, <1>11, <1>14, <2>2 DEF Found, Last
  <2>3. CASE pte[pg] = None /\ Saving(pg) = {} /\ Loading(pg) # {}
    BY <1>1, <1>7, <1>10, <1>11, <1>14, <2>3 DEF Found, Last
  <2>4. CASE pte[pg] = None /\ Saving(pg) = {} /\ Loading(pg) = {}
    BY <1>1, <1>9, <1>10, <1>14, <2>4 DEF Found, Last
  <2> QED
    BY <2>1, <2>2, <2>3, <2>4
<1> QED
  BY <1>13, <1>14

(* A valid page that is made invalid is the one of the chosen frame.       *)
LEMMA InvalidateFound ==
  ASSUME BInv, BInv', NEW pg \in Pages, Found(pg), NEW a \in Asids, invalidate(a)
  PROVE  Found(pg)'
<1> DEFINE f == job[a].frame
           out == sp_tbl[f]
<1>1. /\ pc[a] = "free" /\ pc' = [pc EXCEPT ![a] = "write"]
      /\ pte' = [pte EXCEPT ![out] = None]
      /\ UNCHANGED <<sp_tbl, ram, flash, job>>
  BY DEF invalidate, goto
<1>2. f \in Frames /\ f # None /\ out # None
  BY <1>1, PagerAssumption DEF BInv, Jobs, Holding, Frames
<1>3. pc'[a] = "write" /\ \A b \in Asids : b # a => pc'[b] = pc[b]
  BY <1>1 DEF BInv, TypeOK
<1>4. \A b \in Asids : pc[b] \notin {"write", "writing", "fill"} \union Moving
  BY <1>1, Alone DEF Moving
<1>5. pte[out] = f
  BY <1>2, <1>4 DEF BInv, Filled
<1>6. Saving(pg) = {} /\ Loading(pg) = {}
  BY <1>4, Nobody
<1>7. pte'[pg] = IF pg = out THEN None ELSE pte[pg]
  BY <1>1 DEF BInv, TypeOK
<1>8. Saving(pg)' = (IF pg = out THEN {a} ELSE {}) /\ Loading(pg)' = {}
  BY <1>1, <1>3, <1>4 DEF Saving, Loading
<1>9. job'[a].frame = f /\ ram' = ram /\ flash' = flash
  BY <1>1
<1> HIDE DEF f, out
<1>10. CASE pg = out
  <2>1. ram[f] = Last(pg)
    BY <1>2, <1>5, <1>10 DEF Found, Last
  <2> QED
    BY <1>7, <1>8, <1>9, <1>10, <2>1 DEF Found, Last
<1>11. CASE pg # out
  BY <1>6, <1>7, <1>8, <1>9, <1>11 DEF Found, Last
<1> QED
  BY <1>10, <1>11

(* A save on the flash of its owner puts the copy where it is looked for.  *)
LEMMA WrittenFound ==
  ASSUME BInv, BInv', NEW pg \in Pages, Found(pg), NEW a \in Asids, written(a)
  PROVE  Found(pg)' \/ BadSave(a, pg)
<1> DEFINE f == job[a].frame
           out == sp_tbl[f]
<1>1. /\ pc[a] = "writing" /\ pc' = [pc EXCEPT ![a] = "read"]
      /\ flash' = flash \/ flash' = [flash EXCEPT ![block(a, out)] = ram[f]]
      /\ UNCHANGED <<pte, ram, job>>
  BY DEF written, goto
<1>2. f \in Frames /\ out \in Pages /\ pte[out] = None
  BY <1>1 DEF BInv, TypeOK, Jobs, Holding, Moving
<1>3. pc'[a] = "read" /\ \A b \in Asids : b # a => pc'[b] = pc[b]
  BY <1>1 DEF BInv, TypeOK
<1>4. \A b \in Asids : b # a => pc[b] \notin {"write", "writing", "fill"} \union Moving
  BY <1>1, Alone
<1>5. Saving(pg) = (IF pg = out THEN {a} ELSE {}) /\ Loading(pg) = {}
  BY <1>1, <1>4 DEF Saving, Loading
<1>6. Saving(pg)' = {} /\ Loading(pg)' = {}
  BY <1>3, <1>4 DEF Saving, Loading
<1>7. Owner(out) = a => block(a, out) = out
  BY <1>2 DEF block, Owner, Pages
<1>8. block(a, out) \in Pages
  BY <1>2 DEF block, Pages
<1> HIDE DEF f, out
<1>9. pg # out /\ Found(pg) /\ flash'[pg] = flash[pg] => Found(pg)'
  BY <1>1, <1>5, <1>6 DEF Found
<1>10. CASE flash' = flash
  BY <1>1, <1>3, <1>9, <1>10 DEF BadSave, f, out
<1>11. CASE flash' = [flash EXCEPT ![block(a, out)] = ram[f]]
  <2>1. CASE Owner(out) = a /\ pg = out
    <3>1. ram[f] = Last(pg)
      BY <1>2, <1>5, <2>1 DEF Found, Last, f
    <3>2. flash'[pg] = Last(pg)
      BY <1>7, <1>11, <2>1, <3>1 DEF BInv, TypeOK
    <3> QED
      BY <1>1, <1>2, <1>6, <2>1, <3>2 DEF Found, Last
  <2>2. CASE pg \notin {out, block(a, out)}
    <3>1. flash'[pg] = flash[pg]
      BY <1>11, <2>2 DEF BInv, TypeOK
    <3> QED
      BY <1>9, <2>2, <3>1
  <2>3. CASE Owner(out) # a /\ pg \in {out, block(a, out)}
    BY <1>1, <1>3, <2>3 DEF BadSave, f, out
  <2> QED
    BY <1>7, <2>1, <2>2, <2>3
<1> QED
  BY <1>1, <1>10, <1>11

(* A read fills a frame that holds no page of a living process with the    *)
(* block of the missing page.                                              *)
LEMMA ReadFound ==
  ASSUME BInv, BInv', NEW pg \in Pages, Quiet, Found(pg), Living(Owner(pg))',
         NEW a \in Asids, read(a)
  PROVE  Found(pg)'
<1> DEFINE f == job[a].frame
           new == job[a].pg
<1>1. pc[a] = "reading" /\ UNCHANGED <<sp_tbl, pte, flash, job>>
  BY DEF read
<1>2. f \in Frames /\ new \in Pages /\ pte[new] = None
  BY <1>1 DEF BInv, Jobs, Holding, Moving
<1>3. \A b \in Asids : b # a => pc[b] \notin {"write", "writing", "fill"}
  BY <1>1, Alone
<1>4. CASE ram' = ram /\ pc' = [pc EXCEPT ![a] = "lost"]
  <2>1. \A b \in Asids : \/ pc'[b] = pc[b] /\ job'[b] = job[b]
                         \/ pc[b] = "reading" /\ pc'[b] = "lost"
    BY <1>1, <1>4 DEF BInv, TypeOK
  <2> QED
    BY <1>1, <1>4, <2>1, FoundKept
<1>5. CASE ram' = [ram EXCEPT ![f] = flash[new]] /\ pc' = [pc EXCEPT ![a] = "fill"]
  <2>1. pc'[a] = "fill" /\ \A b \in Asids : b # a => pc'[b] = pc[b]
    BY <1>5 DEF BInv, TypeOK
  <2>2. Living(Owner(pg))
    BY <1>1, <2>1 DEF Living, Owner, Pages
  <2>3. Saving(pg) = {} /\ Loading(pg) = {}
    BY <1>1, <1>3, Nobody
  <2>4. Saving(pg)' = {} /\ Loading(pg)' = IF pg = new THEN {a} ELSE {}
    BY <1>1, <1>3, <2>1 DEF Saving, Loading
  <2>5. pte[pg] # f
    BY <1>1, <2>2 DEF Quiet
  <2>6. /\ \A g \in Frames : ram'[g] = IF g = f THEN flash[new] ELSE ram[g]
        /\ job'[a].frame = f
        /\ pte[pg] # None => pte[pg] \in Frames
    BY <1>1, <1>5 DEF BInv, TypeOK
  <2> HIDE DEF f, new
  <2>7. CASE pg = new
    BY <1>1, <1>2, <2>3, <2>4, <2>6, <2>7 DEF Found
  <2>8. CASE pg # new
    BY <1>1, <2>3, <2>4, <2>5, <2>6, <2>8 DEF Found
  <2> QED
    BY <2>7, <2>8
<1> QED
  BY <1>4, <1>5 DEF read, goto

LEMMA FillFound ==
  ASSUME BInv, BInv', NEW pg \in Pages, Found(pg), NEW a \in Asids, fill_frame(a)
  PROVE  Found(pg)'
<1> DEFINE f == job[a].frame
           new == job[a].pg
<1>1. /\ pc[a] = "fill" /\ pc' = [pc EXCEPT ![a] = "release"]
      /\ pte' = [pte EXCEPT ![new] = f]
      /\ UNCHANGED <<ram, flash>>
  BY DEF fill_frame, goto
<1>2. f \in Frames /\ f # None /\ new \in Pages /\ pte[new] = None
  BY <1>1, PagerAssumption DEF BInv, Jobs, Holding, Moving, Frames
<1>3. \A b \in Asids : b # a => pc[b] \notin {"write", "writing", "fill"}
  BY <1>1, Alone
<1>4. pc'[a] = "release" /\ \A b \in Asids : b # a => pc'[b] = pc[b]
  BY <1>1 DEF BInv, TypeOK
<1>5. Saving(pg) = {} /\ Loading(pg) = IF pg = new THEN {a} ELSE {}
  BY <1>1, <1>3 DEF Saving, Loading
<1>6. Saving(pg)' = {} /\ Loading(pg)' = {}
  BY <1>3, <1>4 DEF Saving, Loading
<1>7. pte'[pg] = IF pg = new THEN f ELSE pte[pg]
  BY <1>1 DEF BInv, TypeOK
<1>8. CASE pg = new
  BY <1>1, <1>2, <1>5, <1>7, <1>8 DEF Found
<1>9. CASE pg # new
  BY <1>1, <1>5, <1>6, <1>7, <1>9 DEF Found
<1> QED
  BY <1>8, <1>9

(* The steps of the end of a process, of a refill, of a fault, of a free   *)
(* frame and of V leave every page where it was.                           *)
LEMMA OtherFound ==
  ASSUME BInv, NEW pg \in Pages, Found(pg)
  PROVE  /\ \A p \in Pages : uTLB_RefillHandler(p) \/ page_fault(p) => Found(pg)'
         /\ \A a \in Asids :
              \/ choose(a) \/ flash_start(a) \/ release(a)
              \/ terminate(a) \/ load_sp_asids(a) \/ clean_frames(a) \/ TERMPROCESS(a)
              => Found(pg)'
<1>1. ASSUME NEW p \in Pages, uTLB_RefillHandler(p) PROVE Found(pg)'
  <2>1. UNCHANGED <<sp_tbl, pte, ram, flash, pc, job>>
    BY <1>1 DEF uTLB_RefillHandler
  <2> QED
    BY <2>1, FoundKept
<1>2. ASSUME NEW p \in Pages, page_fault(p) PROVE Found(pg)'
  <2> DEFINE a == Owner(p)
  <2>1. /\ pc[a] = "user" /\ UNCHANGED <<sp_tbl, pte, ram, flash>>
        /\ job' = [job EXCEPT ![a].pg = p]
        /\ pc' = [pc EXCEPT ![a] = "blocked"] \/ pc' = [pc EXCEPT ![a] = "choose"]
    BY <1>2 DEF page_fault, sp_P, goto
  <2> HIDE DEF a
  <2>2. \A b \in Asids : \/ pc'[b] = pc[b] /\ job'[b] = job[b]
                         \/ b = a /\ pc'[b] \in {"blocked", "choose"}
    BY <2>1 DEF BInv, TypeOK
  <2> QED
    BY <2>1, <2>2, FoundKept
<1>3. ASSUME NEW a \in Asids, choose(a) PROVE Found(pg)'
  <2>1. /\ pc[a] = "choose" /\ UNCHANGED <<sp_tbl, pte, ram, flash>>
        /\ job' = [job EXCEPT ![a].frame = choose_frame]
        /\ pc' = [pc EXCEPT ![a] = "free"] \/ pc' = [pc EXCEPT ![a] = "read"]
    BY <1>3 DEF choose, goto
  <2>2. \A b \in Asids : \/ pc'[b] = pc[b] /\ job'[b] = job[b]
                         \/ b = a /\ pc'[b] \in {"free", "read"}
    BY <2>1 DEF BInv, TypeOK
  <2> QED
    BY <2>1, <2>2, FoundKept
<1>4. ASSUME NEW a \in Asids, flash_start(a) PROVE Found(pg)'
  <2>1. /\ UNCHANGED <<sp_tbl, pte, ram, flash, job>>
        /\ \/ pc[a] = "write" /\ pc' = [pc EXCEPT ![a] = "writing"]
           \/ pc[a] = "read" /\ pc' = [pc EXCEPT ![a] = "reading"]
    BY <1>4 DEF flash_start, goto
  <2>2. \A b \in Asids : \/ pc'[b] = pc[b] /\ job'[b] = job[b]
                         \/ pc[b] = "read" /\ pc'[b] = "reading"
                         \/ pc[b] = "write" /\ pc'[b] = "writing" /\ job'[b] = job[b]
    BY <2>1 DEF BInv, TypeOK
  <2> QED
    BY <2>1, <2>2, FoundKept
<1>5. ASSUME NEW a \in Asids, release(a) PROVE Found(pg)'
  <2>1. UNCHANGED <<sp_tbl, pte, ram, flash>>
    BY <1>5 DEF release
  <2>2. \A b \in Asids : \/ pc'[b] = pc[b] /\ job'[b] = job[b]
                         \/ pc'[b] \in {"user", "choose"} /\ pc[b] \in {"release", "blocked"}
    BY <1>5, ReleaseMoves
  <2> QED
    BY <2>1, <2>2, FoundKept
<1>6. ASSUME NEW a \in Asids,
             terminate(a) \/ load_sp_asids(a) \/ clean_frames(a) \/ TERMPROCESS(a)
      PROVE  Found(pg)'
  <2>1. PICK l \in {"sys2", "clean", "term", "dead"} :
          /\ pc' = [pc EXCEPT ![a] = l]
          /\ pc[a] \in {"user", "sys2", "clean", "term"}
          /\ UNCHANGED <<sp_tbl, pte, ram, flash, job>>
    BY <1>6 DEF terminate, load_sp_asids, clean_frames, TERMPROCESS, executes, goto
  <2>2. \A b \in Asids : \/ pc'[b] = pc[b] /\ job'[b] = job[b]
                         \/ b = a /\ pc'[b] = l
    BY <2>1 DEF BInv, TypeOK
  <2> QED
    BY <2>1, <2>2, FoundKept
<1> QED
  BY <1>1, <1>2, <1>3, <1>4, <1>5, <1>6

(* The stores of a living process are lost by a save that fails or goes to *)
(* the flash of another process, and by nothing else.                      *)
THEOREM StoresFound == Spec => StoresSurvive
<1> DEFINE Survive ==
      \A pg \in Pages : Agree /\ Quiet /\ Found(pg) /\ Living(Owner(pg))' =>
        Found(pg)' \/ \E a \in Asids : BadSave(a, pg)
<1>1. BInv /\ BInv' /\ [Next]_vars => [Survive]_vars
  <2> SUFFICES ASSUME BInv, BInv', Next, NEW pg \in Pages,
                      Agree, Quiet, Found(pg), Living(Owner(pg))'
               PROVE  Found(pg)' \/ \E a \in Asids : BadSave(a, pg)
    OBVIOUS
  <2>1. ASSUME NEW p \in Pages, uTLB_RefillHandler(p) \/ store(p) \/ page_fault(p)
        PROVE  Found(pg)'
    BY <2>1, StoreFound, OtherFound
  <2>2. ASSUME NEW a \in Asids, tlb_exc_handler(a)
        PROVE  Found(pg)' \/ BadSave(a, pg)
    BY <2>2, InvalidateFound, WrittenFound, ReadFound, FillFound, OtherFound
       DEF tlb_exc_handler
  <2>3. ASSUME NEW a \in Asids,
               terminate(a) \/ load_sp_asids(a) \/ clean_frames(a) \/ TERMPROCESS(a)
        PROVE  Found(pg)'
    BY <2>3, OtherFound
  <2> QED
    BY <2>1, <2>2, <2>3 DEF Next
<1> HIDE DEF Survive
<1>2. Spec => [][Survive]_vars
  BY <1>1, Invariance, PTL DEF Spec
<1> QED
  BY <1>2 DEF StoresSurvive, Survive

=============================================================================
