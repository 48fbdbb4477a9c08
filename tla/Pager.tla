------------------------------- MODULE Pager -------------------------------
(***************************************************************************)
(* The pager of src/src/pager.c: the swap pool, the page tables of the     *)
(* user processes, the TLB and the flash devices their pages live on.      *)
(*                                                                         *)
(* The pager is code of the process that faults, with interrupts on: other *)
(* processes run between any two of its statements.  One action is what    *)
(* stands between two points where that matters: a system call, a section  *)
(* with interrupts off, one access to sp_asids.                            *)
(***************************************************************************)
EXTENDS Integers, FiniteSets, ProcQueue

CONSTANTS
  Asids,    \* the user processes
  PageNos,  \* the indices of a private page table
  Touched,  \* the pages that the programs use
  SP_SIZE,  \* frames of the swap pool
  TlbSize,  \* entries of the TLB
  None,
  Uses      \* which of the awkward events below happen

ASSUME PagerAssumption ==
  /\ SP_SIZE \in Nat \ {0} /\ TlbSize \in Nat \ {0}
  /\ IsFiniteSet(Asids)
  /\ Uses \subseteq {"terminate", "trap", "readError", "writeError"}
  /\ Touched \subseteq Asids \X PageNos
  /\ None \notin Asids /\ None \notin Asids \X PageNos
  /\ None \notin 0..(SP_SIZE - 1)

Frames == 0..(SP_SIZE - 1)
Slots == 0..(TlbSize - 1)
Pages == Asids \X PageNos   \* a page: its process and its index
Owner(pg) == pg[1]

VARIABLES
  sp_tbl,     \* the page each frame was filled with, None when asid = -1
  sp_sem, sp_queue,  \* its mutex, and who is blocked on it
  sp_asids,   \* the bits that are 1
  frame_top,
  pte,        \* the frame of each valid page, None for the others
  tlb,        \* the page table entry that each slot copies
  flash_sem,  \* dev_sems[FLASH_SEMS]
  ram,        \* the copy of a page that each frame holds
  flash,      \* and each block: block n of a device is for page n
  pc,
  job,        \* mpg_no and chosen_frame, the locals of tlb_exc_handler
  tmp         \* the sp_asids that clean_frames has loaded

vars == <<sp_tbl, sp_sem, sp_queue, sp_asids, frame_top, pte, tlb, flash_sem,
          ram, flash, pc, job, tmp>>

(* A copy says which page it is of, and whether it has the last stores.    *)
Copies == [page : Pages \union {None}, last : BOOLEAN]
Blank == [page |-> None, last |-> FALSE]

Empty == [page |-> None, frame |-> None]   \* a slot that matches no page

NoJob == [pg |-> None, frame |-> None]

init_supp_structures ==
  /\ sp_sem = 1 /\ sp_queue = <<>>
  /\ sp_asids = {}
  /\ sp_tbl = [f \in Frames |-> None]
  /\ flash_sem = [a \in Asids |-> 1]

Init ==
  /\ init_supp_structures
  /\ frame_top = 0
  /\ pte = [pg \in Pages |-> None]
  /\ tlb = [s \in Slots |-> Empty]
  /\ ram = [f \in Frames |-> Blank]
  /\ flash = [pg \in Pages |-> [page |-> pg, last |-> TRUE]]
  /\ pc = [a \in Asids |-> "user"]
  /\ job = [a \in Asids |-> NoJob]
  /\ tmp = [a \in Asids |-> {}]

goto(a, l) == pc' = [pc EXCEPT ![a] = l]

-----------------------------------------------------------------------------
(* The program: it reads and writes its pages through the TLB.             *)

(* The slots of the TLB that hold an entry for pg.                         *)
TLBP(pg) == {s \in Slots : tlb[s].page = pg}

(* No slot is for pg: TLBWR writes the entry of the page table over a slot *)
(* of its choice.                                                          *)
uTLB_RefillHandler(pg) ==
  /\ pg \in Touched /\ pc[Owner(pg)] = "user"
  /\ TLBP(pg) = {}
  /\ \E s \in Slots : tlb' = [tlb EXCEPT ![s] = [page |-> pg, frame |-> pte[pg]]]
  /\ UNCHANGED <<sp_tbl, sp_sem, sp_queue, sp_asids, frame_top, pte, flash_sem,
                 ram, flash, pc, job, tmp>>

Outdated(c, pg) == [c EXCEPT !.last = @ /\ c.page # pg]

(* A store goes to the frame in the TLB.  What is there stays the last     *)
(* copy only if it was the last copy of that page, and no other copy is.   *)
store(pg) ==
  /\ pc[Owner(pg)] = "user"
  /\ \E s \in TLBP(pg) :
       /\ tlb[s].frame # None
       /\ ram' = [f \in Frames |->
                    IF f # tlb[s].frame THEN Outdated(ram[f], pg)
                    ELSE [ram[f] EXCEPT !.last = @ /\ ram[f].page = pg]]
  /\ flash' = [b \in Pages |-> Outdated(flash[b], pg)]
  /\ UNCHANGED <<sp_tbl, sp_sem, sp_queue, sp_asids, frame_top, pte, tlb,
                 flash_sem, pc, job, tmp>>

-----------------------------------------------------------------------------
(* sp_sem.  As in passeren and verhogen, a V hands its unit to the first   *)
(* waiter.                                                                 *)

(* Mutant: two processes may have the unit.                                *)
sp_P_free(a) ==
  /\ sp_sem' = 0 /\ goto(a, "choose") /\ UNCHANGED sp_queue

sp_P(a) ==
  IF sp_sem = 0
  THEN /\ sp_queue' = insert_proc_q(sp_queue, a)
       /\ goto(a, "blocked")
       /\ UNCHANGED sp_sem
  ELSE /\ sp_sem' = 0
       /\ goto(a, "choose")
       /\ UNCHANGED sp_queue

(* Mutants: the unit goes back although somebody waits; the process that   *)
(* gets it stays on the queue.                                             *)
sp_V_no_wake(a, l) ==
  /\ sp_sem' = 1 /\ goto(a, l) /\ UNCHANGED sp_queue
sp_V_keep(a, l) ==
  /\ sp_sem' = IF empty_proc_q(sp_queue) THEN 1 ELSE 0
  /\ pc' = [b \in Asids |-> IF b = a THEN l
                            ELSE IF sp_queue # <<>> /\ b = head_proc_q(sp_queue)
                            THEN "choose" ELSE pc[b]]
  /\ UNCHANGED sp_queue

(* What remains to do for a after its V is l.                              *)
sp_V(a, l) ==
  IF empty_proc_q(sp_queue)
  THEN /\ sp_sem' = 1
       /\ goto(a, l)
       /\ UNCHANGED sp_queue
  ELSE /\ sp_queue' = Tail(sp_queue)
       /\ pc' = [pc EXCEPT ![a] = l, ![head_proc_q(sp_queue)] = "choose"]
       /\ UNCHANGED sp_sem

-----------------------------------------------------------------------------
(* tlb_exc_handler.                                                        *)

(* The TLB entry of pg is not valid.  The handler starts with P(sp_sem).   *)
page_fault(pg) ==
  /\ pc[Owner(pg)] = "user"
  /\ \E s \in TLBP(pg) : tlb[s].frame = None
  /\ job' = [job EXCEPT ![Owner(pg)].pg = pg]
  /\ sp_P(Owner(pg))
  /\ UNCHANGED <<sp_tbl, sp_asids, frame_top, pte, tlb, flash_sem, ram, flash, tmp>>

(* The first free frame from frame_top on, or the one after frame_top.     *)
choose_frame ==
  LET after(i) == (frame_top + i) % SP_SIZE
      free == {i \in Frames : sp_tbl[after(i)] = None}
  IN  IF free = {} THEN after(1)
      ELSE after(CHOOSE i \in free : \A j \in free : i <= j)

(* Mutants: the test is left out, or looks at the process that faults.     *)
to_be_saved_never(f, a) == FALSE
to_be_saved_mine(f, a) == sp_tbl[f] # None /\ a \in sp_asids /\ Owner(sp_tbl[f]) = a

to_be_saved(f, a) == sp_tbl[f] # None /\ Owner(sp_tbl[f]) \in sp_asids

choose(a) ==
  /\ pc[a] = "choose"
  /\ frame_top' = choose_frame
  /\ job' = [job EXCEPT ![a].frame = choose_frame]
  /\ goto(a, IF to_be_saved(choose_frame, a) THEN "free" ELSE "read")
  /\ UNCHANGED <<sp_tbl, sp_sem, sp_queue, sp_asids, pte, tlb, flash_sem, ram,
                 flash, tmp>>

update_tlb_not(pg, f) == tlb   \* mutant

(* A failed probe sets bit 31 of Index and leaves 0 in its slot number.    *)
(* P_BIT is bit 30, so that nobody notices, and TLBWI overwrites slot 0.   *)
update_tlb(pg, f) ==
  LET index == IF TLBP(pg) = {} THEN 0 ELSE CHOOSE s \in TLBP(pg) : TRUE
  IN  [tlb EXCEPT ![index] = [page |-> pg, frame |-> f]]

(* free_frame up to the second toggle_int.                                 *)
invalidate(a) ==
  /\ pc[a] = "free"
  /\ LET pg == sp_tbl[job[a].frame]
     IN  pte' = [pte EXCEPT ![pg] = None] /\ tlb' = update_tlb(pg, None)
  /\ goto(a, "write")
  /\ UNCHANGED <<sp_tbl, sp_sem, sp_queue, sp_asids, frame_top, flash_sem, ram,
                 flash, job, tmp>>

(* p_on_dev and DOIO, for the flash of the process that faults.            *)
flash_start(a) ==
  /\ pc[a] \in {"write", "read"}
  /\ flash_sem[a] = 1
  /\ flash_sem' = [flash_sem EXCEPT ![a] = 0]
  /\ goto(a, IF pc[a] = "write" THEN "writing" ELSE "reading")
  /\ UNCHANGED <<sp_tbl, sp_sem, sp_queue, sp_asids, frame_top, pte, tlb, ram,
                 flash, job, tmp>>

v_on_dev(a) == flash_sem' = [flash_sem EXCEPT ![a] = 1]

block_next(a, pg) == job[a].pg   \* mutant: the block of the missing page

(* The block free_frame writes page pg to: its argument asid is that of    *)
(* the process that faults, whoever owns pg.                               *)
block(a, pg) == <<a, pg[2]>>

(* The rest of free_frame.  After an error the frame is not marked free,   *)
(* and tlb_exc_handler goes on all the same.                               *)
written(a) ==
  LET f == job[a].frame
  IN  /\ pc[a] = "writing"
      /\ \/ /\ flash' = [flash EXCEPT ![block(a, sp_tbl[f])] = ram[f]]
            /\ sp_tbl' = [sp_tbl EXCEPT ![f] = None]
         \/ "writeError" \in Uses /\ UNCHANGED <<flash, sp_tbl>>
      /\ v_on_dev(a)
      /\ goto(a, "read")
      /\ UNCHANGED <<sp_sem, sp_queue, sp_asids, frame_top, pte, tlb, ram, job, tmp>>

(* After an error tlb_exc_handler returns: it releases no sp_sem and loads *)
(* no state, and where it returns to is not defined.                       *)
read(a) ==
  /\ pc[a] = "reading"
  /\ \/ ram' = [ram EXCEPT ![job[a].frame] = flash[job[a].pg]] /\ goto(a, "fill")
     \/ "readError" \in Uses /\ goto(a, "lost") /\ UNCHANGED ram
  /\ v_on_dev(a)
  /\ UNCHANGED <<sp_tbl, sp_sem, sp_queue, sp_asids, frame_top, pte, tlb, flash,
                 job, tmp>>

(* Between the two toggle_int: fill_frame, the page table and the TLB.     *)
fill_frame(a) ==
  LET pg == job[a].pg
      f == job[a].frame
  IN  /\ pc[a] = "fill"
      /\ sp_tbl' = [sp_tbl EXCEPT ![f] = pg]
      /\ sp_asids' = sp_asids \union {a}
      /\ pte' = [pte EXCEPT ![pg] = f]
      /\ tlb' = update_tlb(pg, f)
      /\ goto(a, "release")
      /\ UNCHANGED <<sp_sem, sp_queue, frame_top, flash_sem, ram, flash, job, tmp>>

(* V(sp_sem), and LDST to try the access again.                            *)
release(a) ==
  /\ pc[a] = "release"
  /\ sp_V(a, "user")
  /\ job' = [job EXCEPT ![a] = NoJob]
  /\ UNCHANGED <<sp_tbl, sp_asids, frame_top, pte, tlb, flash_sem, ram, flash, tmp>>

-----------------------------------------------------------------------------
(* The end of a process.                                                   *)

(* A program executes, so one of its pages is valid.                       *)
executes(a) ==
  pc[a] = "user" /\ \E pg \in Pages : Owner(pg) = a /\ pte[pg] # None

(* SYS2, up to the support level.                                          *)
terminate(a) ==
  /\ "terminate" \in Uses
  /\ executes(a)
  /\ goto(a, "sys2")
  /\ UNCHANGED <<sp_tbl, sp_sem, sp_queue, sp_asids, frame_top, pte, tlb,
                 flash_sem, ram, flash, job, tmp>>

(* clean_frames loads sp_asids, changes its bit and stores it, with        *)
(* interrupts on and without sp_sem.                                       *)
load_sp_asids(a) ==
  /\ pc[a] = "sys2"
  /\ tmp' = [tmp EXCEPT ![a] = sp_asids]
  /\ goto(a, "clean")
  /\ UNCHANGED <<sp_tbl, sp_sem, sp_queue, sp_asids, frame_top, pte, tlb,
                 flash_sem, ram, flash, job>>

turned_off_not(S, a) == S   \* mutant

(* set_sp_asids(FALSE, a) is an exclusive or.                              *)
turned_off(S, a) == (S \ {a}) \union ({a} \ S)

clean_frames(a) ==
  /\ pc[a] = "clean"
  /\ sp_asids' = turned_off(tmp[a], a)
  /\ tmp' = [tmp EXCEPT ![a] = {}]
  /\ goto(a, "term")
  /\ UNCHANGED <<sp_tbl, sp_sem, sp_queue, frame_top, pte, tlb, flash_sem, ram,
                 flash, job>>

(* TERMPROCESS, after clean_frames or, for a trap, from safe_kill.         *)
TERMPROCESS(a) ==
  /\ \/ pc[a] = "term"
     \/ executes(a) /\ "trap" \in Uses
  /\ goto(a, "dead")
  /\ UNCHANGED <<sp_tbl, sp_sem, sp_queue, sp_asids, frame_top, pte, tlb,
                 flash_sem, ram, flash, job, tmp>>

-----------------------------------------------------------------------------
tlb_exc_handler(a) ==
  \/ choose(a) \/ invalidate(a) \/ flash_start(a) \/ written(a)
  \/ read(a) \/ fill_frame(a) \/ release(a)

Next ==
  \/ \E pg \in Pages : uTLB_RefillHandler(pg) \/ store(pg) \/ page_fault(pg)
  \/ \E a \in Asids : \/ tlb_exc_handler(a)
                      \/ terminate(a) \/ load_sp_asids(a) \/ clean_frames(a)
                      \/ TERMPROCESS(a)

Spec == Init /\ [][Next]_vars

-----------------------------------------------------------------------------
TypeOK ==
  /\ sp_tbl \in [Frames -> Pages \union {None}]
  /\ sp_sem \in {0, 1}
  /\ sp_queue \in Seq(Asids) /\ Distinct(sp_queue)
  /\ sp_asids \subseteq Asids
  /\ frame_top \in Frames
  /\ pte \in [Pages -> Frames \union {None}]
  /\ tlb \in [Slots -> [page : Pages \union {None}, frame : Frames \union {None}]]
  /\ flash_sem \in [Asids -> {0, 1}]
  /\ ram \in [Frames -> Copies]
  /\ flash \in [Pages -> Copies]
  /\ pc \in [Asids -> {"user", "blocked", "choose", "free", "write", "writing",
                       "read", "reading", "fill", "release", "lost",
                       "sys2", "clean", "term", "dead"}]
  /\ job \in [Asids -> [pg : Pages \union {None}, frame : Frames \union {None}]]
  /\ tmp \in [Asids -> SUBSET Asids]

(* The processes in the handler between P and V, and those that still run. *)
Inside == {a \in Asids : pc[a] \in {"choose", "free", "write", "writing", "read",
                                    "reading", "fill", "release", "lost"}}
Living(a) == pc[a] \notin {"sys2", "clean", "term", "dead", "lost"}

(* The swap pool has one process in it at a time, sp_sem is 1 exactly when *)
(* it has none, and then nobody waits: the P and V of tlb_exc_handler.     *)
PoolExclusive ==
  /\ Cardinality(Inside) = 1 - sp_sem
  /\ Elems(sp_queue) = {a \in Asids : pc[a] = "blocked"}
  /\ sp_sem = 1 => sp_queue = <<>>

(* pager.c:42: a bit that is 0 means that the process is dead, or that no  *)
(* frame of the swap pool is its own.                                      *)
NoBitNoFrame ==
  \A f \in Frames :
    sp_tbl[f] # None /\ Living(Owner(sp_tbl[f])) => Owner(sp_tbl[f]) \in sp_asids

(* Nobody has changed sp_asids since a clean_frames loaded it.             *)
BitsFresh == \A a \in Asids : pc[a] = "clean" => tmp[a] = sp_asids

(* Where the swap pool table and the page tables agree: a valid page of a  *)
(* process that runs is in the frame of its entry, so that no two of them  *)
(* share a frame, and its process has its bit in sp_asids, so that         *)
(* free_frame will be called before the frame is filled again.             *)
Agree ==
  \A pg \in Pages : Living(Owner(pg)) /\ pte[pg] # None =>
    sp_tbl[pte[pg]] = pg /\ Owner(pg) \in sp_asids

(* They always do, whatever traps, deaths and failed transfers there are,  *)
(* if no clean_frames is preempted between its load and its store.         *)
FrameBelongsToPage == []BitsFresh => []Agree

(* No program reaches a frame while the flash reads or writes it.          *)
Quiet ==
  \A a \in Asids : pc[a] \in {"write", "writing", "read", "reading", "fill"} =>
    /\ \A pg \in Pages : Living(Owner(pg)) => pte[pg] # job[a].frame
    /\ \A s \in Slots : tlb[s].page # None /\ Living(Owner(tlb[s].page)) =>
         tlb[s].frame # job[a].frame

(* Neither through the page tables nor through an entry left in the TLB,   *)
(* because free_frame invalidates both before it writes; again as long as  *)
(* no clean_frames is preempted.                                           *)
QuietWhileMoved == []BitsFresh => []Quiet

(* The TLB never disagrees with the page tables, and no page has two slots *)
(* that a TLBP would have to choose from: update_tlb, in the same sections *)
(* with interrupts off, even when it writes over slot 0 unasked, and       *)
(* uTLB_RefillHandler.                                                     *)
TlbCoherent ==
  /\ \A s \in Slots : tlb[s].page # None => tlb[s].frame = pte[tlb[s].page]
  /\ \A s, t \in Slots : tlb[s].page # None /\ tlb[s].page = tlb[t].page => s = t

(* Where the last stores to pg are looked for next: in its frame if it is  *)
(* valid, in the frame that free_frame is about to write over its block,   *)
(* in the frame that was just read for it, otherwise in its block.  They   *)
(* are found if the copy there has them.                                   *)
Saving(pg) == {a \in Asids : pc[a] \in {"write", "writing"} /\ sp_tbl[job[a].frame] = pg}
Loading(pg) == {a \in Asids : pc[a] = "fill" /\ job[a].pg = pg}
Found(pg) ==
  LET Last == [page |-> pg, last |-> TRUE]
  IN  IF pte[pg] # None THEN ram[pte[pg]] = Last
      ELSE IF Saving(pg) # {} THEN \A a \in Saving(pg) : ram[job[a].frame] = Last
      ELSE IF Loading(pg) # {} THEN \A a \in Loading(pg) : ram[job[a].frame] = Last
      ELSE flash[pg] = Last

(* free_frame fails to save pg, or saves a page of another process on its  *)
(* own flash: pg is not saved, or it is the page whose block is lost.      *)
BadSave(a, pg) ==
  LET out == sp_tbl[job[a].frame]
  IN  /\ pc[a] = "writing" /\ pc'[a] = "read"
      /\ \/ flash' = flash /\ pg = out
         \/ Owner(out) # a /\ pg \in {out, block(a, out)}

(* As long as page tables and pool agree and no frame is touched while it  *)
(* is moved, the stores of a living process are lost in these two ways     *)
(* only, and only those to the pages that the save is about.               *)
StoresSurvive ==
  [][\A pg \in Pages : Agree /\ Quiet /\ Found(pg) /\ Living(Owner(pg))' =>
       Found(pg)' \/ \E a \in Asids : BadSave(a, pg)]_vars

(* A process that has called SYS2 has no bit once clean_frames is over, so *)
(* that its frames are taken without being written to a flash.             *)
BitMeansAlive == []BitsFresh => [](\A a \in sp_asids : pc[a] # "term")

(* pager.c:59: free_frame is given the asid of the owner of the frame, and *)
(* so saves a page on the flash of the process it belongs to.              *)
SavedWhereItBelongs ==
  \A pg \in Pages : Owner(flash[pg].page) = Owner(pg)
=============================================================================
