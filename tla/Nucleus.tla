------------------------------ MODULE Nucleus ------------------------------
(***************************************************************************)
(* The nucleus of ROCM: kernel.c, scheduler.c, syscalls.c, interrupts.c    *)
(* over the process and semaphore queues of pcb.c and asl.c.               *)
(*                                                                         *)
(* The machine has one processor and an exception handler runs with the    *)
(* interrupts off, so each step is one whole exception: the handler, the   *)
(* tail of exception_handler and scheduler_next, up to the LDST that gives *)
(* the processor back, the WAIT, the HALT or the PANIC.                    *)
(*                                                                         *)
(* Abstracted: register contents (but for the words named below), clock    *)
(* values, addresses of semaphores and pcbs (they are the elements of Sems *)
(* and Procs), the order of the list of free pcbs (alloc_pcb answers any   *)
(* free pcb) and the semaphore descriptors of the ASL (their number only;  *)
(* module Asl has them one by one).                                        *)
(***************************************************************************)
EXTENDS Integers, FiniteSets, ProcQueue

CONSTANTS
  Procs,     \* pcb_free_table: MAXPROC pcbs, also the pids
  UserSems,  \* semaphores that programs use with PASSEREN and VERHOGEN
  Devs,      \* devices (a terminal is two: transmitter and receiver)
  Clock,     \* sem_it
  NULL,
  Kinds,     \* <<priority, has a support structure>> of the created processes
  Uses       \* the uses below that the programs of this instance make

(* Uses of the system calls that a reader of their manual may make and     *)
(* that the code answers badly; each has a run of its own.                 *)
(*   "createFull"  CREATEPROCESS when no pcb is free                       *)
(*   "loneYield"   YIELD when no other process is ready                    *)
(*   "killIO"      TERMPROCESS of a process that waits for a device        *)
AllUses == {"createFull", "loneYield", "killIO"}

Sems == UserSems \union Devs \union {Clock}
Prios == {"high", "low"}      \* PROCESS_PRIO_HIGH, PROCESS_PRIO_LOW
eh_act == {"NOTHING", "RENQUEUE", "CONTINUE", "-1"}

ASSUME ProcsAssumption == IsFiniteSet(Procs) /\ NULL \notin Procs
ASSUME SemsAssumption ==
  /\ IsFiniteSet(UserSems) /\ IsFiniteSet(Devs)
  /\ UserSems \intersect Devs = {}
  /\ Clock \notin UserSems \union Devs
  /\ NULL \notin Sems
ASSUME UsesAssumption == Uses \subseteq AllUses /\ Kinds \subseteq Prios \X BOOLEAN

VARIABLES
  machine,      \* "running" a process, "waiting" in WAIT, or stopped
  act_proc,     \* the process the processor was given to
  yielded_proc, \* the process put aside by YIELD
  procs_count,  \* processes created and not killed
  sb_procs,     \* processes blocked on any semaphore
  ready_q,      \* h_queue and l_queue
  pcb_free,     \* pcb_free_h, as a set
  p_parent, p_prio,
  p_support,    \* the processes with a support structure
  p_semAdd,     \* the semaphore a process is blocked on
  a0,           \* the call a blocked process made (p_s.reg_a0)
  v0,           \* the device whose status was stored in p_s.reg_v0 since
                \* the process last entered the kernel
  s_procq,      \* the queue of the ASL's descriptor of each semaphore
  sem,          \* the value of each semaphore
  busy          \* devices that will raise an interrupt

cpu == <<machine, act_proc, yielded_proc, ready_q>>
counts == <<procs_count, sb_procs>>
tree == <<pcb_free, p_parent, p_prio, p_support>>
asl == <<p_semAdd, a0, s_procq>>
vars == <<cpu, counts, tree, asl, sem, v0, busy>>

Alive == Procs \ pcb_free
Blocked == {p \in Procs : p_semAdd[p] # NULL}

(***************************************************************************)
(* Boot: init_data_structures, create_init_proc and the first              *)
(* scheduler_next.  A program gives its semaphores the value 0 or 1.       *)
(***************************************************************************)
Init ==
  \E init \in Procs :
    /\ machine = "running"
    /\ act_proc = init
    /\ yielded_proc = NULL
    /\ procs_count = 1
    /\ sb_procs = 0
    /\ ready_q = [r \in Prios |-> <<>>]
    /\ pcb_free = Procs \ {init}
    /\ p_parent = [p \in Procs |-> NULL]
    /\ p_prio = [p \in Procs |-> "low"]
    /\ p_support = {}
    /\ p_semAdd = [p \in Procs |-> NULL]
    /\ a0 = [p \in Procs |-> NULL]
    /\ v0 = [p \in Procs |-> NULL]
    /\ s_procq = [s \in Sems |-> <<>>]
    /\ sem \in [Sems -> {0, 1}]
    /\ \A s \in Devs \union {Clock} : sem[s] = 0
    /\ busy = {}

-----------------------------------------------------------------------------
(***************************************************************************)
(* The scheduler.  rq stands for the ready queues as the handler leaves    *)
(* them and y for yielded_proc; priorities and counters are read primed,   *)
(* after the handler wrote them.                                           *)
(***************************************************************************)
enqueue_proc(rq, p) == [rq EXCEPT ![p_prio'[p]] = insert_proc_q(@, p)]

(* A process set aside by YIELD returns to its queue only here, behind the *)
(* processes that were ready when it yielded.                              *)
requeue_yielded_never(rq, y) == rq   \* mutant: the yielded process is forgotten
requeue_yielded(rq, y) == IF y = NULL THEN rq ELSE enqueue_proc(rq, y)

load_proc(p, rq, y) ==
  /\ machine' = "running"
  /\ act_proc' = p
  /\ ready_q' = requeue_yielded(rq, y)
  /\ yielded_proc' = NULL

(* dequeue_proc(r) and load_proc of what it answers.                       *)
load_first(r, rq, y) ==
  load_proc(head_proc_q(rq[r]), [rq EXCEPT ![r] = Tail(@)], y)

(* Mutant: the process that ran is still the current one during WAIT.      *)
wait_keeps_act(rq, y) ==
  /\ machine' = "waiting"
  /\ act_proc' = act_proc
  /\ ready_q' = requeue_yielded(rq, y)
  /\ yielded_proc' = NULL

(* WAIT, with the interrupts on.                                           *)
wait(rq, y) ==
  /\ machine' = "waiting"
  /\ act_proc' = NULL
  /\ ready_q' = requeue_yielded(rq, y)
  /\ yielded_proc' = NULL

stop(how, rq, y) ==
  /\ machine' = how
  /\ ready_q' = rq
  /\ yielded_proc' = y
  /\ UNCHANGED act_proc

(* Mutant: the low priority queue is not looked at before waiting.         *)
scheduler_next_high(rq, y) ==
  \/ ~empty_proc_q(rq["high"]) /\ load_first("high", rq, y)
  \/ empty_proc_q(rq["high"]) /\ procs_count' = 0 /\ stop("halted", rq, y)
  \/ empty_proc_q(rq["high"]) /\ procs_count' > 0 /\ wait(rq, y)

scheduler_next(rq, y) ==
  \/ /\ ~empty_proc_q(rq["high"])
     /\ load_first("high", rq, y)
  \/ /\ empty_proc_q(rq["high"]) /\ ~empty_proc_q(rq["low"])
     /\ load_first("low", rq, y)
  \/ /\ \A r \in Prios : empty_proc_q(rq[r])
     /\ \/ procs_count' = 0 /\ stop("halted", rq, y)
        \/ procs_count' > 0 /\ sb_procs' > 0 /\ wait(rq, y)
        \/ procs_count' > 0 /\ sb_procs' = 0 /\ stop("deadlock", rq, y)

(* The end of exception_handler: what becomes of the process that ran.     *)
(* create_process also answers -1, which is none of the three actions.     *)
resume(eh, rq, y) ==
  \/ act_proc # NULL /\ eh = "CONTINUE" /\ load_proc(act_proc, rq, y)
  \/ act_proc # NULL /\ eh = "RENQUEUE" /\ scheduler_next(enqueue_proc(rq, act_proc), y)
  \/ (act_proc = NULL \/ eh \in {"NOTHING", "-1"}) /\ scheduler_next(rq, y)

-----------------------------------------------------------------------------
(* The semaphore queues (asl.c).                                           *)

(* Every semaphore with a blocked process owns one of MAXPROC descriptors. *)
no_free_semd(s) ==
  /\ s_procq[s] = <<>>
  /\ Cardinality({t \in Sems : s_procq[t] # <<>>}) >= Cardinality(Procs)

insert_blocked(s, p, call) ==
  /\ s_procq' = [s_procq EXCEPT ![s] = insert_proc_q(@, p)]
  /\ p_semAdd' = [p_semAdd EXCEPT ![p] = s]
  /\ a0' = [a0 EXCEPT ![p] = call]

(* Mutant: the process leaves the queue and keeps its p_semAdd.            *)
remove_blocked_half(s) ==
  /\ s_procq' = [s_procq EXCEPT ![s] = Tail(@)]
  /\ UNCHANGED <<p_semAdd, a0>>

remove_blocked(s) ==
  LET p == head_proc_q(s_procq[s])
  IN  /\ s_procq' = [s_procq EXCEPT ![s] = Tail(@)]
      /\ p_semAdd' = [p_semAdd EXCEPT ![p] = NULL]
      /\ a0' = [a0 EXCEPT ![p] = NULL]

(* The running process blocks; eh is what the exception handler then does. *)
(* Without a free descriptor it is a PANIC.                                *)
block_on(s, call, eh) ==
  /\ UNCHANGED sem
  /\ IF no_free_semd(s)
       THEN stop("panic", ready_q, yielded_proc) /\ UNCHANGED <<asl, sb_procs>>
       ELSE /\ insert_blocked(s, act_proc, call)
            /\ sb_procs' = sb_procs + 1
            /\ resume(eh, ready_q, yielded_proc)

(* Mutant: the unit is handed to the waiter and also left in the semaphore. *)
wake_first_leave(s, eh) ==
  /\ remove_blocked(s)
  /\ sb_procs' = sb_procs - 1
  /\ sem' = [sem EXCEPT ![s] = 1 - @]
  /\ resume(eh, enqueue_proc(ready_q, head_proc_q(s_procq[s])), yielded_proc)

(* The first waiter of s becomes ready and the value of s stays.           *)
wake_first(s, eh) ==
  /\ remove_blocked(s)
  /\ sb_procs' = sb_procs - 1
  /\ UNCHANGED sem
  /\ resume(eh, enqueue_proc(ready_q, head_proc_q(s_procq[s])), yielded_proc)

set_sem(s, value, eh) ==
  /\ sem' = [sem EXCEPT ![s] = value]
  /\ UNCHANGED <<asl, sb_procs>>
  /\ resume(eh, ready_q, yielded_proc)

(* P: eh is what the handler does with the caller when it does not block.  *)
passeren(s, call, eh) ==
  \/ sem[s] = 0 /\ block_on(s, call, "NOTHING")
  \/ sem[s] # 0 /\ s_procq[s] # <<>> /\ wake_first(s, eh)
  \/ sem[s] # 0 /\ s_procq[s] = <<>> /\ set_sem(s, 0, eh)

(* Mutant: a V that never blocks and counts.                               *)
verhogen_counting(s, eh1, eh) ==
  \/ s_procq[s] # <<>> /\ wake_first(s, eh)
  \/ s_procq[s] = <<>> /\ set_sem(s, sem[s] + 1, eh)

(* V: the handler does eh1 when the V blocks the process that ran and eh   *)
(* when it does not.  An interrupt in WAIT finds no process to block.      *)
verhogen(s, eh1, eh) ==
  \/ sem[s] = 1 /\ act_proc # NULL /\ block_on(s, "VERHOGEN", eh1)
  \/ sem[s] = 1 /\ act_proc = NULL /\ UNCHANGED <<asl, sem, sb_procs>>
       /\ resume(eh1, ready_q, yielded_proc)
  \/ sem[s] # 1 /\ s_procq[s] # <<>> /\ wake_first(s, eh)
  \/ sem[s] # 1 /\ s_procq[s] = <<>> /\ set_sem(s, 1, eh)

verhogen_answer_running(s) == act_proc   \* mutant: the process that ran

(* The pcb verhogen answers.                                               *)
verhogen_answer(s) ==
  IF sem[s] = 1 THEN NULL
  ELSE IF s_procq[s] # <<>> THEN head_proc_q(s_procq[s]) ELSE act_proc

-----------------------------------------------------------------------------
(***************************************************************************)
(* System calls.  A call of a dead or of a blocked process is a PANIC.  A  *)
(* free pcb's fields matter to nobody before alloc_pcb clears them: the    *)
(* model clears them when the pcb is freed.                                *)
(***************************************************************************)
PANIC == stop("panic", ready_q, yielded_proc) /\ UNCHANGED <<counts, tree, asl, sem, busy>>

handle_syscall(call) ==
  /\ machine = "running"
  /\ IF act_proc \in pcb_free \/ p_semAdd[act_proc] # NULL THEN PANIC ELSE call
  /\ v0' = [p \in Procs |-> IF p = act_proc \/ p \in pcb_free' THEN NULL ELSE v0[p]]

(* NSYS1.  mk_proc puts the child at the end of its queue, and the caller  *)
(* goes on.  Without a free pcb create_process returns -1 as the handler's *)
(* action, so that nobody enqueues the caller.                             *)
mk_proc(c, prio, support) ==
  /\ pcb_free' = pcb_free \ {c}
  /\ p_parent' = [p_parent EXCEPT ![c] = act_proc]
  /\ p_prio' = [p_prio EXCEPT ![c] = prio]
  /\ p_support' = IF support THEN p_support \union {c} ELSE p_support
  /\ procs_count' = procs_count + 1
  /\ UNCHANGED <<sb_procs, asl, sem, busy>>

create_process(prio, support) ==
  handle_syscall(
    \/ \E c \in pcb_free :
         /\ mk_proc(c, prio, support)
         /\ resume("CONTINUE", enqueue_proc(ready_q, c), yielded_proc)
    \/ /\ pcb_free = {} /\ "createFull" \in Uses
       /\ UNCHANGED <<counts, tree, asl, sem, busy>>
       /\ resume("-1", ready_q, yielded_proc))

(* Mutant: only p and its children.                                        *)
Progeny_one_level(p) == {p} \union {x \in Procs : p_parent[x] = p}

(* The process p and its descendants: the least set that holds p and the   *)
(* children of its members.                                                *)
Progeny(p) ==
  LET Closed == {D \in SUBSET Procs : p \in D /\ \A y \in Procs : p_parent[y] \in D => y \in D}
  IN  {x \in Procs : \A D \in Closed : x \in D}

ready_without_none(K) == ready_q     \* mutant: the dead stay on the ready queues
ready_without(K) == [r \in Prios |-> Keep(ready_q[r], Procs \ K)]

blocked_in_none(K) == 0              \* mutant: sb_procs is not decremented
blocked_in(K) == Cardinality(K \intersect Blocked)

(* kill_parent_and_progeny(p): kill_proc of the whole subtree K.           *)
kill_parent_and_progeny(K, eh) ==
  /\ procs_count' = procs_count - Cardinality(K)
  /\ sb_procs' = sb_procs - blocked_in(K)
  /\ p_parent' = [x \in Procs |-> IF x \in K THEN NULL ELSE p_parent[x]]
  /\ p_semAdd' = [x \in Procs |-> IF x \in K THEN NULL ELSE p_semAdd[x]]
  /\ a0' = [x \in Procs |-> IF x \in K THEN NULL ELSE a0[x]]
  /\ s_procq' = [s \in Sems |-> Keep(s_procq[s], Procs \ K)]
  /\ pcb_free' = pcb_free \union K
  /\ p_prio' = [x \in Procs |-> IF x \in K THEN "low" ELSE p_prio[x]]
  /\ p_support' = p_support \ K
  /\ UNCHANGED <<sem, busy>>
  /\ resume(eh, ready_without(K), yielded_proc)

(* out_blocked does not find a process on the queue its p_semAdd names.    *)
not_on_its_queue(K) == \E x \in K \intersect Blocked : x \notin Elems(s_procq[p_semAdd[x]])

(* NSYS2, of the caller (pid 0) or of any process that is alive.           *)
term_process(p) ==
  LET K == Progeny(p)
  IN  handle_syscall(
        /\ p \in Alive
        /\ "killIO" \in Uses \/ \A x \in K : p_semAdd[x] \notin Devs
        /\ IF not_on_its_queue(K) THEN PANIC
           ELSE kill_parent_and_progeny(K, IF act_proc \in K THEN "NOTHING" ELSE "RENQUEUE"))

(* NSYS3 and NSYS4.                                                        *)
PASSEREN(s) ==
  handle_syscall(UNCHANGED <<procs_count, tree, busy>> /\ passeren(s, "PASSEREN", "RENQUEUE"))

VERHOGEN(s) ==
  handle_syscall(UNCHANGED <<procs_count, tree, busy>> /\ verhogen(s, "NOTHING", "RENQUEUE"))

(* Mutant: the command is written only if the P did not block.             *)
do_io_blocked_first(d) ==
  handle_syscall(
    /\ s_procq[d] = <<>>
    /\ UNCHANGED <<procs_count, tree>>
    /\ passeren(d, "DOIO", "NOTHING")
    /\ busy' = IF sem[d] = 0 THEN busy ELSE busy \union {d})

(* NSYS5.  The command is written after the P, and what passeren answers   *)
(* is ignored.  The drivers admit one process at a time to a device.       *)
do_io(d) ==
  handle_syscall(
    /\ s_procq[d] = <<>>
    /\ UNCHANGED <<procs_count, tree>>
    /\ passeren(d, "DOIO", "NOTHING")
    /\ busy' = busy \union {d})

(* NSYS7.                                                                  *)
wait_for_clock ==
  handle_syscall(UNCHANGED <<procs_count, tree, busy>> /\ passeren(Clock, "CLOCKWAIT", "RENQUEUE"))

(* NSYS6, NSYS8 and NSYS9 only write v0 and let the caller go on.          *)
get_info ==
  handle_syscall(
    UNCHANGED <<counts, tree, asl, sem, busy>> /\ resume("CONTINUE", ready_q, yielded_proc))

(* NSYS10.                                                                 *)
yield ==
  handle_syscall(
    /\ "loneYield" \in Uses \/ \E r \in Prios : ~empty_proc_q(ready_q[r])
    /\ UNCHANGED <<counts, tree, asl, sem, busy>>
    /\ resume("NOTHING", ready_q, act_proc))

(* passup_or_die of a trap or of a TLB exception.  A process with a        *)
(* support structure goes on in its support handler (LDCXT): no variable   *)
(* of the nucleus changes.  One without dies with its progeny.             *)
passup_or_die ==
  LET K == Progeny(act_proc)
  IN  /\ machine = "running"
      /\ act_proc \notin p_support
      /\ "killIO" \in Uses \/ \A x \in K : p_semAdd[x] \notin Devs
      /\ IF not_on_its_queue(K) THEN PANIC
         ELSE kill_parent_and_progeny(K, "NOTHING")
      /\ v0' = [p \in Procs |-> IF p \in pcb_free' THEN NULL ELSE v0[p]]

-----------------------------------------------------------------------------
(***************************************************************************)
(* Interrupts.  They reach a running process and the processor in WAIT.    *)
(***************************************************************************)
interruptible_running == machine = "running"   \* mutant: WAIT with interrupts off
interruptible == machine \in {"running", "waiting"}

(* IL_CPUTIMER: the time slice of a low priority process; load_proc turns  *)
(* the timer off for a high priority one.                                  *)
time_slice ==
  /\ machine = "running"
  /\ p_prio[act_proc] = "low"
  /\ UNCHANGED <<counts, tree, asl, sem, v0, busy>>
  /\ resume("RENQUEUE", ready_q, yielded_proc)

(* Mutant: one V of sem_it instead of as many as it takes.                 *)
woken_by_tick_one == IF s_procq[Clock] = <<>> THEN <<>> ELSE <<Head(s_procq[Clock])>>

(* IL_TIMER: V of sem_it until its value is 1, then 0 again: every waiter  *)
(* becomes ready, in order, and the process that ran goes on.              *)
woken_by_tick == IF sem[Clock] = 1 THEN <<>> ELSE s_procq[Clock]

interval_timer ==
  LET W == Elems(woken_by_tick)
  IN  /\ interruptible
      /\ s_procq' = [s_procq EXCEPT ![Clock] = Keep(@, Procs \ W)]
      /\ p_semAdd' = [p \in Procs |-> IF p \in W THEN NULL ELSE p_semAdd[p]]
      /\ a0' = [p \in Procs |-> IF p \in W THEN NULL ELSE a0[p]]
      /\ sb_procs' = sb_procs - Len(woken_by_tick)
      /\ sem' = [sem EXCEPT ![Clock] = 0]
      /\ UNCHANGED <<procs_count, tree, v0, busy>>
      /\ resume("CONTINUE",
                [r \in Prios |->
                   ready_q[r] \o Keep(woken_by_tick, {p \in Procs : p_prio[p] = r})],
                yielded_proc)

(* generic_interrupt_handler, and the terminal with a good status: the     *)
(* status goes to v0 of the pcb that verhogen answers.                     *)
device_interrupt(d) ==
  /\ interruptible
  /\ d \in busy
  /\ busy' = busy \ {d}
  /\ v0' = IF verhogen_answer(d) = NULL THEN v0
           ELSE [v0 EXCEPT ![verhogen_answer(d)] = d]
  /\ UNCHANGED <<procs_count, tree>>
  /\ verhogen(d, "CONTINUE", "CONTINUE")

Next ==
  \/ \E k \in Kinds : create_process(k[1], k[2])
  \/ \E p \in Procs : term_process(p)
  \/ \E s \in UserSems : PASSEREN(s) \/ VERHOGEN(s)
  \/ \E d \in Devs : do_io(d)
  \/ wait_for_clock
  \/ get_info
  \/ yield
  \/ passup_or_die
  \/ time_slice
  \/ interval_timer
  \/ \E d \in Devs : device_interrupt(d)

Spec == Init /\ [][Next]_vars

(* The interval timer is reloaded at every tick and a device that was      *)
(* given a command answers it.                                             *)
Fairness ==
  /\ WF_vars(interval_timer)
  /\ \A d \in Devs : WF_vars(device_interrupt(d))

FairSpec == Spec /\ Fairness

-----------------------------------------------------------------------------
(***************************************************************************)
(* Properties.                                                             *)
(***************************************************************************)

(* The fields have their types: the queues hold pcbs, p_semAdd semaphores, *)
(* the semaphores are binary and the processor, when it runs, runs a pcb.  *)
TypeOK ==
  /\ machine \in {"running", "waiting", "halted", "deadlock", "panic"}
  /\ act_proc \in Procs \union {NULL}
  /\ yielded_proc \in Procs \union {NULL}
  /\ machine = "running" => act_proc \in Procs
  /\ procs_count \in Int /\ sb_procs \in Int
  /\ ready_q \in [Prios -> Seq(Procs)]
  /\ pcb_free \subseteq Procs
  /\ p_parent \in [Procs -> Procs \union {NULL}]
  /\ p_prio \in [Procs -> Prios]
  /\ p_support \subseteq Procs
  /\ p_semAdd \in [Procs -> Sems \union {NULL}]
  /\ a0 \in [Procs -> {"PASSEREN", "VERHOGEN", "DOIO", "CLOCKWAIT", NULL}]
  /\ v0 \in [Procs -> Devs \union {NULL}]
  /\ s_procq \in [Sems -> Seq(Procs)]
  /\ sem \in [Sems -> {0, 1}]
  /\ busy \subseteq Devs

Running == IF machine = "running" THEN {act_proc} ELSE {}
Ready == Elems(ready_q["high"]) \union Elems(ready_q["low"])

(* A process is in one place.  The running one is on no queue, a ready one *)
(* is once on the queue of its priority, a blocked one once on the queue   *)
(* of the semaphore its p_semAdd names, and what is on a queue is alive.   *)
OnePlace ==
  /\ Running \intersect Ready = {}
  /\ Running \intersect Blocked = {}
  /\ Ready \intersect Blocked = {}
  /\ Running \union Ready \union Blocked \subseteq Alive
  /\ \A r \in Prios : Distinct(ready_q[r]) /\ \A p \in Elems(ready_q[r]) : p_prio[p] = r
  /\ \A s \in Sems : Distinct(s_procq[s])
  /\ \A s \in Sems, p \in Procs : p \in Elems(s_procq[s]) <=> p_semAdd[p] = s

(* The inductive invariant of the proofs in NucleusProofs: what else holds *)
(* between two exceptions, whatever Uses the programs make.                *)
Resting ==
  /\ machine # "panic"
  /\ machine \in {"running", "waiting"} => yielded_proc = NULL
  /\ machine = "waiting" => act_proc = NULL
  /\ \A p \in pcb_free : p_parent[p] = NULL /\ v0[p] = NULL
  /\ \A d \in busy : sem[d] = 0

(* Nobody is lost: a process that is alive runs, is ready or is blocked.   *)
NoneLost == Alive \subseteq Running \union Ready \union Blocked

(* procs_count and sb_procs, on which scheduler_next decides between HALT, *)
(* WAIT and PANIC, count the living and the blocked processes.             *)
CountsExact ==
  /\ procs_count = Cardinality(Alive)
  /\ sb_procs = Cardinality(Blocked)

(* None of the kernel's PANICs is reached: not that of scheduler_next, of  *)
(* a system call made by a dead or blocked process, of a semaphore that    *)
(* gets no descriptor, of kill_proc missing a process on its semaphore.    *)
NeverPanics == machine \notin {"panic", "deadlock"}

(* The processor sits in WAIT only while no process is ready.              *)
WaitsOnlyWhenNoneReady == machine = "waiting" => Ready = {}

(* The waiters of a semaphore all wait for the same: at 0 they are blocked *)
(* in a P (or DOIO, or CLOCKWAIT), at 1 in a V.  No unit lies idle beside  *)
(* a process that waits for one.                                           *)
WaitersMatchValue ==
  \A p \in Blocked : (a0[p] = "VERHOGEN") <=> (sem[p_semAdd[p]] = 1)

(* The tree of processes has one root while anybody is alive, and parents  *)
(* are alive: TERMPROCESS leaves no orphans, and when the first process    *)
(* dies the system halts.                                                  *)
OneTree ==
  /\ \A p \in Alive : p_parent[p] \in Alive \union {NULL}
  /\ Alive # {} => \E root \in Alive : p_parent[root] = NULL /\ Progeny(root) = Alive
  /\ machine = "halted" <=> Alive = {}

(* Between two exceptions the device semaphores and the pseudo-clock are 0 *)
(* and a process waits for a device only while an interrupt is to come:    *)
(* no wake-up is lost and none is remembered.                              *)
WakeUpsPending ==
  /\ \A s \in Devs \union {Clock} : sem[s] = 0
  /\ \A d \in Devs : s_procq[d] # <<>> => d \in busy

(* A device's status is put in the v0 of a process that waited for that    *)
(* device and of nobody else, and a DOIO is not answered without it.       *)
StatusToItsWaiter ==
  [][\A p \in Procs :
       /\ v0'[p] # v0[p] /\ v0'[p] # NULL => p_semAdd[p] = v0'[p]
       /\ p_semAdd[p] \in Devs /\ p_semAdd'[p] # p_semAdd[p] /\ p \notin pcb_free'
            => p_semAdd'[p] = NULL /\ v0'[p] = p_semAdd[p]]_vars

(* A pseudo-clock tick wakes all that wait for it, never a part of them.   *)
TickWakesAll ==
  [][(\E p \in Procs : p_semAdd[p] = Clock /\ p_semAdd'[p] # Clock /\ p \notin pcb_free')
       => s_procq'[Clock] = <<>>]_vars

(* First come, first served on every semaphore and within a priority:      *)
(* nobody gets ahead of a process that is on a queue, and nobody leaves a  *)
(* queue past one that was ahead and stays, unless it is killed.           *)
Ahead(q, x, y) == \E i, j \in DOMAIN q : i < j /\ q[i] = x /\ q[j] = y
KeepsOrder(q, q1) ==
  \A x \in Elems(q) :
    /\ x \in Elems(q1) => \A y \in Procs : Ahead(q1, y, x) => Ahead(q, y, x)
    /\ x \notin Elems(q1) \union pcb_free' => \A y \in Elems(q1) : ~Ahead(q, y, x)
NoOvertaking ==
  [][/\ \A s \in Sems : KeepsOrder(s_procq[s], s_procq'[s])
     /\ \A r \in Prios : KeepsOrder(ready_q[r], ready_q'[r])]_vars

(* A process blocked on the pseudo-clock, or on a device, gets out.        *)
ClockWakes == \A p \in Procs : p_semAdd[p] = Clock ~> p_semAdd[p] # Clock
DeviceAnswers == \A p \in Procs, d \in Devs : p_semAdd[p] = d ~> p_semAdd[p] # d

=============================================================================
