# A TLA+ model of the ROCM kernel

This directory holds the specification of the kernel in `src/` (a PandOS+
nucleus and support level for the uMPS3 machine): TLA+ modules translated from
the C code, TLC configurations that check them on small instances, and proofs
that TLAPS checks for every instance. The code is the reference throughout;
where a document says something else, it is recorded as a finding.

Run a check with `tlc -config <run>.cfg <module>` and the proofs with
`tlapm <module>.tla`, for each module that section 5 names. `PROJECT.json` names each run, its module and its
properties, and the source lines behind every definition.

## 1. The system

The machine has one processor. A user or kernel program runs until an exception
(system call, trap, TLB event or interrupt); the exception handler runs with
interrupts off, on its own stack, and ends by loading a process, waiting for an
interrupt (WAIT), halting (HALT) or stopping (PANIC). Nothing in the nucleus is
interrupted half way. At the support level, which runs as ordinary code of a
process with interrupts on, everything can be.

| component | state | operations | talks to |
|---|---|---|---|
| `kernel.c` | none of its own (saved state at BIOSDATAPAGE) | `main`, `exception_handler`, `uTLB_RefillHandler` | every handler below, then `scheduler_next` |
| `scheduler.c` | `h_queue`, `l_queue`, `act_proc`, `procs_count`, `sb_procs` | `scheduler_next`, `load_proc`, `mk_proc`, `kill_proc`, `enqueue_proc`, `dequeue_proc` | pcb queues and tree, asl, `yielded_proc` |
| `syscalls.c` | `yielded_proc`, values of semaphores (in the programs' memory) | NSYS1..NSYS10, `passup_or_die` | scheduler, asl, device registers |
| `interrupts.c` | `sem_it`, one semaphore per device (two per terminal) | `handle_interrupts` | `verhogen`, `v0` of the woken process |
| `pcb.c` | the pcb table, its free list, queues and the process tree | alloc/free, queue and tree operations | listx |
| `asl.c` | descriptors with a queue each, free and active lists | `insert_blocked`, `remove_blocked`, `out_blocked`, `head_blocked` | pcb queues |
| `listx.h` | circular doubly linked lists | add, add_tail, del, empty, iteration | |
| `support.c` | `dev_sems`, `master_sem` | P and V on them, the general support handler | nucleus, by system calls |
| `sys_support.c` | none | SYS1..SYS5: TOD, terminate, printer, terminal | DOIO, device mutexes, pager |
| `pager.c` | `sp_tbl`, `sp_sem`, `sp_asids`, private page tables | `tlb_exc_handler`, `clean_frames` | flash devices, TLB |
| `init_proc.c` | support structures of the user processes | `instantiator_proc` | NSYS1, NSYS2, `master_sem` |
| `klog.c`, `utils.c` | a ring of log lines | `log`, `memcpy`, formatting | |

What is hard to test here: TERMPROCESS removes a whole subtree from wherever its
members are (running, ready, on any semaphore); interrupts arrive in WAIT, when
no process is current; a device answers after its caller is gone; two counters, changed in
five places, decide between halting, waiting and stopping; V hands its unit to a
waiter instead of raising the value; at the support level two processes
interleave inside the pager, and each runs only in the turns that the scheduler gives it. The full list, with lines, is under `hazards` in
`PROJECT.json`.

What makes each component correct:

- scheduler and calls: a process is in exactly one place; none is lost; the
  counters are exact; no internal PANIC is reached; the processor waits only
  when nobody is ready; a deadlock is reported only when there is one;
- semaphores: binary values, no unit idle beside a waiter, first come first
  served, descriptors never exhausted;
- interrupts: a tick wakes everyone, a device's status reaches the process that
  asked for it and no other, every wait for a device or for the clock ends;
- process tree: one root, no orphans, a kill takes exactly the progeny;
- asl: it implements one queue per semaphore with a bounded table;
- pager: mutual exclusion on the swap pool; page tables, pool table and TLB
  agree; no program reaches a frame that is being moved; every fault is served;
  stores are never lost, nor saved on another process's flash; frames of dead
  processes are reused and those of the living are not;
- pcb lists: whatever is created, blocked and killed, the nodes stay threaded,
  each pcb is on one list, and the children of a process are those whose parent
  it is;
- support level: a device is locked exactly during the call that uses it; an
  answer finds the process that waits for it; what is printed or read is what was
  asked for, errors are told apart from it, and every call returns.

## 2. Modules

| module | models | extends |
|---|---|---|
| `ProcQueue` | process queues of `pcb.c` as sequences | standard modules |
| `ProcQueueProofs` | lemmas about them, and about least and greatest numbers of a set | `ProcQueue` |
| `Nucleus` | `kernel.c`, `scheduler.c`, `syscalls.c`, `interrupts.c` | `ProcQueue` |
| `NucleusProofs` | the inductive invariant, and what each handler does | `Nucleus`, `ProcQueueProofs` |
| `ProcessLife` | the promise of `syscalls.h`: processes that run, wait and die | `ProcQueue` |
| `NucleusLife` | how `Nucleus` implements it | `Nucleus` |
| `NucleusLifeProofs` | theorems about semaphores, tree, devices and scheduler, each with the Uses it admits, the refinement and the order of the queues | `NucleusLife`, `NucleusProofs` |
| `MCNucleus` | instances for TLC | `NucleusLife` |
| `Asl` | `asl.c`, descriptor by descriptor | `ProcQueue` |
| `SemQueues` | the promise of `asl.h`: a queue per semaphore | `ProcQueue` |
| `AslProofs` | proofs about it, and of the refinement | `Asl`, `ProcQueueProofs` |
| `MCAsl` | an instance for TLC | `Asl` |
| `Listx` | `listx.h`, pointer by pointer | standard modules |
| `ListxProofs` | lemmas: what `list_add`, `list_del` and the rest do to rings of any length | `Listx`, instance of `ProcQueueProofs` |
| `PcbLists` | `pcb.c`, and its callers in `scheduler.c`, `asl.c`, `syscalls.c` | `Listx` |
| `PcbPromise` | the promise of `pcb.h`: sequences, a set and a parent function | `ProcQueue` |
| `PcbListsProofs` | the inductive invariant, the theorems about it, the refinement | `PcbLists`, `ListxProofs` |
| `MCPcbLists` | an instance for TLC | `PcbLists` |
| `Pager` | `pager.c`, SYS2, `uTLB_RefillHandler` | `ProcQueue` |
| `PagerProofs` | proofs about it | `Pager`, `ProcQueueProofs` |
| `MCPager` | instances for TLC | `Pager` |
| `SupportIO` | SYS3..SYS5 of `sys_support.c`, device mutexes, `init_proc.c`, device interrupts | standard modules |
| `SupportProofs` | proofs about it | `SupportIO`, instance of `ProcQueueProofs` |
| `MCSupportIO` | instances for TLC | `SupportIO` |
| `TimeSlices` | who runs and how long: `load_proc`, `scheduler_next`, the end of `exception_handler`, the local timer | standard modules |
| `PagerTurns` | the pager under the scheduler | `Pager`, `TimeSlices` |
| `MCPagerTurns` | instances for TLC | `PagerTurns` |
| `SupportTurns` | input and output, SYS1 and the instantiator under the scheduler | `SupportIO`, `TimeSlices` |
| `MCSupportTurns` | instances for TLC | `SupportTurns` |

Three abstract specifications stand above the detailed ones: `SemQueues` over `Asl`,
`PcbPromise` over `PcbLists`, `ProcessLife` over `Nucleus`. The modules meet in what
they take from each other: `Nucleus` uses the queues as `PcbPromise` and
`SemQueues` have them, `Pager` and `SupportIO` use P, V and DOIO as `ProcessLife`
has them. `Pager` and `SupportIO` let any process make the next step, which is all that safety needs;
`PagerTurns` and `SupportTurns` put the same actions under `TimeSlices`, because liveness depends on
who gets a turn.

**ProcQueue.** A `struct list_head` of pcbs is the sequence of its pcbs.
`Keep(q, S)` is what `out_proc_q`, called for every pcb outside `S`, leaves. It is
defined by ranks rather than by recursion so that it can be reasoned about;
`MCNucleus` compares it with `SelectSeq` on all short sequences.

**Nucleus.** One action is one exception, from the trap to the next LDST, WAIT,
HALT or PANIC, because interrupts are off in between. The handler computes the
new semaphores and counters and leaves the ready queues as an argument `rq`, and
the tail of `exception_handler` (`resume`) and `scheduler_next` follow in the same
step, as in the code, where the handlers return an `eh_act`. Two paths of the
code that are easy to overlook are kept: `create_process` answers `-1`, which is
none of the three actions, and `do_io` ignores what `passeren` answers. A PANIC
of the code is a stop with its own value of `machine`, never a disabled action.

Correspondence: `ready_q` is `h_queue` and `l_queue`, `pcb_free` the free list as
a set (`alloc_pcb` answers any of its members, so no property depends on its
order), `p_parent` the tree, `s_procq` the queues of the descriptors, `sem` the values
of the semaphores, `busy` the devices with a command outstanding. `a0` keeps the call
that blocked a process (the register `a0` of its saved state). `v0` keeps which device's status was
put in the saved `v0` of a process since its last system call.

Left out: register contents other than these, clock values and so the length
of a time slice (a slice may end at any moment), addresses, and what `SupportIO`
has instead: the choice of a device within an interrupt line, the order of the
lines, and error statuses.

Assumed of the programs: they keep semaphores at 0 or 1 (handle_syscall stops the machine
otherwise), do P and V only on their own semaphores, start an operation only on a
device nobody waits for (at the support level, `p_on_dev` sees to it), and pass TERMPROCESS 0 or the
pid of a living process.
Three legal but awkward uses are switched by the constant `Uses`, so that each can
be looked at alone: `createFull`, `loneYield`, `killIO`.

**ProcessLife.** What a program sees of the nucleus: a process runs (may make the next
call), waits on one semaphore, or does not exist; there is no ready queue, no
counter, no pcb and no dispatcher. `NucleusLife` maps `Nucleus` to it: running, ready
and yielded are all "runs", and a process that is alive and in no place from which
`scheduler_next` takes it is "lost", which no operation of `ProcessLife` allows. Creation
that succeeds, P, V, DOIO, CLOCKWAIT, a kill of a subtree, a tick and an answer are one
step each; dispatching, time slices, YIELD, WAIT and the calls that only answer a value are
stutters.

**Listx, PcbLists.** A memory is a record of two functions, `next` and `prev`, on list
nodes; each function of `listx.h` is an operator from memory to memory with the assignments in the
source's order. A pcb is its three nodes. Nothing is reset that the code does not reset:
`list_del` leaves the node's own pointers, `free_pcb` puts a pcb back without touching
`p_child` and `p_sib`, `remove_child` leaves `p_sib`. `init_pcbs` is its loop over the table, which may have
any order, on a memory that is zero but for the heads. The recursion of
`kill_parent_and_progeny` is `killing`, the calls in progress from the outside in, with one
`remove_child` or one `kill_proc` a step, so that the invariants also hold in the middle of a kill.
The mapping to `PcbPromise` reads the lists off by `list_for_each`; while a kill is
under way the parent of a process that `remove_child` has taken out is the caller one
level further out, and the processes that still must die are those below any call in
progress. The two ready queues are one here, and a semaphore is its queue (`Asl` has the descriptors).
TERMPROCESS gets the pid of a living process.

**SupportIO.** Process `a` owns printer `a` and terminal `a`, as `asid - 1` selects them. `pc[a]` goes
through `user`, `loop` (the head of a loop), `blocked` (in DOIO), `woken`, `leave`
(before the V of the mutex) and `return` (before the LDST). A process makes a step only when no
interrupt is pending, because its interrupts are on; the lines are taken in
the order of `CAUSE_IP`, printers before terminals, and within a line the highest device of
the bitmap. A device answers a command by a status, a character and a request; the
acknowledgement sets the register to READY and withdraws the request, unless the code does not get that far:
after an error status of a terminal neither branch is taken and the request stays.
A character is a model value, a string is a sequence, `EOS` its end. `done` is what the device
itself has printed or what was typed, so that the properties compare the
call with the device and not with its own counter. Every `status` is what the register holds when it
is read, which is how finding 5 shows. `instantiator_proc` creates the processes one at a time while
the earlier ones already run; it then waits on `master_sem` for ever. A call is bad if its address is below
KUSEG (`ok`), for SYS3 to SYS5, or its length is negative or too long, for SYS3 and SYS4.

Assumed of the programs: strings are long enough or end, and lie in mapped memory (a page fault
inside the support level is `Pager`'s).

**Asl.** `semd_table` with the free and the active list as sequences of
indices, the order of insertion included (`remove_blocked` gives a descriptor back at
the head, `out_blocked` at the tail). `Asl` implements `SemQueues`, which has no
descriptors at all; the refinement mapping reads the queue of the active
descriptor with the key, or the empty queue. `Nucleus` uses the queues as
`SemQueues` has them and counts the descriptors in use (`no_free_semd`).

**Pager.** The pager runs with interrupts on, so its steps interleave with those
of other processes. `pc[a]` is where process `a` is between two steps, `job[a]` and
`tmp[a]` its locals. A step ends where another process could tell: at each
system call, at the end of a section between two `toggle_int`, at each access to
`sp_asids`. `sp_asids ^= ...` in `clean_frames` is a load and a store (interrupts
are on there), `sp_asids |= ...` in `fill_frame` is inside a section with
interrupts off.

Correspondence: `sp_tbl[f]` is the page of frame `f` (`asid` and `pg_tbl_entry`), None
for `asid = -1`; `sp_asids` the set of the bits that are 1; `pte[pg]` the frame of
a valid entry and None for one that is not (after `ENTRYLO_VALID` is cleared the frame
number is read once more, by `free_frame` for the frame in `job[a]`); `tlb[s]` the
entry that slot `s` of the hardware holds. `uTLB_RefillHandler` writes over any slot (TLBWR); `update_tlb`
writes the slot that its probe found, and slot 0 if it found none (section 4, B). Contents are
abstracted to which page a copy is of and whether it has that page's last stores. P and V
on `sp_sem` are those of `Nucleus` (a V hands the unit to the first waiter), and
`dev_sems[FLASH_SEMS]` is taken when it is 1; only the process with that asid
ever asks for it. Awkward events are switched by `Uses`: `terminate` (SYS2),
`trap` (safe_kill), `readError` and `writeError`. After a failed read the handler
returns to an address nobody has set: the model leaves the process at "lost".

Assumed of the programs: they start by executing, hence with a page fault, and touch only
pages of their own page table (`Touched`).

**TimeSlices, PagerTurns, SupportTurns.** `act_proc` and `l_queue` are those of the user processes, which all have low
priority; `timer` counts `TIMESLICE` down while a process runs. `resume(eh, queue)` is the end of
`exception_handler`: CONTINUE loads the same process, with a whole time slice (`scheduler.c:192`), RENQUEUE puts it
behind the others, NOTHING leaves it where the handler has put it. An exception takes the processor away only in the way its
handler answers: a P that does not block and a V answer RENQUEUE (`syscalls.c:147`, `224`), a DOIO NOTHING, GETSUPPORTPTR, CREATEPROCESS and
every device interrupt CONTINUE. A step of `Pager` or `SupportIO` that contains several system calls ends as the last of them: the P of `p_on_dev`,
which never blocks, is part of the step that ends with DOIO. `get_TOD` is SYS1, or the beginning of any call, whose
GETSUPPORTPTR is answered with CONTINUE. The interrupt of the timer is on line 1 and taken before those of the devices. A process that
V, or an interrupt, makes ready goes to the end of the queue; when the queue is empty the processor waits, `act_proc = Nobody`.
The state saved in `support_t` is loaded by LDST in the running process and is no turn.

In `PagerTurns` the flash answers by `flash_interrupt`, which makes its process ready; what it has read or written is done in that process's next step
(`transferred`), since nothing depends on when the device moved it. In `SupportTurns` the instantiator is process 0, and a terminal that has failed interrupts over and
over (`failed_interrupt`).

## 3. Runs

| run | instance | shows |
|---|---|---|
| `any_use` | 3 processes, 2 user semaphores, 1 device, all Uses, fairness, no symmetry | `TypeOK`, `OnePlace`, `CountsExact`, `Resting`, `WaitersMatchValue`, `ClockWakes`, `DeviceAnswers`: whatever the programs do, the tables are consistent, and nobody waits for the clock or a device for ever |
| `good_use` | 4 processes, 1 semaphore, 1 device, no awkward Use | `NoneLost`, `NeverPanics`, `WaitsOnlyWhenNoneReady`, `OneTree`, `WakeUpsPending`, `StatusToItsWaiter`, `TickWakesAll`, `NoOvertaking`, the refinement `KeepsPromise` of `ProcessLife` |
| `asl` | 3 processes, 3 descriptors, 4 semaphores | `DescriptorsKept`, `QueuesMatchSemAdd`, `NeverRefuses`, the refinement `KeepsPromise` of `SemQueues` |
| `pcb_lists` | 4 pcbs, 1 semaphore | `Threaded`, `OneList`, `TreeMatchesLists`, the refinement `KeepsPromise` of `PcbPromise` |
| `create_full` | `createFull` only | violates `NoneLost` (finding) |
| `kill_io` | `killIO` only | violates `StatusToItsWaiter` (finding) |
| `pager` | 2 processes, 3 pages, 2 frames, a TLB of 2; SYS2, traps, failed reads and writes | `PoolExclusive`, `TlbCoherent`, `FrameBelongsToPage`, `QuietWhileMoved`, `BitMeansAlive`, `StoresSurvive` |
| `pager_wrong_flash` | 2 processes, no Use | violates `SavedWhereItBelongs` (finding) |
| `pager_lost_bit` | 2 processes, `terminate` only | violates `NoBitNoFrame` (finding) |
| `pager_turns` | 3 processes with a page each, 1 frame, a TLB of 1, time slices of 2; SYS2, traps, failed reads and writes | `FaultServed` |
| `printer_status` | 1 process, a printer that fails | violates `ErrorReported` (finding) |
| `support_turns` | 2 processes, 3 strings, lengths -1 to 3 with MAXLEN 2, lines of 2, time slices of 2; every device may fail | `WritesWhatWasAsked`, `ReadsTheLine`, `LockedInside`, `AnswerPending`, `CallsReturn` |

Bounds. Two bounds are not sizes of sets: `MaxLine` of `SupportIO`, the longest line
that anybody types, and `TIMESLICE`, the units of time in a slice; the state spaces are explored completely. Three processes are a running
one, a waiter and one more that kills or overtakes; a fourth gives a tree with a
chain of three below the root, a queue whose middle is killed, and a kill that
empties several queues at once. One user semaphore shows P, V and blocked V with all orders
of waiters; two are used where descriptors are counted. A transmitter and a
receiver of a terminal behave as two devices. Created processes are of two kinds,
high priority without and low priority with a support structure: the handlers
read the two attributes separately. In `Asl`, one semaphore more than descriptors
makes exhaustion possible in principle. Symmetry (processes, keys, pages) is used for
safety only.

In `PcbLists` four pcbs give a chain of three below the first process, two brothers and a nephew, queues of three
and a free list that is emptied; one semaphore is enough for a queue that is not the
ready queue.

In `Pager`, two frames for three pages force evictions, of one's own pages and of
the other's; a TLB of two entries holds stale entries of both processes if the code leaves
any. All four awkward events happen in the one run `pager`, and each property names what it must leave out,
because of the findings, and no more: `FrameBelongsToPage`, `QuietWhileMoved` and
`BitMeansAlive` speak of behaviours in which no `clean_frames` is preempted between its load and
its store (`BitsFresh`, finding 4), and `StoresSurvive` speaks of the steps
taken while pool and page tables agree and no moved frame is reached; it names the two that lose stores,
and the pages they lose: a frame of another process saved on one's own flash (finding 3: the page that is not saved
and the page whose block is overwritten) and a failed write. `pager` has no symmetry, since it checks temporal formulas and its two processes have different pages.
`BitMeansAlive` is about the processes that call SYS2: one that a trap ends keeps its bit (section 4).

In `PagerTurns`, three processes and one frame make each fault take the page of another, two wait for `sp_sem` at once, and the
processor is contended while the third transfers; one TLB entry is replaced at every step of another program. A time slice of 2 can end before,
between and after two steps. `VIEW Control` leaves out what the pages hold (`ram`, `flash`): no guard of the pager or of the scheduler reads it, every
fair action changes something else too, and `FaultServed` does not speak of it, so that two states that differ in it only have the same futures.
Where stores end up is the subject of the run `pager`.

In `SupportTurns`, two processes are two devices on every line and two halves of two terminals that ask
at once; a call of one process, of each kind, meets a call, a SYS1 or the end of the other. Three strings end before the length, go on behind it, or end at once; the lengths cover
negative, 0, each position in a string, and too long; lines of 2 give a character that is not the last. A device may fail at every character. The safety properties
of `SupportIO` are checked in this run, under the scheduler; the theorems prove them for `SupportIO` by itself, in which any process may step at any moment.

HALT, and PANIC where a Use reaches it, end a behaviour, so the runs of Nucleus do not check for
deadlock: that the machine stops only in those ways is what
`NeverPanics` and `OneTree` (`machine = "halted"` exactly when nobody is alive) say. A program
need not make a call, processes may all be dead, and a terminal that fails stops everybody, so the
other modules stop too; only `Asl` can always take a step and is checked for deadlock.

Fairness. `interval_timer` is weakly fair because the interval timer is
reloaded at every tick (`LDIT` in `handle_interrupts`) and interrupts are enabled
in processes and in WAIT. `device_interrupt` is weakly fair: a device that
was given a command answers. No program is assumed to make any call, to stop
running or to release a semaphore, and no fairness among processes is assumed:
the liveness properties say that a process leaves the semaphore, not that it is
scheduled. Indeed low priority processes may starve.
`Pager` and `SupportIO` assume no fairness at all: their runs check safety. In `PagerTurns` and `SupportTurns` (`FairTurns`) it is *not* assumed that a
process that is ready gets a turn: that is what `TimeSlices` models. Assumed is that time passes (`local_timer` is weakly fair); that a
device which has a command answers and the processor takes the interrupt in the end (in `PagerTurns` one action, its strong fairness joined with
that of its process's next steps, which it enables); that the instantiator gets on with its list; and that a time slice is longer than one step of the support
level: a process that is dispatched again and again is not preempted, nor interrupted, before the same step every time (strong fairness of its steps,
whose guard contains `Runs(a)`). That last point stands for the real length of `TIMESLICE` against a few instructions, which a timer of small
integers cannot have.

The programs are not assumed to make any call, but the properties have to exclude one kind of program, by an antecedent that says so:
`UsesUpItsSlice(a)`, infinitely often `a` does not run its program. A program that calls SYS1 in a loop violates it for ever: each
GETSUPPORTPTR is answered with CONTINUE, `load_proc` sets the timer again, and nobody else is dispatched any more. Without
the antecedent TLC finds that behaviour at once in either module. It is a weak condition: a program that computes, faults, ends, or calls SYS3 to SYS5, even with length
0, meets it, because the timer runs out or the P of the device answers RENQUEUE. `FaultServed` excludes also a failed read of the flash (`NoReadFails`), after which
`sp_sem` is never released, and `CallsReturn` a failed terminal (`NoTerminalFails`), which stops the processor (section 4, C).

## 4. Findings

Each has a run that shows it.

1. `create_process` with no free pcb (`syscalls.c:177`) returns -1 to the
   exception handler instead of storing it in `v0`; the caller is then on no
   queue and never runs again (`create_full`).
2. If the process that waits for a device is killed, the device's status is
   written in `v0` of the process that happens to run (`interrupts.c:157`), and
   the device semaphore keeps a unit, with which the next DOIO does not block
   and its caller is lost (`kill_io`).
3. A frame taken from another process is saved on the flash of the process that
   faults (`pager.c:159` passes its asid, where `free_frame` documents the owner's),
   over the block with the same page number (`pager_wrong_flash`).
4. `sp_asids ^= bit` of `clean_frames` (`pager.c:303`) is not atomic: preempted
   in the middle it undoes the bit that `fill_frame` has set for another process,
   whose frames are then filled again while its page table still maps them
   (`pager_lost_bit`).
5. `write_to_printer` reads the status of the printer again after DOIO has
   returned (`sys_support.c:128`); the interrupt handler has acknowledged the device by then
   (`interrupts.c:162`), so that -READY is returned for every error instead of the error
   (`printer_status`). `write_to_terminal` does the same (`sys_support.c:166`);
   `read_from_terminal` returns the status of the call.

Three more defects are in the model as the code has them, without a run of their own.

- A. A YIELD of the only process that can run, with nobody blocked, stops the machine as
  "DEADLOCK" (`scheduler.c:96`): the yielded process is not looked at. `NeverPanics` is violated by the Use
  `loneYield` for this reason. If somebody is blocked, the WAIT branch requeues it, but the processor then
  sits in WAIT until the next interrupt although a process is ready; `WaitsOnlyWhenNoneReady` is
  therefore checked and proved without this Use.
- B. `update_tlb` does not notice that its probe has failed (`pager.c:207`): `P_BIT` is 0x40000000, but the machine reports a
  failed TLBP in bit 31 of Index, the bit that `PRESENTFLAG` (`pandos_const.h:99`) names. Index then holds 0 as the slot, and TLBWI writes the
  entry over slot 0, where another page may have its own; `pager.c:114-117` says that only an entry found is updated. `TlbCoherent` shows that this harms
  no access: what is written is the entry of the page table, no page gets a second slot, and the page that has lost its slot is refilled.
- C. A terminal that answers with an error status stops the machine (`interrupts.c:110`): neither branch of the loop is taken, nobody is woken, the
  interrupt is not acknowledged and is taken again at once, for ever (`failed_interrupt` of `SupportTurns`). SYS4 and SYS5 therefore never return the error that
  `sys_support.c:59-60` and `71-72` promise. `CallsReturn` is violated for this reason when `NoTerminalFails` is left out.

Smaller disagreements, seen while reading. `sys_support.h` says that `safe_kill` releases a semaphore
on which the process is, and `README.md:120-121` that a trap ends a process by SYS2, telling the pager;
`support_trap_handler` calls `safe_kill` (`support.c:105`), which is a TERMPROCESS and nothing else (`trap` in `Pager`), so that the bit of a dead process stays 1 in `sp_asids`, against `pager.c:41-43`. The stacks in `init_proc.c:69-72`
are taken from `tp_supps[i]`, one element too far for the last process. `README.md` (section Problemi) says that
the master semaphore does not work and that its V is commented out: the instantiator
never ends.

`README.md:160-168` of the repository describes P and V with the two values
exchanged (P blocking at 1); code, comments and header agree on the usual
meaning, which is what the model has.

## 5. Proofs

Every theorem holds for any finite set of processes and any values of the other constants that meet the
assumptions of 5.7. The second column is the property of section 3 that the theorem states.

| module | theorem | property | on condition that |
|---|---|---|---|
| `NucleusProofs` | `TypeCorrect`, `EachInOnePlace`, `CountersExact`, `RestsWell` | `TypeOK`, `OnePlace`, `CountsExact`, `Resting` | |
| `NucleusLifeProofs` | `UnitsHandedOver` | `WaitersMatchValue` | |
| | `TicksWakeAll` | `TickWakesAll` | |
| | `NoOrphans` | `OneTree` | |
| | `NoWakeUpLost`, `StatusArrives` | `WakeUpsPending`, `StatusToItsWaiter` | `killIO` is not in `Uses` |
| | `WaitsForNobody` | `WaitsOnlyWhenNoneReady` | `loneYield` is not in `Uses` |
| | `NobodyLost`, `NoPanic` | `NoneLost`, `NeverPanics` | `Uses` is empty |
| | `FirstComeFirstServed` | `NoOvertaking` | |
| | `Refinement` | `KeepsPromise` (of `ProcessLife`) | `Uses` is empty |
| `AslProofs` | `TypeCorrect`, `NoDescriptorLost`, `SemAddRight`, `InsertSucceeds` | `TypeOK`, `DescriptorsKept`, `QueuesMatchSemAdd`, `NeverRefuses` | |
| | `Refinement` | `KeepsPromise` (of `SemQueues`) | |
| `PcbListsProofs` | `TypeCorrect`, `RingsThread`, `ListsAreDisjoint`, `TreesAgree` | `TypeOK`, `Threaded`, `OneList`, `TreeMatchesLists` | |
| | `Refinement` | `KeepsPromise` (of `PcbPromise`) | |
| | `Stands` | (the inductive invariant) | |
| `PagerProofs` | `TypeCorrect`, `OneInThePool`, `TlbAgrees` | `TypeOK`, `PoolExclusive`, `TlbCoherent` | |
| | `FramesBelong`, `QuietFrames`, `BitsOfTheLiving` | `FrameBelongsToPage`, `QuietWhileMoved`, `BitMeansAlive` | (`[]BitsFresh` is part of the properties) |
| | `StoresFound` | `StoresSurvive` | (`Agree` and `Quiet` before the step are part of the property) |
| `SupportProofs` | `TypeCorrect`, `LocksReleased`, `AnswersPending`, `WritesRight`, `ReadsRight` | `TypeOK`, `LockedInside`, `AnswerPending`, `WritesWhatWasAsked`, `ReadsTheLine` | |

The conditions are those under which the properties are true: findings 1, 2 and 4 and
defect A of section 4 are what happens without them, and the runs `create_full`, `kill_io` and `pager_lost_bit` show it.
The run `good_use`, which checks eight of these properties and the refinement, is their instance with an empty
`Uses`: for six of the eight the theorem says more than the run.

### 5.1 Nucleus

*The inductive invariant*, for all `Uses`, is
`IInv == TypeOK /\ OnePlace /\ CountsExact /\ Resting`. None of its conjuncts is inductive alone:
that the scheduler does not queue a process twice needs that the running one is on
no queue and that `yielded_proc` is NULL between exceptions (`Resting`); that
`verhogen`, called by an interrupt, does not block the process that happens to run
needs that the semaphore of a busy device is 0; that TERMPROCESS kills living
processes only, hence keeps the counters exact, needs that a free pcb has no
parent, so that the set of the living is closed under taking children
(`ProgenyLemma`); that PANIC of `passeren` is unreachable is a pigeonhole argument
(`DescriptorLemma`): a semaphore that owns a descriptor has a waiter, no process
waits twice, and the one that asks waits nowhere.

`ResumeLemma` says what the tail of `exception_handler` does with the set `S` of the
processes that can run (`After(S, y)`, with `y` the yielded one), and `SettleLemma` puts the invariant together
from that and from what the handler did. Each handler has a lemma that gives `IInv'` and an *effect*: the
running process `Blocks`, a handover `Wakes` the first waiter, a semaphore is `Sets`, a process
`Creates` or `Ends` (with `Kills` of its progeny), the clock `Ticks`, a device `Answers`, or the exception is `Quiet`. `Effect`
in `NucleusLifeProofs` is their disjunction, one line per call; all later proofs go by its cases and need not look at the
handlers again.

*Semaphores.* `SemInv` is `WaitersMatchValue` and that `sem_it` is 0 between exceptions: a process blocks in P only at 0 and
in V only at 1, and a value changes only while nobody waits.

*Devices*, without `killIO`. `DeviceInv`: the semaphore of a device is 0, and it has one waiter
while it is busy and none otherwise. A kill of a process that waits for a device breaks it, since the
interrupt still comes: its V then leaves a unit (finding 2).

*Scheduler*, with empty `Uses`. `Scheduled` is `NoneLost` and `NeverPanics`; its proof uses `IInv`, `SemInv` and `DeviceInv`.
Each of the three uses is excluded by the step at which it would fail: the caller of a failed CREATEPROCESS is not enqueued, the one
that yields alone is in `yielded_proc` when the machine stops, and a DOIO on a semaphore that holds a unit forgets its caller.

*Tree.* `Progeny` is defined as a least closed set, so facts about it need no induction: `TreeGrows`, `TreePruned` and
`NoCycle` (the parent of a process is not among its progeny) each exhibit one closed set. `TreeInv` names the root,
and that the machine halts when nobody is alive comes from the exact counters.

*Refinement*. When nobody is lost, `life_of` is a function of `pcb_free` and `p_semAdd` only
(`Mapped`); it holds before and after each step, and each effect is then one operation of `ProcessLife`. Only the kill needs
the tree: the set that dies with `q` is exactly `q` and the children of the dead, which is where `NoCycle` comes in.

*Order.* `OrderKept(q, q1, D)` is `KeepsOrder` with the dead as a parameter. It composes over the several operations that a handler makes on one
queue (`OrderCompose`: an enqueue of a woken process, a requeue of the caller, a dequeue by `scheduler_next`, a requeue of the yielded one), and
there is a lemma for adding behind, taking the first, unlinking the dead, and concatenating.

### 5.2 Asl

`IInv == TypeOK /\ DescriptorsKept /\ QueuesMatchSemAdd` is inductive. The two ways out of a queue share `ReleaseLemma`.
`NeverRefuses` follows by a pigeonhole argument: if all descriptors are active, the heads of their queues are
as many blocked processes as there are processes, and the one that calls is not among them. For the refinement, `QueuesRead` says that
the mapped queue of a semaphore holds exactly the processes whose `p_semAdd` it is; every call then changes
the mapped queue of one semaphore and answers as `SemQueues` does.

### 5.3 Linked lists and pcbs

Four layers, each of which forgets what the one below is about.

*Rings* (`ListxProofs`). `Threads` is read by numbers: position `i` of the ring of `h` is `At(h, s, i)`, with `h` itself at both ends
(`RingOf`). `Rings(L, A, Q)` says that the memory `L` threads the sequence `Q[h]` at every head `h` of `A`, no node being in two
rings. `RingsAdd` and `RingsDel` say what `__list_add` and `__list_del` make of such a memory: the same rings with one element more or less in one
of them. `list_add`, `list_add_tail`, `list_del` and `INIT_LIST_HEAD` are the cases of them. What `list_for_each` visits is a
recursive function of the memory, whose value no induction is available for: it has an explicit solution, the ring read until it
is back at its head, and the least step at which another solution could differ (`Smallest`) has no predecessor. So `list_for_each` visits
`s` if the memory threads `s`.

*Lists of pcbs.* `Holds(L, W, O, F, K)`: the rings of `L` are the lists `F[q]` of the free list and the queues, through `p_list`, the lists `K[x]`
of the children of the pcbs in `W`, through `p_sib`, and the `p_list` of the pcbs in `O`, linked to itself. Each function of `pcb.c` has one lemma
(`insert_proc_qHolds`, `alloc_pcbHolds`, ..) that says under which condition on `F`, `K`, `W` and `O` the memory after it holds which lists. The
conditions are what the callers must see to, since the functions check nothing: `insert_proc_q` needs a pcb that is on no list,
`insert_child` one that is no child, `alloc_pcb` one that nobody has for a parent.

*The inductive invariant* says that such lists exist: `IInv == \E F, K : Sound(...)`, where `Sound` is `Holds` for the living pcbs and the running one, and

- `Placed`: a pcb that is on no list is the one that runs;
- `Waits`: `p_semAdd` names the queue of a semaphore exactly for the pcbs on it. `kill_proc` relies on it to find the queue, and on
  `out_proc_q` doing nothing to a pcb that is not on the ready queue;
- `Family`: `p_parent` and the lists of children agree, and the free pcbs have neither. `free_pcb` leaves `p_child` as it is, and `alloc_pcb`
  resets it only later, so a freed pcb must have an empty list when it is freed;
- `Unwinds`: the calls of `kill_parent_and_progeny` in progress are for different living pcbs, and all but the first have been cut from
  their parents, so that `kill_proc` does not take `p_sib`, which is stale, out of a list;
- `Rooted`: no set of pcbs is closed upwards by parents and calls, that is, no pcb is above itself. Without it a child could be a pcb for which
  a call is in progress, and would be killed twice: the step `remove_child` is what fails.

TLC cannot evaluate `IInv`, whose lists are quantified; it checks its consequences `TypeOK`, `Threaded`, `OneList` and `TreeMatchesLists` on the
run `pcb_lists`. In `SoundNext` there is a lemma for each action that names the lists after it; the theorems read them off (`Seen`).
`kill_proc` is the long one: three lists lose the pcb or not, then the free list has it, and after the last call the process that ran is enqueued
if it is not on that list.

*Refinement.* In a state with lists `F`, `K` the mapped state is `FreeNow = On(F, "pcb_free")`, `ReadyNow = F["ready"]` and so on, and every
action of `PcbLists` is one of `PcbPromise`, but for `remove_child`, which is none: cutting a child off and calling for it leaves the mapped
parent (`ParentsCalled`) and the set of the dying (`DoomedCalled`) as they were. That set is a least closed set, and each lemma about it exhibits one
closed set. `LeftDrops` connects the ranks by which `PcbPromise` defines what is left of a queue with the place that is taken out.

### 5.4 Pager

The TLB has two lemmas: `Probed`, what a slot that TLBP finds is, and `WriteSlot`, that a write of the page table's own entry keeps the TLB coherent
if it goes to the slot of that page, or to any slot when the page has none. The second case is `uTLB_RefillHandler`, and `update_tlb` after a failed
probe. That no page has two slots is needed: `update_tlb` corrects one slot only.

`BInv == TypeOK /\ Mutex /\ Jobs /\ Filled /\ TlbCoherent` holds whatever traps, failures and preemptions there are: `Mutex` is
mutual exclusion without cardinalities, `Jobs` what the locals of a handler mean between two of its steps (the page is still missing, and
the chosen frame still occupied while it is saved), `Filled` that a page in the pool table is valid
there unless its frame is being moved.

`FInv == Agree /\ Quiet /\ Bits` needs `BitsFresh` besides. The bits carry the argument:
`free_frame` is called only for a frame whose owner has its bit, so a bit that is lost lets a frame be
filled while a page table maps it.

`StoresSurvive` had to be corrected because its proof failed: an earlier statement excused the loss of any page in a step that
loses one, and looked for the stores of a page that is being saved or was just read in places where, with three processes
or more, another handler could be at work. It now says where the stores are looked for (`Found`, by `Saving` and `Loading`) and which pages a
bad save costs (`BadSave`).

### 5.5 Support level

`IInv == TypeOK /\ Created /\ \A a \in Asids : Served(a)`. `Served(a)` is about one process: `Locked` and `Waiting` are the two
properties for `a`; `Answered` ties requests to registers; `Writing` and `Reading` say at each point of the
loops what has been printed or stored. A process changes nothing of another's, but an interrupt handler serves the
highest device of a line, which need not be the one that its caller waits for: `AnswerStep` shows that it puts in the `v0` of the
process it wakes what the register of that process's device held. Of a write that fails it is only proved
that the answer is negative: finding 5 is why the property does not say which error.

### 5.6 Lemmas

`ProcQueueProofs` has what `insert_proc_q`, `remove_proc_q`, `out_proc_q` and concatenation do to
elements, order and absence of repetitions. `RankBijection`, that ranks number a finite set of positions
without gaps, is the reason why `Keep` is what it should be. It also has that a set of numbers has a
least element (by well-foundedness), and a bounded one a greatest: `choose_frame` takes the first free frame, an interrupt handler the
highest device of the bitmap.

### 5.7 Assumptions

`ProcsAssumption` (finitely many pcbs, NULL is none of them), `SemsAssumption` (the three kinds of semaphores are different and none is
at NULL), `UsesAssumption` (`Uses` and `Kinds` have their types). `AslAssumption`: as many descriptors as processes at least, NULL is neither a process nor a
key. `PcbAssumption`: finitely many pcbs, at least one, finitely many semaphores, and NULL, the pcbs' nodes and the heads of the lists are
different addresses. `PagerAssumption`: at least one frame and one TLB entry, finitely many processes, None is no page and no frame. `SupportAssumption`: at least
one process, and every string ends or is as long as `MAXLEN`, so that a call stays inside it. `SliceAssumption`: a time slice is not 0; no theorem uses it.
TLC evaluates them on the runs of their modules.

### 5.8 Only model-checked

- Liveness: `ClockWakes`, `DeviceAnswers`, `FaultServed`, `CallsReturn`, hence `TimeSlices`, `PagerTurns` and `SupportTurns`.
- That `Keep` is `SelectSeq` (on all short sequences, in `MCNucleus`); the proofs use `Keep` by its properties only.

## 6. What is left

Every safety property of a passing run, and each of the three refinements, has a theorem. What remains is out of the prover's reach (5.8) or is not
modelled (7). If the model is carried on:

1. A composition of `PcbLists` with `Asl`, in which the queue of a semaphore is found through its descriptor; at present `OneList` and
   `QueuesMatchSemAdd` each take the other's half for granted.
2. `PagerTurns` and `SupportTurns` in one module, for a page fault in the middle of a call.

## 7. Not modelled

- `klog.c` and `utils.c`: the log is read by a debugger and nothing depends on it;
  number formatting serves the log only. (The support level logs with interrupts on, and `next_char` lets the index stand
  at the length of the line for a moment: a hazard of the log itself, listed in `PROJECT.json`.)
- `pandos_const.h`, `pandos_types.h`: declarations.
- The test programs (`test/`, `old_test/`): the models let programs make any call at any moment.
- Values of the clock: `p_time`, and in `Nucleus` the length of time slices, which may end at any moment there. The timer of the
  user processes is in `TimeSlices`; processes of high priority, which run without it, are in `Nucleus` only.
- Address arithmetic: `search_by_pid`, `do_io`'s search of the device register, the layout of page tables
  and of `support_t`. Arguments that are no address of the kind expected are not passed by any program of
  the repository.
- A deadlock of programs on their own semaphores: `sb_procs` counts them too, so the machine waits.
