----------------------------- MODULE PagerTurns -----------------------------
(***************************************************************************)
(* The pager and the scheduler together: each step of module Pager is made *)
(* by the process that runs, and ends as the nucleus ends the system calls *)
(* in it (module TimeSlices).                                              *)
(*                                                                         *)
(* A system call that does not block sends the caller to the end of the    *)
(* ready queue (P, V) or back to where it was with a new time slice        *)
(* (GETSUPPORTPTR); a step with several of them ends as the last one does. *)
(***************************************************************************)
EXTENDS Pager, TimeSlices

all == <<vars, turn>>

(* The instantiator has created the processes and is blocked for ever.     *)
InitTurns ==
  /\ Init
  /\ \E q \in [1..Cardinality(Asids) -> Asids] :
       Distinct(q) /\ act_proc = Head(q) /\ l_queue = Tail(q)
  /\ timer = TIMESLICE

(* The program goes on by itself, and so does the support level between    *)
(* its system calls.                                                       *)
program_step(pg) ==
  /\ Runs(Owner(pg))
  /\ uTLB_RefillHandler(pg) \/ store(pg)
  /\ UNCHANGED turn
handler_step(a) ==
  /\ Runs(a)
  /\ choose(a) \/ invalidate(a) \/ fill_frame(a) \/ load_sp_asids(a) \/ clean_frames(a)
  /\ UNCHANGED turn

(* P(sp_sem) of tlb_exc_handler.                                           *)
fault(pg) ==
  /\ Runs(Owner(pg))
  /\ page_fault(pg)
  /\ resume(IF sp_sem = 0 THEN "NOTHING" ELSE "RENQUEUE", l_queue)

(* P on the mutex of the flash, for which nobody else asks, and DOIO: it   *)
(* leaves the caller blocked on the semaphore of the flash.                *)
transfer(a) ==
  /\ Runs(a)
  /\ flash_start(a)
  /\ resume("NOTHING", l_queue)

(* The flash answers: verhogen makes its process ready.                    *)
asleep(a) ==
  pc[a] \in {"writing", "reading"} /\ act_proc # a /\ a \notin Elems(l_queue)
flash_interrupt(a) ==
  /\ asleep(a) /\ (act_proc # Nobody => timer > 0)
  /\ resume("CONTINUE", Append(l_queue, a))
  /\ UNCHANGED vars

(* V on the mutex of the flash, for which nobody waits.                    *)
transferred(a) ==
  /\ Runs(a)
  /\ written(a) \/ read(a)
  /\ resume("RENQUEUE", l_queue)

(* V(sp_sem): the first waiter is made ready, then the caller.             *)
woken == IF empty_proc_q(sp_queue) THEN <<>> ELSE <<head_proc_q(sp_queue)>>
leave_pool(a) ==
  /\ Runs(a)
  /\ release(a)
  /\ resume("RENQUEUE", l_queue \o woken)

(* SYS1 and SYS2 get as far as the GETSUPPORTPTR of support_exec_handler;  *)
(* SYS1 returns to the program.                                            *)
get_TOD(a) ==
  /\ Runs(a) /\ executes(a)
  /\ resume("CONTINUE", l_queue)
  /\ UNCHANGED vars
begin_end(a) ==
  /\ Runs(a)
  /\ terminate(a)
  /\ resume("CONTINUE", l_queue)

end(a) ==
  /\ Runs(a)
  /\ TERMPROCESS(a)
  /\ resume("NOTHING", l_queue)

-----------------------------------------------------------------------------
support_step(a) ==
  handler_step(a) \/ transfer(a) \/ transferred(a) \/ leave_pool(a)

local_timer == (tick \/ PLT) /\ UNCHANGED vars

NextTurns ==
  \/ \E pg \in Pages : program_step(pg) \/ fault(pg)
  \/ \E a \in Asids : \/ support_step(a) \/ flash_interrupt(a)
                      \/ get_TOD(a) \/ begin_end(a) \/ end(a)
  \/ local_timer

(* Time passes, and a time slice is longer than a step of the support      *)
(* level: a process that is dispatched again and again is not preempted    *)
(* before the same step every time.  A flash that was given a command      *)
(* answers, and its interrupt stays pending until it is taken.  That a     *)
(* process is dispatched again is not assumed, it is what is checked.      *)
FairTurns ==
  /\ InitTurns /\ [][NextTurns]_all
  /\ WF_all(local_timer)
  /\ \A a \in Asids : SF_all(support_step(a) \/ flash_interrupt(a))

-----------------------------------------------------------------------------
(* A program that runs uses its slice up, faults, or ends.  load_proc sets *)
(* the timer again after every GETSUPPORTPTR (scheduler.c:192), so that a  *)
(* program that calls SYS1 over and over is never preempted.               *)
UsesUpItsSlice(a) == []<>~(Runs(a) /\ pc[a] = "user")

(* A read that fails takes its process out of tlb_exc_handler with the     *)
(* swap pool in its hands (pager.c:169).                                   *)
NoReadFails == [](\A a \in Asids : pc[a] # "lost")

(* A page fault is served, and its process runs its program again, if no   *)
(* program keeps the processor for itself in that way and no read fails:   *)
(* through the waiting for sp_sem, two transfers, the preemptions between  *)
(* them, failed writes, the deaths of others, and the turns of whoever is  *)
(* ready (pager.c:122-196).                                                *)
FaultServed ==
  NoReadFails /\ (\A a \in Asids : UsesUpItsSlice(a)) =>
    \A a \in Asids : a \in Inside \/ pc[a] = "blocked" ~> pc[a] = "user" /\ Runs(a)
=============================================================================
