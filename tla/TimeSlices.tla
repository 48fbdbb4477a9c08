----------------------------- MODULE TimeSlices -----------------------------
(***************************************************************************)
(* Who runs, and how long: the ready queue of the user processes and the   *)
(* local timer that ends a time slice, as load_proc, scheduler_next and    *)
(* the end of exception_handler leave them (scheduler.c, kernel.c).        *)
(*                                                                         *)
(* What a support level does is composed with this module in PagerTurns    *)
(* and SupportTurns, where the liveness of the support level is checked:   *)
(* the turns of a process are what the code gives it, not an assumption.   *)
(*                                                                         *)
(* All processes have low priority and some process is always blocked (the *)
(* instantiator on master_sem, or one on a device), so that the scheduler  *)
(* finds a process or waits; it never halts (module Nucleus).              *)
(***************************************************************************)
EXTENDS Naturals, Sequences

CONSTANTS
  TIMESLICE,  \* units of time in a slice
  Nobody      \* act_proc = NULL

ASSUME SliceAssumption == TIMESLICE \in Nat \ {0}

VARIABLES act_proc, l_queue, timer

turn == <<act_proc, l_queue, timer>>

(* A process makes its next step.  When its slice is over it makes none:   *)
(* the interrupt of the timer is taken before.                             *)
Runs(p) == act_proc = p /\ timer > 0

load_proc(p) == act_proc' = p /\ timer' = TIMESLICE

(* The head of l_queue is dispatched; if there is none, WAIT.              *)
scheduler_next(queue) ==
  \/ queue # <<>> /\ load_proc(Head(queue)) /\ l_queue' = Tail(queue)
  \/ queue = <<>> /\ load_proc(Nobody) /\ l_queue' = queue

(* Mutant: a process whose slice is over stays the first one.              *)
resume_in_front(eh, queue) ==
  \/ act_proc # Nobody /\ eh = "CONTINUE" /\ load_proc(act_proc) /\ l_queue' = queue
  \/ act_proc # Nobody /\ eh = "RENQUEUE" /\ scheduler_next(<<act_proc>> \o queue)
  \/ (act_proc = Nobody \/ eh = "NOTHING") /\ scheduler_next(queue)

(* The end of exception_handler: what becomes of act_proc when a handler   *)
(* answers eh and has left queue as the ready queue.                       *)
resume(eh, queue) ==
  \/ act_proc # Nobody /\ eh = "CONTINUE" /\ load_proc(act_proc) /\ l_queue' = queue
  \/ act_proc # Nobody /\ eh = "RENQUEUE" /\ scheduler_next(Append(queue, act_proc))
  \/ (act_proc = Nobody \/ eh = "NOTHING") /\ scheduler_next(queue)

(* The local timer counts down while a process runs,                       *)
tick ==
  /\ act_proc # Nobody /\ timer > 0
  /\ timer' = timer - 1
  /\ UNCHANGED <<act_proc, l_queue>>

(* and asks for an interrupt when the slice is over, on the first line     *)
(* that exception_handler looks at.                                        *)
PLT ==
  /\ act_proc # Nobody /\ timer = 0
  /\ resume("RENQUEUE", l_queue)

=============================================================================
