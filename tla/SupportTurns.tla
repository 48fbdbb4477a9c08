---------------------------- MODULE SupportTurns ----------------------------
(***************************************************************************)
(* Input and output and the scheduler together: each step of module        *)
(* SupportIO is made by the process that runs, or is an interrupt, and     *)
(* ends as the nucleus ends the system calls in it (module TimeSlices).    *)
(*                                                                         *)
(* A system call that does not block sends the caller to the end of the    *)
(* ready queue (P, V) or back to where it was with a new time slice        *)
(* (GETSUPPORTPTR); a step with several of them ends as the last one does. *)
(* Process 0 is the instantiator.                                          *)
(***************************************************************************)
EXTENDS SupportIO, TimeSlices

all == <<vars, turn>>

InitTurns == Init /\ act_proc = 0 /\ l_queue = <<>> /\ timer = TIMESLICE

(* CREATEPROCESS, then P(master_sem), which nobody signals.                *)
create ==
  /\ Runs(0)
  /\ instantiator_proc
  /\ resume("CONTINUE", Append(l_queue, created'))
p_on_master_sem ==
  /\ Runs(0) /\ irq = {} /\ created = UPROCMAX
  /\ resume("NOTHING", l_queue)
  /\ UNCHANGED vars

(* TERMPROCESS; SYS3 to SYS5 up to P on the mutex of the device, for which *)
(* nobody else asks; and SYS1, which needs the support structure only.     *)
end(a) ==
  /\ Runs(a)
  /\ terminate(a)
  /\ resume("NOTHING", l_queue)
begin_call(a, c) ==
  /\ Runs(a)
  /\ support_syscall_handler(a, c)
  /\ resume(IF bad_args(c) THEN "NOTHING" ELSE "RENQUEUE", l_queue)
get_TOD(a) ==
  /\ Runs(a) /\ irq = {} /\ pc[a] = "user"
  /\ resume("CONTINUE", l_queue)
  /\ UNCHANGED vars

(* The loop: DOIO leaves the caller blocked on the semaphore of the        *)
(* device, everything else goes on.                                        *)
loop(a) ==
  /\ Runs(a)
  /\ next_char(a) \/ check_status(a) \/ LDST(a)
  /\ \/ pc'[a] = "blocked" /\ resume("NOTHING", l_queue)
     \/ pc'[a] # "blocked" /\ UNCHANGED turn

(* V on the mutex of the device.                                           *)
leave_call(a) ==
  /\ Runs(a)
  /\ release(a)
  /\ resume("RENQUEUE", l_queue)

-----------------------------------------------------------------------------
device_step(a) == (\E u \in Units : device(u, a)) /\ UNCHANGED turn

(* The interrupt of the timer is on a lower line, and is taken first.      *)
taken == act_proc # Nobody => timer > 0

(* verhogen makes the process that waits for the device ready.             *)
served == IF pending(6) # {} THEN interrupting(6) ELSE interrupting(7)
interrupt ==
  /\ taken
  /\ handle_interrupts
  /\ resume("CONTINUE", Append(l_queue, served))

(* A terminal that has failed is not served, and interrupts again at once. *)
failed_interrupt ==
  /\ taken
  /\ pending(6) = {} /\ pending(7) # {}
  /\ \A u \in Line(7) : reg[u][interrupting(7)].status # OKCHARTRANS
  /\ resume("CONTINUE", l_queue)
  /\ UNCHANGED vars

local_timer == (tick \/ PLT) /\ UNCHANGED vars

-----------------------------------------------------------------------------
instantiate == create \/ p_on_master_sem
support_step(a) == loop(a) \/ leave_call(a)

NextTurns ==
  \/ instantiate
  \/ \E a \in Asids : \/ end(a) \/ get_TOD(a) \/ support_step(a) \/ device_step(a)
                      \/ \E c \in Calls : begin_call(a, c)
  \/ interrupt \/ failed_interrupt
  \/ local_timer

(* Time passes, devices answer, and the processor takes the interrupts.  A *)
(* time slice is longer than a step of the support level: a process that   *)
(* is dispatched again and again is not preempted or interrupted before    *)
(* the same step every time.  That it is dispatched again is not assumed.  *)
FairTurns ==
  /\ InitTurns /\ [][NextTurns]_all
  /\ WF_all(local_timer)
  /\ SF_all(interrupt)
  /\ SF_all(instantiate)
  /\ \A a \in Asids : SF_all(support_step(a)) /\ WF_all(device_step(a))

-----------------------------------------------------------------------------
(* A program that runs uses its slice up, makes another call, or ends.     *)
(* load_proc sets the timer again after every GETSUPPORTPTR                *)
(* (scheduler.c:192), so that a program that calls SYS1 over and over is   *)
(* never preempted.                                                        *)
UsesUpItsSlice(a) == []<>~(Runs(a) /\ pc[a] = "user")

(* A terminal that has failed stops everybody (failed_interrupt).          *)
NoTerminalFails ==
  [](\A a \in Asids : ERROR \notin {reg["term_out"][a].status, reg["term_in"][a].status})

(* Every call returns to its program, if no program keeps the processor    *)
(* for itself in that way and no terminal fails: through the mutex, the    *)
(* waiting for each character, errors of the printers, the requests of     *)
(* other devices on the same line, and the turns of whoever is ready.      *)
CallsReturn ==
  NoTerminalFails /\ (\A a \in Asids : UsesUpItsSlice(a)) =>
    \A a \in Asids : call[a] # NoCall ~> call[a] = NoCall /\ Runs(a)
=============================================================================
