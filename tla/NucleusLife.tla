---------------------------- MODULE NucleusLife ----------------------------
(***************************************************************************)
(* The nucleus implements ProcessLife: behind the ready queues, the        *)
(* running and the yielded process, the counters and WAIT, every exception *)
(* is one operation of ProcessLife or none.                                *)
(***************************************************************************)
EXTENDS Nucleus

(* What a pcb amounts to for the programs.  A process that is alive and in *)
(* no place from which scheduler_next could take it has no life.           *)
life_of(p) ==
  CASE p \in pcb_free -> "none"
    [] p \in Blocked -> "waits"
    [] p \in (Running \union Ready) \ (pcb_free \union Blocked) -> "runs"
    [] OTHER -> "lost"

Life == INSTANCE ProcessLife WITH
          life <- [p \in Procs |-> life_of(p)],
          parent <- p_parent,
          value <- sem,
          waiters <- s_procq

(* Each exception does what the call promises, to the processes it is      *)
(* about and to no other: nobody is lost, woken, overtaken or left behind  *)
(* by the scheduler between two calls (scheduler_next, load_proc and the   *)
(* tail of exception_handler).                                             *)
KeepsPromise == Life!Spec
=============================================================================
