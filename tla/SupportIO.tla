----------------------------- MODULE SupportIO -----------------------------
(***************************************************************************)
(* Input and output of the user processes: the system calls SYS2 to SYS5   *)
(* of src/src/sys_support.c, the device mutexes of support.c, the device   *)
(* registers, the interrupt handlers that serve them (interrupts.c) and    *)
(* the instantiator that creates the processes (init_proc.c).              *)
(*                                                                         *)
(* User process a owns printer a and terminal a.  The support level runs   *)
(* with the interrupts on: an interrupt that is pending is taken before    *)
(* any process makes its next step.                                        *)
(*                                                                         *)
(* Abstracted: the scheduler, which only decides who steps (module         *)
(* SupportTurns adds it), the page faults of the support level (module     *)
(* Pager), and the numbers of the devices, which keep their order.         *)
(***************************************************************************)
EXTENDS Integers, FiniteSets, FiniteSetsExt, SequencesExt

CONSTANTS
  UPROCMAX,
  Strings,   \* what a program may have at virtAddr
  Lens,      \* and the lengths it may give
  MAXLEN,    \* the longest that is accepted: 128
  Typed,     \* what can be typed at a terminal, but for the newline
  MaxLine,   \* nobody types a longer line (a bound of the model)
  Failing,   \* the kinds of device that may answer with an error
  NULL

Units == {"printer", "term_out", "term_in"}
Asids == 1..UPROCMAX
READY == 1
BUSY == 3
ERROR == 4            \* PRINT ERROR, TRANSMISSION ERROR or RECEIVE ERROR
OKCHARTRANS == 5
EOS == "EOS"
Newline == "newline"

ASSUME SupportAssumption ==
  /\ UPROCMAX \in Nat \ {0} /\ MaxLine \in Nat \ {0} /\ MAXLEN \in Nat
  /\ Lens \subseteq Int /\ Failing \subseteq Units
  /\ \A s \in Strings : s \in Seq(Range(s))
  /\ \A s \in Strings : Len(s) >= MAXLEN \/ \E n \in DOMAIN s : s[n] = EOS
  /\ {EOS, Newline, NULL} \intersect Typed = {}

VARIABLES
  created,   \* user processes that the instantiator has created
  pc, call,  \* where a process is, and the call it made last
  i,         \* the counter of the loops of SYS3, SYS4 and SYS5
  v0,        \* what DOIO answered last during the call
  ret,       \* what the call returned
  dev_sems,
  reg,       \* device registers: status and character
  irq,       \* devices that request an interrupt
  done,      \* the characters printed, or typed, during the call
  buffer     \* what SYS5 has stored

vars == <<created, pc, call, i, v0, ret, dev_sems, reg, irq, done, buffer>>
locals == <<call, i, v0, ret, done, buffer>>

(* ok: virtAddr >= KUSEG.                                                  *)
Calls == [nr : {"SYS3", "SYS4"}, str : Strings, len : Lens, ok : BOOLEAN]
           \union [nr : {"SYS5"}, ok : BOOLEAN]

unit(c) == CASE c.nr = "SYS3" -> "printer"
             [] c.nr = "SYS4" -> "term_out"
             [] c.nr = "SYS5" -> "term_in"

NoCall == [nr |-> "none"]
Off == [status |-> READY, char |-> NULL]

Init ==
  /\ created = 0
  /\ pc = [a \in Asids |-> "none"]
  /\ call = [a \in Asids |-> NoCall]
  /\ i = [a \in Asids |-> 0]
  /\ v0 = [a \in Asids |-> Off]
  /\ ret = [a \in Asids |-> 0]
  /\ dev_sems = [u \in Units |-> [a \in Asids |-> 1]]
  /\ reg = [u \in Units |-> [a \in Asids |-> Off]]
  /\ irq = {}
  /\ done = [a \in Asids |-> <<>>]
  /\ buffer = [a \in Asids |-> <<>>]

goto(a, l) == pc' = [pc EXCEPT ![a] = l]

-----------------------------------------------------------------------------
(* One CREATEPROCESS of instantiator_proc.  When all are created it does   *)
(* P(master_sem) and stays there: terminate has its V commented out.       *)
instantiator_proc ==
  /\ irq = {} /\ created < UPROCMAX
  /\ created' = created + 1
  /\ goto(created + 1, "user")
  /\ UNCHANGED <<locals, dev_sems, reg, irq>>

(* SYS2, and every trap.                                                   *)
terminate(a) ==
  /\ irq = {} /\ pc[a] = "user"
  /\ goto(a, "dead")
  /\ UNCHANGED <<created, locals, dev_sems, reg, irq>>

bad_args(c) == ~c.ok \/ (c.nr # "SYS5" /\ (c.len > MAXLEN \/ c.len < 0))

p_on_dev(u, a) ==
  /\ dev_sems[u][a] = 1
  /\ dev_sems' = [dev_sems EXCEPT ![u][a] = 0]
v_on_dev(u, a) == dev_sems' = [dev_sems EXCEPT ![u][a] = 1]

(* support_syscall_handler, up to the loop: bad arguments kill the caller. *)
support_syscall_handler(a, c) ==
  /\ irq = {} /\ pc[a] = "user"
  /\ \/ bad_args(c) /\ goto(a, "dead") /\ UNCHANGED <<call, dev_sems>>
     \/ /\ ~bad_args(c) /\ goto(a, "loop") /\ p_on_dev(unit(c), a)
        /\ call' = [call EXCEPT ![a] = c]
  /\ UNCHANGED <<created, i, v0, ret, done, buffer, reg, irq>>

(* Mutant: the end of the string is not looked for.                        *)
more_to_write_len(c, k) == k < c.len
more_to_write(c, k) == k < c.len /\ c.str[k + 1] # EOS

(* DOIO: the process blocks, then the command is written.                  *)
do_io(a, u, char) ==
  /\ reg' = [reg EXCEPT ![u][a] = [status |-> BUSY, char |-> char]]
  /\ goto(a, "blocked")

(* The head of the loop: the next character, or the end.                   *)
next_char(a) ==
  LET c == call[a]
  IN  /\ irq = {} /\ pc[a] = "loop"
      /\ \/ c.nr = "SYS5" /\ do_io(a, "term_in", NULL)
         \/ /\ c.nr # "SYS5" /\ more_to_write(c, i[a])
            /\ do_io(a, unit(c), c.str[i[a] + 1])
         \/ /\ c.nr # "SYS5" /\ ~more_to_write(c, i[a])
            /\ goto(a, "leave") /\ UNCHANGED reg
      /\ UNCHANGED <<created, locals, dev_sems, irq>>

good(u) == IF u = "printer" THEN READY ELSE OKCHARTRANS
failed(a) == v0[a] # Off /\ v0[a].status # good(unit(call[a]))

last_read_never(a) == FALSE   \* mutant: the newline does not end the line
last_read(a) == call[a].nr = "SYS5" /\ v0[a].char = Newline

stored_line(a) ==   \* mutant: the newline is not stored
  IF v0[a].char = Newline THEN buffer[a] ELSE Append(buffer[a], v0[a].char)
stored(a) == Append(buffer[a], v0[a].char)

(* DOIO has returned.                                                      *)
check_status(a) ==
  /\ irq = {} /\ pc[a] = "woken"
  /\ goto(a, IF failed(a) \/ last_read(a) THEN "leave" ELSE "loop")
  /\ i' = IF failed(a) THEN i ELSE [i EXCEPT ![a] = @ + 1]
  /\ buffer' = IF failed(a) \/ call[a].nr # "SYS5" THEN buffer
               ELSE [buffer EXCEPT ![a] = stored(a)]
  /\ UNCHANGED <<created, call, v0, ret, done, dev_sems, reg, irq>>

(* A failed write answers the status that the register has by now, a       *)
(* failed read the whole word that DOIO answered.                          *)
returned(a) ==
  IF ~failed(a) THEN i[a]
  ELSE IF call[a].nr = "SYS5" THEN - v0[a].status
  ELSE - reg[unit(call[a])][a].status

leave_failed_keeps(a) ==   \* mutant: the mutex is not released after an error
  IF failed(a) THEN UNCHANGED dev_sems ELSE v_on_dev(unit(call[a]), a)
leave(a) == v_on_dev(unit(call[a]), a)

(* The mutex is released.                                                  *)
release(a) ==
  /\ irq = {} /\ pc[a] = "leave"
  /\ leave(a)
  /\ ret' = [ret EXCEPT ![a] = returned(a)]
  /\ goto(a, "return")
  /\ UNCHANGED <<created, call, i, v0, done, buffer, reg, irq>>

(* LDST: back in the program, where nothing is left of the call.           *)
LDST(a) ==
  /\ irq = {} /\ pc[a] = "return"
  /\ goto(a, "user")
  /\ call' = [call EXCEPT ![a] = NoCall]
  /\ i' = [i EXCEPT ![a] = 0]
  /\ v0' = [v0 EXCEPT ![a] = Off]
  /\ ret' = [ret EXCEPT ![a] = 0]
  /\ done' = [done EXCEPT ![a] = <<>>]
  /\ buffer' = [buffer EXCEPT ![a] = <<>>]
  /\ UNCHANGED <<created, dev_sems, reg, irq>>

-----------------------------------------------------------------------------
(* The devices.                                                            *)

answer(u, a, status, char, chars) ==
  /\ reg[u][a].status = BUSY
  /\ reg' = [reg EXCEPT ![u][a] = [status |-> status, char |-> char]]
  /\ irq' = irq \union {<<u, a>>}
  /\ done' = [done EXCEPT ![a] = @ \o chars]
  /\ UNCHANGED <<created, pc, call, i, v0, ret, dev_sems, buffer>>

device(u, a) ==
  \/ u # "term_in" /\ answer(u, a, good(u), reg[u][a].char, <<reg[u][a].char>>)
  \/ /\ u = "term_in"
     /\ \E ch \in Typed \union {Newline} :
          /\ Len(done[a]) + 1 >= MaxLine => ch = Newline
          /\ answer(u, a, OKCHARTRANS, ch, <<ch>>)
  \/ u \in Failing /\ answer(u, a, ERROR, reg[u][a].char, <<>>)

-----------------------------------------------------------------------------
(* Interrupts.  Line 6 is the printers and line 7 the terminals.           *)

Line(l) == IF l = 6 THEN {"printer"} ELSE {"term_out", "term_in"}
pending(l) == {a \in Asids : \E u \in Line(l) : <<u, a>> \in irq}

interrupting_lowest(l) == CHOOSE a \in Asids : TRUE   \* mutant
interrupting(l) == Max(pending(l))   \* the highest one in the bitmap

ack_no_reset(u, a) ==   \* mutant: the request is not withdrawn
  /\ reg' = [reg EXCEPT ![u][a] = Off]
  /\ UNCHANGED irq
ack(u, a) ==
  /\ reg' = [reg EXCEPT ![u][a] = Off]
  /\ irq' = irq \ {<<u, a>>}

(* V on the semaphore of the device, on which its process waits (a process *)
(* that waits is not killed: AnswerPending), the status, and the ack.      *)
serve(u, a) ==
  /\ v0' = [v0 EXCEPT ![a] = reg[u][a]]
  /\ goto(a, "woken")
  /\ ack(u, a)
  /\ UNCHANGED <<created, call, i, ret, dev_sems, done, buffer>>

generic_interrupt_handler ==
  /\ pending(6) # {}
  /\ serve("printer", interrupting(6))

(* The transmitter first, and only what has gone well: after an error      *)
(* nothing is acknowledged and the same interrupt comes at once again.     *)
terminal_interrupt ==
  LET a == interrupting(7)
      ok(u) == reg[u][a].status = OKCHARTRANS
  IN  /\ pending(6) = {} /\ pending(7) # {}
      /\ \/ ok("term_out") /\ serve("term_out", a)
         \/ ~ok("term_out") /\ ok("term_in") /\ serve("term_in", a)

handle_interrupts == generic_interrupt_handler \/ terminal_interrupt

-----------------------------------------------------------------------------
support_level(a) == next_char(a) \/ check_status(a) \/ release(a) \/ LDST(a)

Next ==
  \/ instantiator_proc
  \/ \E a \in Asids : \/ terminate(a)
                      \/ \E c \in Calls : support_syscall_handler(a, c)
                      \/ support_level(a)
                      \/ \E u \in Units : device(u, a)
  \/ handle_interrupts

Spec == Init /\ [][Next]_vars

-----------------------------------------------------------------------------
Chars == (UNION {Range(s) : s \in Strings}) \union Typed \union {Newline, NULL}
Registers == [status : {READY, BUSY, ERROR, OKCHARTRANS}, char : Chars]

TypeOK ==
  /\ created \in 0..UPROCMAX
  /\ pc \in [Asids -> {"none", "user", "loop", "blocked", "woken", "leave", "return",
                       "dead"}]
  /\ call \in [Asids -> Calls \union {NoCall}]
  /\ i \in [Asids -> 0..Max({MAXLEN, MaxLine})]
  /\ v0 \in [Asids -> Registers]
  /\ ret \in [Asids -> Int]
  /\ dev_sems \in [Units -> [Asids -> {0, 1}]]
  /\ reg \in [Units -> [Asids -> Registers]]
  /\ irq \subseteq Units \X Asids
  /\ done \in [Asids -> Seq(Chars)] /\ buffer \in [Asids -> Seq(Chars)]

(* The value of ret is about to be put into v0 of the program.             *)
Returned(a) == pc[a] = "return"

(* What SYS3 and SYS4 print is the string, up to its length or its end,    *)
(* and they return how many characters that is; unless the device fails:   *)
(* then it is the beginning of the string and the answer is negative       *)
(* (sys_support.c:95-174 against the device's own account).                *)
Requested(c) ==
  LET ends == {k \in DOMAIN c.str : k <= c.len /\ c.str[k] = EOS}
  IN  SubSeq(c.str, 1, IF ends = {} THEN c.len ELSE Min(ends) - 1)
WritesWhatWasAsked ==
  \A a \in Asids : Returned(a) /\ call[a].nr # "SYS5" =>
    \/ done[a] = Requested(call[a]) /\ ret[a] = Len(done[a])
    \/ IsStrictPrefix(done[a], Requested(call[a])) /\ ret[a] < 0

(* SYS5 stores the line that was typed, newline included, in order and     *)
(* complete, and returns its length (sys_support.c:176-213).               *)
ReadsTheLine ==
  \A a \in Asids : Returned(a) /\ call[a].nr = "SYS5" =>
    /\ buffer[a] = done[a] /\ ret[a] = Len(done[a])
    /\ Last(done[a]) = Newline /\ Cardinality({k \in DOMAIN done[a] : done[a][k] = Newline}) = 1

(* A device is locked exactly while its process is inside the call that    *)
(* uses it: on every way out, errors included, and nothing stays locked by *)
(* a process that dies of its arguments.                                   *)
LockedInside ==
  \A u \in Units, a \in Asids :
    dev_sems[u][a] = 0 <=> pc[a] \in {"loop", "blocked", "woken", "leave"} /\ unit(call[a]) = u

(* A process waits in DOIO exactly while one device, its own and the one   *)
(* it gave the command to, works for it or asks for an interrupt: the      *)
(* handlers take the right device from the bitmap, wake the right process  *)
(* and acknowledge the right register (interrupts.c:82-163).               *)
AnswerPending ==
  \A u \in Units, a \in Asids :
    (reg[u][a].status = BUSY \/ <<u, a>> \in irq)
      <=> pc[a] = "blocked" /\ unit(call[a]) = u

(* sys_support.c:47-48: SYS3 returns the number of characters printed, or  *)
(* the status of the device with its sign changed.                         *)
ErrorReported ==
  \A a \in Asids : Returned(a) /\ call[a].nr = "SYS3" /\ failed(a) => ret[a] = - v0[a].status
=============================================================================
