--------------------------- MODULE SupportProofs ---------------------------
(***************************************************************************)
(* Proofs about the input and output of the user processes, for any number *)
(* of processes, any strings and lines, and any devices that fail.         *)
(***************************************************************************)
EXTENDS SupportIO, FiniteSetTheorems, SequenceTheorems, TLAPS

Facts == INSTANCE ProcQueueProofs

(* Where a process is inside a call, and where it has none.                *)
InCall == {"loop", "blocked", "woken", "leave", "return"}
Outside == {"none", "user", "dead"}

(* The processes are created in order.                                     *)
Created == \A a \in Asids : pc[a] = "none" <=> a > created

(* A call is carried out with good arguments only; without a call nothing  *)
(* is left of the last one.                                                *)
Args(a) ==
  /\ pc[a] \in InCall => call[a] \in Calls /\ ~bad_args(call[a])
  /\ pc[a] \in Outside =>
       call[a] = NoCall /\ i[a] = 0 /\ v0[a] = Off /\ done[a] = <<>> /\ buffer[a] = <<>>

Locked(a) ==
  \A u \in Units :
    dev_sems[u][a] = 0 <=> pc[a] \in {"loop", "blocked", "woken", "leave"} /\ unit(call[a]) = u

Waiting(a) ==
  \A u \in Units :
    (reg[u][a].status = BUSY \/ <<u, a>> \in irq) <=> pc[a] = "blocked" /\ unit(call[a]) = u

(* A device requests an interrupt with the answer in its register, and     *)
(* until the acknowledgement an answer stays there.                        *)
Answered(a) ==
  \A u \in Units :
    /\ <<u, a>> \in irq => reg[u][a].status \in {good(u), ERROR}
    /\ reg[u][a].status \in {ERROR, OKCHARTRANS} => <<u, a>> \in irq

(* The first k characters of the string are printed, and no others.        *)
Printed(a, k) ==
  /\ k <= call[a].len /\ Len(done[a]) = k
  /\ \A n \in 1..k : done[a][n] = call[a].str[n] /\ call[a].str[n] # EOS

(* What SYS3 and SYS4 have printed at each point of their loop.            *)
Writing(a) ==
  call[a] # NoCall /\ call[a].nr # "SYS5" =>
    LET c == call[a]
        k == i[a]
        r == reg[unit(c)][a]
    IN  /\ pc[a] = "loop" => Printed(a, k) /\ ~failed(a)
        /\ pc[a] = "blocked" =>
             /\ more_to_write(c, k) /\ ~failed(a)
             /\ r.status = BUSY => Printed(a, k) /\ r.char = c.str[k + 1]
             /\ r.status = ERROR => Printed(a, k)
             /\ r.status = good(unit(c)) => Printed(a, k + 1)
        /\ pc[a] = "woken" =>
             /\ more_to_write(c, k)
             /\ Printed(a, IF failed(a) THEN k ELSE k + 1)
        /\ pc[a] \in {"leave", "return"} =>
             Printed(a, k) /\ (failed(a) <=> more_to_write(c, k))
        /\ pc[a] = "return" => IF failed(a) THEN ret[a] < 0 ELSE ret[a] = k

(* No newline yet, and room for one.                                       *)
Open(line) == Len(line) < MaxLine /\ \A n \in 1..Len(line) : line[n] # Newline

(* What SYS5 has stored at each point of its loop.                         *)
Reading(a) ==
  call[a] # NoCall /\ call[a].nr = "SYS5" =>
    LET r == reg["term_in"][a]
        n == Len(buffer[a])
    IN  /\ i[a] = n
        /\ pc[a] \in {"loop", "blocked", "woken"} => Open(buffer[a])
        /\ pc[a] = "loop" \/ (pc[a] = "blocked" /\ r.status = BUSY) => done[a] = buffer[a]
        /\ pc[a] = "blocked" /\ r.status = OKCHARTRANS =>
             /\ done[a] = Append(buffer[a], r.char)
             /\ r.char # Newline => n + 1 < MaxLine
        /\ pc[a] = "woken" =>
             /\ v0[a].status = OKCHARTRANS /\ done[a] = Append(buffer[a], v0[a].char)
             /\ v0[a].char # Newline => n + 1 < MaxLine
        /\ pc[a] \in {"leave", "return"} =>
             /\ v0[a].status = OKCHARTRANS /\ done[a] = buffer[a]
             /\ n \in 1..MaxLine /\ buffer[a][n] = Newline
             /\ \A m \in 1..(n - 1) : buffer[a][m] # Newline
        /\ pc[a] = "return" => ret[a] = n

Served(a) == Args(a) /\ Locked(a) /\ Waiting(a) /\ Answered(a) /\ Writing(a) /\ Reading(a)
IInv == TypeOK /\ Created /\ \A a \in Asids : Served(a)

-----------------------------------------------------------------------------
(* The operators of the model.                                             *)

(* The highest device of a line that requests an interrupt is one.         *)
LEMMA Interrupting ==
  ASSUME NEW l, pending(l) # {}
  PROVE  interrupting(l) \in Asids /\ \E u \in Line(l) : <<u, interrupting(l)>> \in irq
<1>1. pending(l) \subseteq 0..UPROCMAX /\ UPROCMAX \in Nat
  BY SupportAssumption DEF pending, Asids
<1>2. \E a \in pending(l) : \A b \in pending(l) : a >= b
  BY <1>1, Facts!Largest
<1>3. interrupting(l) \in pending(l)
  BY <1>2 DEF interrupting, Max
<1> QED
  BY <1>3 DEF pending

(* The bound of TypeOK on the counter.                                     *)
LEMMA Counter ==
  /\ Max({MAXLEN, MaxLine}) \in Nat
  /\ \A k \in Nat : k <= MAXLEN \/ k <= MaxLine => k \in 0..Max({MAXLEN, MaxLine})
<1>1. MAXLEN \in Nat /\ MaxLine \in Nat
  BY SupportAssumption
<1>2. \E m \in {MAXLEN, MaxLine} : \A n \in {MAXLEN, MaxLine} : m >= n
  BY <1>1
<1>3. /\ Max({MAXLEN, MaxLine}) \in {MAXLEN, MaxLine}
      /\ Max({MAXLEN, MaxLine}) >= MAXLEN /\ Max({MAXLEN, MaxLine}) >= MaxLine
  BY <1>2 DEF Max
<1> HIDE DEF Max
<1> QED
  BY <1>1, <1>3

(* The characters that are not in a string.                                *)
LEMMA CharsOf == NULL \in Chars /\ Newline \in Chars /\ Typed \subseteq Chars
BY DEF Chars

(* What a program has at virtAddr is a sequence of characters that ends,   *)
(* or that is as long as the longest length.                               *)
LEMMA StringOf ==
  ASSUME NEW c \in Calls, c.nr # "SYS5"
  PROVE  /\ c.str \in Seq(Chars) /\ c.len \in Int
         /\ Len(c.str) >= MAXLEN \/ \E n \in DOMAIN c.str : c.str[n] = EOS
<1>1. c.str \in Strings /\ c.len \in Lens
  BY DEF Calls
<1>2. c.str \in Seq(Range(c.str))
  BY <1>1, SupportAssumption
<1>3. Range(c.str) \subseteq Chars
  BY <1>1 DEF Chars
<1>4. c.str \in Seq(Chars)
  BY <1>2, <1>3, SeqMonotonic
<1> QED
  BY <1>1, <1>4, SupportAssumption

(* The loop of SYS3 and SYS4 goes on to the first EOS or to the length:    *)
(* what it has printed when it ends is what was asked, and before that the *)
(* beginning of it.                                                        *)
LEMMA LoopLimit ==
  ASSUME NEW c \in Calls, c.nr # "SYS5", ~bad_args(c), NEW k \in Nat, k <= c.len,
         \A n \in 1..k : c.str[n] # EOS
  PROVE  /\ Requested(c) \in Seq(Chars) /\ k <= Len(Requested(c))
         /\ \A n \in 1..Len(Requested(c)) : Requested(c)[n] = c.str[n]
         /\ more_to_write(c, k) <=> k < Len(Requested(c))
         /\ more_to_write(c, k) => k + 1 \in 1..Len(c.str)
<1> DEFINE s == c.str
           ends == {n \in DOMAIN s : n <= c.len /\ s[n] = EOS}
           last == IF ends = {} THEN c.len ELSE Min(ends) - 1
<1>1. /\ s \in Seq(Chars) /\ c.len \in Int /\ c.len <= MAXLEN /\ ~(c.len < 0)
      /\ Len(s) >= MAXLEN \/ \E n \in DOMAIN s : s[n] = EOS
  <2>1. ~(c.len > MAXLEN \/ c.len < 0)
    BY Zenon DEF bad_args
  <2> QED
    BY <2>1, StringOf, SupportAssumption
<1>2. DOMAIN s = 1..Len(s) /\ Len(s) \in Nat /\ MAXLEN \in Nat
  BY <1>1, SupportAssumption, LenProperties
<1>3. ends # {} => /\ Min(ends) \in ends
                   /\ \A n \in ends : Min(ends) <= n
  <2>1. ends \in SUBSET Nat
    BY <1>2
  <2> HIDE DEF ends
  <2>2. ends # {} => \E n \in ends : \A m \in ends : n <= m
    BY <2>1, Facts!Smallest
  <2> QED
    BY <2>2 DEF Min
<1>4. /\ last \in 0..Len(s) /\ last <= c.len
      /\ \A n \in 1..last : s[n] # EOS
      /\ last = c.len \/ (last + 1 \in 1..Len(s) /\ last < c.len /\ s[last + 1] = EOS)
  <2>1. CASE ends = {}
    <3>1. c.len <= Len(s)
      BY <1>1, <1>2, <2>1
    <3>2. \A n \in 1..c.len : s[n] # EOS
      BY <1>1, <1>2, <2>1, <3>1
    <3> QED
      BY <1>1, <2>1, <3>1, <3>2
  <2>2. CASE ends # {}
    <3> DEFINE m == Min(ends)
    <3>1. m \in 1..Len(s) /\ m <= c.len /\ s[m] = EOS /\ \A n \in ends : m <= n
      BY <1>2, <1>3, <2>2
    <3>2. last = m - 1
      BY <2>2
    <3>3. \A n \in 1..Len(s) : n < m => n \notin ends
      <4> HIDE DEF ends, m
      <4> QED
        BY <3>1
    <3>4. \A n \in 1..Len(s) : n < m => s[n] # EOS
      BY <1>1, <1>2, <3>1, <3>3
    <3> HIDE DEF m, last, ends
    <3> QED
      BY <1>1, <1>2, <3>1, <3>2, <3>4
  <2> QED
    BY <2>1, <2>2
<1>5. Requested(c) = SubSeq(s, 1, last)
  BY DEF Requested
<1> HIDE DEF last, ends, s
<1>6. /\ Requested(c) \in Seq(Chars) /\ Len(Requested(c)) = last
      /\ \A n \in 1..last : Requested(c)[n] = s[n]
  <2>1. \A n \in 1..last : s[n] \in Chars
    BY <1>1, <1>2, <1>4
  <2> QED
    BY <1>4, <1>5, <2>1, SubSeqProperties
<1>7. k <= last
  BY <1>1, <1>4 DEF s
<1>8. more_to_write(c, k) <=> k < last
  BY <1>1, <1>2, <1>4, <1>7 DEF more_to_write, s
<1> QED
  BY <1>2, <1>4, <1>6, <1>7, <1>8 DEF s

(* SYS5 reads, the others write; NoCall is no call.                        *)
LEMMA CallOf ==
  ASSUME NEW c \in Calls
  PROVE  /\ unit(c) \in Units /\ (unit(c) = "term_in" <=> c.nr = "SYS5")
         /\ c.nr \in {"SYS3", "SYS4", "SYS5"} /\ c # NoCall
<1>1. c.nr \in {"SYS3", "SYS4", "SYS5"}
  BY DEF Calls
<1>2. c # NoCall
  BY <1>1 DEF NoCall
<1> QED
  BY <1>1, <1>2 DEF unit, Units

-----------------------------------------------------------------------------
(* A process that a step has nothing to do with.                           *)
Same(b) ==
  /\ pc'[b] = pc[b] /\ call'[b] = call[b] /\ i'[b] = i[b] /\ v0'[b] = v0[b]
  /\ ret'[b] = ret[b] /\ done'[b] = done[b] /\ buffer'[b] = buffer[b]
  /\ \A u \in Units : /\ dev_sems'[u][b] = dev_sems[u][b] /\ reg'[u][b] = reg[u][b]
                      /\ <<u, b>> \in irq' <=> <<u, b>> \in irq

LEMMA Untouched ==
  ASSUME NEW b \in Asids, TypeOK, Served(b), Same(b)
  PROVE  Served(b)'
<1>1. Args(b)' /\ Locked(b)'
  BY DEF Same, Served, Args, Locked
<1>2. Waiting(b)' /\ Answered(b)'
  BY DEF Same, Served, Waiting, Answered
<1>3. ASSUME call[b] \in Calls PROVE reg'[unit(call[b])][b] = reg[unit(call[b])][b]
  BY <1>3, CallOf DEF Same
<1>4. failed(b)' <=> failed(b)
  BY DEF failed, Same
<1>5. \A k : Printed(b, k)' <=> Printed(b, k)
  BY DEF Printed, Same
<1>6. call[b] # NoCall => call[b] \in Calls
  BY DEF TypeOK
<1>7. Writing(b)'
  BY <1>3, <1>4, <1>5, <1>6 DEF Same, Served, Writing
<1>8. Reading(b)'
  BY DEF Same, Served, Reading, Units
<1> QED
  BY <1>1, <1>2, <1>7, <1>8 DEF Served

LEMMA InitLemma == Init => IInv
<1> SUFFICES ASSUME Init PROVE IInv
  OBVIOUS
<1>1. UPROCMAX \in Nat /\ Asids = 1..UPROCMAX /\ NULL \in Chars
  BY SupportAssumption, CharsOf DEF Asids
<1>2. Off \in Registers
  BY <1>1 DEF Off, Registers
<1>3. TypeOK
  BY <1>1, <1>2, Counter DEF Init, TypeOK
<1>4. Created
  BY <1>1 DEF Init, Created
<1>5. ASSUME NEW a \in Asids PROVE Served(a)
  <2>1. Args(a) /\ Locked(a)
    BY DEF Init, Args, Locked, InCall
  <2>2. Waiting(a) /\ Answered(a)
    BY DEF Init, Waiting, Answered, Off, READY, BUSY, ERROR, OKCHARTRANS
  <2>3. Writing(a) /\ Reading(a)
    BY DEF Init, Writing, Reading
  <2> QED
    BY <2>1, <2>2, <2>3 DEF Served
<1> QED
  BY <1>3, <1>4, <1>5 DEF IInv

(* A process between two calls has no device, whatever becomes of it.      *)
LEMMA NoCallServed ==
  ASSUME NEW a \in Asids, pc'[a] \in Outside,
         call'[a] = NoCall, i'[a] = 0, v0'[a] = Off, done'[a] = <<>>, buffer'[a] = <<>>,
         \A u \in Units : /\ dev_sems'[u][a] # 0
                         /\ reg'[u][a].status # BUSY /\ <<u, a>> \notin irq',
         Answered(a)'
  PROVE  Served(a)'
<1>1. Args(a)' /\ Locked(a)'
  BY DEF Args, Locked, InCall, Outside
<1>2. Waiting(a)'
  BY DEF Waiting, Outside
<1>3. Writing(a)' /\ Reading(a)'
  BY DEF Writing, Reading
<1> QED
  BY <1>1, <1>2, <1>3 DEF Served

(* The instantiator, terminate, a call with bad arguments.                 *)
LEMMA OutsideStep ==
  ASSUME IInv, NEW a \in Asids, NEW l \in {"user", "dead"},
         pc[a] \in {"none", "user"}, pc' = [pc EXCEPT ![a] = l],
         UNCHANGED <<locals, dev_sems, reg, irq>>,
         created' \in 0..UPROCMAX,
         \A b \in Asids : b > created' <=> b > created /\ b # a,
         pc[a] = "none" => a > created
  PROVE  IInv'
<1>1. pc'[a] = l /\ \A b \in Asids : b # a => pc'[b] = pc[b]
  BY DEF IInv, TypeOK
<1>2. TypeOK'
  BY DEF IInv, TypeOK, locals
<1>3. Created'
  BY <1>1 DEF IInv, Created
<1>4. ASSUME NEW b \in Asids, b # a PROVE Served(b)'
  <2>1. Same(b)
    BY <1>1, <1>4 DEF Same, locals
  <2> QED
    BY <2>1, Untouched DEF IInv
<1>5. Served(a)'
  <2>1. Served(a)
    BY DEF IInv
  <2>2. Answered(a)'
    BY <2>1 DEF Served, Answered
  <2>3. \A u \in Units : /\ dev_sems'[u][a] # 0
                         /\ reg'[u][a].status # BUSY /\ <<u, a>> \notin irq'
    BY <2>1 DEF Served, Locked, Waiting
  <2> QED
    BY <1>1, <2>1, <2>2, <2>3, NoCallServed DEF Served, Args, Outside, locals
<1> QED
  BY <1>2, <1>3, <1>4, <1>5 DEF IInv

LEMMA EndStep ==
  ASSUME IInv
  PROVE  /\ instantiator_proc => IInv'
         /\ \A a \in Asids : terminate(a) => IInv'
<1>1. ASSUME instantiator_proc PROVE IInv'
  <2>1. created + 1 \in Asids /\ created \in Nat /\ created' = created + 1
    BY <1>1, SupportAssumption DEF instantiator_proc, Asids, IInv, TypeOK
  <2>2. pc[created + 1] = "none"
    BY <2>1 DEF IInv, Created
  <2>3. created' \in 0..UPROCMAX
    BY <2>1, SupportAssumption DEF Asids
  <2>4. \A b \in Asids : b > created' <=> b > created /\ b # created + 1
    BY <2>1 DEF Asids
  <2>5. pc' = [pc EXCEPT ![created + 1] = "user"] /\ UNCHANGED <<locals, dev_sems, reg, irq>>
    BY <1>1 DEF instantiator_proc, goto
  <2>6. created + 1 > created
    BY <2>1
  <2> QED
    BY <2>1, <2>2, <2>3, <2>4, <2>5, <2>6, OutsideStep
<1>2. ASSUME NEW a \in Asids, terminate(a) PROVE IInv'
  <2>1. /\ pc[a] = "user" /\ pc' = [pc EXCEPT ![a] = "dead"] /\ created' = created
        /\ UNCHANGED <<locals, dev_sems, reg, irq>>
    BY <1>2 DEF terminate, goto
  <2>2. created' \in 0..UPROCMAX /\ ~(a > created)
    BY <2>1 DEF IInv, TypeOK, Created
  <2> QED
    BY <2>1, <2>2, OutsideStep
<1> QED
  BY <1>1, <1>2

(* Every other step is one of a single process, or of a device for it.     *)
LEMMA OneProcess ==
  ASSUME IInv, NEW a \in Asids, created' = created, pc[a] # "none", pc'[a] # "none",
         TypeOK', Served(a)', \A b \in Asids : b # a => Same(b)
  PROVE  IInv'
<1>1. \A b \in Asids : b # a => Served(b)'
  BY Untouched DEF IInv
<1>2. Created'
  BY DEF IInv, Created, Same
<1> QED
  BY <1>1, <1>2 DEF IInv

(* A call begins, with good arguments and the device's mutex.              *)
LEMMA CallStep ==
  ASSUME IInv, NEW a \in Asids, NEW c \in Calls, support_syscall_handler(a, c)
  PROVE  IInv'
<1>0. TypeOK /\ Served(a) /\ unit(c) \in Units /\ c # NoCall
  BY CallOf DEF IInv
<1>1. CASE bad_args(c) /\ goto(a, "dead") /\ UNCHANGED <<call, dev_sems>>
  <2>1. /\ pc[a] = "user" /\ pc' = [pc EXCEPT ![a] = "dead"] /\ created' = created
        /\ UNCHANGED <<locals, dev_sems, reg, irq>>
    BY <1>1 DEF support_syscall_handler, goto, locals
  <2>2. created' \in 0..UPROCMAX /\ ~(a > created)
    BY <2>1 DEF IInv, TypeOK, Created
  <2> QED
    BY <2>1, <2>2, OutsideStep
<1>2. CASE ~bad_args(c) /\ goto(a, "loop") /\ p_on_dev(unit(c), a) /\ call' = [call EXCEPT ![a] = c]
  <2>1. /\ pc[a] = "user" /\ pc' = [pc EXCEPT ![a] = "loop"] /\ call' = [call EXCEPT ![a] = c]
        /\ dev_sems[unit(c)][a] = 1 /\ dev_sems' = [dev_sems EXCEPT ![unit(c)][a] = 0]
        /\ UNCHANGED <<created, i, v0, ret, done, buffer, reg, irq>>
    BY <1>2 DEF support_syscall_handler, goto, p_on_dev
  <2>2. /\ pc'[a] = "loop" /\ call'[a] = c /\ i[a] = 0 /\ v0[a] = Off
        /\ done[a] = <<>> /\ buffer[a] = <<>>
        /\ \A u \in Units : dev_sems'[u][a] = IF u = unit(c) THEN 0 ELSE dev_sems[u][a]
    BY <1>0, <2>1 DEF TypeOK, Served, Args, Outside
  <2>3. TypeOK'
    BY <1>0, <2>1 DEF TypeOK
  <2>4. \A b \in Asids : b # a => Same(b)
    BY <1>0, <2>1 DEF TypeOK, Same
  <2>5. Args(a)'
    BY <1>2, <2>2 DEF Args, InCall, Outside
  <2>6. Locked(a)'
    BY <1>0, <2>1, <2>2 DEF Served, Locked
  <2>7. Waiting(a)' /\ Answered(a)'
    BY <1>0, <2>1, <2>2 DEF Served, Waiting, Answered
  <2>8. ~failed(a)'
    BY <2>1, <2>2 DEF failed
  <2>9. c.nr # "SYS5" => Printed(a, 0)'
    <3>1. c.nr # "SYS5" => 0 <= c.len
      BY <1>2, StringOf DEF bad_args
    <3> QED
      BY <2>1, <2>2, <3>1 DEF Printed
  <2>10. Writing(a)'
    BY <2>1, <2>2, <2>8, <2>9 DEF Writing
  <2>11. Reading(a)'
    BY <2>1, <2>2, SupportAssumption DEF Reading, Open
  <2>12. Served(a)'
    BY <2>5, <2>6, <2>7, <2>10, <2>11 DEF Served
  <2> QED
    BY <2>1, <2>2, <2>3, <2>4, <2>12, OneProcess
<1> QED
  BY <1>1, <1>2 DEF support_syscall_handler

(* The return from a call.                                                 *)
LEMMA LdstStep ==
  ASSUME IInv, NEW a \in Asids, LDST(a)
  PROVE  IInv'
<1>0. TypeOK /\ Served(a) /\ Off \in Registers
  BY CharsOf DEF IInv, Off, Registers
<1>1. /\ pc[a] = "return" /\ pc' = [pc EXCEPT ![a] = "user"]
      /\ call' = [call EXCEPT ![a] = NoCall] /\ i' = [i EXCEPT ![a] = 0]
      /\ v0' = [v0 EXCEPT ![a] = Off] /\ ret' = [ret EXCEPT ![a] = 0]
      /\ done' = [done EXCEPT ![a] = <<>>] /\ buffer' = [buffer EXCEPT ![a] = <<>>]
      /\ UNCHANGED <<created, dev_sems, reg, irq>>
  BY DEF LDST, goto
<1>2. TypeOK'
  <2>1. 0 \in 0..Max({MAXLEN, MaxLine}) /\ <<>> \in Seq(Chars)
    BY Counter
  <2>2. i' \in [Asids -> 0..Max({MAXLEN, MaxLine})]
    BY <1>0, <1>1, <2>1 DEF TypeOK
  <2>3. done' \in [Asids -> Seq(Chars)] /\ buffer' \in [Asids -> Seq(Chars)]
    BY <1>0, <1>1, <2>1 DEF TypeOK
  <2>4. v0' \in [Asids -> Registers] /\ ret' \in [Asids -> Int]
    BY <1>0, <1>1 DEF TypeOK
  <2>5. pc' \in [Asids -> {"none", "user", "loop", "blocked", "woken", "leave", "return", "dead"}]
    BY <1>0, <1>1 DEF TypeOK
  <2> QED
    BY <1>0, <1>1, <2>2, <2>3, <2>4, <2>5 DEF TypeOK
<1>3. \A b \in Asids : b # a => Same(b)
  BY <1>0, <1>1 DEF TypeOK, Same
<1>4. /\ pc'[a] = "user" /\ call'[a] = NoCall /\ i'[a] = 0 /\ v0'[a] = Off
      /\ done'[a] = <<>> /\ buffer'[a] = <<>>
  BY <1>0, <1>1 DEF TypeOK
<1>5. Answered(a)'
  BY <1>0, <1>1 DEF Served, Answered
<1>6. \A u \in Units : /\ dev_sems'[u][a] # 0
                      /\ reg'[u][a].status # BUSY /\ <<u, a>> \notin irq'
  BY <1>0, <1>1 DEF Served, Locked, Waiting
<1>7. Served(a)'
  BY <1>4, <1>5, <1>6, NoCallServed DEF Outside
<1> QED
  BY <1>1, <1>2, <1>3, <1>4, <1>7, OneProcess

(* The mutex is released, and the answer is ready.                         *)
LEMMA ReleaseStep ==
  ASSUME IInv, NEW a \in Asids, release(a)
  PROVE  IInv'
<1> DEFINE c == call[a]
           u0 == unit(call[a])
<1>0. TypeOK /\ Served(a)
  BY DEF IInv
<1>1. /\ pc[a] = "leave" /\ pc' = [pc EXCEPT ![a] = "return"]
      /\ dev_sems' = [dev_sems EXCEPT ![u0][a] = 1]
      /\ ret' = [ret EXCEPT ![a] = returned(a)]
      /\ UNCHANGED <<created, call, i, v0, done, buffer, reg, irq>>
  BY DEF release, goto, leave, v_on_dev
<1>2. c \in Calls /\ ~bad_args(c) /\ u0 \in Units /\ c # NoCall
  BY <1>0, <1>1, CallOf DEF Served, Args, InCall
<1>3. i[a] \in Nat /\ v0[a] \in Registers /\ reg[u0][a] \in Registers
  BY <1>0, <1>2, Counter DEF TypeOK
<1>4. v0[a].status \in 1..5 /\ reg[u0][a].status \in 1..5
  BY <1>3 DEF Registers, READY, BUSY, ERROR, OKCHARTRANS
<1>5. returned(a) \in Int /\ IF failed(a) THEN returned(a) < 0 ELSE returned(a) = i[a]
  BY <1>3, <1>4 DEF returned
<1>6. /\ pc'[a] = "return" /\ ret'[a] = returned(a)
      /\ \A u \in Units : dev_sems'[u][a] = IF u = u0 THEN 1 ELSE dev_sems[u][a]
  BY <1>0, <1>1, <1>2 DEF TypeOK
<1> HIDE DEF c, u0
<1>7. TypeOK'
  BY <1>0, <1>1, <1>2, <1>5 DEF TypeOK
<1>8. \A b \in Asids : b # a => Same(b)
  BY <1>0, <1>1, <1>2 DEF TypeOK, Same
<1>9. Args(a)'
  BY <1>0, <1>1, <1>6 DEF Served, Args, InCall, Outside
<1>10. Locked(a)'
  BY <1>0, <1>1, <1>6 DEF Served, Locked, u0
<1>11. Waiting(a)' /\ Answered(a)'
  BY <1>0, <1>1, <1>6 DEF Served, Waiting, Answered
<1>12. Writing(a)'
  <2>1. failed(a)' <=> failed(a)
    BY <1>1 DEF failed
  <2>2. \A k : Printed(a, k)' <=> Printed(a, k)
    BY <1>1 DEF Printed
  <2> QED
    BY <1>0, <1>1, <1>5, <1>6, <2>1, <2>2 DEF Served, Writing
<1>13. Reading(a)'
  <2>1. c.nr = "SYS5" => ~failed(a)
    BY <1>0, <1>1, <1>2, CallOf DEF failed, good, Served, Reading, c
  <2> QED
    BY <1>0, <1>1, <1>5, <1>6, <2>1 DEF Served, Reading, c
<1>14. Served(a)'
  BY <1>9, <1>10, <1>11, <1>12, <1>13 DEF Served
<1> QED
  BY <1>1, <1>6, <1>7, <1>8, <1>14, OneProcess

(* A command is written to the device of the call, and the process waits.  *)
LEMMA CommandStep ==
  ASSUME IInv, NEW a \in Asids, pc[a] = "loop", NEW char \in Chars,
         do_io(a, unit(call[a]), char), UNCHANGED <<created, locals, dev_sems, irq>>,
         call[a].nr # "SYS5" =>
           more_to_write(call[a], i[a]) /\ char = call[a].str[i[a] + 1]
  PROVE  IInv'
<1> DEFINE c == call[a]
           u0 == unit(call[a])
<1>0. TypeOK /\ Served(a)
  BY DEF IInv
<1>1. /\ pc' = [pc EXCEPT ![a] = "blocked"]
      /\ reg' = [reg EXCEPT ![u0][a] = [status |-> BUSY, char |-> char]]
      /\ UNCHANGED <<created, call, i, v0, ret, done, buffer, dev_sems, irq>>
  BY DEF do_io, goto, locals
<1>2. c \in Calls /\ ~bad_args(c) /\ u0 \in Units /\ c # NoCall
      /\ (u0 = "term_in" <=> c.nr = "SYS5")
  BY <1>0, CallOf DEF Served, Args, InCall
<1>3. /\ pc'[a] = "blocked"
      /\ \A u \in Units : reg'[u][a] = IF u = u0 THEN [status |-> BUSY, char |-> char]
                                        ELSE reg[u][a]
  BY <1>0, <1>1, <1>2 DEF TypeOK
<1>4. TypeOK'
  <2>1. [status |-> BUSY, char |-> char] \in Registers
    BY DEF Registers
  <2> QED
    BY <1>0, <1>1, <1>2, <2>1 DEF TypeOK
<1>5. \A b \in Asids : b # a => Same(b)
  BY <1>0, <1>1, <1>2 DEF TypeOK, Same
<1> HIDE DEF c, u0
<1>6. Args(a)' /\ Locked(a)'
  BY <1>0, <1>1, <1>3 DEF Served, Args, Locked, InCall, Outside
<1>7. \A u \in Units : reg[u][a].status # BUSY /\ <<u, a>> \notin irq
  BY <1>0 DEF Served, Waiting
<1>8. Waiting(a)'
  BY <1>1, <1>3, <1>7 DEF Waiting, u0
<1>9. Answered(a)'
  BY <1>0, <1>1, <1>3, <1>7 DEF Served, Answered, BUSY, ERROR, OKCHARTRANS
<1>10. Writing(a)'
  <2>1. failed(a)' <=> failed(a)
    BY <1>1 DEF failed
  <2>2. \A k : Printed(a, k)' <=> Printed(a, k)
    BY <1>1 DEF Printed
  <2>3. reg'[u0][a] = [status |-> BUSY, char |-> char] /\ BUSY # ERROR /\ BUSY # good(u0)
    BY <1>2, <1>3 DEF good, BUSY, ERROR, READY, OKCHARTRANS
  <2> QED
    BY <1>0, <1>1, <1>2, <1>3, <2>1, <2>2, <2>3 DEF Served, Writing, c, u0
<1>11. Reading(a)'
  <2>1. c.nr = "SYS5" => reg'["term_in"][a].status = BUSY /\ BUSY # OKCHARTRANS
    BY <1>2, <1>3 DEF BUSY, OKCHARTRANS
  <2> QED
    BY <1>0, <1>1, <1>3, <2>1 DEF Served, Reading, c
<1>12. Served(a)'
  BY <1>6, <1>8, <1>9, <1>10, <1>11 DEF Served
<1> QED
  BY <1>1, <1>3, <1>4, <1>5, <1>12, OneProcess

LEMMA NextCharStep ==
  ASSUME IInv, NEW a \in Asids, next_char(a)
  PROVE  IInv'
<1> DEFINE c == call[a]
<1>0. TypeOK /\ Served(a)
  BY DEF IInv
<1>1. pc[a] = "loop" /\ UNCHANGED <<created, locals, dev_sems, irq>>
  BY DEF next_char
<1>2. c \in Calls /\ ~bad_args(c) /\ c # NoCall /\ (unit(c) = "term_in" <=> c.nr = "SYS5")
  BY <1>0, <1>1, CallOf DEF Served, Args, InCall
<1>3. CASE c.nr = "SYS5" /\ do_io(a, "term_in", NULL)
  BY <1>1, <1>2, <1>3, CharsOf, CommandStep
<1>4. CASE c.nr # "SYS5" /\ more_to_write(c, i[a]) /\ do_io(a, unit(c), c.str[i[a] + 1])
  <2>1. Printed(a, i[a])
    BY <1>0, <1>1, <1>2, <1>4 DEF Served, Writing
  <2>2. i[a] \in Nat /\ i[a] <= c.len /\ \A n \in 1..i[a] : c.str[n] # EOS
    BY <1>0, <2>1, Counter DEF TypeOK, Printed
  <2>3. i[a] + 1 \in 1..Len(c.str) /\ c.str \in Seq(Chars)
    BY <1>2, <1>4, <2>2, LoopLimit, StringOf
  <2>4. c.str[i[a] + 1] \in Chars
    BY <2>3, ElementOfSeq
  <2> QED
    BY <1>1, <1>4, <2>4, CommandStep
<1>5. CASE c.nr # "SYS5" /\ ~more_to_write(c, i[a]) /\ goto(a, "leave") /\ UNCHANGED reg
  <2>1. pc' = [pc EXCEPT ![a] = "leave"] /\ UNCHANGED <<created, call, i, v0, ret, done, buffer, dev_sems, reg, irq>>
    BY <1>1, <1>5 DEF goto, locals
  <2>2. pc'[a] = "leave"
    BY <1>0, <2>1 DEF TypeOK
  <2>3. TypeOK'
    BY <1>0, <2>1 DEF TypeOK
  <2>4. \A b \in Asids : b # a => Same(b)
    BY <1>0, <2>1 DEF TypeOK, Same
  <2>5. Args(a)' /\ Locked(a)'
    BY <1>0, <1>1, <2>1, <2>2 DEF Served, Args, Locked, InCall, Outside
  <2>6. Waiting(a)' /\ Answered(a)'
    BY <1>0, <1>1, <2>1, <2>2 DEF Served, Waiting, Answered
  <2>7. Writing(a)'
    <3>1. failed(a)' <=> failed(a)
      BY <2>1 DEF failed
    <3>2. \A k : Printed(a, k)' <=> Printed(a, k)
      BY <2>1 DEF Printed
    <3> QED
      BY <1>0, <1>1, <1>2, <1>5, <2>1, <2>2, <3>1, <3>2 DEF Served, Writing
  <2>8. Reading(a)'
    BY <1>5, <2>1 DEF Reading
  <2>9. Served(a)'
    BY <2>5, <2>6, <2>7, <2>8 DEF Served
  <2> QED
    BY <1>1, <2>1, <2>2, <2>3, <2>4, <2>9, OneProcess
<1> QED
  BY <1>3, <1>4, <1>5 DEF next_char

(* DOIO has returned: the process stops after an error, or a newline.      *)
LEMMA CheckStep ==
  ASSUME IInv, NEW a \in Asids, check_status(a)
  PROVE  IInv'
<1> DEFINE c == call[a]
           l == IF failed(a) \/ last_read(a) THEN "leave" ELSE "loop"
<1>0. TypeOK /\ Served(a)
  BY DEF IInv
<1>1. /\ pc[a] = "woken" /\ pc' = [pc EXCEPT ![a] = l]
      /\ i' = IF failed(a) THEN i ELSE [i EXCEPT ![a] = @ + 1]
      /\ buffer' = IF failed(a) \/ c.nr # "SYS5" THEN buffer
                   ELSE [buffer EXCEPT ![a] = Append(@, v0[a].char)]
      /\ UNCHANGED <<created, call, v0, ret, done, dev_sems, reg, irq>>
  BY DEF check_status, goto, stored
<1>2. c \in Calls /\ ~bad_args(c) /\ c # NoCall /\ (unit(c) = "term_in" <=> c.nr = "SYS5")
  BY <1>0, <1>1, CallOf DEF Served, Args, InCall
<1>3. l \in {"leave", "loop"} /\ pc'[a] = l /\ pc' \in [Asids -> {"none", "user", "loop",
        "blocked", "woken", "leave", "return", "dead"}]
  BY <1>0, <1>1 DEF TypeOK
<1>4. i[a] \in Nat /\ v0[a].char \in Chars /\ buffer[a] \in Seq(Chars)
      /\ i'[a] = (IF failed(a) THEN i[a] ELSE i[a] + 1)
      /\ buffer'[a] = (IF failed(a) \/ c.nr # "SYS5" THEN buffer[a]
                      ELSE Append(buffer[a], v0[a].char))
  BY <1>0, <1>1, Counter DEF TypeOK, Registers
<1>5. failed(a)' <=> failed(a)
  BY <1>1 DEF failed
<1> HIDE DEF l
<1>6. ASSUME c.nr # "SYS5" PROVE Writing(a)' /\ (~failed(a) => i[a] + 1 <= MAXLEN)
  <2>1. more_to_write(c, i[a]) /\ Printed(a, IF failed(a) THEN i[a] ELSE i[a] + 1)
    BY <1>0, <1>1, <1>2, <1>6 DEF Served, Writing
  <2>2. \A k : Printed(a, k)' <=> Printed(a, k)
    BY <1>1 DEF Printed
  <2>3. l = IF failed(a) THEN "leave" ELSE "loop"
    BY <1>6 DEF l, last_read
  <2>4. c.len <= MAXLEN /\ c.len \in Int
    <3>1. ~(c.len > MAXLEN \/ c.len < 0)
      BY <1>2, <1>6, Zenon DEF bad_args
    <3> QED
      BY <1>2, <1>6, <3>1, StringOf, SupportAssumption
  <2>5. ~failed(a) => i[a] + 1 <= MAXLEN
    BY <1>4, <2>1, <2>4, SupportAssumption DEF Printed
  <2> QED
    BY <1>1, <1>3, <1>4, <1>5, <2>1, <2>2, <2>3, <2>5 DEF Writing
<1>7. ASSUME c.nr = "SYS5" PROVE Reading(a)' /\ i[a] + 1 <= MaxLine
  <2> DEFINE b == buffer[a]
             x == v0[a].char
             n == Len(buffer[a])
  <2>1. /\ i[a] = n /\ Open(b) /\ v0[a].status = OKCHARTRANS /\ done[a] = Append(b, x)
        /\ x # Newline => n + 1 < MaxLine
    BY <1>0, <1>1, <1>2, <1>7 DEF Served, Reading
  <2>2. ~failed(a)
    BY <1>2, <1>7, <2>1 DEF failed, good
  <2>3. l = IF x = Newline THEN "leave" ELSE "loop"
    BY <1>7, <2>2 DEF l, last_read
  <2>4. i'[a] = n + 1 /\ buffer'[a] = Append(b, x) /\ done'[a] = Append(b, x)
    BY <1>1, <1>4, <1>7, <2>1, <2>2
  <2>5. b \in Seq(Chars) /\ x \in Chars /\ n \in Nat /\ MaxLine \in Nat
    BY <1>4, SupportAssumption
  <2> DEFINE L == Append(b, x)
  <2>6. Len(L) = n + 1 /\ L[n + 1] = x /\ \A m \in 1..n : L[m] = b[m]
    BY <2>5, AppendProperties
  <2> HIDE DEF b, x, n, L
  <2>7. n < MaxLine /\ \A m \in 1..n : b[m] # Newline
    BY <2>1 DEF Open, b, n
  <2>8. i'[a] = n + 1 /\ buffer'[a] = L /\ done'[a] = L /\ call' = call
    BY <1>1, <2>4 DEF L, b, x, n
  <2>9. ASSUME x = Newline PROVE Reading(a)'
    <3>1. n + 1 \in 1..MaxLine /\ \A m \in 1..((n + 1) - 1) : L[m] # Newline
      BY <2>5, <2>6, <2>7
    <3>2. pc'[a] = "leave" /\ v0'[a].status = OKCHARTRANS
      BY <1>1, <1>3, <2>1, <2>3, <2>9
    <3> QED
      BY <2>6, <2>8, <2>9, <3>1, <3>2 DEF Reading
  <2>10. ASSUME x # Newline PROVE Reading(a)'
    <3>1. Open(L)
      BY <2>1, <2>5, <2>6, <2>7, <2>10 DEF Open
    <3>2. pc'[a] = "loop"
      BY <1>3, <2>3, <2>10
    <3> QED
      BY <2>6, <2>8, <3>1, <3>2 DEF Reading
  <2>11. i[a] + 1 <= MaxLine
    BY <2>1, <2>5, <2>7 DEF n
  <2> QED
    BY <2>9, <2>10, <2>11
<1>8. i'[a] \in 0..Max({MAXLEN, MaxLine})
  <2>1. failed(a) => i'[a] \in 0..Max({MAXLEN, MaxLine})
    BY <1>0, <1>4 DEF TypeOK
  <2>2. ~failed(a) => i'[a] \in Nat /\ (i'[a] <= MAXLEN \/ i'[a] <= MaxLine)
    BY <1>4, <1>6, <1>7
  <2> QED
    BY <2>1, <2>2, Counter
<1>9. TypeOK'
  <2>1. i' \in [Asids -> 0..Max({MAXLEN, MaxLine})]
    BY <1>0, <1>1, <1>8 DEF TypeOK
  <2>2. Append(buffer[a], v0[a].char) \in Seq(Chars)
    BY <1>4, AppendProperties
  <2>3. buffer' \in [Asids -> Seq(Chars)]
    BY <1>0, <1>1, <2>2 DEF TypeOK
  <2> QED
    BY <1>0, <1>1, <1>3, <2>1, <2>3 DEF TypeOK
<1>10. \A b \in Asids : b # a => Same(b)
  BY <1>0, <1>1 DEF TypeOK, Same
<1>11. Args(a)' /\ Locked(a)'
  BY <1>0, <1>1, <1>3 DEF Served, Args, Locked, InCall, Outside
<1>12. Waiting(a)' /\ Answered(a)'
  BY <1>0, <1>1, <1>3 DEF Served, Waiting, Answered
<1>13. Writing(a)' /\ Reading(a)'
  <2>1. c.nr # "SYS5" => Reading(a)'
    BY <1>1 DEF Reading
  <2>2. c.nr = "SYS5" => Writing(a)'
    BY <1>1 DEF Writing
  <2> QED
    BY <1>6, <1>7, <2>1, <2>2
<1>14. Served(a)'
  BY <1>11, <1>12, <1>13 DEF Served
<1> QED
  BY <1>1, <1>3, <1>9, <1>10, <1>14, OneProcess

(* V of the device's semaphore, and the acknowledgement.                   *)
LEMMA ServeStep ==
  ASSUME IInv, NEW a \in Asids, NEW u \in Units, <<u, a>> \in irq, serve(u, a),
         u = "term_in" => reg[u][a].status = OKCHARTRANS
  PROVE  IInv'
<1> DEFINE c == call[a]
           r == reg[u][a]
<1>0. TypeOK /\ Served(a)
  BY DEF IInv
<1>1. /\ pc' = [pc EXCEPT ![a] = "woken"] /\ v0' = [v0 EXCEPT ![a] = r]
      /\ reg' = [reg EXCEPT ![u][a] = Off] /\ irq' = irq \ {<<u, a>>}
      /\ UNCHANGED <<created, call, i, ret, dev_sems, done, buffer>>
  BY DEF serve, ack, goto
<1>2. /\ pc[a] = "blocked" /\ unit(c) = u /\ r.status \in {good(u), ERROR}
      /\ \A w \in Units : w # u => reg[w][a].status # BUSY /\ <<w, a>> \notin irq
  BY <1>0 DEF Served, Waiting, Answered
<1>3. c \in Calls /\ ~bad_args(c) /\ c # NoCall /\ (u = "term_in" <=> c.nr = "SYS5")
  BY <1>0, <1>2, CallOf DEF Served, Args, InCall
<1>4. /\ pc'[a] = "woken" /\ v0'[a] = r
      /\ \A w \in Units : reg'[w][a] = IF w = u THEN Off ELSE reg[w][a]
      /\ r \in Registers
  BY <1>0, <1>1 DEF TypeOK
<1>5. TypeOK'
  <2>1. Off \in Registers
    BY CharsOf DEF Off, Registers
  <2>2. reg' \in [Units -> [Asids -> Registers]] /\ v0' \in [Asids -> Registers]
    BY <1>0, <1>1, <1>4, <2>1 DEF TypeOK
  <2> QED
    BY <1>0, <1>1, <2>2 DEF TypeOK
<1>6. \A b \in Asids : b # a => Same(b)
  BY <1>0, <1>1 DEF TypeOK, Same
<1> HIDE DEF c, r
<1>7. Args(a)' /\ Locked(a)'
  BY <1>0, <1>1, <1>2, <1>4 DEF Served, Args, Locked, InCall, Outside
<1>8. Waiting(a)'
  BY <1>1, <1>2, <1>4 DEF Waiting, Off, READY, BUSY
<1>9. Answered(a)'
  BY <1>0, <1>1, <1>4 DEF Served, Answered, Off, READY, ERROR, OKCHARTRANS
<1>10. Writing(a)'
  <2> SUFFICES ASSUME c.nr # "SYS5" PROVE Writing(a)'
    BY <1>1 DEF Writing, c
  <2>1. \A k : Printed(a, k)' <=> Printed(a, k)
    BY <1>1 DEF Printed
  <2>2. /\ more_to_write(c, i[a])
        /\ r.status = ERROR => Printed(a, i[a])
        /\ r.status = good(u) => Printed(a, i[a] + 1)
    BY <1>0, <1>2, <1>3 DEF Served, Writing, c, r
  <2>3. failed(a)' <=> r.status = ERROR
    <3>1. failed(a)' <=> r # Off /\ r.status # good(u)
      BY <1>1, <1>2, <1>4 DEF failed, c
    <3>2. r.status = ERROR => r # Off
      BY DEF Off, READY, ERROR
    <3>3. good(u) # ERROR
      BY DEF good, READY, OKCHARTRANS, ERROR
    <3> QED
      BY <1>2, <3>1, <3>2, <3>3
  <2> QED
    BY <1>1, <1>2, <1>4, <2>1, <2>2, <2>3 DEF Writing, c
<1>11. Reading(a)'
  <2> SUFFICES ASSUME c.nr = "SYS5" PROVE Reading(a)'
    BY <1>1 DEF Reading, c
  <2>1. r.status = OKCHARTRANS /\ u = "term_in"
    BY <1>3 DEF r
  <2> QED
    BY <1>0, <1>1, <1>2, <1>3, <1>4, <2>1 DEF Served, Reading, c, r
<1>12. Served(a)'
  BY <1>7, <1>8, <1>9, <1>10, <1>11 DEF Served
<1> QED
  BY <1>1, <1>2, <1>4, <1>5, <1>6, <1>12, OneProcess

(* A device that works answers the process that waits for it.              *)
LEMMA AnswerStep ==
  ASSUME IInv, NEW a \in Asids, NEW u \in Units, NEW status, NEW char, NEW chars,
         answer(u, a, status, char, chars), char \in Chars,
         \/ status = ERROR /\ chars = <<>>
         \/ status = good(u) /\ chars = <<char>>,
         u # "term_in" => char = reg[u][a].char,
         u = "term_in" /\ status # ERROR /\ Len(done[a]) + 1 >= MaxLine => char = Newline
  PROVE  IInv'
<1> DEFINE c == call[a]
           r == [status |-> status, char |-> char]
<1>0. TypeOK /\ Served(a)
  BY DEF IInv
<1>1. /\ reg[u][a].status = BUSY /\ reg' = [reg EXCEPT ![u][a] = r]
      /\ irq' = irq \union {<<u, a>>} /\ done' = [done EXCEPT ![a] = @ \o chars]
      /\ UNCHANGED <<created, pc, call, i, v0, ret, dev_sems, buffer>>
  BY DEF answer
<1>2. pc[a] = "blocked" /\ unit(c) = u
  BY <1>0, <1>1 DEF Served, Waiting
<1>3. c \in Calls /\ ~bad_args(c) /\ c # NoCall /\ (u = "term_in" <=> c.nr = "SYS5")
  BY <1>0, <1>2, CallOf DEF Served, Args, InCall
<1>4. /\ status \in {good(u), ERROR} /\ status # BUSY /\ r \in Registers
      /\ good(u) # ERROR /\ good(u) # BUSY /\ ERROR # BUSY
  BY DEF good, ERROR, READY, OKCHARTRANS, BUSY, Registers
<1>5. chars \in Seq(Chars) /\ done[a] \in Seq(Chars)
  <2>1. <<>> \in Seq(Chars) /\ <<char>> \in Seq(Chars)
    OBVIOUS
  <2> QED
    BY <1>0, <2>1 DEF TypeOK
<1>6. /\ \A w \in Units : reg'[w][a] = IF w = u THEN r ELSE reg[w][a]
      /\ done'[a] = done[a] \o chars
  BY <1>0, <1>1 DEF TypeOK
<1>7. TypeOK'
  <2>1. done[a] \o chars \in Seq(Chars)
    BY <1>5, ConcatProperties
  <2>2. done' \in [Asids -> Seq(Chars)]
    BY <1>0, <1>1, <2>1 DEF TypeOK
  <2>3. reg' \in [Units -> [Asids -> Registers]] /\ irq' \subseteq Units \X Asids
    BY <1>0, <1>1, <1>4 DEF TypeOK
  <2> QED
    BY <1>0, <1>1, <2>2, <2>3 DEF TypeOK
<1>8. \A b \in Asids : b # a => Same(b)
  BY <1>0, <1>1 DEF TypeOK, Same
<1> HIDE DEF c
<1>9. Args(a)' /\ Locked(a)'
  BY <1>0, <1>1, <1>2 DEF Served, Args, Locked, InCall, Outside
<1>10. Waiting(a)'
  BY <1>0, <1>1, <1>2, <1>6 DEF Served, Waiting, c
<1>11. Answered(a)'
  BY <1>0, <1>1, <1>4, <1>6 DEF Served, Answered
<1>12. ASSUME status = ERROR, chars = <<>> PROVE Served(a)'
  <2>1. done'[a] = done[a]
    BY <1>5, <1>6, <1>12, ConcatEmptySeq
  <2>2. Writing(a)'
    <3> SUFFICES ASSUME c.nr # "SYS5" PROVE Writing(a)'
      BY <1>1 DEF Writing, c
    <3>1. \A k : Printed(a, k)' <=> Printed(a, k)
      BY <1>1, <2>1 DEF Printed
    <3>2. failed(a)' <=> failed(a)
      BY <1>1 DEF failed
    <3>3. reg'[u][a].status = ERROR
      BY <1>6, <1>12
    <3>4. more_to_write(c, i[a]) /\ ~failed(a) /\ Printed(a, i[a])
      BY <1>0, <1>1, <1>2, <1>3 DEF Served, Writing, c
    <3> QED
      BY <1>1, <1>2, <1>4, <3>1, <3>2, <3>3, <3>4 DEF Writing, c
  <2>3. Reading(a)'
    <3> SUFFICES ASSUME c.nr = "SYS5" PROVE Reading(a)'
      BY <1>1 DEF Reading, c
    <3>1. reg'["term_in"][a].status = ERROR /\ ERROR # OKCHARTRANS
      BY <1>3, <1>6, <1>12 DEF ERROR, OKCHARTRANS
    <3> QED
      BY <1>0, <1>1, <1>2, <1>3, <1>4, <3>1 DEF Served, Reading, c
  <2> QED
    BY <1>9, <1>10, <1>11, <2>2, <2>3 DEF Served
<1>13. ASSUME status = good(u), chars = <<char>> PROVE Served(a)'
  <2> DEFINE d == done[a]
             n == Len(done[a])
             L == done[a] \o <<char>>
  <2>1. /\ d \in Seq(Chars) /\ n \in Nat /\ done'[a] = L
        /\ Len(L) = n + 1 /\ L[n + 1] = char /\ \A m \in 1..n : L[m] = d[m]
        /\ L = Append(d, char)
    <3>1. L = Append(d, char)
      BY <1>5, AppendIsConcat
    <3> QED
      BY <1>5, <1>6, <1>13, <3>1, AppendProperties
  <2> HIDE DEF d, n, L
  <2>2. Writing(a)'
    <3> SUFFICES ASSUME c.nr # "SYS5" PROVE Writing(a)'
      BY <1>1 DEF Writing, c
    <3>1. /\ more_to_write(c, i[a]) /\ ~failed(a) /\ Printed(a, i[a])
          /\ char = c.str[i[a] + 1]
      BY <1>0, <1>1, <1>2, <1>3 DEF Served, Writing, c
    <3>2. n = i[a] /\ \A m \in 1..n : d[m] = c.str[m] /\ c.str[m] # EOS
      BY <3>1 DEF Printed, n, d, c
    <3>3. n < c.len /\ c.str[n + 1] # EOS /\ c.len \in Int
      BY <1>3, <3>1, <3>2, StringOf DEF more_to_write
    <3>4. \A m \in 1..(n + 1) : L[m] = c.str[m] /\ c.str[m] # EOS
      <4> TAKE m \in 1..(n + 1)
      <4>1. m = n + 1 \/ m \in 1..n
        BY <2>1
      <4> QED
        BY <2>1, <3>1, <3>2, <3>3, <4>1
    <3>5. Printed(a, i[a] + 1)'
      <4>1. n + 1 <= c.len
        BY <2>1, <3>3
      <4>2. call'[a] = c /\ done'[a] = L /\ Len(L) = n + 1 /\ i'[a] = n
        BY <1>1, <2>1, <3>2 DEF c
      <4> QED
        BY <3>4, <4>1, <4>2 DEF Printed
    <3>6. failed(a)' <=> failed(a)
      BY <1>1 DEF failed
    <3>7. reg'[u][a].status = good(u)
      BY <1>6, <1>13
    <3> QED
      BY <1>1, <1>2, <1>4, <3>1, <3>2, <3>5, <3>6, <3>7 DEF Writing, c
  <2>3. Reading(a)'
    <3> SUFFICES ASSUME c.nr = "SYS5" PROVE Reading(a)'
      BY <1>1 DEF Reading, c
    <3>1. /\ i[a] = Len(buffer[a]) /\ Open(buffer[a]) /\ d = buffer[a]
      BY <1>0, <1>1, <1>2, <1>3 DEF Served, Reading, c, d
    <3>2. /\ reg'["term_in"][a] = r /\ r.status = OKCHARTRANS /\ OKCHARTRANS # BUSY
      BY <1>3, <1>6, <1>13 DEF good, OKCHARTRANS, BUSY
    <3>3. char # Newline => n + 1 < MaxLine
      BY <1>3, <1>4, <1>13, <2>1, SupportAssumption DEF n
    <3> QED
      BY <1>1, <1>2, <2>1, <3>1, <3>2, <3>3 DEF Reading, n, d
  <2> QED
    BY <1>9, <1>10, <1>11, <2>2, <2>3 DEF Served
<1>14. Served(a)'
  BY <1>12, <1>13
<1>15. pc'[a] # "none" /\ pc[a] # "none"
  BY <1>1, <1>2
<1> QED
  BY <1>1, <1>7, <1>8, <1>14, <1>15, OneProcess

LEMMA DeviceStep ==
  ASSUME IInv, NEW a \in Asids, NEW u \in Units, device(u, a)
  PROVE  IInv'
<1>1. reg[u][a].char \in Chars
  BY DEF IInv, TypeOK, Registers
<1>2. CASE u # "term_in" /\ answer(u, a, good(u), reg[u][a].char, <<reg[u][a].char>>)
  BY <1>1, <1>2, AnswerStep
<1>3. ASSUME u = "term_in", NEW ch \in Typed \union {Newline},
             Len(done[a]) + 1 >= MaxLine => ch = Newline,
             answer(u, a, OKCHARTRANS, ch, <<ch>>)
      PROVE  IInv'
  <2>1. good(u) = OKCHARTRANS /\ ch \in Chars
    BY <1>3, CharsOf DEF good
  <2> QED
    BY <1>3, <2>1, AnswerStep
<1>4. CASE answer(u, a, ERROR, reg[u][a].char, <<>>)
  BY <1>1, <1>4, AnswerStep
<1> QED
  BY <1>2, <1>3, <1>4 DEF device

(* Whatever the bitmap, the handlers serve a device that has answered.     *)
LEMMA InterruptStep ==
  ASSUME IInv, handle_interrupts
  PROVE  IInv'
<1>1. CASE generic_interrupt_handler
  <2>1. interrupting(6) \in Asids /\ <<"printer", interrupting(6)>> \in irq
    BY <1>1, Interrupting DEF generic_interrupt_handler, Line
  <2> QED
    BY <1>1, <2>1, ServeStep DEF generic_interrupt_handler, Units
<1>2. CASE terminal_interrupt
  <2> DEFINE a == interrupting(7)
  <2>1. a \in Asids
    BY <1>2, Interrupting DEF terminal_interrupt
  <2>2. PICK u \in {"term_out", "term_in"} : reg[u][a].status = OKCHARTRANS /\ serve(u, a)
    BY <1>2 DEF terminal_interrupt
  <2> HIDE DEF a
  <2>3. u \in Units /\ <<u, a>> \in irq
    BY <2>1, <2>2 DEF IInv, Served, Answered, Units
  <2> QED
    BY <2>1, <2>2, <2>3, ServeStep
<1> QED
  BY <1>1, <1>2 DEF handle_interrupts

LEMMA StepLemma == IInv /\ [Next]_vars => IInv'
<1> SUFFICES ASSUME IInv, [Next]_vars PROVE IInv'
  OBVIOUS
<1>1. ASSUME NEW a \in Asids, support_level(a) PROVE IInv'
  BY <1>1, NextCharStep, CheckStep, ReleaseStep, LdstStep DEF support_level
<1>2. ASSUME NEW a \in Asids, NEW c \in Calls, support_syscall_handler(a, c) PROVE IInv'
  BY <1>2, CallStep
<1>3. ASSUME NEW a \in Asids, NEW u \in Units, device(u, a) PROVE IInv'
  BY <1>3, DeviceStep
<1>4. CASE UNCHANGED vars
  <2>1. TypeOK' /\ Created'
    BY <1>4 DEF vars, IInv, TypeOK, Created
  <2>2. \A a \in Asids : Same(a)
    BY <1>4 DEF vars, Same
  <2>3. \A a \in Asids : Served(a)'
    BY <2>2, Untouched DEF IInv
  <2> QED
    BY <2>1, <2>3 DEF IInv
<1> QED
  BY <1>1, <1>2, <1>3, <1>4, EndStep, InterruptStep DEF Next

-----------------------------------------------------------------------------
(* The state of every process, its two devices and its call stays in IInv. *)
THEOREM Invariance == Spec => []IInv
<1> QED
  BY InitLemma, StepLemma, PTL DEF Spec

(* No counter of a loop, status or buffer leaves its range.                *)
THEOREM TypeCorrect == Spec => []TypeOK
<1>1. IInv => TypeOK
  BY DEF IInv
<1> QED
  BY <1>1, Invariance, PTL

(* A device is locked exactly while its process is in a call that uses it, *)
(* on every way out of SYS3, SYS4 and SYS5.                                *)
THEOREM LocksReleased == Spec => []LockedInside
<1>1. IInv => LockedInside
  BY DEF IInv, Served, Locked, LockedInside
<1> QED
  BY <1>1, Invariance, PTL

(* A process waits in DOIO exactly while its own device works for it or    *)
(* requests an interrupt: no answer is lost and none comes twice.          *)
THEOREM AnswersPending == Spec => []AnswerPending
<1>1. IInv => AnswerPending
  BY DEF IInv, Served, Waiting, AnswerPending
<1> QED
  BY <1>1, Invariance, PTL

(* SYS3 and SYS4 print what was asked and return its length, or print the  *)
(* beginning of it and return a negative number, for all strings.          *)
THEOREM WritesRight == Spec => []WritesWhatWasAsked
<1>1. IInv => WritesWhatWasAsked
  <2> SUFFICES ASSUME IInv, NEW a \in Asids, pc[a] = "return", call[a].nr # "SYS5"
               PROVE  \/ done[a] = Requested(call[a]) /\ ret[a] = Len(done[a])
                      \/ IsStrictPrefix(done[a], Requested(call[a])) /\ ret[a] < 0
    BY DEF WritesWhatWasAsked, Returned
  <2> DEFINE c == call[a]
             k == i[a]
             d == done[a]
             R == Requested(call[a])
  <2>1. c \in Calls /\ ~bad_args(c) /\ c # NoCall
    BY CallOf DEF IInv, Served, Args, InCall
  <2>2. /\ Printed(a, k) /\ (failed(a) <=> more_to_write(c, k))
        /\ IF failed(a) THEN ret[a] < 0 ELSE ret[a] = k
    BY <2>1 DEF IInv, Served, Writing
  <2>3. k \in Nat /\ d \in Seq(Chars)
    BY Counter DEF IInv, TypeOK
  <2>4. k <= c.len /\ Len(d) = k /\ \A n \in 1..k : d[n] = c.str[n] /\ c.str[n] # EOS
    BY <2>2 DEF Printed
  <2>5. /\ R \in Seq(Chars) /\ k <= Len(R) /\ \A n \in 1..Len(R) : R[n] = c.str[n]
        /\ more_to_write(c, k) <=> k < Len(R)
    BY <2>1, <2>3, <2>4, LoopLimit
  <2> HIDE DEF c, k, d, R
  <2>6. Len(R) \in Nat
    BY <2>5
  <2>7. \A n \in 1..k : d[n] = R[n]
    BY <2>3, <2>4, <2>5, <2>6
  <2>8. CASE ~failed(a)
    <3>1. Len(R) = k
      BY <2>2, <2>3, <2>5, <2>6, <2>8
    <3>2. d = R
      BY <2>3, <2>4, <2>5, <2>7, <3>1, SeqEqual
    <3> QED
      BY <2>2, <2>4, <2>8, <3>2 DEF c, d, R
  <2>9. CASE failed(a)
    <3>1. k < Len(R)
      BY <2>2, <2>5, <2>9
    <3>2. \A n \in 1..k : R[n] \in Chars /\ d[n] \in Chars
      BY <2>3, <2>4, <2>5, <2>6, <2>7, ElementOfSeq
    <3>3. /\ SubSeq(R, 1, k) \in Seq(Chars) /\ Len(SubSeq(R, 1, k)) = k
          /\ \A n \in 1..k : SubSeq(R, 1, k)[n] = R[n]
      BY <2>3, <3>2, SubSeqProperties
    <3>4. SubSeq(d, 1, k) = d
      BY <2>3, <2>4, SubSeqFull
    <3>5. d = SubSeq(R, 1, k)
      BY <2>3, <2>4, <2>7, <3>3, SeqEqual
    <3>6. IsStrictPrefix(d, R)
      BY <2>3, <2>4, <3>1, <3>4, <3>5 DEF IsStrictPrefix, IsPrefix
    <3> QED
      BY <2>2, <2>9, <3>6 DEF d, R
  <2> QED
    BY <2>8, <2>9
<1> QED
  BY <1>1, Invariance, PTL

(* SYS5 stores the whole line, up to its newline, and returns its length,  *)
(* for all lines that can be typed.                                        *)
THEOREM ReadsRight == Spec => []ReadsTheLine
<1>1. IInv => ReadsTheLine
  <2> SUFFICES ASSUME IInv, NEW a \in Asids, pc[a] = "return", call[a].nr = "SYS5"
               PROVE  /\ buffer[a] = done[a] /\ ret[a] = Len(done[a])
                      /\ Last(done[a]) = Newline
                      /\ Cardinality({k \in DOMAIN done[a] : done[a][k] = Newline}) = 1
    BY DEF ReadsTheLine, Returned
  <2> DEFINE b == buffer[a]
             n == Len(buffer[a])
             ends == {k \in DOMAIN done[a] : done[a][k] = Newline}
  <2>1. call[a] # NoCall
    BY CallOf DEF IInv, Served, Args, InCall
  <2>2. /\ done[a] = b /\ ret[a] = n /\ n \in 1..MaxLine /\ b[n] = Newline
        /\ \A m \in 1..(n - 1) : b[m] # Newline
    BY <2>1 DEF IInv, Served, Reading
  <2>3. b \in Seq(Chars) /\ DOMAIN b = 1..n
    BY LenProperties DEF IInv, TypeOK
  <2>4. ends = {n}
    <3>1. \A k \in 1..n : b[k] = Newline <=> k = n
      <4> HIDE DEF b, n
      <4> QED
        BY <2>2, SupportAssumption
    <3> QED
      BY <2>2, <2>3, <3>1
  <2>5. Cardinality(ends) = 1
    BY <2>4, FS_Singleton
  <2> QED
    BY <2>2, <2>5 DEF Last
<1> QED
  BY <1>1, Invariance, PTL
=============================================================================
