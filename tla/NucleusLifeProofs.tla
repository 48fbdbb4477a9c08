------------------------- MODULE NucleusLifeProofs -------------------------
(***************************************************************************)
(* What else the nucleus keeps, and under which use of its calls: the      *)
(* semaphores and the tree of processes for all Uses, the device           *)
(* semaphores as long as nobody kills a process that waits for a device    *)
(* ("killIO"), the scheduler as long as no call is used in one of the      *)
(* three ways that the code answers badly.  Then refinement and order:     *)
(* while the programs use the calls as their manual expects, every         *)
(* exception of Nucleus is one operation of ProcessLife, or none; and      *)
(* whatever they do, nobody gets ahead of a process that is on a queue.    *)
(***************************************************************************)
EXTENDS NucleusLife, NucleusProofs


(* Every exception, by what it does to processes and semaphores.           *)
Effect ==
  \/ Caller /\ \E c \in pcb_free : Creates(c)
  \/ Caller /\ \E p \in Procs, eh \in eh_act : Ends(p, eh)
  \/ Caller /\ busy' = busy /\ \E s \in UserSems : Does_P(s, "PASSEREN", "RENQUEUE")
  \/ Caller /\ busy' = busy /\ \E s \in UserSems : Does_V(s, "RENQUEUE")
  \/ Caller /\ busy' = busy /\ Does_P(Clock, "CLOCKWAIT", "RENQUEUE")
  \/ Caller /\ \E d \in Devs : /\ s_procq[d] = <<>> /\ busy' = busy \union {d}
                               /\ Does_P(d, "DOIO", "NOTHING")
  \/ Caller /\ \E eh \in {"CONTINUE", "RENQUEUE"} : Quiet(eh, NULL)
  \/ Caller /\ "createFull" \in Uses /\ Quiet("-1", NULL)
  \/ Caller /\ ("loneYield" \in Uses \/ Ready # {}) /\ Quiet("NOTHING", act_proc)
  \/ Ticks
  \/ \E d \in Devs : Answers(d)

LEMMA EffectLemma ==
  ASSUME IInv, Next
  PROVE  Start /\ Effect
<1>1. ASSUME NEW k \in Kinds, create_process(k[1], k[2]) PROVE Effect
  BY <1>1, CreateStep DEF Effect
<1>2. ASSUME NEW p \in Procs, term_process(p) PROVE Effect
  BY <1>2, TermStep DEF Effect
<1>3. ASSUME NEW s \in UserSems, PASSEREN(s) \/ VERHOGEN(s) PROVE Effect
  BY <1>3, SemStep DEF Effect
<1>4. ASSUME NEW d \in Devs, do_io(d) PROVE Effect
  BY <1>4, DoIOStep DEF Effect
<1>5. ASSUME wait_for_clock PROVE Effect
  BY <1>5, ClockStep DEF Effect
<1>6. ASSUME get_info \/ yield \/ time_slice PROVE Effect
  BY <1>6, PassStep DEF Effect
<1>7. ASSUME passup_or_die PROVE Effect
  <2>1. Caller /\ Ends(act_proc, "NOTHING")
    BY <1>7, PassupStep
  <2>2. act_proc \in Procs /\ "NOTHING" \in eh_act
    BY <2>1 DEF Caller, Alive, eh_act
  <2> QED
    BY <2>1, <2>2 DEF Effect
<1>8. ASSUME interval_timer PROVE Effect
  <2>1. Start
    BY <1>8, StartLemma DEF interval_timer
  <2> QED
    BY <1>8, <2>1, TickLemma DEF Effect
<1>9. ASSUME NEW d \in Devs, device_interrupt(d) PROVE Effect
  BY <1>9, DeviceStep DEF Effect
<1>10. Effect
  BY <1>1, <1>2, <1>3, <1>4, <1>5, <1>6, <1>7, <1>8, <1>9 DEF Next
<1>11. interruptible
  BY DEF Next, create_process, term_process, PASSEREN, VERHOGEN, do_io, wait_for_clock,
         get_info, yield, passup_or_die, time_slice, interval_timer, device_interrupt,
         handle_syscall, interruptible
<1> QED
  BY <1>10, <1>11, StartLemma

(* Point by point, what an effect does to the semaphores.                  *)
LEMMA BlocksFacts ==
  ASSUME Start, Caller, NEW s \in Sems, NEW call, Blocks(s, call)
  PROVE  /\ act_proc \in Procs /\ p_semAdd[act_proc] = NULL /\ s # NULL
         /\ \A p \in Procs : p_semAdd'[p] = IF p = act_proc THEN s ELSE p_semAdd[p]
         /\ \A p \in Procs : a0'[p] = IF p = act_proc THEN call ELSE a0[p]
         /\ \A t \in Sems : s_procq'[t] = IF t = s THEN insert_proc_q(s_procq[s], act_proc)
                                                  ELSE s_procq[t]
         /\ UNCHANGED <<tree, sem>>
BY SemsAssumption DEF Blocks, insert_blocked, Caller, Alive, Start, TypeRest

LEMMA WakesFacts ==
  ASSUME Start, NEW s \in Sems, NEW eh, Wakes(s, eh)
  PROVE  LET p == head_proc_q(s_procq[s])
         IN  /\ p \in Procs /\ p_semAdd[p] = s /\ s # NULL /\ s_procq[s] # <<>>
             /\ \A x \in Procs : p_semAdd'[x] = IF x = p THEN NULL ELSE p_semAdd[x]
             /\ \A x \in Procs : a0'[x] = IF x = p THEN NULL ELSE a0[x]
             /\ \A t \in Sems : s_procq'[t] = IF t = s THEN Tail(s_procq[s]) ELSE s_procq[t]
             /\ UNCHANGED <<tree, sem>>
BY SemsAssumption DEF Wakes, remove_blocked, Blocked, Start, TypeRest

LEMMA SetsFacts ==
  ASSUME Start, NEW s \in Sems, NEW v, NEW eh, Sets(s, v, eh)
  PROVE  /\ \A p \in Procs : p_semAdd[p] # s
         /\ \A t \in Sems : sem'[t] = IF t = s THEN v ELSE sem[t]
         /\ s_procq[s] = <<>> /\ UNCHANGED <<tree, p_semAdd, a0, s_procq>>
<1>1. s_procq[s] = <<>> /\ sem' = [sem EXCEPT ![s] = v] /\ UNCHANGED <<tree, asl>>
  BY DEF Sets
<1>2. \A p \in Procs : p_semAdd[p] # s
  BY <1>1, ElemsEmpty DEF Start, QueuesOK
<1> QED
  BY <1>1, <1>2 DEF asl, Start, TypeRest

LEMMA KillsFacts ==
  ASSUME Start, NEW K, NEW eh, Kills(K, eh)
  PROVE  /\ \A x \in Procs : p_semAdd'[x] = IF x \in K THEN NULL ELSE p_semAdd[x]
         /\ \A x \in Procs : a0'[x] = IF x \in K THEN NULL ELSE a0[x]
         /\ \A x \in Procs : p_parent'[x] = IF x \in K THEN NULL ELSE p_parent[x]
         /\ \A s \in Sems : s_procq'[s] = Keep(s_procq[s], Procs \ K)
         /\ pcb_free' = pcb_free \union K
         /\ UNCHANGED <<sem, busy>>
BY DEF Kills

(* The pseudo-clock.  Nothing does a V of sem_it but its interrupt.        *)
ClockZero == sem[Clock] = 0

LEMMA TicksFacts ==
  ASSUME Start, ClockZero, Ticks
  PROVE  /\ \A x \in Procs : p_semAdd'[x] = IF p_semAdd[x] = Clock THEN NULL ELSE p_semAdd[x]
         /\ \A x \in Procs : a0'[x] = IF p_semAdd[x] = Clock THEN NULL ELSE a0[x]
         /\ \A t \in Sems : s_procq'[t] = IF t = Clock THEN <<>> ELSE s_procq[t]
         /\ \A t \in Sems : sem'[t] = sem[t]
         /\ UNCHANGED <<tree, v0, busy>>
<1> DEFINE q == s_procq[Clock]
           k == Keep(q, Procs \ Elems(q))
<1>1. Clock \in Sems
  BY DEF Sems
<1>2. /\ q \in Seq(Procs) /\ woken_by_tick = q
      /\ \A x \in Procs : x \in Elems(q) <=> p_semAdd[x] = Clock
  BY <1>1 DEF ClockZero, woken_by_tick, Start, TypeRest, QueuesOK
<1>3. k = <<>>
  <2>1. k \in Seq(Procs) /\ Elems(k) = Elems(q) \intersect (Procs \ Elems(q))
    BY <1>2, KeepProperties
  <2> HIDE DEF k
  <2>2. Elems(k) = {}
    BY <2>1
  <2> QED
    BY <2>1, <2>2, RemoveProperties
<1> HIDE DEF k
<1>4. \A x \in Procs : p_semAdd'[x] = IF p_semAdd[x] = Clock THEN NULL ELSE p_semAdd[x]
  BY <1>2 DEF Ticks
<1>5. \A x \in Procs : a0'[x] = IF p_semAdd[x] = Clock THEN NULL ELSE a0[x]
  BY <1>2 DEF Ticks
<1>6. \A t \in Sems : s_procq'[t] = IF t = Clock THEN <<>> ELSE s_procq[t]
  BY <1>1, <1>2, <1>3 DEF Ticks, Start, TypeRest, k
<1>7. \A t \in Sems : sem'[t] = sem[t]
  BY <1>1 DEF Ticks, Start, TypeRest, ClockZero
<1> QED
  BY <1>4, <1>5, <1>6, <1>7 DEF Ticks

-----------------------------------------------------------------------------
(***************************************************************************)
(* The semaphores, for all Uses.  A process blocks in a P only at 0 and in *)
(* a V only at 1, and the value changes only while nobody waits.           *)
(***************************************************************************)
SemInv == WaitersMatchValue /\ ClockZero

LEMMA PorVLemma ==
  ASSUME Start, SemInv, NEW s \in Sems, NEW v \in {0, 1}, NEW call, NEW eh,
         Caller \/ sem[s] # v,
         (call = "VERHOGEN") <=> (v = 1), s = Clock => v = 0,
         \/ sem[s] = v /\ Blocks(s, call)
         \/ sem[s] # v /\ Wakes(s, eh)
         \/ sem[s] # v /\ Sets(s, v, eh)
  PROVE  SemInv'
<1>1. ASSUME sem[s] = v, Blocks(s, call) PROVE SemInv'
  <2>1. /\ \A p \in Procs : p_semAdd'[p] = IF p = act_proc THEN s ELSE p_semAdd[p]
        /\ \A p \in Procs : a0'[p] = IF p = act_proc THEN call ELSE a0[p]
        /\ sem' = sem
    BY <1>1, BlocksFacts
  <2>2. WaitersMatchValue'
    BY <1>1, <2>1 DEF SemInv, WaitersMatchValue, Blocked
  <2> QED
    BY <2>1, <2>2 DEF SemInv, ClockZero
<1>2. ASSUME Wakes(s, eh) PROVE SemInv'
  <2>1. PICK q \in Procs : /\ \A x \in Procs : p_semAdd'[x] = IF x = q THEN NULL ELSE p_semAdd[x]
                           /\ \A x \in Procs : a0'[x] = IF x = q THEN NULL ELSE a0[x]
                           /\ sem' = sem
    BY <1>2, WakesFacts
  <2>2. WaitersMatchValue'
    BY <2>1 DEF SemInv, WaitersMatchValue, Blocked
  <2> QED
    BY <2>1, <2>2 DEF SemInv, ClockZero
<1>3. ASSUME sem[s] # v, Sets(s, v, eh) PROVE SemInv'
  <2>1. /\ \A p \in Procs : p_semAdd[p] # s
        /\ \A t \in Sems : sem'[t] = IF t = s THEN v ELSE sem[t]
        /\ UNCHANGED <<p_semAdd, a0>>
    BY <1>3, SetsFacts
  <2>2. p_semAdd \in [Procs -> Sems \union {NULL}] /\ Clock \in Sems
    BY DEF Start, TypeRest, Sems
  <2>3. WaitersMatchValue'
    BY <2>1, <2>2 DEF SemInv, WaitersMatchValue, Blocked
  <2>4. ClockZero'
    BY <2>1, <2>2 DEF SemInv, ClockZero
  <2> QED
    BY <2>3, <2>4 DEF SemInv
<1> QED
  BY <1>1, <1>2, <1>3

LEMMA SemInvStep ==
  ASSUME Start, SemInv, Effect
  PROVE  SemInv'
<1>1. \A s \in UserSems : s \in Sems /\ s # Clock
  BY SemsAssumption DEF Sems
<1>2. \A d \in Devs : d \in Sems /\ d # Clock
  BY SemsAssumption DEF Sems
<1>3. Clock \in Sems
  BY DEF Sems
<1>4. ASSUME Caller, NEW s \in Sems, NEW call \in {"PASSEREN", "DOIO", "CLOCKWAIT"}, NEW eh,
             Does_P(s, call, eh)
      PROVE  SemInv'
  BY <1>4, PorVLemma DEF Does_P
<1>5. ASSUME NEW s \in Sems, s # Clock, NEW eh, Does_V(s, eh), Caller \/ sem[s] = 0
      PROVE  SemInv'
  BY <1>5, PorVLemma DEF Does_V
<1>6. ASSUME UNCHANGED <<asl, sem>> PROVE SemInv'
  BY <1>6 DEF SemInv, WaitersMatchValue, ClockZero, Blocked, asl
<1>7. ASSUME NEW K, NEW eh, Kills(K, eh) PROVE SemInv'
  <2>1. /\ \A x \in Procs : p_semAdd'[x] = IF x \in K THEN NULL ELSE p_semAdd[x]
        /\ \A x \in Procs : a0'[x] = IF x \in K THEN NULL ELSE a0[x]
        /\ sem' = sem
    BY <1>7, KillsFacts
  <2> QED
    BY <2>1 DEF SemInv, WaitersMatchValue, ClockZero, Blocked
<1>8. ASSUME Ticks PROVE SemInv'
  <2>1. /\ \A x \in Procs : p_semAdd'[x] = IF p_semAdd[x] = Clock THEN NULL ELSE p_semAdd[x]
        /\ \A x \in Procs : a0'[x] = IF p_semAdd[x] = Clock THEN NULL ELSE a0[x]
        /\ \A t \in Sems : sem'[t] = sem[t]
    BY <1>8, TicksFacts DEF SemInv
  <2>2. p_semAdd \in [Procs -> Sems \union {NULL}]
    BY DEF Start, TypeRest
  <2> QED
    BY <1>3, <2>1, <2>2 DEF SemInv, WaitersMatchValue, ClockZero, Blocked
<1>9. ASSUME NEW d \in Devs, Answers(d) PROVE SemInv'
  BY <1>2, <1>5, <1>9 DEF Answers
<1>10. ASSUME NEW c \in pcb_free, Creates(c) PROVE SemInv'
  BY <1>6, <1>10 DEF Creates
<1>11. ASSUME NEW eh, NEW y, Quiet(eh, y) PROVE SemInv'
  BY <1>6, <1>11 DEF Quiet
<1>12. ASSUME NEW p \in Procs, NEW eh, Ends(p, eh) PROVE SemInv'
  BY <1>7, <1>12 DEF Ends
<1> QED
  BY <1>1, <1>2, <1>3, <1>4, <1>5, <1>8, <1>9, <1>10, <1>11, <1>12 DEF Effect

(* The pseudo-clock semaphore is 0 and the waiters of each semaphore all   *)
(* wait for the same.                                                      *)
LEMMA SemInvariance == Spec => []SemInv
<1>1. Init => SemInv
  <2> SUFFICES ASSUME Init PROVE SemInv
    OBVIOUS
  <2>1. Blocked = {} /\ sem[Clock] = 0
    BY DEF Init, Blocked
  <2> QED
    BY <2>1 DEF SemInv, WaitersMatchValue, ClockZero
<1>2. IInv /\ SemInv /\ [Next]_vars => SemInv'
  <2> SUFFICES ASSUME IInv, SemInv, [Next]_vars PROVE SemInv'
    OBVIOUS
  <2>1. CASE Next
    BY <2>1, EffectLemma, SemInvStep
  <2>2. CASE UNCHANGED vars
    BY <2>2 DEF vars, asl, SemInv, WaitersMatchValue, ClockZero, Blocked
  <2> QED
    BY <2>1, <2>2
<1> QED
  BY <1>1, <1>2, Invariance, PTL DEF Spec

(* No unit lies idle on a semaphore beside a process that waits for it: at *)
(* 0 all its waiters are blocked in a P and at 1 in a V (passeren and      *)
(* verhogen hand the unit over instead of counting).                       *)
THEOREM UnitsHandedOver == Spec => []WaitersMatchValue
<1>1. SemInv => WaitersMatchValue
  BY DEF SemInv
<1> QED
  BY <1>1, SemInvariance, PTL

(* A tick of the pseudo-clock leaves no process behind on sem_it, and      *)
(* nothing else takes a process from it but death.                         *)
THEOREM TicksWakeAll == Spec => TickWakesAll
<1>1. ASSUME IInv, SemInv, [Next]_vars
      PROVE  (\E p \in Procs : p_semAdd[p] = Clock /\ p_semAdd'[p] # Clock /\ p \notin pcb_free')
               => s_procq'[Clock] = <<>>
  <2> SUFFICES ASSUME NEW p \in Procs,
                      p_semAdd[p] = Clock, p_semAdd'[p] # Clock, p \notin pcb_free'
               PROVE  s_procq'[Clock] = <<>>
    OBVIOUS
  <2>1. Clock \in Sems /\ Clock # NULL /\ \A s \in UserSems \union Devs : s \in Sems /\ s # Clock
    BY SemsAssumption DEF Sems
  <2>2. Next /\ Start /\ Effect
    <3>1. Next
      BY <1>1 DEF vars, asl
    <3> QED
      BY <1>1, <3>1, EffectLemma
  <2>3. ~UNCHANGED asl
    BY DEF asl
  <2>4. ASSUME NEW s \in Sems, NEW call, Blocks(s, call), Caller PROVE FALSE
    BY <2>1, <2>2, <2>4, BlocksFacts
  <2>5. ASSUME NEW s \in Sems, NEW eh, Wakes(s, eh) PROVE s = Clock
    BY <2>2, <2>5, WakesFacts
  <2>6. ASSUME NEW s, NEW v, NEW eh, Sets(s, v, eh) PROVE FALSE
    BY <2>3, <2>6 DEF Sets
  <2>7. ASSUME NEW s \in Sems, s # Clock, NEW eh, Caller \/ sem[s] = 0 PROVE ~Does_V(s, eh)
    BY <2>4, <2>5, <2>6, <2>7 DEF Does_V
  <2>8. ASSUME NEW s \in Sems, s # Clock \/ sem[s] = 0, NEW call, NEW eh, Caller
        PROVE  ~Does_P(s, call, eh)
    BY <2>4, <2>5, <2>6, <2>8 DEF Does_P
  <2>9. sem[Clock] = 0
    BY <1>1 DEF SemInv, ClockZero
  <2>10. ASSUME NEW q, NEW eh PROVE ~Ends(q, eh)
    BY <2>2, KillsFacts DEF Ends
  <2>11. /\ \A eh, y : ~Quiet(eh, y)
         /\ \A c : ~Creates(c)
    BY <2>3 DEF Quiet, Creates
  <2>12. ASSUME NEW d \in Devs PROVE ~Answers(d)
    BY <2>1, <2>7 DEF Answers
  <2>13. Ticks
    BY <2>1, <2>2, <2>7, <2>8, <2>9, <2>10, <2>11, <2>12 DEF Effect
  <2> QED
    BY <1>1, <2>1, <2>2, <2>13, TicksFacts DEF SemInv
<1>2. IInv /\ SemInv /\ [Next]_vars =>
        [(\E p \in Procs : p_semAdd[p] = Clock /\ p_semAdd'[p] # Clock /\ p \notin pcb_free')
           => s_procq'[Clock] = <<>>]_vars
  BY <1>1
<1> QED
  BY <1>2, Invariance, SemInvariance, PTL DEF Spec, TickWakesAll

-----------------------------------------------------------------------------
(***************************************************************************)
(* The devices, as long as no process is killed while it waits for one:    *)
(* the semaphore of a device is 0, and one process waits for it while its  *)
(* interrupt is to come, and none otherwise.                               *)
(***************************************************************************)
DeviceInv ==
  \A d \in Devs : /\ sem[d] = 0
                  /\ d \in busy <=> s_procq[d] # <<>>
                  /\ Len(s_procq[d]) <= 1

(* StatusToItsWaiter, for one process and one step.                        *)
StatusRight(p) ==
  /\ v0'[p] # v0[p] /\ v0'[p] # NULL => p_semAdd[p] = v0'[p]
  /\ p_semAdd[p] \in Devs /\ p_semAdd'[p] # p_semAdd[p] /\ p \notin pcb_free'
       => p_semAdd'[p] = NULL /\ v0'[p] = p_semAdd[p]

LEMMA DeviceStays ==
  ASSUME DeviceInv, busy' = busy, \A d \in Devs : s_procq'[d] = s_procq[d] /\ sem'[d] = sem[d]
  PROVE  DeviceInv'
BY DEF DeviceInv

(* A P or a V of a semaphore that is no device's leaves the devices alone. *)
LEMMA OtherSemaphore ==
  ASSUME Start, DeviceInv, Caller, busy' = busy, NEW s \in Sems, s \notin Devs, NEW v, NEW call, NEW eh,
         Blocks(s, call) \/ Wakes(s, eh) \/ Sets(s, v, eh)
  PROVE  DeviceInv' /\ \A p \in Procs : StatusRight(p)
<1>1. \A d \in Devs : d \in Sems /\ d # NULL
  BY SemsAssumption DEF Sems
<1>2. ASSUME Blocks(s, call)
      PROVE  /\ \A d \in Devs : s_procq'[d] = s_procq[d] /\ sem'[d] = sem[d]
             /\ \A p \in Procs : p_semAdd[p] \in Devs => p_semAdd'[p] = p_semAdd[p]
  BY <1>1, <1>2, BlocksFacts
<1>3. ASSUME Wakes(s, eh)
      PROVE  /\ \A d \in Devs : s_procq'[d] = s_procq[d] /\ sem'[d] = sem[d]
             /\ \A p \in Procs : p_semAdd[p] \in Devs => p_semAdd'[p] = p_semAdd[p]
  BY <1>1, <1>3, WakesFacts
<1>4. ASSUME Sets(s, v, eh)
      PROVE  /\ \A d \in Devs : s_procq'[d] = s_procq[d] /\ sem'[d] = sem[d]
             /\ \A p \in Procs : p_semAdd[p] \in Devs => p_semAdd'[p] = p_semAdd[p]
  BY <1>1, <1>4, SetsFacts
<1>5. /\ \A d \in Devs : s_procq'[d] = s_procq[d] /\ sem'[d] = sem[d]
      /\ \A p \in Procs : p_semAdd[p] \in Devs => p_semAdd'[p] = p_semAdd[p]
  BY <1>2, <1>3, <1>4
<1>6. DeviceInv'
  BY <1>5, DeviceStays
<1> QED
  BY <1>5, <1>6 DEF StatusRight, Caller

LEMMA DoIOKeeps ==
  ASSUME Start, DeviceInv, Caller, NEW d \in Devs, s_procq[d] = <<>>, busy' = busy \union {d},
         Does_P(d, "DOIO", "NOTHING")
  PROVE  DeviceInv' /\ \A p \in Procs : StatusRight(p)
<1>1. \A e \in Devs : e \in Sems /\ e # NULL
  BY SemsAssumption DEF Sems
<1>2. Blocks(d, "DOIO")
  BY DEF DeviceInv, Does_P
<1>3. /\ act_proc \in Procs /\ p_semAdd[act_proc] = NULL
      /\ \A p \in Procs : p_semAdd'[p] = IF p = act_proc THEN d ELSE p_semAdd[p]
      /\ \A t \in Sems : s_procq'[t] = IF t = d THEN insert_proc_q(s_procq[d], act_proc)
                                               ELSE s_procq[t]
      /\ sem' = sem
  BY <1>1, <1>2, BlocksFacts
<1>4. s_procq'[d] # <<>> /\ Len(s_procq'[d]) = 1
  <2>1. s_procq'[d] = Append(<<>>, act_proc)
    BY <1>1, <1>3 DEF insert_proc_q
  <2> QED
    BY <1>3, <2>1, Len(<<>>) = 0
<1>5. \A e \in Devs : e # d => s_procq'[e] = s_procq[e]
  BY <1>1, <1>3
<1>6. DeviceInv'
  <2> SUFFICES ASSUME NEW e \in Devs
               PROVE  /\ sem'[e] = 0 /\ (e \in busy' <=> s_procq'[e] # <<>>)
                      /\ Len(s_procq'[e]) <= 1
    BY DEF DeviceInv
  <2>1. sem'[e] = 0
    BY <1>3 DEF DeviceInv
  <2>2. CASE e = d
    <3>1. d \in busy' /\ s_procq'[d] # <<>>
      BY <1>4
    <3>2. Len(s_procq'[d]) <= 1
      BY <1>4
    <3> QED
      BY <2>1, <2>2, <3>1, <3>2, Zenon
  <2>3. CASE e # d
    BY <1>5, <2>1, <2>3 DEF DeviceInv
  <2> QED
    BY <2>2, <2>3
<1>7. \A p \in Procs : StatusRight(p)
  BY <1>1, <1>3 DEF StatusRight, Caller
<1> QED
  BY <1>6, <1>7

(* The interrupt finds the one waiter.                                     *)
LEMMA AnswersFacts ==
  ASSUME Start, DeviceInv, NEW d \in Devs, Answers(d)
  PROVE  /\ Wakes(d, "CONTINUE") /\ s_procq[d] # <<>> /\ busy' = busy \ {d}
         /\ v0' = [v0 EXCEPT ![head_proc_q(s_procq[d])] = d]
<1>1. s_procq[d] # <<>> /\ sem[d] = 0
  BY DEF Answers, DeviceInv
<1>2. Wakes(d, "CONTINUE")
  BY <1>1 DEF Answers, Does_V, Sets
<1>3. head_proc_q(s_procq[d]) # NULL
  BY <1>2, ProcsAssumption DEF Wakes, Blocked
<1>4. verhogen_answer(d) = head_proc_q(s_procq[d])
  BY <1>1 DEF verhogen_answer
<1> QED
  BY <1>1, <1>2, <1>3, <1>4 DEF Answers

LEMMA AnswersKeeps ==
  ASSUME Start, DeviceInv, NEW d \in Devs, Answers(d)
  PROVE  DeviceInv' /\ \A p \in Procs : StatusRight(p)
<1>1. \A e \in Devs : e \in Sems /\ e # NULL
  BY SemsAssumption DEF Sems
<1> DEFINE h == head_proc_q(s_procq[d])
<1>2. /\ Wakes(d, "CONTINUE") /\ s_procq[d] # <<>> /\ busy' = busy \ {d}
      /\ v0' = [v0 EXCEPT ![h] = d]
  BY AnswersFacts
<1>3. /\ h \in Procs /\ p_semAdd[h] = d
      /\ \A x \in Procs : p_semAdd'[x] = IF x = h THEN NULL ELSE p_semAdd[x]
      /\ \A t \in Sems : s_procq'[t] = IF t = d THEN Tail(s_procq[d]) ELSE s_procq[t]
      /\ sem' = sem
  BY <1>1, <1>2, WakesFacts
<1>4. s_procq'[d] = <<>>
  <2>1. s_procq[d] \in Seq(Procs) /\ Len(s_procq[d]) <= 1 /\ s_procq'[d] = Tail(s_procq[d])
    BY <1>1, <1>3 DEF Start, TypeRest, DeviceInv
  <2> QED
    BY <1>2, <2>1
<1>5. \A e \in Devs : e # d => s_procq'[e] = s_procq[e]
  BY <1>1, <1>3
<1>6. DeviceInv'
  <2>1. Len(<<>>) = 0
    OBVIOUS
  <2> QED
    BY <1>2, <1>3, <1>4, <1>5, <2>1 DEF DeviceInv
<1> HIDE DEF h
<1>7. \A p \in Procs : v0'[p] = IF p = h THEN d ELSE v0[p]
  BY <1>2 DEF Start, TypeRest
<1>8. \A p \in Procs : StatusRight(p)
  BY <1>1, <1>3, <1>7 DEF StatusRight
<1> QED
  BY <1>6, <1>8

LEMMA EndsKeeps ==
  ASSUME Start, DeviceInv, "killIO" \notin Uses, Caller, NEW p \in Procs, NEW eh, Ends(p, eh)
  PROVE  DeviceInv' /\ \A x \in Procs : StatusRight(x)
<1> DEFINE K == Progeny(p)
<1>1. Kills(K, eh) /\ \A x \in K : p_semAdd[x] \notin Devs
  BY DEF Ends
<1> HIDE DEF K
<1>2. /\ \A x \in Procs : p_semAdd'[x] = IF x \in K THEN NULL ELSE p_semAdd[x]
      /\ \A s \in Sems : s_procq'[s] = Keep(s_procq[s], Procs \ K)
      /\ sem' = sem /\ busy' = busy
  BY <1>1, KillsFacts
<1>3. ASSUME NEW d \in Devs PROVE s_procq'[d] = s_procq[d]
  <2>1. /\ d \in Sems /\ s_procq[d] \in Seq(Procs)
        /\ \A x \in Procs : x \in Elems(s_procq[d]) <=> p_semAdd[x] = d
    BY DEF Sems, Start, TypeRest, QueuesOK
  <2>2. Elems(s_procq[d]) \subseteq Procs \ K
    BY <1>1, <2>1, ElemsType
  <2> QED
    BY <1>2, <2>1, <2>2, KeepAll
<1>4. DeviceInv'
  BY <1>2, <1>3, DeviceStays
<1> QED
  BY <1>1, <1>2, <1>4 DEF StatusRight, Caller

LEMMA DeviceInvStep ==
  ASSUME Start, DeviceInv, ClockZero, "killIO" \notin Uses, Effect
  PROVE  DeviceInv' /\ \A p \in Procs : StatusRight(p)
<1> DEFINE Goal == DeviceInv' /\ \A p \in Procs : StatusRight(p)
<1> HIDE DEF Goal
<1>1. ASSUME UNCHANGED <<asl, sem, busy>>, Caller PROVE Goal
  BY <1>1 DEF Goal, DeviceInv, StatusRight, Caller, asl
<1>2. ASSUME Caller, busy' = busy, NEW s \in Sems, s \notin Devs, NEW call, NEW eh,
             Does_P(s, call, eh) \/ Does_V(s, eh)
      PROVE  Goal
  BY <1>2, OtherSemaphore DEF Does_P, Does_V, Goal
<1>3. /\ \A s \in UserSems : s \in Sems /\ s \notin Devs
      /\ Clock \in Sems /\ Clock \notin Devs
  BY SemsAssumption DEF Sems
<1>4. ASSUME NEW d \in Devs, s_procq[d] = <<>>, busy' = busy \union {d}, Caller,
             Does_P(d, "DOIO", "NOTHING")
      PROVE  Goal
  BY <1>4, DoIOKeeps DEF Goal
<1>5. ASSUME NEW d \in Devs, Answers(d) PROVE Goal
  BY <1>5, AnswersKeeps DEF Goal
<1>6. ASSUME NEW p \in Procs, NEW eh, Caller, Ends(p, eh) PROVE Goal
  BY <1>6, EndsKeeps DEF Goal
<1>7. ASSUME Ticks PROVE Goal
  <2>1. /\ \A x \in Procs : p_semAdd'[x] = IF p_semAdd[x] = Clock THEN NULL ELSE p_semAdd[x]
        /\ \A t \in Sems : s_procq'[t] = IF t = Clock THEN <<>> ELSE s_procq[t]
        /\ \A t \in Sems : sem'[t] = sem[t]
        /\ v0' = v0 /\ busy' = busy
    BY <1>7, TicksFacts
  <2>2. \A d \in Devs : s_procq'[d] = s_procq[d] /\ sem'[d] = sem[d]
    BY <1>3, <2>1 DEF Sems
  <2>3. DeviceInv'
    BY <2>1, <2>2, DeviceStays
  <2> QED
    BY <1>3, <2>1, <2>3 DEF StatusRight, Goal
<1>8. ASSUME NEW c \in pcb_free, Caller, Creates(c) PROVE Goal
  BY <1>1, <1>8 DEF Creates
<1>9. ASSUME NEW eh, NEW y, Caller, Quiet(eh, y) PROVE Goal
  BY <1>1, <1>9 DEF Quiet
<1>10. Goal
  BY <1>2, <1>3, <1>4, <1>5, <1>6, <1>7, <1>8, <1>9 DEF Effect
<1> QED
  BY <1>10 DEF Goal

(* While nobody kills a process that waits for a device, DeviceInv holds   *)
(* between two exceptions.                                                 *)
LEMMA DeviceInvariance == "killIO" \notin Uses => (Spec => []DeviceInv)
<1> SUFFICES ASSUME "killIO" \notin Uses PROVE Spec => []DeviceInv
  OBVIOUS
<1>1. Init => DeviceInv
  <2> SUFFICES ASSUME Init, NEW d \in Devs
               PROVE  sem[d] = 0 /\ d \notin busy /\ s_procq[d] = <<>>
    BY Len(<<>>) = 0 DEF DeviceInv
  <2> QED
    BY DEF Init, Sems
<1>2. IInv /\ SemInv /\ DeviceInv /\ [Next]_vars => DeviceInv'
  <2> SUFFICES ASSUME IInv, SemInv, DeviceInv, [Next]_vars PROVE DeviceInv'
    OBVIOUS
  <2>1. CASE Next
    BY <2>1, EffectLemma, DeviceInvStep DEF SemInv
  <2>2. CASE UNCHANGED vars
    BY <2>2 DEF vars, asl, DeviceInv
  <2> QED
    BY <2>1, <2>2
<1> QED
  BY <1>1, <1>2, Invariance, SemInvariance, PTL DEF Spec

(* Between two exceptions no wake-up of a device or of the pseudo-clock is *)
(* remembered by a semaphore, and who waits for a device waits for an      *)
(* interrupt that is to come: do_io writes the command after its P.        *)
THEOREM NoWakeUpLost == "killIO" \notin Uses => (Spec => []WakeUpsPending)
<1> SUFFICES ASSUME "killIO" \notin Uses PROVE Spec => []WakeUpsPending
  OBVIOUS
<1>1. SemInv /\ DeviceInv => WakeUpsPending
  BY DEF SemInv, ClockZero, DeviceInv, WakeUpsPending
<1> QED
  BY <1>1, SemInvariance, DeviceInvariance, PTL

(* generic_interrupt_handler stores the status in the pcb of the process   *)
(* that waited for that device, and a DOIO is not answered without one.    *)
THEOREM StatusArrives == "killIO" \notin Uses => (Spec => StatusToItsWaiter)
<1> SUFFICES ASSUME "killIO" \notin Uses PROVE Spec => StatusToItsWaiter
  OBVIOUS
<1>1. ASSUME IInv, SemInv, DeviceInv, Next PROVE \A p \in Procs : StatusRight(p)
  BY <1>1, EffectLemma, DeviceInvStep DEF SemInv
<1>2. IInv /\ SemInv /\ DeviceInv /\ [Next]_vars =>
        [\A p \in Procs :
           /\ v0'[p] # v0[p] /\ v0'[p] # NULL => p_semAdd[p] = v0'[p]
           /\ p_semAdd[p] \in Devs /\ p_semAdd'[p] # p_semAdd[p] /\ p \notin pcb_free'
                => p_semAdd'[p] = NULL /\ v0'[p] = p_semAdd[p]]_vars
  BY <1>1 DEF StatusRight
<1> QED
  BY <1>2, Invariance, SemInvariance, DeviceInvariance, PTL DEF Spec, StatusToItsWaiter

-----------------------------------------------------------------------------
(***************************************************************************)
(* The scheduler, while the calls are used as their manual expects.        *)
(***************************************************************************)
(* After a handler that leaves the processes S, none of whom yielded.      *)
Covers(S) == After(S, NULL) /\ Alive' \subseteq S \union Blocked'
Scheduled == NoneLost /\ NeverPanics

LEMMA CoversLemma ==
  ASSUME NEW S, Covers(S), IInv'
  PROVE  Scheduled'
<1>1. machine' \in {"running", "waiting", "halted", "deadlock"}
  BY DEF Covers, After
<1>2. CASE machine' \in {"running", "waiting"}
  <2>1. S = Running' \union Ready'
    BY <1>2 DEF Covers, After
  <2> QED
    BY <1>2, <2>1 DEF Covers, Scheduled, NoneLost, NeverPanics
<1>3. CASE machine' \in {"halted", "deadlock"}
  <2>1. S = {} /\ Alive' \subseteq Blocked'
    BY <1>3 DEF Covers, After, Just
  <2>2. machine' # "deadlock"
    <3> SUFFICES ASSUME machine' = "deadlock" PROVE FALSE
      OBVIOUS
    <3>1. Cardinality(Blocked') = 0 /\ Cardinality(Alive') > 0
      BY DEF Covers, After, IInv, CountsExact
    <3>2. Alive' \subseteq Procs /\ Blocked' \subseteq Procs
      BY DEF Alive, Blocked
    <3>3. IsFiniteSet(Alive') /\ IsFiniteSet(Blocked')
      BY <3>2, ProcsAssumption, FS_Subset
    <3>4. Blocked' = {}
      BY <3>1, <3>3, FS_EmptySet
    <3>5. Alive' = {}
      BY <2>1, <3>4
    <3>6. Cardinality({}) = 0
      BY FS_EmptySet
    <3> QED
      BY <3>1, <3>5, <3>6
  <2> QED
    BY <1>3, <2>1, <2>2 DEF Scheduled, NoneLost, NeverPanics
<1> QED
  BY <1>1, <1>2, <1>3

LEMMA ResumesCovers ==
  ASSUME NEW eh, NEW rq, Resumes(eh, rq, NULL),
         Alive' \subseteq ReadyOf(rq) \union Kept_on(eh) \union Blocked', IInv'
  PROVE  Scheduled'
<1>1. Just(NULL) = {}
  BY DEF Just
<1>2. Covers(ReadyOf(rq) \union Kept_on(eh))
  BY <1>1 DEF Resumes, Covers
<1> QED
  BY <1>2, CoversLemma

(* Every process that is alive runs, is ready or is blocked.               *)
LEMMA WhereTheyAre ==
  ASSUME Start, NoneLost
  PROVE  /\ Alive \subseteq Just(act_proc) \union Ready \union Blocked
         /\ ReadyOf(ready_q) = Ready /\ Ready \intersect Just(act_proc) = {}
         /\ Kept_on("CONTINUE") = Just(act_proc) /\ Kept_on("RENQUEUE") = Just(act_proc)
BY DEF Start, NoneLost, Kept_on

LEMMA SemSchedules ==
  ASSUME Start, NoneLost, IInv', NEW s \in Sems, NEW v, NEW call,
         NEW eh \in {"CONTINUE", "RENQUEUE"},
         (Caller /\ Blocks(s, call)) \/ Wakes(s, eh) \/ Sets(s, v, eh)
  PROVE  Scheduled'
<1>1. ASSUME Caller, Blocks(s, call) PROVE Scheduled'
  <2>1. /\ act_proc \in Procs /\ s # NULL
        /\ \A p \in Procs : p_semAdd'[p] = IF p = act_proc THEN s ELSE p_semAdd[p]
        /\ UNCHANGED tree
    BY <1>1, BlocksFacts
  <2>2. Alive' = Alive /\ Blocked' = Blocked \union {act_proc}
    BY <2>1 DEF Alive, Blocked, tree
  <2>3. Just(act_proc) \subseteq Blocked'
    BY <2>2 DEF Just
  <2> QED
    BY <1>1, <2>2, <2>3, WhereTheyAre, ResumesCovers DEF Blocks
<1>2. ASSUME Wakes(s, eh) PROVE Scheduled'
  <2> DEFINE p == head_proc_q(s_procq[s])
             rq == enqueue_proc(ready_q, p)
  <2>1. /\ \A x \in Procs : p_semAdd'[x] = IF x = p THEN NULL ELSE p_semAdd[x]
        /\ UNCHANGED tree
    BY <1>2, WakesFacts
  <2>2. Resumes(eh, rq, NULL) /\ ReadyOf(rq) = Ready \union {p}
    BY <1>2 DEF Wakes
  <2> HIDE DEF p, rq
  <2>3. Alive' = Alive /\ Blocked' = Blocked \ {p}
    BY <2>1 DEF Alive, Blocked, tree
  <2> QED
    BY <2>2, <2>3, WhereTheyAre, ResumesCovers
<1>3. ASSUME Sets(s, v, eh) PROVE Scheduled'
  <2>1. Alive' = Alive /\ Blocked' = Blocked
    BY <1>3 DEF Sets, Alive, Blocked, tree, asl
  <2> QED
    BY <1>3, <2>1, WhereTheyAre, ResumesCovers DEF Sets
<1> QED
  BY <1>1, <1>2, <1>3

LEMMA ScheduledStep ==
  ASSUME Start, NoneLost, DeviceInv, ClockZero, Uses = {}, Effect, IInv'
  PROVE  Scheduled'
<1>1. /\ \A s \in UserSems \union Devs : s \in Sems
      /\ Clock \in Sems
  BY DEF Sems
<1>2. ASSUME Caller, NEW s \in Sems, NEW call, NEW eh \in {"CONTINUE", "RENQUEUE"},
             Does_P(s, call, eh) \/ Does_V(s, eh)
      PROVE  Scheduled'
  BY <1>2, SemSchedules DEF Does_P, Does_V
<1>3. ASSUME NEW d \in Devs, s_procq[d] = <<>>, busy' = busy \union {d}, Caller,
             Does_P(d, "DOIO", "NOTHING")
      PROVE  Scheduled'
  <2>1. Blocks(d, "DOIO")
    BY <1>3 DEF DeviceInv, Does_P
  <2> QED
    BY <1>1, <1>3, <2>1, SemSchedules
<1>4. ASSUME NEW d \in Devs, Answers(d) PROVE Scheduled'
  BY <1>1, <1>4, SemSchedules DEF Answers, Does_V
<1>5. ASSUME Caller, NEW p \in Procs, NEW eh, Ends(p, eh) PROVE Scheduled'
  <2> DEFINE K == Progeny(p)
             rq == ready_without(K)
  <2>1. /\ Kills(K, eh) /\ Resumes(eh, rq, NULL) /\ ReadyOf(rq) = Ready \ K
        /\ eh = (IF act_proc \in K THEN "NOTHING" ELSE "RENQUEUE")
    BY <1>5 DEF Ends, Kills
  <2> HIDE DEF K, rq
  <2>4. /\ \A x \in Procs : p_semAdd'[x] = IF x \in K THEN NULL ELSE p_semAdd[x]
        /\ pcb_free' = pcb_free \union K
    BY <2>1, KillsFacts
  <2>2. Alive' = Alive \ K /\ Blocked' = Blocked \ K
    BY <2>4 DEF Alive, Blocked
  <2>3. Just(act_proc) \subseteq K \union Kept_on(eh)
    BY <2>1, WhereTheyAre DEF Just
  <2> QED
    BY <2>1, <2>2, <2>3, WhereTheyAre, ResumesCovers
<1>6. ASSUME Caller, NEW c \in pcb_free, Creates(c) PROVE Scheduled'
  <2> DEFINE rq == enqueue_proc(ready_q, c)
  <2>1. /\ Resumes("CONTINUE", rq, NULL) /\ ReadyOf(rq) = Ready \union {c}
        /\ pcb_free' = pcb_free \ {c} /\ p_semAdd' = p_semAdd
    BY <1>6 DEF Creates, asl
  <2> HIDE DEF rq
  <2>2. Alive' \subseteq Alive \union {c} /\ Blocked' = Blocked
    BY <2>1 DEF Alive, Blocked
  <2> QED
    BY <2>1, <2>2, WhereTheyAre, ResumesCovers
<1>7. ASSUME NEW eh \in {"CONTINUE", "RENQUEUE"}, Quiet(eh, NULL) PROVE Scheduled'
  <2>1. Alive' = Alive /\ Blocked' = Blocked
    BY <1>7 DEF Quiet, Alive, Blocked, tree, asl
  <2> QED
    BY <1>7, <2>1, WhereTheyAre, ResumesCovers DEF Quiet
<1>8. ASSUME Ready # {}, Caller, Quiet("NOTHING", act_proc) PROVE Scheduled'
  <2>1. Alive' = Alive /\ Blocked' = Blocked
    BY <1>8 DEF Quiet, Alive, Blocked, tree, asl
  <2>2. After(Ready \union Just(act_proc), act_proc)
    <3>1. ReadyOf(ready_q) \union Kept_on("NOTHING") \union Just(act_proc) = Ready \union Just(act_proc)
      BY WhereTheyAre DEF Kept_on
    <3> QED
      BY <1>8, <3>1 DEF Quiet, Resumes
  <2>3. machine' = "running" /\ Ready \union Just(act_proc) = Running' \union Ready'
    BY <1>8, <2>2, WhereTheyAre DEF After
  <2> QED
    BY <2>1, <2>3, WhereTheyAre DEF Scheduled, NoneLost, NeverPanics
<1>9. ASSUME Ticks PROVE Scheduled'
  <2> DEFINE W == Elems(woken_by_tick)
             rq == ready_with(woken_by_tick)
  <2>1. /\ Resumes("CONTINUE", rq, NULL) /\ ReadyOf(rq) = Ready \union W
        /\ p_semAdd' = [p \in Procs |-> IF p \in W THEN NULL ELSE p_semAdd[p]]
        /\ UNCHANGED tree
    BY <1>9 DEF Ticks
  <2> HIDE DEF W, rq
  <2>2. Alive' = Alive /\ Blocked' = Blocked \ W
    BY <2>1 DEF Alive, Blocked, tree
  <2> QED
    BY <2>1, <2>2, WhereTheyAre, ResumesCovers
<1> QED
  BY <1>1, <1>2, <1>3, <1>4, <1>5, <1>6, <1>7, <1>8, <1>9 DEF Effect

LEMMA ScheduledInvariance == Uses = {} => (Spec => []Scheduled)
<1> SUFFICES ASSUME Uses = {} PROVE Spec => []Scheduled
  OBVIOUS
<1>0. Spec => []DeviceInv
  BY DeviceInvariance
<1>1. Init => Scheduled
  <2> SUFFICES ASSUME Init PROVE Scheduled
    OBVIOUS
  <2>1. PICK init \in Procs : machine = "running" /\ act_proc = init /\ pcb_free = Procs \ {init}
    BY DEF Init
  <2> QED
    BY <2>1 DEF Scheduled, NoneLost, NeverPanics, Alive, Running
<1>2. IInv /\ IInv' /\ SemInv /\ DeviceInv /\ Scheduled /\ [Next]_vars => Scheduled'
  <2> SUFFICES ASSUME IInv, IInv', SemInv, DeviceInv, Scheduled, [Next]_vars PROVE Scheduled'
    OBVIOUS
  <2>1. CASE Next
    BY <2>1, EffectLemma, ScheduledStep DEF SemInv, Scheduled
  <2>2. CASE UNCHANGED vars
    BY <2>2 DEF vars, cpu, tree, asl, Scheduled, NoneLost, NeverPanics, Alive, Blocked,
       Running, Ready
  <2> QED
    BY <2>1, <2>2
<1> QED
  BY <1>0, <1>1, <1>2, Invariance, SemInvariance, PTL DEF Spec

(* No process is lost: the nucleus puts each one that is alive back where  *)
(* scheduler_next or a V will find it.  It needs all three conditions: at  *)
(* "createFull" nobody enqueues the caller; at "loneYield" the machine     *)
(* stops with the process in yielded_proc; after "killIO" a device         *)
(* semaphore is 1, and the next DOIO forgets the caller.                   *)
THEOREM NobodyLost == Uses = {} => (Spec => []NoneLost)
<1>1. Scheduled => NoneLost
  BY DEF Scheduled
<1> QED
  BY <1>1, ScheduledInvariance, PTL

(* None of the kernel's PANICs is reached, the one for a deadlock          *)
(* included: with processes alive and none that can go on, one of them is  *)
(* blocked, so that sb_procs is not 0.                                     *)
THEOREM NoPanic == Uses = {} => (Spec => []NeverPanics)
<1>1. Scheduled => NeverPanics
  BY DEF Scheduled
<1> QED
  BY <1>1, ScheduledInvariance, PTL

LEMMA WaitsStep ==
  ASSUME Start, "loneYield" \notin Uses, Effect
  PROVE  WaitsOnlyWhenNoneReady'
<1>1. ASSUME NEW eh, NEW rq, Resumes(eh, rq, NULL) PROVE WaitsOnlyWhenNoneReady'
  <2> DEFINE S == ReadyOf(rq) \union Kept_on(eh) \union Just(NULL)
  <2>1. After(S, NULL)
    BY <1>1 DEF Resumes
  <2> HIDE DEF S
  <2> QED
    BY <2>1 DEF After, Just, WaitsOnlyWhenNoneReady
<1>2. ASSUME Ready # {}, Quiet("NOTHING", act_proc) PROVE WaitsOnlyWhenNoneReady'
  <2>1. After(Ready \union Just(act_proc), act_proc)
    <3>1. ReadyOf(ready_q) \union Kept_on("NOTHING") \union Just(act_proc) = Ready \union Just(act_proc)
      BY DEF Kept_on, Start
    <3> QED
      BY <1>2, <3>1 DEF Quiet, Resumes
  <2>2. Ready \intersect Just(act_proc) = {}
    BY DEF Start
  <2> QED
    BY <1>2, <2>1, <2>2 DEF After, WaitsOnlyWhenNoneReady
<1>3. ASSUME NEW s, NEW call, NEW eh, Does_P(s, call, eh) \/ Does_V(s, eh)
      PROVE  WaitsOnlyWhenNoneReady'
  BY <1>1, <1>3 DEF Does_P, Does_V, Blocks, Wakes, Sets
<1>4. ASSUME NEW d, Answers(d) PROVE WaitsOnlyWhenNoneReady'
  BY <1>3, <1>4 DEF Answers
<1>5. ASSUME NEW p, NEW eh, Ends(p, eh) PROVE WaitsOnlyWhenNoneReady'
  BY <1>1, <1>5 DEF Ends, Kills
<1>6. ASSUME NEW c, Creates(c) PROVE WaitsOnlyWhenNoneReady'
  BY <1>1, <1>6 DEF Creates
<1>7. ASSUME NEW eh, Quiet(eh, NULL) PROVE WaitsOnlyWhenNoneReady'
  BY <1>1, <1>7 DEF Quiet
<1>8. ASSUME Ticks PROVE WaitsOnlyWhenNoneReady'
  BY <1>1, <1>8 DEF Ticks
<1> QED
  BY <1>2, <1>3, <1>4, <1>5, <1>6, <1>7, <1>8 DEF Effect

(* scheduler_next executes WAIT only with both ready queues empty, and     *)
(* nobody is on them during it.  A process that yields when no other is    *)
(* ready would be: wait puts it back on its queue and waits all the same.  *)
THEOREM WaitsForNobody == "loneYield" \notin Uses => (Spec => []WaitsOnlyWhenNoneReady)
<1> SUFFICES ASSUME "loneYield" \notin Uses PROVE Spec => []WaitsOnlyWhenNoneReady
  OBVIOUS
<1>1. Init => WaitsOnlyWhenNoneReady
  BY DEF Init, WaitsOnlyWhenNoneReady
<1>2. IInv /\ WaitsOnlyWhenNoneReady /\ [Next]_vars => WaitsOnlyWhenNoneReady'
  <2> SUFFICES ASSUME IInv, WaitsOnlyWhenNoneReady, [Next]_vars PROVE WaitsOnlyWhenNoneReady'
    OBVIOUS
  <2>1. CASE Next
    BY <2>1, EffectLemma, WaitsStep
  <2>2. CASE UNCHANGED vars
    BY <2>2 DEF vars, cpu, WaitsOnlyWhenNoneReady, Ready
  <2> QED
    BY <2>1, <2>2
<1> QED
  BY <1>1, <1>2, Invariance, PTL DEF Spec

-----------------------------------------------------------------------------
(***************************************************************************)
(* The tree of processes, for all Uses.                                    *)
(***************************************************************************)
(* The machine stops for good when the last process dies, and only then.   *)
Halts == machine = "halted" <=> Alive = {}

LEMMA HaltsLemma ==
  ASSUME NEW S, NEW y, After(S, y), IInv'
  PROVE  Halts'
<1>1. Alive' \subseteq Procs
  BY DEF Alive
<1>2. IsFiniteSet(Alive') /\ procs_count' = Cardinality(Alive')
  BY <1>1, ProcsAssumption, FS_Subset DEF IInv, CountsExact
<1>3. procs_count' = 0 <=> Alive' = {}
  BY <1>2, FS_EmptySet
<1>4. machine' = "running" => Alive' # {}
  BY DEF IInv, OnePlace, Running
<1> QED
  BY <1>3, <1>4 DEF After, Halts

LEMMA HaltsStep ==
  ASSUME Effect, IInv'
  PROVE  Halts'
<1>1. ASSUME NEW eh, NEW rq, NEW y, Resumes(eh, rq, y) PROVE Halts'
  BY <1>1, HaltsLemma DEF Resumes
<1>2. ASSUME NEW s, NEW call, NEW eh, Does_P(s, call, eh) \/ Does_V(s, eh) PROVE Halts'
  BY <1>1, <1>2 DEF Does_P, Does_V, Blocks, Wakes, Sets
<1>3. ASSUME NEW d, Answers(d) PROVE Halts'
  BY <1>2, <1>3 DEF Answers
<1>4. ASSUME NEW p, NEW eh, Ends(p, eh) PROVE Halts'
  BY <1>1, <1>4 DEF Ends, Kills
<1>5. ASSUME NEW c, Creates(c) PROVE Halts'
  BY <1>1, <1>5 DEF Creates
<1>6. ASSUME NEW eh, NEW y, Quiet(eh, y) PROVE Halts'
  BY <1>1, <1>6 DEF Quiet
<1>7. ASSUME Ticks PROVE Halts'
  BY <1>1, <1>7 DEF Ticks
<1> QED
  BY <1>2, <1>3, <1>4, <1>5, <1>6, <1>7 DEF Effect

(* D holds the children of its members, and Progeny(p) is the least such   *)
(* set that holds p; par stands for p_parent, now or after a step.         *)
Closed(D, par) == \A y \in Procs : par[y] \in D => y \in D
Family(p, par) ==
  LET Around == {D \in SUBSET Procs : p \in D /\ \A y \in Procs : par[y] \in D => y \in D}
  IN  {x \in Procs : \A D \in Around : x \in D}

LEMMA FamilyFacts ==
  ASSUME NEW p \in Procs, NEW par
  PROVE  /\ p \in Family(p, par) /\ Family(p, par) \subseteq Procs
         /\ Closed(Family(p, par), par)
         /\ \A D \in SUBSET Procs : p \in D /\ Closed(D, par) => Family(p, par) \subseteq D
BY DEF Family, Closed

LEMMA ProgenyIsFamily ==
  /\ \A p : Progeny(p) = Family(p, p_parent)
  /\ \A p : (Progeny(p))' = Family(p, p_parent')
BY DEF Progeny, Family

(* What OneTree says of the tree, with the root named.                     *)
Tree(A, par, root) ==
  /\ A \subseteq Procs /\ root \in A /\ par[root] = NULL
  /\ \A p \in A : par[p] \in A \union {NULL}
  /\ \A p \in Procs \ A : par[p] = NULL
  /\ Family(root, par) = A

LEMMA TreeClosed ==
  ASSUME NEW A, NEW par, NEW root, Tree(A, par, root), NULL \notin Procs
  PROVE  Closed(A, par)
BY DEF Tree, Closed

(* create_process adds a leaf.                                             *)
LEMMA TreeGrows ==
  ASSUME NULL \notin Procs, NEW A, NEW par \in [Procs -> Procs \union {NULL}], NEW root,
         Tree(A, par, root), NEW p \in A, NEW c \in Procs \ A
  PROVE  Tree(A \union {c}, [par EXCEPT ![c] = p], root)
<1> DEFINE par1 == [par EXCEPT ![c] = p]
           A1 == A \union {c}
           D == Family(root, par1)
<1>1. \A x \in Procs : par1[x] = IF x = c THEN p ELSE par[x]
  OBVIOUS
<1> HIDE DEF par1
<1>2. root \in Procs /\ root \in A1 /\ c # root /\ A1 \in SUBSET Procs /\ p \in Procs
  BY DEF Tree
<1>3. Closed(A1, par1)
  BY <1>1 DEF Closed, Tree
<1>4. D \subseteq A1
  BY <1>2, <1>3, FamilyFacts
<1>5. root \in D /\ D \in SUBSET Procs /\ Closed(D, par1)
  BY <1>2, FamilyFacts
<1> HIDE DEF D
<1>6. Closed(D, par)
  BY <1>1, <1>5 DEF Closed, Tree
<1>7. A \subseteq D
  BY <1>2, <1>5, <1>6, FamilyFacts DEF Tree
<1>8. c \in D
  BY <1>1, <1>5, <1>7 DEF Closed
<1>9. D = A1
  BY <1>4, <1>7, <1>8
<1> QED
  BY <1>1, <1>2, <1>9 DEF Tree, D, par1

(* kill_parent_and_progeny takes away a subtree, or everything.            *)
LEMMA TreePruned ==
  ASSUME NULL \notin Procs, NEW A, NEW par \in [Procs -> Procs \union {NULL}], NEW root,
         Tree(A, par, root), NEW q \in A, A # Family(q, par)
  PROVE  LET K == Family(q, par)
         IN  Tree(A \ K, [x \in Procs |-> IF x \in K THEN NULL ELSE par[x]], root)
<1> DEFINE K == Family(q, par)
           par1 == [x \in Procs |-> IF x \in K THEN NULL ELSE par[x]]
           A1 == A \ K
           D == Family(root, par1)
<1>1. /\ q \in Procs /\ root \in Procs /\ root \in A /\ A \in SUBSET Procs
      /\ Closed(A, par) /\ Family(root, par) = A
  BY TreeClosed DEF Tree
<1>2. K \subseteq A /\ K \in SUBSET Procs /\ Closed(K, par)
  BY <1>1, FamilyFacts
<1>3. A # K
  OBVIOUS
<1>4. \A x \in Procs : par1[x] = IF x \in K THEN NULL ELSE par[x]
  OBVIOUS
<1> HIDE DEF K, par1
<1>5. root \notin K
  BY <1>1, <1>2, <1>3, FamilyFacts
<1>6. Closed(A1, par1) /\ A1 \in SUBSET Procs /\ root \in A1
  BY <1>1, <1>4, <1>5 DEF Closed
<1>7. D \subseteq A1
  BY <1>1, <1>6, FamilyFacts
<1>8. root \in D /\ D \in SUBSET Procs /\ Closed(D, par1)
  BY <1>1, FamilyFacts
<1> HIDE DEF D
<1>9. Closed(D \union K, par)
  BY <1>2, <1>4, <1>8 DEF Closed
<1>10. A \subseteq D \union K
  <2>1. D \union K \in SUBSET Procs /\ root \in D \union K
    BY <1>2, <1>8
  <2> QED
    BY <1>1, <1>9, <2>1, FamilyFacts
<1>11. D = A1
  BY <1>7, <1>10
<1>12. \A p \in A1 : par1[p] \in A1 \union {NULL}
  BY <1>1, <1>2, <1>4 DEF Tree, Closed
<1>13. \A p \in Procs \ A1 : par1[p] = NULL
  BY <1>4 DEF Tree
<1>14. par1[root] = NULL
  BY <1>1, <1>4, <1>5 DEF Tree
<1> QED
  BY <1>6, <1>11, <1>12, <1>13, <1>14 DEF Tree, D, par1, K

(* All of the progeny but the process itself have their parent in it.      *)
LEMMA FamilyParents ==
  ASSUME NEW q \in Procs, NEW par
  PROVE  \A x \in Family(q, par) : x = q \/ par[x] \in Family(q, par)
<1> DEFINE K == Family(q, par)
           E == {x \in K : x = q \/ par[x] \in K}
<1>1. K \subseteq Procs /\ Closed(K, par) /\ q \in K
  BY FamilyFacts
<1> HIDE DEF K
<1>2. E \in SUBSET Procs /\ q \in E /\ Closed(E, par)
  BY <1>1 DEF Closed
<1>3. K \subseteq E
  BY <1>2, FamilyFacts DEF K
<1> QED
  BY <1>3 DEF K

(* A process is not of its own progeny.                                    *)
LEMMA NoCycle ==
  ASSUME NULL \notin Procs, NEW A, NEW par \in [Procs -> Procs \union {NULL}], NEW root,
         Tree(A, par, root), NEW q \in A
  PROVE  par[q] \notin Family(q, par)
<1> DEFINE K == Family(q, par)
<1>1. /\ q \in Procs /\ root \in Procs /\ root \in A /\ A \in SUBSET Procs
      /\ Closed(A, par) /\ Family(root, par) = A /\ par[root] = NULL
  BY TreeClosed DEF Tree
<1>2. K \subseteq A /\ K \in SUBSET Procs /\ Closed(K, par) /\ q \in K
  BY <1>1, FamilyFacts
<1>3. \A x \in K : x = q \/ par[x] \in K
  BY <1>1, FamilyParents
<1> HIDE DEF K
<1> SUFFICES ASSUME par[q] \in K PROVE FALSE
  BY DEF K
<1>4. root \notin K
  BY <1>1, <1>2, <1>3
<1>5. Closed(A \ K, par)
  BY <1>1, <1>3 DEF Closed
<1>6. A \subseteq A \ K
  BY <1>1, <1>4, <1>5, FamilyFacts
<1> QED
  BY <1>2, <1>6

TreeInv == Halts /\ (Alive # {} => \E root \in Alive : Tree(Alive, p_parent, root))

LEMMA TreeInvStep ==
  ASSUME Start, TreeInv, Effect, IInv'
  PROVE  TreeInv'
<1> DEFINE Rooted == Alive # {} => \E root \in Alive : Tree(Alive, p_parent, root)
<1>1. NULL \notin Procs /\ p_parent \in [Procs -> Procs \union {NULL}] /\ pcb_free \subseteq Procs
  BY DEF Start, TypeRest
<1>2. ASSUME UNCHANGED tree PROVE Rooted'
  BY <1>2 DEF TreeInv, tree, Alive, Tree, Family
<1>3. ASSUME Caller, NEW c \in pcb_free, Creates(c) PROVE Rooted'
  <2>1. act_proc \in Alive /\ c \in Procs \ Alive /\ Alive' = Alive \union {c}
    BY <1>1, <1>3 DEF Caller, Alive, Creates
  <2>2. PICK root \in Alive : Tree(Alive, p_parent, root)
    BY <2>1 DEF TreeInv
  <2>3. Tree(Alive \union {c}, [p_parent EXCEPT ![c] = act_proc], root)
    BY <1>1, <2>1, <2>2, TreeGrows
  <2>4. Tree(Alive', p_parent', root)
    BY <1>3, <2>1, <2>3 DEF Creates
  <2> QED
    BY <2>1, <2>4
<1>4. ASSUME NEW p \in Procs, NEW eh, Ends(p, eh) PROVE Rooted'
  <2> DEFINE K == Family(p, p_parent)
  <2>1. /\ p \in Alive /\ K \subseteq Alive
        /\ p_parent' = [x \in Procs |-> IF x \in K THEN NULL ELSE p_parent[x]]
        /\ pcb_free' = pcb_free \union K
    BY <1>4, ProgenyIsFamily DEF Ends, Kills
  <2>2. Alive' = Alive \ K
    BY <2>1 DEF Alive
  <2> SUFFICES ASSUME Alive' # {} PROVE \E root \in Alive' : Tree(Alive', p_parent', root)
    OBVIOUS
  <2>3. PICK root \in Alive : Tree(Alive, p_parent, root)
    BY <2>1 DEF TreeInv
  <2>4. Alive # K
    BY <2>2
  <2>5. Tree(Alive', p_parent', root)
    BY <1>1, <2>1, <2>2, <2>3, <2>4, TreePruned
  <2> QED
    BY <2>5 DEF Tree
<1>5. ASSUME NEW s, NEW call, NEW eh, Does_P(s, call, eh) \/ Does_V(s, eh) PROVE UNCHANGED tree
  BY <1>5 DEF Does_P, Does_V, Blocks, Wakes, Sets
<1>6. ASSUME NEW d, Answers(d) PROVE UNCHANGED tree
  BY <1>5, <1>6 DEF Answers
<1>7. ASSUME NEW eh, NEW y, Quiet(eh, y) PROVE UNCHANGED tree
  BY <1>7 DEF Quiet
<1>8. ASSUME Ticks PROVE UNCHANGED tree
  BY <1>8 DEF Ticks
<1>9. Rooted'
  <2> HIDE DEF Rooted
  <2> QED
    BY <1>2, <1>3, <1>4, <1>5, <1>6, <1>7, <1>8 DEF Effect
<1>10. Halts'
  BY HaltsStep
<1> QED
  BY <1>9, <1>10 DEF TreeInv

LEMMA TreeInvariance == Spec => []TreeInv
<1>1. Init => TreeInv
  <2> SUFFICES ASSUME Init PROVE TreeInv
    OBVIOUS
  <2>1. PICK init \in Procs : /\ machine = "running" /\ pcb_free = Procs \ {init}
                              /\ p_parent = [p \in Procs |-> NULL]
    BY DEF Init
  <2>2. Alive = {init}
    BY <2>1 DEF Alive
  <2>3. NULL \notin Procs
    BY ProcsAssumption
  <2>4. Closed({init}, p_parent)
    BY <2>1, <2>3 DEF Closed
  <2>5. Family(init, p_parent) = {init}
    <3>1. {init} \in SUBSET Procs /\ init \in {init}
      OBVIOUS
    <3> QED
      BY <2>4, <3>1, FamilyFacts
  <2>6. Tree(Alive, p_parent, init)
    BY <2>1, <2>2, <2>5 DEF Tree
  <2> QED
    BY <2>1, <2>2, <2>6 DEF TreeInv, Halts
<1>2. IInv /\ IInv' /\ TreeInv /\ [Next]_vars => TreeInv'
  <2> SUFFICES ASSUME IInv, IInv', TreeInv, [Next]_vars PROVE TreeInv'
    OBVIOUS
  <2>1. CASE Next
    BY <2>1, EffectLemma, TreeInvStep
  <2>2. CASE UNCHANGED vars
    BY <2>2 DEF vars, cpu, tree, TreeInv, Halts, Alive, Tree, Family
  <2> QED
    BY <2>1, <2>2
<1> QED
  BY <1>1, <1>2, Invariance, PTL DEF Spec

(* All that are alive descend from one root, the parent of each one is     *)
(* alive, and the machine halts exactly when nobody is left: TERMPROCESS   *)
(* frees a whole subtree and leaves no orphans, so that the death of the   *)
(* first process is the end of the system.                                 *)
THEOREM NoOrphans == Spec => []OneTree
<1>1. IInv /\ TreeInv => OneTree
  <2> SUFFICES ASSUME TreeInv PROVE OneTree
    OBVIOUS
  <2>1. CASE Alive = {}
    BY <2>1 DEF TreeInv, Halts, OneTree
  <2>2. CASE Alive # {}
    <3>1. PICK root \in Alive : Tree(Alive, p_parent, root)
      BY <2>2 DEF TreeInv
    <3>2. p_parent[root] = NULL /\ Progeny(root) = Alive
      BY <3>1, ProgenyIsFamily DEF Tree
    <3> QED
      BY <3>1, <3>2 DEF TreeInv, Halts, OneTree, Tree
  <2> QED
    BY <2>1, <2>2
<1> QED
  BY <1>1, Invariance, TreeInvariance, PTL

-----------------------------------------------------------------------------

(* What a pcb amounts to, when nobody is lost.                             *)
LifeMap ==
  [p \in Procs |-> IF p \in pcb_free THEN "none"
                   ELSE IF p_semAdd[p] # NULL THEN "waits" ELSE "runs"]
NotLost == IInv /\ NoneLost
Mapped == [p \in Procs |-> life_of(p)] = LifeMap

LEMMA LifeIsMapped == NotLost => Mapped
<1> SUFFICES ASSUME NotLost, NEW p \in Procs
             PROVE  life_of(p) = LifeMap[p]
  BY DEF LifeMap, Mapped
<1>1. Blocked \intersect pcb_free = {} /\ (p \in Blocked <=> p_semAdd[p] # NULL)
  BY DEF NotLost, IInv, OnePlace, Alive, Blocked
<1>2. p \notin pcb_free \union Blocked => p \in (Running \union Ready) \ (pcb_free \union Blocked)
  BY DEF NotLost, NoneLost, Alive
<1>3. CASE p \in pcb_free
  BY <1>1, <1>3 DEF life_of, LifeMap
<1>4. CASE p \in Blocked
  BY <1>1, <1>4 DEF life_of, LifeMap
<1>5. CASE p \notin pcb_free \union Blocked
  BY <1>1, <1>2, <1>5 DEF life_of, LifeMap
<1> QED
  BY <1>3, <1>4, <1>5

(* The same before and after a step.                                       *)
LEMMA LifeBeforeAndAfter ==
  NotLost /\ NotLost' => Mapped /\ Mapped'
BY LifeIsMapped, PTL

-----------------------------------------------------------------------------
(***************************************************************************)
(* Refinement.  The instance has the queues and semaphores of the nucleus, *)
(* so each effect is turned into the operation of ProcessLife by saying    *)
(* what it does to LifeMap.                                                *)
(***************************************************************************)
LEMMA SameQueues ==
  /\ Life!Sems = Sems
  /\ \A q : Life!Elems(q) = Elems(q)
  /\ \A q, S : Life!Keep(q, S) = Keep(q, S)
<1>1. Life!Sems = Sems
  BY DEF Life!Sems, Sems
<1>2. \A q : Life!Elems(q) = Elems(q)
  BY DEF Life!Elems, Elems
<1>3. \A q, S : Life!Keep(q, S) = Keep(q, S)
  BY Zenon DEF Life!Keep, Life!Kept, Life!Rank, Life!Cardinality, Keep, Kept, Rank, Cardinality
<1> QED
  BY <1>1, <1>2, <1>3

LEMMA CallerRuns ==
  ASSUME Caller, Mapped
  PROVE  act_proc \in Procs /\ [p \in Procs |-> life_of(p)][act_proc] = "runs"
<1>1. act_proc \in Procs /\ act_proc \notin pcb_free /\ p_semAdd[act_proc] = NULL
  BY DEF Caller, Alive
<1>2. LifeMap[act_proc] = "runs"
  BY <1>1 DEF LifeMap
<1> QED
  BY <1>1, <1>2 DEF Mapped

LEMMA LifeBlock ==
  ASSUME Start, Caller, Mapped, Mapped', NEW s \in Sems, NEW call, Blocks(s, call)
  PROVE  Life!Block(act_proc, s) /\ p_parent' = p_parent
<1>1. /\ s_procq' = [s_procq EXCEPT ![s] = Append(@, act_proc)]
      /\ sem' = sem /\ p_parent' = p_parent /\ pcb_free' = pcb_free
  BY DEF Blocks, insert_blocked, insert_proc_q, tree
<1>2. LifeMap' = [LifeMap EXCEPT ![act_proc] = "waits"]
  <2>1. /\ act_proc \in Procs /\ act_proc \notin pcb_free /\ s # NULL
        /\ \A p \in Procs : p_semAdd'[p] = IF p = act_proc THEN s ELSE p_semAdd[p]
    BY BlocksFacts DEF Caller, Alive
  <2> QED
    BY <1>1, <2>1 DEF LifeMap
<1> QED
  BY <1>1, <1>2 DEF Mapped, Life!Block

LEMMA LifeRelease ==
  ASSUME Start, Mapped, Mapped', NEW s \in Sems, NEW eh, Wakes(s, eh)
  PROVE  Life!Release(s) /\ p_parent' = p_parent /\ s_procq[s] # <<>>
<1> DEFINE h == Head(s_procq[s])
<1>1. /\ s_procq' = [s_procq EXCEPT ![s] = Tail(@)] /\ s_procq[s] # <<>>
      /\ sem' = sem /\ p_parent' = p_parent /\ pcb_free' = pcb_free
  BY DEF Wakes, remove_blocked, tree
<1>2. LifeMap' = [LifeMap EXCEPT ![h] = "runs"]
  <2>1. /\ h \in Procs /\ p_semAdd[h] = s /\ s # NULL
        /\ \A p \in Procs : p_semAdd'[p] = IF p = h THEN NULL ELSE p_semAdd[p]
    BY WakesFacts DEF head_proc_q
  <2> HIDE DEF h
  <2>2. h \notin pcb_free
    BY <2>1 DEF Start, Blocked, Alive
  <2> QED
    BY <1>1, <2>1, <2>2 DEF LifeMap
<1> QED
  BY <1>1, <1>2 DEF Mapped, Life!Release

LEMMA LifeSet ==
  ASSUME Mapped, Mapped', NEW s, NEW v, NEW eh, Sets(s, v, eh)
  PROVE  /\ s_procq[s] = <<>> /\ sem' = [sem EXCEPT ![s] = v]
         /\ UNCHANGED <<[p \in Procs |-> life_of(p)], p_parent, s_procq>>
<1>1. /\ s_procq[s] = <<>> /\ sem' = [sem EXCEPT ![s] = v]
      /\ UNCHANGED <<pcb_free, p_semAdd, p_parent, s_procq>>
  BY DEF Sets, tree, asl
<1>2. LifeMap' = LifeMap
  BY <1>1 DEF LifeMap
<1> QED
  BY <1>1, <1>2 DEF Mapped

(* P and V of a semaphore that is no device's are Sync, with 0 and with 1. *)
LEMMA LifeSync ==
  ASSUME Start, Caller, Mapped, Mapped', NEW s \in UserSems, NEW v \in {0, 1}, NEW call, NEW eh,
         \/ sem[s] = v /\ Blocks(s, call)
         \/ sem[s] # v /\ Wakes(s, eh)
         \/ sem[s] # v /\ Sets(s, v, eh)
  PROVE  Life!Sync(act_proc, s, v)
<1>1. s \in Sems
  BY DEF Sems
<1>2. [p \in Procs |-> life_of(p)][act_proc] = "runs"
  BY CallerRuns
<1>3. CASE sem[s] = v /\ Blocks(s, call)
  BY <1>1, <1>2, <1>3, LifeBlock DEF Life!Sync
<1>4. CASE sem[s] # v /\ Wakes(s, eh)
  BY <1>1, <1>2, <1>4, LifeRelease DEF Life!Sync
<1>5. CASE sem[s] # v /\ Sets(s, v, eh)
  BY <1>2, <1>5, LifeSet DEF Life!Sync
<1> QED
  BY <1>3, <1>4, <1>5

(* DOIO and CLOCKWAIT find the value 0 and wait.                           *)
LEMMA LifeAwait ==
  ASSUME Start, Caller, Mapped, Mapped', NEW s \in Sems, sem[s] = 0, NEW call, NEW eh,
         Does_P(s, call, eh)
  PROVE  Life!Await(act_proc, s)
<1>1. Blocks(s, call)
  BY DEF Does_P
<1> QED
  BY <1>1, CallerRuns, LifeBlock DEF Life!Await

LEMMA LifeAnswer ==
  ASSUME Start, DeviceInv, Mapped, Mapped', NEW d \in Devs, Answers(d)
  PROVE  Life!Answer(d)
<1>1. d \in Sems /\ Wakes(d, "CONTINUE")
  BY AnswersFacts DEF Sems
<1> QED
  BY <1>1, LifeRelease DEF Life!Answer

LEMMA LifeCreate ==
  ASSUME Start, Caller, Mapped, Mapped', NEW c \in pcb_free, Creates(c)
  PROVE  c \in Procs /\ Life!Create(act_proc, c)
<1>1. /\ pcb_free' = pcb_free \ {c} /\ p_parent' = [p_parent EXCEPT ![c] = act_proc]
      /\ UNCHANGED <<p_semAdd, s_procq, sem>>
  BY DEF Creates, asl
<1>2. c \in Procs /\ p_semAdd[c] = NULL
  BY DEF Start, TypeRest, Alive, Blocked
<1>3. LifeMap' = [LifeMap EXCEPT ![c] = "runs"] /\ LifeMap[c] = "none"
  BY <1>1, <1>2 DEF LifeMap
<1> QED
  BY <1>1, <1>2, <1>3, CallerRuns DEF Mapped, Life!Create

LEMMA LifeKill ==
  ASSUME Start, TreeInv, Mapped, Mapped', NEW q \in Procs, NEW eh, Ends(q, eh)
  PROVE  Life!Kill(q)
<1> DEFINE K == Progeny(q)
<1>1. q \in Alive /\ K \subseteq Alive /\ Kills(K, eh) /\ K = Family(q, p_parent)
  BY ProgenyIsFamily DEF Ends
<1>2. /\ NULL \notin Procs /\ p_parent \in [Procs -> Procs \union {NULL}]
      /\ pcb_free \subseteq Procs
  BY DEF Start, TypeRest
<1>3. K \in SUBSET Procs /\ q \in K /\ Closed(K, p_parent)
  BY <1>1, FamilyFacts
<1>4. \A x \in K : x = q \/ p_parent[x] \in K
  BY <1>1, FamilyParents
<1>5. p_parent[q] \notin K
  BY <1>1, <1>2, NoCycle DEF TreeInv
<1> HIDE DEF K
<1>6. K \ {q} = {x \in Procs : p_parent[x] \in K}
  BY <1>3, <1>4, <1>5 DEF Closed
<1>7. /\ p_parent' = [x \in Procs |-> IF x \in K THEN NULL ELSE p_parent[x]]
      /\ p_semAdd' = [x \in Procs |-> IF x \in K THEN NULL ELSE p_semAdd[x]]
      /\ s_procq' = [s \in Life!Sems |-> Life!Keep(s_procq[s], Procs \ K)]
      /\ pcb_free' = pcb_free \union K /\ sem' = sem
  BY <1>1, SameQueues DEF Kills
<1>8. /\ LifeMap' = [x \in Procs |-> IF x \in K THEN "none" ELSE LifeMap[x]]
      /\ LifeMap[q] # "none"
  <2>1. LifeMap' = [x \in Procs |-> IF x \in K THEN "none" ELSE LifeMap[x]]
    BY <1>7 DEF LifeMap
  <2>2. LifeMap[q] # "none"
    BY <1>1 DEF LifeMap, Alive
  <2> QED
    BY <2>1, <2>2
<1>9. /\ [p \in Procs |-> life_of(p)][q] # "none"
      /\ [p \in Procs |-> life_of(p)]' =
           [x \in Procs |-> IF x \in K THEN "none" ELSE [p \in Procs |-> life_of(p)][x]]
  BY <1>8 DEF Mapped
<1> QED
  BY <1>3, <1>6, <1>7, <1>9 DEF Life!Kill

LEMMA LifeTick ==
  ASSUME Start, ClockZero, Mapped, Mapped', Ticks
  PROVE  Life!Tick
<1>1. Clock \in Sems /\ Clock # NULL /\ s_procq \in [Sems -> Seq(Procs)]
  BY SemsAssumption DEF Sems, Start, TypeRest
<1>2. /\ \A x \in Procs : p_semAdd'[x] = IF p_semAdd[x] = Clock THEN NULL ELSE p_semAdd[x]
      /\ \A t \in Sems : s_procq'[t] = IF t = Clock THEN <<>> ELSE s_procq[t]
      /\ \A t \in Sems : sem'[t] = sem[t]
      /\ pcb_free' = pcb_free /\ p_parent' = p_parent
  BY TicksFacts DEF tree
<1>3. s_procq' = [s_procq EXCEPT ![Clock] = <<>>]
  <2>1. DOMAIN s_procq' = Sems /\ s_procq' = [t \in Sems |-> s_procq'[t]]
    BY <1>1 DEF Ticks
  <2> QED
    BY <1>1, <1>2, <2>1
<1>4. sem' = sem
  BY <1>1 DEF Ticks, ClockZero, Start, TypeRest
<1>5. \A x \in Procs : x \in Life!Elems(s_procq[Clock]) <=> p_semAdd[x] = Clock
  BY <1>1, SameQueues DEF Start, QueuesOK
<1>6. LifeMap' = [p \in Procs |-> IF p \in Life!Elems(s_procq[Clock]) THEN "runs" ELSE LifeMap[p]]
  <2>1. \A x \in Procs : p_semAdd[x] = Clock => x \notin pcb_free
    BY <1>1 DEF Start, Blocked, Alive
  <2> QED
    BY <1>1, <1>2, <1>5, <2>1 DEF LifeMap
<1> QED
  BY <1>2, <1>3, <1>4, <1>6 DEF Mapped, Life!Tick

LEMMA LifeQuiet ==
  ASSUME Mapped, Mapped', UNCHANGED <<tree, asl, sem>>
  PROVE  UNCHANGED Life!vars
<1>1. LifeMap' = LifeMap /\ UNCHANGED <<p_parent, sem, s_procq>>
  BY DEF LifeMap, tree, asl
<1> QED
  BY <1>1 DEF Mapped, Life!vars

LEMMA LifeStep ==
  ASSUME Start, ClockZero, DeviceInv, TreeInv, Mapped, Mapped', Effect
  PROVE  [Life!Next]_(Life!vars)
<1>1. Clock \in Sems /\ \A d \in Devs : d \in Sems /\ sem[d] = 0
  BY DEF Sems, DeviceInv
<1>2. ASSUME Caller, NEW c \in pcb_free, Creates(c) PROVE Life!Next
  BY <1>2, CallerRuns, LifeCreate DEF Life!Next
<1>3. ASSUME NEW p \in Procs, NEW eh, Ends(p, eh) PROVE Life!Next
  BY <1>3, LifeKill DEF Life!Next
<1>4. ASSUME Caller, NEW s \in UserSems, Does_P(s, "PASSEREN", "RENQUEUE") PROVE Life!Next
  <2>1. Life!Sync(act_proc, s, 0)
    BY <1>4, LifeSync DEF Does_P
  <2> QED
    BY <1>4, <2>1, CallerRuns DEF Life!Next
<1>5. ASSUME Caller, NEW s \in UserSems, Does_V(s, "RENQUEUE") PROVE Life!Next
  <2>1. Life!Sync(act_proc, s, 1)
    BY <1>5, LifeSync DEF Does_V
  <2> QED
    BY <1>5, <2>1, CallerRuns DEF Life!Next
<1>6. ASSUME Caller, NEW s \in Devs \union {Clock}, NEW call, NEW eh, Does_P(s, call, eh)
      PROVE  Life!Next
  <2>1. Life!Await(act_proc, s)
    BY <1>1, <1>6, LifeAwait DEF ClockZero
  <2> QED
    BY <1>6, <2>1, CallerRuns DEF Life!Next
<1>7. ASSUME NEW eh, NEW y, Quiet(eh, y) PROVE UNCHANGED Life!vars
  BY <1>7, LifeQuiet DEF Quiet
<1>8. ASSUME Ticks PROVE Life!Next
  BY <1>8, LifeTick DEF Life!Next
<1>9. ASSUME NEW d \in Devs, Answers(d) PROVE Life!Next
  BY <1>9, LifeAnswer DEF Life!Next
<1> QED
  BY <1>2, <1>3, <1>4, <1>5, <1>6, <1>7, <1>8, <1>9 DEF Effect

LEMMA LifeInit == Init => Life!Init
<1> SUFFICES ASSUME Init PROVE Life!Init
  OBVIOUS
<1>1. PICK init \in Procs :
        /\ machine = "running" /\ act_proc = init /\ pcb_free = Procs \ {init}
        /\ p_parent = [p \in Procs |-> NULL] /\ p_semAdd = [p \in Procs |-> NULL]
        /\ s_procq = [s \in Sems |-> <<>>] /\ sem \in [Sems -> {0, 1}]
        /\ \A s \in Devs \union {Clock} : sem[s] = 0
  BY DEF Init
<1>2. NotLost
  BY <1>1, InitLemma DEF NotLost, NoneLost, Alive, Running
<1>3. Mapped
  BY <1>2, LifeIsMapped
<1>4. [p \in Procs |-> life_of(p)] = [p \in Procs |-> IF p = init THEN "runs" ELSE "none"]
  BY <1>1, <1>3 DEF Mapped, LifeMap
<1> QED
  BY <1>1, <1>4, SameQueues DEF Life!Init

(* Behind the scheduler, the ready queues and the counters the nucleus     *)
(* keeps the promise of its manual: each exception creates one process,    *)
(* ends one with its progeny, is one P or V with its handover, one wait    *)
(* for the clock or a device, one answer, one tick for all, or nothing.    *)
THEOREM Refinement == Uses = {} => (Spec => KeepsPromise)
<1> SUFFICES ASSUME Uses = {} PROVE Spec => KeepsPromise
  OBVIOUS
<1>0. "killIO" \notin Uses
  OBVIOUS
<1>1. Spec => []DeviceInv
  BY <1>0, DeviceInvariance
<1>2. Spec => []Scheduled
  BY ScheduledInvariance
<1>3. Scheduled => NoneLost
  BY DEF Scheduled
<1>4. IInv /\ NoneLost => NotLost
  BY DEF NotLost
<1>5. /\ IInv /\ SemInv /\ DeviceInv /\ TreeInv /\ NotLost /\ NotLost' /\ [Next]_vars
      => [Life!Next]_(Life!vars)
  <2> SUFFICES ASSUME IInv, SemInv, DeviceInv, TreeInv, NotLost, NotLost', [Next]_vars
               PROVE  [Life!Next]_(Life!vars)
    OBVIOUS
  <2>1. Mapped /\ Mapped'
    BY LifeBeforeAndAfter
  <2>2. CASE Next
    <3>1. Start /\ Effect
      BY <2>2, EffectLemma
    <3> QED
      BY <2>1, <3>1, LifeStep DEF SemInv
  <2>3. CASE UNCHANGED vars
    <3>1. UNCHANGED <<tree, asl, sem>>
      BY <2>3 DEF vars
    <3> QED
      BY <2>1, <3>1, LifeQuiet
  <2> QED
    BY <2>2, <2>3
<1> QED
  BY <1>1, <1>2, <1>3, <1>4, <1>5, LifeInit, Invariance, SemInvariance, TreeInvariance, PTL
     DEF Spec, KeepsPromise, Life!Spec

-----------------------------------------------------------------------------
(***************************************************************************)
(* Order.  KeepsOrder, with the dead D as a parameter, so that it composes *)
(* over the operations that a handler makes on one queue.                  *)
(***************************************************************************)
OrderKept(q, q1, D) ==
  \A x \in Elems(q) :
    /\ x \in Elems(q1) => \A y : Ahead(q1, y, x) => Ahead(q, y, x)
    /\ x \notin Elems(q1) \union D => \A y \in Elems(q1) : ~Ahead(q, y, x)

(* A queue without repetitions is a strict order of its elements.          *)
LEMMA AheadFacts ==
  ASSUME NEW P, NEW q \in Seq(P), Distinct(q), NEW x, NEW y
  PROVE  /\ Ahead(q, x, y) => x \in Elems(q) /\ y \in Elems(q) /\ ~Ahead(q, y, x)
         /\ x \in Elems(q) /\ y \in Elems(q) /\ x # y => Ahead(q, x, y) \/ Ahead(q, y, x)
<1>1. Len(q) \in Nat /\ DOMAIN q = 1..Len(q)
  BY LenProperties
<1>2. ASSUME Ahead(q, x, y) PROVE x \in Elems(q) /\ y \in Elems(q) /\ ~Ahead(q, y, x)
  <2>1. PICK i, j \in DOMAIN q : i < j /\ q[i] = x /\ q[j] = y
    BY <1>2 DEF Ahead
  <2>2. ASSUME NEW k \in DOMAIN q, NEW l \in DOMAIN q, k < l, q[k] = y, q[l] = x
        PROVE  FALSE
    <3>1. k = j /\ l = i
      BY <2>1, <2>2 DEF Distinct
    <3> QED
      BY <1>1, <2>1, <2>2, <3>1
  <2> QED
    BY <2>1, <2>2 DEF Elems, Ahead
<1>3. ASSUME x \in Elems(q), y \in Elems(q), x # y
      PROVE  Ahead(q, x, y) \/ Ahead(q, y, x)
  <2>1. PICK i \in DOMAIN q : q[i] = x
    BY <1>3 DEF Elems
  <2>2. PICK j \in DOMAIN q : q[j] = y
    BY <1>3 DEF Elems
  <2>3. i < j \/ j < i
    BY <1>1, <1>3, <2>1, <2>2
  <2> QED
    BY <2>1, <2>2, <2>3 DEF Ahead
<1> QED
  BY <1>2, <1>3

LEMMA OrderSame == ASSUME NEW q, NEW D PROVE OrderKept(q, q, D)
BY DEF OrderKept

(* One operation after another.  What left the queue does not come back.   *)
LEMMA OrderCompose ==
  ASSUME NEW P, NEW q \in Seq(P), NEW q1 \in Seq(P), NEW q2, NEW D,
         Distinct(q), Distinct(q1),
         OrderKept(q, q1, D), OrderKept(q1, q2, D),
         Elems(q) \intersect Elems(q2) \subseteq Elems(q1)
  PROVE  OrderKept(q, q2, D)
<1> SUFFICES ASSUME NEW x \in Elems(q)
             PROVE  /\ x \in Elems(q2) => \A y : Ahead(q2, y, x) => Ahead(q, y, x)
                    /\ x \notin Elems(q2) \union D => \A y \in Elems(q2) : ~Ahead(q, y, x)
  BY DEF OrderKept
<1>1. ASSUME x \in Elems(q2), NEW y, Ahead(q2, y, x) PROVE Ahead(q, y, x)
  <2>1. x \in Elems(q1)
    BY <1>1
  <2>2. Ahead(q1, y, x)
    BY <1>1, <2>1 DEF OrderKept
  <2> QED
    BY <2>1, <2>2 DEF OrderKept
<1>2. ASSUME x \notin Elems(q2) \union D, NEW y \in Elems(q2), Ahead(q, y, x)
      PROVE  FALSE
  <2>1. y \in Elems(q) /\ ~Ahead(q, x, y) /\ x # y
    BY <1>2, AheadFacts
  <2>2. y \in Elems(q1)
    BY <2>1
  <2>3. x \in Elems(q1)
    BY <1>2, <2>2 DEF OrderKept
  <2>4. ~Ahead(q1, x, y)
    BY <2>1, <2>2 DEF OrderKept
  <2>5. Ahead(q1, y, x)
    BY <2>1, <2>2, <2>3, <2>4, AheadFacts
  <2> QED
    BY <1>2, <2>3, <2>5 DEF OrderKept
<1> QED
  BY <1>1, <1>2

(* Behind the last one.                                                    *)
LEMMA OrderConcat ==
  ASSUME NEW P, NEW q \in Seq(P), NEW r \in Seq(P), NEW D,
         Elems(q) \intersect Elems(r) = {}
  PROVE  OrderKept(q, q \o r, D)
<1> DEFINE u == q \o r
           m == Len(q)
           n == Len(r)
<1>1. /\ m \in Nat /\ n \in Nat /\ DOMAIN q = 1..m /\ DOMAIN r = 1..n
      /\ u \in Seq(P) /\ Len(u) = m + n
      /\ \A i \in 1..(m + n) : u[i] = IF i <= m THEN q[i] ELSE r[i - m]
  BY LenProperties, ConcatProperties
<1>2. DOMAIN u = 1..(m + n)
  BY <1>1, LenProperties
<1>3. Elems(u) = Elems(q) \union Elems(r)
  BY ConcatQueues
<1> HIDE DEF u, m, n
<1>4. ASSUME NEW x \in Elems(q), NEW y, Ahead(u, y, x) PROVE Ahead(q, y, x)
  <2>1. PICK i \in 1..(m + n), j \in 1..(m + n) : i < j /\ u[i] = y /\ u[j] = x
    BY <1>2, <1>4 DEF Ahead
  <2>2. j <= m
    <3>1. SUFFICES ASSUME ~(j <= m) PROVE FALSE
      OBVIOUS
    <3>2. j - m \in 1..n /\ u[j] = r[j - m]
      BY <1>1, <3>1
    <3>3. x \in Elems(r)
      BY <1>1, <2>1, <3>2 DEF Elems
    <3> QED
      BY <1>4, <3>3
  <2>3. i \in 1..m /\ j \in 1..m /\ q[i] = y /\ q[j] = x
    BY <1>1, <2>1, <2>2
  <2> QED
    BY <1>1, <2>1, <2>3 DEF Ahead
<1> QED
  BY <1>3, <1>4 DEF OrderKept, u

LEMMA OrderInsert ==
  ASSUME NEW P, NEW q \in Seq(P), NEW p \in P, p \notin Elems(q), NEW D
  PROVE  OrderKept(q, insert_proc_q(q, p), D)
<1> DEFINE u == insert_proc_q(q, p)
           m == Len(q)
<1>1. /\ m \in Nat /\ DOMAIN q = 1..m
      /\ u \in Seq(P) /\ Len(u) = m + 1
      /\ \A i \in 1..m : u[i] = q[i]
      /\ u[m + 1] = p
  BY LenProperties, AppendProperties DEF insert_proc_q
<1>2. DOMAIN u = 1..(m + 1)
  BY <1>1, LenProperties
<1>3. Elems(u) = Elems(q) \union {p}
  BY InsertProperties
<1> HIDE DEF u, m
<1>4. ASSUME NEW x \in Elems(q), NEW y, Ahead(u, y, x) PROVE Ahead(q, y, x)
  <2>1. PICK i \in 1..(m + 1), j \in 1..(m + 1) : i < j /\ u[i] = y /\ u[j] = x
    BY <1>2, <1>4 DEF Ahead
  <2>2. j # m + 1
    BY <1>1, <2>1
  <2>3. i \in 1..m /\ j \in 1..m
    BY <1>1, <2>1, <2>2
  <2> QED
    BY <1>1, <2>1, <2>3 DEF Ahead
<1> QED
  BY <1>3, <1>4 DEF OrderKept, u

(* Only the first one is taken: nobody was ahead of it.                    *)
LEMMA OrderRemove ==
  ASSUME NEW P, NEW q \in Seq(P), q # <<>>, Distinct(q), NEW D
  PROVE  OrderKept(q, Tail(q), D)
<1> DEFINE u == Tail(q)
           m == Len(q)
<1>1. /\ m \in Nat \ {0} /\ DOMAIN q = 1..m
      /\ head_proc_q(q) = q[1]
      /\ u \in Seq(P) /\ Len(u) = m - 1
      /\ \A i \in 1..(m - 1) : u[i] = q[i + 1]
  BY LenProperties, EmptySeq, HeadTailProperties DEF head_proc_q
<1>2. DOMAIN u = 1..(m - 1)
  BY <1>1, LenProperties
<1>3. Elems(q) = Elems(u) \union {q[1]}
  BY <1>1, RemoveProperties
<1> HIDE DEF u, m
<1>4. ASSUME NEW x, NEW y, Ahead(u, y, x) PROVE Ahead(q, y, x)
  <2>1. PICK i \in 1..(m - 1), j \in 1..(m - 1) : i < j /\ u[i] = y /\ u[j] = x
    BY <1>2, <1>4 DEF Ahead
  <2>2. i + 1 \in 1..m /\ j + 1 \in 1..m /\ i + 1 < j + 1
    BY <1>1, <2>1
  <2>3. q[i + 1] = y /\ q[j + 1] = x
    BY <1>1, <2>1
  <2> QED
    BY <1>1, <2>2, <2>3 DEF Ahead
<1>5. ASSUME NEW y, Ahead(q, y, q[1]) PROVE FALSE
  <2>1. PICK i \in 1..m, j \in 1..m : i < j /\ q[j] = q[1]
    BY <1>1, <1>5 DEF Ahead
  <2>2. 1 \in 1..m
    BY <1>1
  <2>3. j = 1
    BY <1>1, <2>1, <2>2 DEF Distinct
  <2> QED
    BY <2>1, <2>3
<1> QED
  BY <1>3, <1>4, <1>5 DEF OrderKept, u

(* The dead are unlinked, from wherever they are.                          *)
LEMMA OrderKeep ==
  ASSUME NEW P, NEW q \in Seq(P), Distinct(q), NEW S, NEW D, Elems(q) \subseteq S \union D
  PROVE  OrderKept(q, Keep(q, S), D)
<1> DEFINE u == Keep(q, S)
           I == Kept(q, S)
           c == Cardinality(I)
           at(k) == CHOOSE i \in I : Rank(I, i) = k
<1>1. Len(q) \in Nat /\ DOMAIN q = 1..Len(q)
  BY LenProperties
<1>2. I \in SUBSET (1..Len(q))
  BY <1>1 DEF Kept
<1>3. u \in Seq(P) /\ Elems(u) = Elems(q) \intersect S
  BY KeepProperties
<1> HIDE DEF I
<1>4. /\ c \in Nat
      /\ \A i \in I : Rank(I, i) \in 1..c
      /\ \A k \in 1..c : \E i \in I : Rank(I, i) = k
  BY <1>1, <1>2, RankBijection
<1>5. \A k \in 1..c : at(k) \in I /\ Rank(I, at(k)) = k
  BY <1>4
<1> HIDE DEF c, at
<1>6. u = [k \in 1..c |-> q[at(k)]]
  BY DEF Keep, I, c, at
<1> HIDE DEF u
<1>7. ASSUME NEW k \in 1..c, NEW l \in 1..c, k < l PROVE at(k) < at(l)
  <2>0. SUFFICES ASSUME ~(at(k) < at(l)) PROVE FALSE
    OBVIOUS
  <2>1. at(k) \in I /\ at(l) \in I /\ Rank(I, at(k)) = k /\ Rank(I, at(l)) = l
    BY <1>5
  <2>2. at(k) \in Int /\ at(l) \in Int /\ \A j \in I : j \in Int
    <3>1. 1..Len(q) \subseteq Int
      BY <1>1
    <3>2. I \subseteq Int
      BY <1>2, <3>1
    <3> QED
      BY <2>1, <3>2
  <2>3. at(l) <= at(k)
    BY <2>0, <2>2
  <2>4. {j \in I : j <= at(l)} \subseteq {j \in I : j <= at(k)}
    BY <2>2, <2>3
  <2>5. IsFiniteSet({j \in I : j <= at(k)})
    BY <1>1, <1>2, RankBijection, FS_Subset
  <2>6. Rank(I, at(l)) <= Rank(I, at(k))
    BY <2>4, <2>5, FS_Subset DEF Rank
  <2> QED
    BY <1>4, <1>7, <2>1, <2>6
<1>8. ASSUME NEW x, NEW y, Ahead(u, y, x) PROVE Ahead(q, y, x)
  <2>1. PICK k \in 1..c, l \in 1..c : k < l /\ q[at(k)] = y /\ q[at(l)] = x
    BY <1>6, <1>8 DEF Ahead
  <2>2. at(k) \in DOMAIN q /\ at(l) \in DOMAIN q /\ at(k) < at(l)
    BY <1>1, <1>2, <1>5, <1>7, <2>1
  <2> QED
    BY <2>1, <2>2 DEF Ahead
<1> QED
  BY <1>3, <1>8 DEF OrderKept, u

-----------------------------------------------------------------------------
(* The ready queues rq keep the order of those the exception found.        *)
Follows(rq) == \A r \in Prios : OrderKept(ready_q[r], rq[r], pcb_free')
Newcomer(p, rq) == p \in Procs /\ p \notin Ready /\ p \notin ReadyOf(rq)

LEMMA EnqueueFollows ==
  ASSUME Start, NEW rq, GoodQueues(rq), Follows(rq), p_prio' \in [Procs -> Prios],
         NEW p, Newcomer(p, rq)
  PROVE  Follows(enqueue_proc(rq, p))
<1> DEFINE t == p_prio'[p]
           rq1 == enqueue_proc(rq, p)
<1>1. p \in Procs /\ t \in Prios /\ rq \in [Prios -> Seq(Procs)]
  BY DEF Newcomer, GoodQueues
<1>2. \A r \in Prios : rq1[r] = IF r = t THEN insert_proc_q(rq[t], p) ELSE rq[r]
  BY <1>1 DEF enqueue_proc
<1> HIDE DEF t, rq1
<1> SUFFICES ASSUME NEW r \in Prios PROVE OrderKept(ready_q[r], rq1[r], pcb_free')
  BY DEF Follows, rq1
<1>3. /\ ready_q[r] \in Seq(Procs) /\ Distinct(ready_q[r])
      /\ rq[r] \in Seq(Procs) /\ Distinct(rq[r])
      /\ OrderKept(ready_q[r], rq[r], pcb_free')
  BY DEF Start, GoodQueues, Follows
<1>4. CASE r = t
  <2>1. p \notin Elems(rq[r]) /\ p \notin Elems(ready_q[r])
    BY DEF Newcomer, Ready, ReadyOf, Prios
  <2>2. rq1[r] = insert_proc_q(rq[r], p)
    BY <1>2, <1>4
  <2>3. OrderKept(rq[r], rq1[r], pcb_free')
    BY <1>1, <1>3, <2>1, <2>2, OrderInsert
  <2>4. Elems(rq1[r]) = Elems(rq[r]) \union {p}
    BY <1>1, <1>3, <2>2, InsertProperties
  <2>5. Elems(ready_q[r]) \intersect Elems(rq1[r]) \subseteq Elems(rq[r])
    BY <2>1, <2>4
  <2> QED
    BY <1>3, <2>3, <2>5, OrderCompose
<1>5. CASE r # t
  BY <1>2, <1>3, <1>5
<1> QED
  BY <1>4, <1>5

LEMMA DequeueFollows ==
  ASSUME Start, NEW rq, GoodQueues(rq), Follows(rq), NEW t \in Prios, rq[t] # <<>>
  PROVE  Follows([rq EXCEPT ![t] = Tail(@)])
<1> DEFINE rq1 == [rq EXCEPT ![t] = Tail(@)]
<1>1. \A r \in Prios : rq1[r] = IF r = t THEN Tail(rq[t]) ELSE rq[r]
  BY DEF GoodQueues
<1> HIDE DEF rq1
<1> SUFFICES ASSUME NEW r \in Prios PROVE OrderKept(ready_q[r], rq1[r], pcb_free')
  BY DEF Follows, rq1
<1>2. /\ ready_q[r] \in Seq(Procs) /\ Distinct(ready_q[r])
      /\ rq[r] \in Seq(Procs) /\ Distinct(rq[r])
      /\ OrderKept(ready_q[r], rq[r], pcb_free')
  BY DEF Start, GoodQueues, Follows
<1>3. CASE r = t
  <2>1. rq1[r] = Tail(rq[r]) /\ rq[r] # <<>>
    BY <1>1, <1>3
  <2>2. OrderKept(rq[r], rq1[r], pcb_free')
    BY <1>2, <2>1, OrderRemove
  <2>3. Elems(rq1[r]) \subseteq Elems(rq[r])
    BY <1>2, <2>1, RemoveProperties
  <2> QED
    BY <1>2, <2>2, <2>3, OrderCompose
<1>4. CASE r # t
  BY <1>1, <1>2, <1>4
<1> QED
  BY <1>3, <1>4

(* scheduler_next takes the first of a queue; the process set aside goes   *)
(* to the end.                                                             *)
LEMMA RequeueFollows ==
  ASSUME Start, NEW rq, GoodQueues(rq), Follows(rq), p_prio' \in [Procs -> Prios],
         NEW y, y = NULL \/ Newcomer(y, rq)
  PROVE  Follows(requeue_yielded(rq, y))
BY EnqueueFollows DEF requeue_yielded

LEMMA SchedulerFollows ==
  ASSUME Start, NEW rq, GoodQueues(rq), Follows(rq), p_prio' \in [Procs -> Prios],
         NEW y, y = NULL \/ Newcomer(y, rq), scheduler_next(rq, y)
  PROVE  Follows(ready_q')
<1>1. ASSUME NEW r \in Prios, rq[r] # <<>>, load_first(r, rq, y)
      PROVE  Follows(ready_q')
  <2> DEFINE p == head_proc_q(rq[r])
             rq1 == [rq EXCEPT ![r] = Tail(@)]
  <2>1. /\ GoodQueues(rq1) /\ p \in Procs /\ p \notin ReadyOf(rq1)
        /\ ReadyOf(rq) = ReadyOf(rq1) \union {p}
    BY <1>1, DequeueGood
  <2>2. Follows(rq1)
    BY <1>1, DequeueFollows
  <2>3. ready_q' = requeue_yielded(rq1, y)
    BY <1>1 DEF load_first, load_proc
  <2> HIDE DEF rq1
  <2>4. y = NULL \/ Newcomer(y, rq1)
    BY <2>1 DEF Newcomer
  <2> QED
    BY <2>1, <2>2, <2>3, <2>4, RequeueFollows
<1>2. CASE wait(rq, y)
  BY <1>2, RequeueFollows DEF wait
<1>3. ASSUME NEW how, stop(how, rq, y) PROVE Follows(ready_q')
  BY <1>3 DEF stop
<1> QED
  BY <1>1, <1>2, <1>3 DEF scheduler_next, empty_proc_q, Prios

LEMMA ResumeFollows ==
  ASSUME Start, NEW rq, Follows(rq), p_prio' \in [Procs -> Prios],
         NEW eh, NEW y \in {NULL, act_proc}, y # NULL => eh = "NOTHING",
         act_proc \notin ReadyOf(rq), Resumes(eh, rq, y)
  PROVE  Follows(ready_q')
<1>1. GoodQueues(rq) /\ resume(eh, rq, y)
  BY DEF Resumes
<1>2. act_proc # NULL => Newcomer(act_proc, rq)
  BY DEF Start, Newcomer, Just
<1>3. y = NULL \/ Newcomer(y, rq)
  BY <1>2
<1>4. CASE act_proc # NULL /\ eh = "CONTINUE" /\ load_proc(act_proc, rq, y)
  BY <1>1, <1>3, <1>4, RequeueFollows DEF load_proc
<1>5. CASE act_proc # NULL /\ eh = "RENQUEUE" /\ scheduler_next(enqueue_proc(rq, act_proc), y)
  <2> DEFINE rq1 == enqueue_proc(rq, act_proc)
  <2>1. act_proc \in Procs /\ act_proc \notin ReadyOf(rq)
    BY <1>2, <1>5 DEF Newcomer
  <2>2. GoodQueues(rq1)
    BY <1>1, <2>1, EnqueueGood
  <2>3. Follows(rq1)
    BY <1>1, <1>2, <1>5, EnqueueFollows
  <2> HIDE DEF rq1
  <2>4. y = NULL
    BY <1>5
  <2> QED
    BY <1>5, <2>2, <2>3, <2>4, SchedulerFollows DEF rq1
<1>6. CASE (act_proc = NULL \/ eh \in {"NOTHING", "-1"}) /\ scheduler_next(rq, y)
  BY <1>1, <1>3, <1>6, SchedulerFollows
<1> QED
  BY <1>1, <1>4, <1>5, <1>6 DEF resume

-----------------------------------------------------------------------------
SemsOrdered == \A s \in Sems : OrderKept(s_procq[s], s_procq'[s], pcb_free')
Ordered == SemsOrdered /\ Follows(ready_q')

LEMMA OrderStart ==
  ASSUME Start
  PROVE  /\ Follows(ready_q)
         /\ act_proc \notin Ready \union Blocked \union pcb_free
         /\ Ready \intersect (Blocked \union pcb_free) = {}
         /\ Ready = ReadyOf(ready_q)
         /\ s_procq \in [Sems -> Seq(Procs)] /\ \A s \in Sems : Distinct(s_procq[s])
<1>1. Follows(ready_q)
  BY OrderSame DEF Follows
<1>2. Ready \union Blocked \union pcb_free \subseteq Procs
  BY DEF Start, TypeRest, Alive
<1>3. act_proc \notin Ready \union Blocked \union pcb_free
  BY <1>2 DEF Start, Just, Alive
<1> QED
  BY <1>1, <1>3 DEF Start, Alive, TypeRest, QueuesOK

LEMMA SemsSame == UNCHANGED s_procq => SemsOrdered
BY OrderSame DEF SemsOrdered

LEMMA QuietOrder ==
  ASSUME Start, NEW eh, NEW y \in {NULL, act_proc}, y # NULL => eh = "NOTHING", Quiet(eh, y)
  PROVE  Ordered
<1>1. p_prio' \in [Procs -> Prios] /\ UNCHANGED s_procq /\ Resumes(eh, ready_q, y)
  BY DEF Quiet, tree, asl, Start, TypeRest
<1> QED
  BY <1>1, OrderStart, SemsSame, ResumeFollows DEF Ordered

LEMMA BlocksOrder ==
  ASSUME Start, Caller, NEW s \in Sems, NEW call, Blocks(s, call)
  PROVE  Ordered
<1>1. p_prio' \in [Procs -> Prios] /\ Resumes("NOTHING", ready_q, NULL)
  BY DEF Blocks, tree, Start, TypeRest
<1>2. Follows(ready_q')
  BY <1>1, OrderStart, ResumeFollows
<1>3. /\ act_proc \in Procs
      /\ \A t \in Sems : s_procq'[t] = IF t = s THEN insert_proc_q(s_procq[s], act_proc)
                                               ELSE s_procq[t]
  BY BlocksFacts
<1>4. act_proc \notin Elems(s_procq[s])
  <2>1. p_semAdd[act_proc] # s
    BY BlocksFacts
  <2> QED
    BY <1>3, <2>1 DEF Start, QueuesOK
<1>5. OrderKept(s_procq[s], insert_proc_q(s_procq[s], act_proc), pcb_free')
  BY <1>3, <1>4, OrderStart, OrderInsert
<1> QED
  BY <1>2, <1>3, <1>5, OrderSame DEF Ordered, SemsOrdered

LEMMA WakesOrder ==
  ASSUME Start, NEW s \in Sems, NEW eh, Wakes(s, eh)
  PROVE  Ordered
<1> DEFINE p == head_proc_q(s_procq[s])
           rq == enqueue_proc(ready_q, p)
<1>1. /\ p \in Procs /\ p \in Blocked /\ p_prio' \in [Procs -> Prios] /\ UNCHANGED p_prio
      /\ s_procq[s] # <<>>
      /\ Resumes(eh, rq, NULL) /\ ReadyOf(rq) = Ready \union {p}
  BY DEF Wakes, tree, Start, TypeRest, Blocked
<1>2. \A t \in Sems : s_procq'[t] = IF t = s THEN Tail(s_procq[s]) ELSE s_procq[t]
  BY WakesFacts
<1> HIDE DEF p
<1>3. Follows(rq)
  <2>1. Newcomer(p, ready_q)
    BY <1>1, OrderStart DEF Newcomer
  <2>2. GoodQueues(ready_q)
    BY <1>1, StartQueues
  <2> QED
    BY <1>1, <2>1, <2>2, OrderStart, EnqueueFollows
<1>4. act_proc \notin ReadyOf(rq)
  BY <1>1, OrderStart
<1> HIDE DEF rq
<1>5. Follows(ready_q')
  BY <1>1, <1>3, <1>4, ResumeFollows
<1>6. OrderKept(s_procq[s], Tail(s_procq[s]), pcb_free')
  BY <1>1, OrderStart, OrderRemove
<1> QED
  BY <1>2, <1>5, <1>6, OrderSame DEF Ordered, SemsOrdered

LEMMA SetsOrder ==
  ASSUME Start, NEW s, NEW v, NEW eh, Sets(s, v, eh)
  PROVE  Ordered
<1>1. p_prio' \in [Procs -> Prios] /\ UNCHANGED s_procq /\ Resumes(eh, ready_q, NULL)
  BY DEF Sets, tree, asl, Start, TypeRest
<1> QED
  BY <1>1, OrderStart, SemsSame, ResumeFollows DEF Ordered

LEMMA CreatesOrder ==
  ASSUME Start, NEW c \in pcb_free, Creates(c)
  PROVE  Ordered
<1> DEFINE rq == enqueue_proc(ready_q, c)
<1>1. /\ c \in Procs /\ p_prio' \in [Procs -> Prios] /\ UNCHANGED s_procq
      /\ \A p \in Procs \ {c} : p_prio'[p] = p_prio[p]
      /\ Resumes("CONTINUE", rq, NULL) /\ ReadyOf(rq) = Ready \union {c}
  BY DEF Creates, asl, Start, TypeRest
<1>2. Newcomer(c, ready_q)
  BY <1>1, OrderStart DEF Newcomer
<1>3. GoodQueues(ready_q)
  <2>1. /\ ready_q \in [Prios -> Seq(Procs)]
        /\ \A r \in Prios : Distinct(ready_q[r]) /\ \A p \in Elems(ready_q[r]) : p_prio[p] = r
    BY DEF Start
  <2>2. \A r \in Prios : c \notin Elems(ready_q[r]) /\ Elems(ready_q[r]) \subseteq Procs
    BY <1>2, <2>1, ElemsType DEF Newcomer, Ready, Prios
  <2>3. \A r \in Prios : \A p \in Elems(ready_q[r]) : p_prio'[p] = r
    BY <1>1, <2>1, <2>2
  <2> QED
    BY <2>1, <2>3 DEF GoodQueues
<1>4. Follows(rq)
  BY <1>1, <1>2, <1>3, OrderStart, EnqueueFollows
<1>5. act_proc \notin ReadyOf(rq)
  BY <1>1, OrderStart
<1> HIDE DEF rq
<1>6. Follows(ready_q')
  BY <1>1, <1>4, <1>5, ResumeFollows
<1> QED
  BY <1>1, <1>6, SemsSame DEF Ordered

(* Those that are unlinked from the middle of a queue are dead.            *)
LEMMA KillsOrder ==
  ASSUME Start, NEW K, NEW eh, Kills(K, eh)
  PROVE  Ordered
<1> DEFINE rq == ready_without(K)
<1>1. /\ p_prio' \in [Procs -> Prios]
      /\ s_procq' = [s \in Sems |-> Keep(s_procq[s], Procs \ K)]
      /\ pcb_free' = pcb_free \union K
      /\ Resumes(eh, rq, NULL) /\ ReadyOf(rq) = Ready \ K
  BY DEF Kills
<1>2. ASSUME NEW q \in Seq(Procs), Distinct(q)
      PROVE  OrderKept(q, Keep(q, Procs \ K), pcb_free')
  <2>1. Elems(q) \subseteq (Procs \ K) \union pcb_free'
    BY <1>1, ElemsType
  <2> QED
    BY <1>2, <2>1, OrderKeep
<1>3. SemsOrdered
  BY <1>1, <1>2, OrderStart DEF SemsOrdered
<1>4. Follows(rq)
  BY <1>2 DEF Follows, ready_without, Start
<1>5. act_proc \notin ReadyOf(rq)
  BY <1>1, OrderStart
<1> HIDE DEF rq
<1>6. Follows(ready_q')
  BY <1>1, <1>4, <1>5, ResumeFollows
<1> QED
  BY <1>3, <1>6 DEF Ordered

(* All that waited for the tick leave sem_it; they get in line behind      *)
(* those that were ready.                                                  *)
LEMMA TicksOrder ==
  ASSUME Start, ClockZero, Ticks
  PROVE  Ordered
<1> DEFINE w == woken_by_tick
           rq == ready_with(w)
<1>1. /\ p_prio' \in [Procs -> Prios] /\ Elems(w) \subseteq Blocked
      /\ Resumes("CONTINUE", rq, NULL) /\ ReadyOf(rq) = Ready \union Elems(w)
  BY DEF Ticks, tree, Start, TypeRest
<1>2. Clock \in Sems /\ w = s_procq[Clock] /\ w \in Seq(Procs)
  BY OrderStart DEF ClockZero, woken_by_tick, Sems
<1>3. \A t \in Sems : s_procq'[t] = IF t = Clock THEN <<>> ELSE s_procq[t]
  BY TicksFacts
<1>4. SemsOrdered
  <2>1. OrderKept(s_procq[Clock], <<>>, pcb_free')
    BY ElemsEmpty DEF OrderKept
  <2> QED
    BY <1>3, <2>1, OrderSame DEF SemsOrdered
<1> HIDE DEF w
<1>5. Follows(rq)
  <2> SUFFICES ASSUME NEW r \in Prios PROVE OrderKept(ready_q[r], rq[r], pcb_free')
    BY DEF Follows
  <2> DEFINE u == Keep(w, {p \in Procs : p_prio[p] = r})
  <2>1. u \in Seq(Procs) /\ Elems(u) \subseteq Elems(w)
    BY <1>2, KeepProperties
  <2>2. rq[r] = ready_q[r] \o u
    BY DEF ready_with
  <2> HIDE DEF u, rq
  <2>3. Elems(ready_q[r]) \subseteq Ready
    BY DEF Ready, Prios
  <2>4. Elems(ready_q[r]) \intersect Elems(u) = {}
    BY <1>1, <2>1, <2>3, OrderStart
  <2>5. ready_q[r] \in Seq(Procs)
    BY DEF Start
  <2> QED
    BY <2>1, <2>2, <2>4, <2>5, OrderConcat
<1>6. act_proc \notin ReadyOf(rq)
  BY <1>1, OrderStart
<1> HIDE DEF rq
<1>7. Follows(ready_q')
  BY <1>1, <1>5, <1>6, ResumeFollows
<1> QED
  BY <1>4, <1>7 DEF Ordered

LEMMA OrderStep ==
  ASSUME Start, ClockZero, Effect
  PROVE  Ordered
<1>1. ASSUME NEW s \in Sems, NEW call, NEW eh, Caller, Does_P(s, call, eh) PROVE Ordered
  BY <1>1, BlocksOrder, WakesOrder, SetsOrder DEF Does_P
<1>2. ASSUME NEW s \in Sems, NEW eh, Caller \/ sem[s] = 0, Does_V(s, eh) PROVE Ordered
  BY <1>2, BlocksOrder, WakesOrder, SetsOrder DEF Does_V
<1>3. /\ \A s \in UserSems \union Devs : s \in Sems
      /\ Clock \in Sems
  BY DEF Sems
<1>4. ASSUME NEW p, NEW eh, Ends(p, eh) PROVE Ordered
  BY <1>4, KillsOrder DEF Ends
<1>5. ASSUME NEW d \in Devs, Answers(d) PROVE Ordered
  BY <1>2, <1>3, <1>5 DEF Answers
<1>6. ASSUME NEW eh, Quiet(eh, NULL) PROVE Ordered
  BY <1>6, QuietOrder
<1>7. ASSUME Quiet("NOTHING", act_proc) PROVE Ordered
  BY <1>7, QuietOrder
<1> QED
  BY <1>1, <1>2, <1>3, <1>4, <1>5, <1>6, <1>7, CreatesOrder, TicksOrder DEF Effect

(* Nobody gets ahead of a process that is on a semaphore or on a ready     *)
(* queue, and nobody leaves past one that was ahead and lives: P, V, the   *)
(* interrupts, YIELD and the end of a time slice put at the end and take   *)
(* from the front, whatever the programs do.                               *)
THEOREM FirstComeFirstServed == Spec => NoOvertaking
<1> DEFINE Fair == /\ \A s \in Sems : KeepsOrder(s_procq[s], s_procq'[s])
                   /\ \A r \in Prios : KeepsOrder(ready_q[r], ready_q'[r])
<1>1. ASSUME NEW q, NEW q1, OrderKept(q, q1, pcb_free') PROVE KeepsOrder(q, q1)
  BY <1>1 DEF OrderKept, KeepsOrder
<1>2. IInv /\ SemInv /\ [Next]_vars => [Fair]_vars
  <2> SUFFICES ASSUME IInv, SemInv, Next PROVE Fair
    OBVIOUS
  <2>1. Ordered
    BY EffectLemma, OrderStep DEF SemInv
  <2> QED
    BY <1>1, <2>1 DEF Ordered, SemsOrdered, Follows
<1> QED
  BY <1>2, Invariance, SemInvariance, PTL DEF Spec, NoOvertaking

=============================================================================
