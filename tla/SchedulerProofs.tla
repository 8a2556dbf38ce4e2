-------------------------- MODULE SchedulerProofs --------------------------
(***************************************************************************)
(* Proofs about Scheduler.tla, for any number of threads.                  *)
(*                                                                         *)
(* The invariants of the model are not inductive by themselves.  What they *)
(* lean on: the links of the circular list stay among created threads (or  *)
(* head_thrd could become NULL and the Escape dump keep the lock), the two *)
(* lists are empty together, and a thread that has used the FPU does not   *)
(* start again from its first frame.                                       *)
(*                                                                         *)
(* Round robin rests on the shape of the two circular lists (CircleOf): a  *)
(* walk of as many steps as there are threads meets each of them once and  *)
(* comes back.  schedule() links a thread behind the head of such a        *)
(* circle, and the loop of yield() stops at the first thread of it, from   *)
(* head_thrd on, that is not the running one; moving head_thrd behind that *)
(* one is a rotation.  Both are steps of RoundRobin.tla, whose bound on    *)
(* the wait of a thread the scheduler therefore inherits.                  *)
(***************************************************************************)
EXTENDS Scheduler, FiniteSetTheorems, FunctionTheorems, TLAPS

LinksCreated ==
  /\ head_thrd \in Created \cup {NULL}
  /\ \A t \in Created : next_sched[t] \in Created
  /\ head_thrd = NULL <=> head_proc = NULL

UsedHaveRun == \A t \in used : frame[t] \in {"live", "saved"}

IInv ==
  /\ TypeOK
  /\ RunningIsCurrent
  /\ OwnMemoryMapped
  /\ OwnFpuState
  /\ LockFreeInThreads
  /\ LinksCreated
  /\ UsedHaveRun

LEMMA InitIInv == Init => IInv
  BY ThreadAssumption
  DEF Init, IInv, TypeOK, RunningIsCurrent, OwnMemoryMapped, OwnFpuState,
      LockFreeInThreads, LinksCreated, UsedHaveRun, Created, CodeOf, StackOf

(* A spawn, in kmain(), in a system call or in the keyboard interrupt,     *)
(* preserves the invariant.                                                *)
LEMMA SpawnIInv ==
  ASSUME IInv, NEW t \in Thread, NEW kernel \in BOOLEAN, spawn(t, kernel),
         kmain' \in {"fexec", "start_scheduler", "sti", "hlt", "assert", "left"}
  PROVE  IInv'
  <1> USE ThreadAssumption
  <1>1. TypeOK'
    BY DEF IInv, TypeOK, spawn, add_process, schedule, Link, fpus
  <1>2. t # cur_thrd /\ cur_thrd' = cur_thrd
    BY DEF IInv, RunningIsCurrent, TypeOK, spawn
  <1>3. RunningIsCurrent'
    BY <1>2 DEF IInv, TypeOK, RunningIsCurrent, spawn, schedule
  <1>4. OwnMemoryMapped'
    BY <1>2 DEF IInv, TypeOK, OwnMemoryMapped, spawn, CodeOf, StackOf
  <1>5. OwnFpuState'
    BY <1>2 DEF IInv, OwnFpuState, spawn, fpus
  <1>6. LockFreeInThreads'
    BY DEF spawn, add_process, LockFreeInThreads
  <1>7. Created' = Created \cup {t}
    BY DEF IInv, TypeOK, Created, spawn, schedule
  <1>8. LinksCreated'
    BY <1>7 DEF IInv, TypeOK, LinksCreated, spawn, add_process, schedule, Link, Created
  <1>9. UsedHaveRun'
    BY DEF IInv, TypeOK, UsedHaveRun, RunningIsCurrent, spawn, schedule, fpus
  <1>10. QED
    BY <1>1, <1>3, <1>4, <1>5, <1>6, <1>8, <1>9 DEF IInv

(* The task switch preserves the invariant. *)
LEMMA TimerIInv == ASSUME IInv, timer_irq PROVE IInv'
  <1> USE ThreadAssumption
  <1>1. CASE yield_return_early
    <2>1. fpu' = fpu /\ used' = used /\ procs' = procs
      BY <1>1 DEF IInv, TypeOK, timer_irq, yield_return_early, fxsave
    <2>2. TypeOK'
      BY <1>1, <2>1 DEF IInv, TypeOK, timer_irq, yield_return_early, fxsave,
                        AfterReturn, InterruptsOn, ring, procs
    <2>3. RunningIsCurrent' /\ OwnMemoryMapped' /\ UsedHaveRun'
      BY <1>1, <2>1 DEF IInv, RunningIsCurrent, OwnMemoryMapped, UsedHaveRun,
                        yield_return_early, procs, CodeOf, StackOf
    <2>4. OwnFpuState'
      BY <1>1, <2>1 DEF IInv, TypeOK, OwnFpuState, yield_return_early, fxsave
    <2>5. LockFreeInThreads' /\ LinksCreated'
      BY <1>1, <2>1 DEF IInv, LockFreeInThreads, LinksCreated, Created, procs,
                        timer_irq, yield_return_early, ring
    <2>6. QED
      BY <2>2, <2>3, <2>4, <2>5 DEF IInv
  <1>2. CASE yield_switch
    <2>1. PICK t \in Thread :
            /\ Finds(t)
            /\ state' = [u \in Thread |-> IF u = t THEN "RUNNING"
                                          ELSE IF u = cur_thrd THEN "READY"
                                          ELSE state[u]]
            /\ head_thrd' = next_sched[t]
            /\ in' = swapflop(swapflop(in, CodeOf(cur_thrd), CodeOf(t)),
                              StackOf(cur_thrd), StackOf(t))
            /\ frame' = [u \in Thread |-> IF u = t THEN "live"
                                          ELSE IF u = cur_thrd THEN "saved"
                                          ELSE frame[u]]
            /\ cur_thrd' = t
            /\ fxsave_block' = fxsave
            /\ fpu' = fxrstor(t)
      BY <1>2 DEF yield_switch, NextHead
    <2>2. state[t] = "READY" /\ t # cur_thrd /\ t # NULL
      BY <2>1 DEF Finds, Eligible
    <2>3. /\ kmain' = "left" /\ pit' = "counting" /\ next_sched' = next_sched
          /\ UNCHANGED <<escape, scheduler_lock, head_proc, next, parent, kthrd, used>>
      BY <1>2 DEF timer_irq, yield_switch, NextHead, procs
    <2>4. TypeOK'
      <3>1. fxsave \in [Thread -> Thread \cup {NULL}]
        BY DEF IInv, TypeOK, fxsave
      <3>2. fxrstor(t) \in Thread \cup {NULL}
        BY <3>1 DEF IInv, TypeOK, fxrstor
      <3>3. in' \subseteq {"code", "stack"} \X Thread
        BY <2>1 DEF IInv, TypeOK, swapflop, CodeOf, StackOf, Code, Stack
      <3>4. QED
        BY <2>1, <2>3, <3>1, <3>2, <3>3 DEF IInv, TypeOK
    <2>5. RunningIsCurrent'
      BY <2>1, <2>2 DEF IInv, TypeOK, RunningIsCurrent
    <2>6. OwnMemoryMapped'
      BY <2>1, <2>2, <2>3 DEF IInv, OwnMemoryMapped, swapflop, CodeOf, StackOf,
                              Code, Stack
    <2>7. UsedHaveRun'
      BY <2>1, <2>2, <2>3 DEF IInv, TypeOK, UsedHaveRun
    <2>8. OwnFpuState'
      BY <2>1, <2>2, <2>3 DEF IInv, TypeOK, OwnFpuState, UsedHaveRun, fxsave,
                              fxrstor
    <2>9. Created' = Created /\ t \in Created
      BY <2>1, <2>2 DEF IInv, TypeOK, Created, RunningIsCurrent
    <2>10. LockFreeInThreads' /\ LinksCreated'
      BY <2>1, <2>3, <2>9 DEF IInv, LockFreeInThreads, LinksCreated, Finds, Created
    <2>11. QED
      BY <2>4, <2>5, <2>6, <2>7, <2>8, <2>10 DEF IInv
  <1>3. QED
    BY <1>1, <1>2 DEF timer_irq

(* A step that leaves the threads, the lists and the memory alone.         *)
LEMMA QuietIInv ==
  ASSUME IInv, TypeOK', LockFreeInThreads',
         UNCHANGED <<ring, state, cur_thrd, procs, frame, in, fpus>>
  PROVE  IInv'
  BY DEF IInv, RunningIsCurrent, OwnMemoryMapped, OwnFpuState, LinksCreated,
         UsedHaveRun, Created, CodeOf, StackOf, ring, procs, fpus

LEMMA NextIInv == ASSUME IInv, [Next]_vars PROVE IInv'
  <1> USE ThreadAssumption
  <1> USE DEF vars, ring, procs, fpus
  <1>1. CASE kmain_fexec
    <2>1. CASE \E t \in Thread : uspawn(t)
      BY Zenon, <1>1, <2>1, SpawnIInv DEF kmain_fexec, uspawn
    <2>2. CASE UNCHANGED <<pit, escape, scheduler_lock, ring, state, cur_thrd,
                           procs, frame, in, fpus>>
      BY <1>1, <2>2, QuietIInv DEF kmain_fexec, IInv, TypeOK, LockFreeInThreads
    <2>3. QED
      BY <1>1, <2>1, <2>2 DEF kmain_fexec
  <1>2. CASE start_scheduler
    BY <1>2, QuietIInv DEF start_scheduler, IInv, TypeOK, LockFreeInThreads
  <1>3. CASE kmain_sti
    BY <1>3, QuietIInv DEF kmain_sti, IInv, TypeOK, LockFreeInThreads
  <1>4. CASE PitExpire
    BY <1>4, QuietIInv DEF PitExpire, IInv, TypeOK, LockFreeInThreads
  <1>5. CASE timer_irq
    BY <1>5, TimerIInv
  <1>6. CASE kb_handle_escape
    <2>1. TypeOK'
      BY <1>6 DEF kb_handle_escape, DumpLock, Context, IInv, TypeOK
    <2>2. LockFreeInThreads'
      BY <1>6 DEF kb_handle_escape, DumpLock, IInv, LinksCreated, LockFreeInThreads
    <2>3. UNCHANGED <<ring, state, cur_thrd, procs, frame, in, fpus>>
      BY <1>6 DEF kb_handle_escape
    <2>4. QED
      BY Zenon, <2>1, <2>2, <2>3, QuietIInv
  <1>7. CASE KbEoi
    BY <1>7, QuietIInv DEF KbEoi, AfterReturn, IInv, TypeOK, LockFreeInThreads
  <1>8. CASE kb_handle_key
    <2>1. CASE \E t \in Thread : kspawn(t)
      <3>1. kmain' \in {"fexec", "start_scheduler", "sti", "hlt", "assert", "left"}
        BY <1>8 DEF kb_handle_key, AfterReturn, IInv, TypeOK
      <3>2. QED
        BY Zenon, <2>1, <3>1, SpawnIInv DEF kspawn
    <2>2. CASE UNCHANGED <<pit, escape, scheduler_lock, ring, state, cur_thrd,
                           procs, frame, in, fpus>>
      BY <1>8, <2>2, QuietIInv DEF kb_handle_key, AfterReturn, IInv, TypeOK,
                                   LockFreeInThreads
    <2>3. QED
      BY <1>8, <2>1, <2>2 DEF kb_handle_key
  <1>9. CASE syscall_exec
    <2>1. kmain' \in {"fexec", "start_scheduler", "sti", "hlt", "assert", "left"}
      BY <1>9 DEF syscall_exec, IInv, TypeOK
    <2>2. QED
      BY Zenon, <1>9, <2>1, SpawnIInv DEF syscall_exec, uspawn
  <1>10. CASE UseFpu
    <2>1. frame[cur_thrd] = "live" /\ cur_thrd \in Thread
      BY <1>10 DEF UseFpu, InThread, IInv, TypeOK, RunningIsCurrent
    <2>2. QED
      BY <1>10, <2>1 DEF UseFpu, IInv, TypeOK, RunningIsCurrent, OwnMemoryMapped,
                         OwnFpuState, LockFreeInThreads, LinksCreated, UsedHaveRun,
                         Created, CodeOf, StackOf
  <1>11. CASE UNCHANGED vars
    <2>1. TypeOK'
      BY <1>11 DEF IInv, TypeOK
    <2>2. LockFreeInThreads'
      BY <1>11 DEF IInv, LockFreeInThreads
    <2>3. UNCHANGED <<ring, state, cur_thrd, procs, frame, in, fpus>>
      BY <1>11
    <2>4. QED
      BY Zenon, <2>1, <2>2, <2>3, QuietIInv
  <1>12. QED
    BY <1>1, <1>2, <1>3, <1>4, <1>5, <1>6, <1>7, <1>8, <1>9, <1>10, <1>11 DEF Next

LEMMA Invariance == Spec => []IInv
  BY InitIInv, NextIInv, PTL DEF Spec

(* In every reachable state exactly the current thread is marked running,  *)
(* and every other thread is ready to be resumed, for any number of        *)
(* threads.                                                                *)
THEOREM OneThreadRuns == Spec => [](TypeOK /\ RunningIsCurrent)
  BY Invariance, PTL DEF IInv

(* yield() maps exactly the memory of the thread it resumes.               *)
THEOREM MemoryFollowsThread == Spec => []OwnMemoryMapped
  BY Invariance, PTL DEF IInv

(* yield()'s fxsave and fxrstor keep the FPU of every thread.              *)
THEOREM FpuFollowsThread == Spec => []OwnFpuState
  BY Invariance, PTL DEF IInv

(* The scheduler lock is never left locked once there is a thread.         *)
THEOREM SpawnNeverSpins == Spec => []LockFreeInThreads
  BY Invariance, PTL DEF IInv

-----------------------------------------------------------------------------
(* Induction over the naturals: a set of them has a least element. *)
LEMMA Least ==
  ASSUME NEW T \in SUBSET Nat, T # {}
  PROVE  \E n \in T : \A m \in T : n <= m
  <1> DEFINE R == OpToRel(<, Nat)
  <1>1. IsWellFoundedOn(R, Nat)
    BY Zenon, NatLessThanWellFounded
  <1>2. PICK n \in T : \A m \in T : ~(<<m, n>> \in R)
    <2> HIDE DEF R
    <2> QED
      BY <1>1, WFMin
  <1>3. ASSUME NEW m \in T PROVE n <= m
    <2>1. ~(m < n)
      BY <1>2 DEF OpToRel
    <2> HIDE DEF R
    <2> QED
      BY <2>1
  <1> HIDE DEF R
  <1> QED
    BY <1>3

LEMMA Induction ==
  ASSUME NEW T \in SUBSET Nat, 0 \in T, \A n \in T : n + 1 \in T
  PROVE  T = Nat
  <1> DEFINE U == Nat \ T
  <1>1. SUFFICES ASSUME U # {} PROVE FALSE
    OBVIOUS
  <1>2. PICK n \in U : \A m \in U : n <= m
    BY <1>1, Least
  <1>3. n # 0 /\ n \in Nat /\ n - 1 \in T
    BY <1>2
  <1> QED
    BY <1>2, <1>3

Closed(nxt, S) == \A x \in S : nxt[x] \in S

IsWalk(f, nxt, h) == f = [i \in Nat |-> IF i = 0 THEN h ELSE nxt[f[i - 1]]]

LEMMA WalkExists ==
  ASSUME NEW S, NEW nxt, NEW h \in S, Closed(nxt, S)
  PROVE  \E f \in [Nat -> S] : IsWalk(f, nxt, h)
  <1> DEFINE IsUpto(g, n) == /\ g \in [0..n -> S] /\ g[0] = h
                             /\ \A i \in 1..n : g[i] = nxt[g[i - 1]]
             T == {n \in Nat : \E g : IsUpto(g, n)}
  <1>1. 0 \in T
    <2>1. IsUpto([i \in 0..0 |-> h], 0)
      OBVIOUS
    <2> QED
      BY <2>1
  <1>2. ASSUME NEW n \in T PROVE n + 1 \in T
    <2>1. PICK g : IsUpto(g, n)
      OBVIOUS
    <2> DEFINE e == [i \in 0..n + 1 |-> IF i = n + 1 THEN nxt[g[n]] ELSE g[i]]
    <2>2. IsUpto(e, n + 1)
      BY <2>1 DEF Closed
    <2>3. n + 1 \in Nat
      OBVIOUS
    <2> HIDE DEF e, IsUpto
    <2> QED
      BY <2>2, <2>3
  <1>3. T = Nat
    <2> HIDE DEF T
    <2> QED
      BY <1>1, <1>2, Induction, T \subseteq Nat DEF T
  <1>4. ASSUME NEW n \in Nat, NEW g, NEW e, IsUpto(g, n), IsUpto(e, n + 1)
        PROVE  g[n] = e[n]
    <2> DEFINE V == {i \in Nat : i \in 0..n => g[i] = e[i]}
    <2>1. 0 \in V
      BY <1>4
    <2>2. ASSUME NEW i \in V PROVE i + 1 \in V
      BY <1>4
    <2>3. V = Nat
      <3> HIDE DEF V
      <3> QED
        BY <2>1, <2>2, Induction, V \subseteq Nat DEF V
    <2> QED
      BY <2>3
  <1> DEFINE G(n) == CHOOSE g : IsUpto(g, n)
             f == [n \in Nat |-> G(n)[n]]
  <1>5. \A n \in Nat : IsUpto(G(n), n)
    BY <1>3
  <1> HIDE DEF G
  <1>6. f \in [Nat -> S]
    BY <1>5
  <1>7. ASSUME NEW i \in Nat PROVE f[i] = IF i = 0 THEN h ELSE nxt[f[i - 1]]
    <2>1. CASE i = 0
      BY <1>5, <2>1
    <2>2. CASE i # 0
      <3>1. i - 1 \in Nat /\ (i - 1) + 1 = i
        BY <2>2
      <3>2. IsUpto(G(i - 1), i - 1) /\ IsUpto(G(i), i)
        BY <1>5, <3>1
      <3>3. G(i)[i] = nxt[G(i)[i - 1]]
        BY <2>2, <3>2
      <3>4. G(i)[i - 1] = G(i - 1)[i - 1]
        <4>1. IsUpto(G(i - 1), i - 1) /\ IsUpto(G(i), (i - 1) + 1)
          BY <3>1, <3>2
        <4> HIDE DEF IsUpto
        <4> QED
          BY <1>4, <3>1, <4>1
      <3> QED
        BY <2>2, <3>1, <3>3, <3>4
    <2> QED
      BY <2>1, <2>2
  <1> HIDE DEF f
  <1>8. IsWalk(f, nxt, h)
    BY <1>6, <1>7 DEF IsWalk
  <1> QED
    BY <1>6, <1>8

LEMMA WalkSteps ==
  ASSUME NEW S, NEW nxt, NEW h \in S, Closed(nxt, S)
  PROVE  /\ Walk(nxt, h, 0) = h
         /\ \A i \in Nat : Walk(nxt, h, i + 1) = nxt[Walk(nxt, h, i)]
  <1> DEFINE w == CHOOSE w : IsWalk(w, nxt, h)
  <1>1. \A i \in Nat : Walk(nxt, h, i) = w[i]
    BY DEF Walk, IsWalk
  <1>2. PICK f \in [Nat -> S] : IsWalk(f, nxt, h)
    BY WalkExists
  <1>3. IsWalk(w, nxt, h)
    BY <1>2
  <1> HIDE DEF w
  <1> QED
    BY <1>1, <1>3 DEF IsWalk

CircleOf(s, nxt, h, C) ==
  /\ s \in Seq(Thread)
  /\ C = {s[i] : i \in 1..Len(s)}
  /\ \A i, j \in 1..Len(s) : s[i] = s[j] => i = j
  /\ h = IF s = <<>> THEN NULL ELSE s[1]
  /\ \A i \in 1..Len(s) : nxt[s[i]] = IF i = Len(s) THEN s[1] ELSE s[i + 1]

LEMMA CircleSize ==
  ASSUME NEW s, NEW nxt, NEW h, NEW C, CircleOf(s, nxt, h, C)
  PROVE  Cardinality(C) = Len(s) /\ Len(s) \in Nat
  <1>1. /\ Len(s) \in Nat
        /\ IsFiniteSet(1..Len(s)) /\ Cardinality(1..Len(s)) = Len(s)
    <2>1. Len(s) \in Nat
      BY DEF CircleOf
    <2>2. /\ IsFiniteSet(1..Len(s))
          /\ Cardinality(1..Len(s)) = IF 1 > Len(s) THEN 0 ELSE Len(s) - 1 + 1
      <3> DEFINE n == Len(s)
      <3>1. n \in Int /\ 1 \in Int
        BY <2>1
      <3> HIDE DEF n
      <3>2. IsFiniteSet(1..n) /\ Cardinality(1..n) = IF 1 > n THEN 0 ELSE n - 1 + 1
        BY <3>1, FS_Interval
      <3> QED
        BY <3>2 DEF n
    <2> QED
      BY <2>1, <2>2
  <1>2. s \in [1..Len(s) -> C]
    BY DEF CircleOf
  <1>3. s \in Bijection(1..Len(s), C)
    <2>1. \A i, j \in 1..Len(s) : s[i] = s[j] => i = j
      BY DEF CircleOf
    <2>2. \A x \in C : \E i \in 1..Len(s) : s[i] = x
      BY DEF CircleOf
    <2> QED
      BY <1>2, <2>1, <2>2, Fun_IsBij
  <1>4. ExistsBijection(1..Len(s), C)
    BY <1>3 DEF ExistsBijection
  <1> QED
    BY <1>1, <1>4, FS_Bijection

LEMMA CircleWalk ==
  ASSUME NEW s, NEW nxt, NEW h, NEW C, CircleOf(s, nxt, h, C), s # <<>>
  PROVE  /\ \A i \in 0..Len(s) - 1 : Walk(nxt, h, i) = s[i + 1]
         /\ Walk(nxt, h, Len(s)) = h
  <1>1. /\ h = s[1] /\ Len(s) \in Nat \ {0}
        /\ \A i \in 1..Len(s) : nxt[s[i]] = IF i = Len(s) THEN s[1] ELSE s[i + 1]
    BY DEF CircleOf
  <1>2. h \in C /\ Closed(nxt, C)
    BY <1>1 DEF CircleOf, Closed
  <1>3. /\ Walk(nxt, h, 0) = h
        /\ \A i \in Nat : Walk(nxt, h, i + 1) = nxt[Walk(nxt, h, i)]
    BY <1>2, WalkSteps
  <1> DEFINE T == {i \in Nat : i < Len(s) => Walk(nxt, h, i) = s[i + 1]}
  <1>4. 0 \in T
    BY <1>1, <1>3
  <1>5. ASSUME NEW i \in T PROVE i + 1 \in T
    <2>1. SUFFICES ASSUME i + 1 < Len(s) PROVE Walk(nxt, h, i + 1) = s[i + 2]
      OBVIOUS
    <2>2. Walk(nxt, h, i) = s[i + 1] /\ i + 1 \in 1..Len(s) /\ i + 1 # Len(s)
      BY <1>1, <2>1
    <2>3. nxt[s[i + 1]] = s[(i + 1) + 1] /\ (i + 1) + 1 = i + 2
      BY <1>1, <2>2
    <2> QED
      BY <1>3, <2>2, <2>3
  <1>6. T = Nat
    <2> HIDE DEF T
    <2> QED
      BY <1>4, <1>5, Induction, T \subseteq Nat DEF T
  <1>7. \A i \in 0..Len(s) - 1 : Walk(nxt, h, i) = s[i + 1]
    BY <1>1, <1>6
  <1>8. Walk(nxt, h, Len(s)) = nxt[Walk(nxt, h, Len(s) - 1)]
    <2>1. Len(s) - 1 \in Nat /\ (Len(s) - 1) + 1 = Len(s)
      BY <1>1
    <2> QED
      BY <1>3, <2>1
  <1>9. Walk(nxt, h, Len(s)) = h
    BY <1>1, <1>7, <1>8
  <1> QED
    BY <1>7, <1>9

RRP == INSTANCE RoundRobinProofs WITH ring <- RingOfThreads, cur <- cur_thrd

(* Link() puts x behind the head of the circle. *)
LEMMA CircleLink ==
  ASSUME NEW s, NEW nxt \in [Thread -> Thread \cup {NULL}], NEW h, NEW C,
         CircleOf(s, nxt, h, C), NEW x \in Thread \ C
  PROVE  CircleOf(RR!InsertBehindHead(s, x), Link(nxt, h, x),
                  IF h = NULL THEN x ELSE h, C \cup {x})
  <1> DEFINE r == RR!InsertBehindHead(s, x)
             n == Len(s)
  <1>1. s \in Seq(Thread) /\ n \in Nat /\ \A i \in 1..n : s[i] \in Thread /\ s[i] # x
    BY DEF CircleOf
  <1>2. CASE s = <<>>
    <2>1. r = <<x>> /\ Len(r) = 1 /\ r[1] = x /\ r # <<>> /\ n = 0
      BY <1>2 DEF RR!InsertBehindHead
    <2>2. C = {} /\ h = NULL
      BY <1>2 DEF CircleOf
    <2>3. Link(nxt, h, x)[x] = x
      BY <2>2 DEF Link
    <2> QED
      BY <2>1, <2>2, <2>3 DEF CircleOf
  <1>3. CASE s # <<>>
    <2>1. /\ r \in Seq(Thread) /\ Len(r) = n + 1 /\ n # 0
          /\ r[1] = s[1] /\ r[2] = x
          /\ \A j \in 3..n + 1 : r[j] = s[j - 1]
      BY <1>1, <1>3, RRP!InsertShape
      DEF RRP!IsInserted, RRP!InsertBehindHead, RR!InsertBehindHead
    <2>0. n \in Nat /\ n >= 1 /\ (n # 1 => n >= 2)
      <3>1. n \in Nat /\ n # 0
        BY <1>1, <2>1
      <3> HIDE DEF n
      <3> QED
        BY <3>1
    <2> HIDE DEF r
    <2> DEFINE At(j) == IF j = 1 THEN 1 ELSE j - 1
    <2>2. \A j \in 1..n + 1 : j # 2 => At(j) \in 1..n /\ r[j] = s[At(j)]
      <3> TAKE j \in 1..n + 1
      <3>1. CASE j = 1
        BY <1>1, <2>1, <3>1
      <3>2. CASE j \in 3..n + 1
        BY <1>1, <2>1, <3>2
      <3> QED
        BY <1>1, <3>1, <3>2
    <2>3. \A i \in 1..n : \E j \in 1..n + 1 : j # 2 /\ At(j) = i
      <3> TAKE i \in 1..n
      <3>1. CASE i = 1
        BY <1>1, <3>1
      <3>2. CASE i # 1
        <4>1. i + 1 \in 1..n + 1 /\ i + 1 # 2 /\ At(i + 1) = i
          BY <1>1, <3>2
        <4> QED
          BY <4>1
      <3> QED
        BY <3>1, <3>2
    <2>4. C \cup {x} = {r[j] : j \in 1..Len(r)}
      <3>1. ASSUME NEW c \in C PROVE c \in {r[j] : j \in 1..Len(r)}
        <4>1. PICK i \in 1..n : s[i] = c
          BY DEF CircleOf
        <4>2. PICK j \in 1..n + 1 : j # 2 /\ At(j) = i
          BY <2>3
        <4> QED
          BY <2>1, <2>2, <4>1, <4>2
      <3>2. x \in {r[j] : j \in 1..Len(r)}
        BY <1>1, <2>1
      <3>3. ASSUME NEW j \in 1..Len(r) PROVE r[j] \in C \cup {x}
        BY <2>1, <2>2, <3>3 DEF CircleOf
      <3> QED
        BY <3>1, <3>2, <3>3
    <2>5. \A i, j \in 1..Len(r) : r[i] = r[j] => i = j
      <3> SUFFICES ASSUME NEW i \in 1..Len(r), NEW j \in 1..Len(r), r[i] = r[j]
                   PROVE  i = j
        OBVIOUS
      <3>1. CASE i = 2 \/ j = 2
        BY <1>1, <2>1, <2>2, <3>1
      <3>2. CASE i # 2 /\ j # 2
        <4>1. At(i) \in 1..n /\ At(j) \in 1..n /\ s[At(i)] = s[At(j)]
          BY <2>1, <2>2, <3>2
        <4>2. At(i) = At(j)
          BY <4>1 DEF CircleOf
        <4> QED
          BY <1>1, <2>1, <3>2, <4>2
      <3> QED
        BY <3>1, <3>2
    <2>6. h = s[1] /\ h # NULL /\ h = r[1] /\ r # <<>>
      BY <1>1, <1>3, <2>1, ThreadAssumption DEF CircleOf
    <2>7. ASSUME NEW j \in 1..Len(r)
          PROVE  Link(nxt, h, x)[r[j]] = IF j = Len(r) THEN r[1] ELSE r[j + 1]
      <3>1. /\ Link(nxt, h, x)[h] = x
            /\ Link(nxt, h, x)[x] = nxt[h]
            /\ \A y \in Thread \ {x, h} : Link(nxt, h, x)[y] = nxt[y]
        BY <1>1, <1>3, <2>1, <2>6 DEF Link
      <3>2. \A i \in 1..n : nxt[s[i]] = IF i = n THEN s[1] ELSE s[i + 1]
        BY DEF CircleOf
      <3>3. CASE j = 1
        BY <1>1, <2>1, <2>6, <3>1, <3>3
      <3>4. CASE j = 2
        <4>1. Link(nxt, h, x)[r[j]] = nxt[s[1]]
          BY <2>1, <2>6, <3>1, <3>4
        <4>2. CASE n = 1
          BY <2>1, <3>2, <3>4, <4>1, <4>2
        <4>3. CASE n # 1
          <5>1. 1 \in 1..n /\ 3 \in 3..n + 1
            <6> HIDE DEF n
            <6> QED
              BY <2>0, <4>3
          <5>2. nxt[s[1]] = s[2] /\ r[3] = s[2]
            BY <2>1, <3>2, <4>3, <5>1
          <5>3. j # Len(r) /\ j + 1 = 3
            <6> HIDE DEF n
            <6> QED
              BY <2>0, <2>1, <3>4, <4>3
          <5> QED
            BY <4>1, <5>2, <5>3
        <4> QED
          BY <4>2, <4>3
      <3>5. CASE j \in 3..n + 1
        <4>1. j - 1 \in 1..n /\ r[j] = s[j - 1] /\ s[j - 1] # h /\ j - 1 # 1
          <5>1. j - 1 \in 1..n /\ j - 1 # 1 /\ 1 \in 1..n
            BY <1>1, <3>5
          <5> QED
            BY <2>1, <2>6, <3>5, <5>1 DEF CircleOf
        <4>2. Link(nxt, h, x)[r[j]] = nxt[s[j - 1]]
          BY <1>1, <3>1, <4>1
        <4>3. nxt[s[j - 1]] = IF j - 1 = n THEN s[1] ELSE s[(j - 1) + 1]
          BY <3>2, <4>1
        <4>4. CASE j = n + 1
          BY <1>1, <2>1, <4>2, <4>3, <4>4
        <4>5. CASE j # n + 1
          <5>1. j + 1 \in 3..n + 1 /\ (j + 1) - 1 = j /\ (j - 1) + 1 = j /\ j - 1 # n
            BY <1>1, <3>5, <4>5
          <5> QED
            BY <2>1, <4>2, <4>3, <5>1
        <4> QED
          BY <4>4, <4>5
      <3>6. j = 1 \/ j = 2 \/ j \in 3..n + 1
        <4> HIDE DEF n
        <4> QED
          BY <1>1, <2>1
      <3> QED
        BY Zenon, <3>3, <3>4, <3>5, <3>6
    <2> QED
      BY Zenon, <2>1, <2>4, <2>5, <2>6, <2>7 DEF CircleOf, r
  <1> QED
    BY <1>2, <1>3

(* The circle read from behind its k-th element on. *)
LEMMA CircleTurn ==
  ASSUME NEW s, NEW nxt, NEW h, NEW C, CircleOf(s, nxt, h, C),
         NEW k \in 1..Len(s)
  PROVE  CircleOf(RR!Rotate(s, k), nxt, nxt[s[k]], C)
  <1> DEFINE r == RR!Rotate(s, k)
             n == Len(s)
             At(j) == IF j + k <= n THEN j + k ELSE j + k - n
  <1>1. s \in Seq(Thread) /\ n \in Nat \ {0} /\ k \in 1..n
    BY DEF CircleOf
  <1>2. /\ r \in Seq(Thread) /\ Len(r) = n /\ r # <<>>
        /\ \A j \in 1..n : At(j) \in 1..n /\ r[j] = s[At(j)]
    BY <1>1 DEF RR!Rotate
  <1> HIDE DEF r
  <1>3. C = {r[j] : j \in 1..Len(r)}
    <2>1. ASSUME NEW c \in C PROVE c \in {r[j] : j \in 1..Len(r)}
      <3>1. PICK i \in 1..n : s[i] = c
        BY DEF CircleOf
      <3> DEFINE j == IF i > k THEN i - k ELSE i - k + n
      <3>2. j \in 1..n /\ At(j) = i
        BY <1>1
      <3> QED
        BY <1>2, <3>1, <3>2
    <2>2. ASSUME NEW j \in 1..Len(r) PROVE r[j] \in C
      <3>1. At(j) \in 1..n /\ r[j] = s[At(j)]
        BY <1>2
      <3> HIDE DEF At
      <3> QED
        BY <3>1 DEF CircleOf
    <2> QED
      BY <2>1, <2>2
  <1>4. \A i, j \in 1..Len(r) : r[i] = r[j] => i = j
    <2> SUFFICES ASSUME NEW i \in 1..n, NEW j \in 1..n, r[i] = r[j] PROVE i = j
      BY <1>2
    <2>1. At(i) = At(j)
      <3>1. At(i) \in 1..n /\ At(j) \in 1..n /\ s[At(i)] = s[At(j)]
        BY <1>2
      <3> HIDE DEF At
      <3> QED
        BY <3>1 DEF CircleOf
    <2> QED
      BY <1>1, <2>1
  <1>5. \A i \in 1..n : nxt[s[i]] = IF i = n THEN s[1] ELSE s[i + 1]
    BY DEF CircleOf
  <1>6. nxt[s[k]] = r[1]
    <2>1. r[1] = s[At(1)]
      BY <1>1, <1>2
    <2> QED
      BY <1>1, <1>5, <2>1
  <1>7. ASSUME NEW j \in 1..Len(r)
        PROVE  nxt[r[j]] = IF j = Len(r) THEN r[1] ELSE r[j + 1]
    <2>1. nxt[r[j]] = IF At(j) = n THEN s[1] ELSE s[At(j) + 1]
      BY <1>2, <1>5
    <2>2. CASE j = n
      <3>1. At(j) = k
        BY <1>1, <2>2
      <3>2. r[j] = s[k]
        BY <1>2, <3>1
      <3> QED
        BY <1>2, <1>6, <2>2, <3>2
    <2>3. CASE j # n
      <3>1. /\ j + 1 \in 1..n
            /\ At(j + 1) = IF At(j) = n THEN 1 ELSE At(j) + 1
        BY <1>1, <1>2, <2>3
      <3>2. r[j + 1] = s[At(j + 1)]
        BY <1>2, <3>1
      <3> QED
        BY <1>2, <2>1, <2>3, <3>1, <3>2
    <2> QED
      BY <2>2, <2>3
  <1> QED
    BY <1>2, <1>3, <1>4, <1>6, <1>7 DEF CircleOf, r

-----------------------------------------------------------------------------
(* The two lists are circles of all threads, and of all processes.         *)
Circles ==
  /\ \E s : CircleOf(s, next_sched, head_thrd, Created)
  /\ \E s : CircleOf(s, next, head_proc, Created)

LEMMA WalkReadsCircle ==
  ASSUME NEW s, NEW nxt, NEW h, NEW C, CircleOf(s, nxt, h, C)
  PROVE  [i \in 1..Cardinality(C) |-> Walk(nxt, h, i - 1)] = s
  <1>1. Cardinality(C) = Len(s) /\ Len(s) \in Nat /\ s \in Seq(Thread)
    BY CircleSize DEF CircleOf
  <1>2. ASSUME NEW i \in 1..Len(s) PROVE Walk(nxt, h, i - 1) = s[i]
    <2>1. s # <<>> /\ i - 1 \in 0..Len(s) - 1 /\ (i - 1) + 1 = i
      BY <1>1
    <2> QED
      BY <2>1, CircleWalk
  <1>3. s = [i \in 1..Len(s) |-> s[i]]
    BY <1>1
  <1> QED
    BY <1>1, <1>2, <1>3

LEMMA RingIsCircle ==
  ASSUME NEW s
  PROVE  /\ CircleOf(s, next_sched, head_thrd, Created) => RingOfThreads = s
         /\ CircleOf(s, next_sched', head_thrd', Created') => RingOfThreads' = s
  BY WalkReadsCircle DEF RingOfThreads, Visit

LEMMA SpawnCircle ==
  ASSUME IInv, NEW t \in Thread, NEW kernel \in BOOLEAN, spawn(t, kernel), NEW s
  PROVE  /\ t \notin Created
         /\ CircleOf(s, next_sched, head_thrd, Created)
              => CircleOf(RR!InsertBehindHead(s, t), next_sched', head_thrd',
                          Created')
         /\ CircleOf(s, next, head_proc, Created)
              => CircleOf(RR!InsertBehindHead(s, t), next', head_proc', Created')
  <1>1. t \in Thread \ Created /\ Created' = Created \cup {t}
    BY DEF IInv, TypeOK, Created, spawn, schedule
  <1>2. /\ next_sched' = Link(next_sched, head_thrd, t)
        /\ head_thrd' = IF head_thrd = NULL THEN t ELSE head_thrd
        /\ next' = Link(next, head_proc, t)
        /\ head_proc' = IF head_proc = NULL THEN t ELSE head_proc
    BY DEF spawn, add_process, schedule
  <1>3. /\ next_sched \in [Thread -> Thread \cup {NULL}]
        /\ next \in [Thread -> Thread \cup {NULL}]
    BY DEF IInv, TypeOK
  <1> QED
    BY <1>1, <1>2, <1>3, CircleLink

(* The search of yield() stops at the first thread that does not run.      *)
LEMMA FoundInCircle ==
  ASSUME IInv, NEW s, CircleOf(s, next_sched, head_thrd, Created),
         NEW t \in Thread, Finds(t)
  PROVE  \E k \in 1..Len(s) : /\ s[k] = t /\ t # cur_thrd
                              /\ \A j \in 1..k - 1 : s[j] = cur_thrd
  <1>1. PICK k \in 0..Cardinality(Thread) - 1 :
          /\ Visit(k) = t
          /\ Eligible(t)
          /\ \A j \in 0..k - 1 : ~Eligible(Visit(j))
          /\ \A j \in 1..k : Visit(j) # head_thrd
    BY DEF Finds
  <1>2. s # <<>> /\ Len(s) \in Nat /\ k \in Nat
    BY FS_CardinalityType, ThreadAssumption DEF Finds, CircleOf
  <1>3. /\ \A i \in 0..Len(s) - 1 : Visit(i) = s[i + 1]
        /\ Visit(Len(s)) = head_thrd
    BY <1>2, CircleWalk DEF Visit
  <1>4. k < Len(s)
    <2>1. Len(s) # 0
      BY <1>2 DEF CircleOf
    <2> QED
      BY <1>1, <1>2, <1>3, <2>1
  <1>5. k + 1 \in 1..Len(s) /\ s[k + 1] = t /\ t # cur_thrd
    BY <1>1, <1>2, <1>3, <1>4 DEF Eligible
  <1>6. ASSUME NEW j \in 1..(k + 1) - 1 PROVE s[j] = cur_thrd
    <2>1. j - 1 \in 0..k - 1 /\ j - 1 \in 0..Len(s) - 1 /\ j \in 1..Len(s)
      BY <1>2, <1>4
    <2>2. ~Eligible(Visit(j - 1)) /\ Visit(j - 1) = s[(j - 1) + 1] /\ (j - 1) + 1 = j
      BY <1>1, <1>3, <2>1
    <2>3. s[j] \in Created
      BY <2>1 DEF CircleOf
    <2> QED
      BY <2>2, <2>3 DEF Eligible, Created, IInv, TypeOK, RunningIsCurrent
  <1> QED
    BY <1>5, <1>6

(* Every step keeps both circles, and is for the ring of threads an        *)
(* insertion, a switch or nothing.                                         *)
LEMMA CircleStep ==
  ASSUME IInv, Circles, [Next]_vars
  PROVE  Circles' /\ [RR!RRNext]_(RR!rrvars)
  <1>1. PICK s : CircleOf(s, next_sched, head_thrd, Created)
    BY DEF Circles
  <1>2. PICK p : CircleOf(p, next, head_proc, Created)
    BY DEF Circles
  <1>3. RingOfThreads = s
    BY <1>1, RingIsCircle
  <1>4. ASSUME UNCHANGED <<head_thrd, next_sched, state, cur_thrd, head_proc, next>>
        PROVE  Circles' /\ UNCHANGED RR!rrvars
    <2>1. /\ CircleOf(s, next_sched', head_thrd', Created')
          /\ CircleOf(p, next', head_proc', Created')
      BY <1>1, <1>2, <1>4 DEF Created
    <2>2. RingOfThreads' = s
      BY <2>1, RingIsCircle
    <2> QED
      BY <1>3, <1>4, <2>1, <2>2 DEF Circles, RR!rrvars
  <1>5. ASSUME NEW t \in Thread, NEW kernel \in BOOLEAN, spawn(t, kernel)
        PROVE  Circles' /\ RR!RRNext
    <2>1. /\ CircleOf(RR!InsertBehindHead(s, t), next_sched', head_thrd', Created')
          /\ CircleOf(RR!InsertBehindHead(p, t), next', head_proc', Created')
          /\ t \notin Created
      BY <1>1, <1>2, <1>5, SpawnCircle
    <2>2. RingOfThreads' = RR!InsertBehindHead(s, t)
      BY <2>1, RingIsCircle
    <2>3. ~RR!InRing(t)
      BY <1>1, <1>3, <2>1 DEF RR!InRing, CircleOf
    <2>4. cur_thrd' = cur_thrd
      BY <1>5 DEF spawn
    <2>5. RR!Insert(t)
      BY <1>3, <2>2, <2>3, <2>4 DEF RR!Insert
    <2> QED
      BY <2>1, <2>5 DEF Circles, RR!RRNext
  <1>6. ASSUME timer_irq, yield_switch
        PROVE  Circles' /\ RR!RRNext
    <2>1. PICK t \in Thread :
            /\ Finds(t)
            /\ state' = [u \in Thread |-> IF u = t THEN "RUNNING"
                                          ELSE IF u = cur_thrd THEN "READY"
                                          ELSE state[u]]
            /\ head_thrd' = next_sched[t]
            /\ cur_thrd' = t
      BY <1>6 DEF yield_switch, NextHead
    <2>2. UNCHANGED <<next_sched, head_proc, next>>
      BY <1>6 DEF timer_irq, yield_switch, procs
    <2>3. Created' = Created
      BY <2>1 DEF Finds, Eligible, IInv, TypeOK, Created, RunningIsCurrent
    <2>4. PICK k \in 1..Len(s) : /\ s[k] = t /\ t # cur_thrd
                                 /\ \A j \in 1..k - 1 : s[j] = cur_thrd
      BY <1>1, <2>1, FoundInCircle
    <2>5. CircleOf(RR!Rotate(s, k), next_sched', head_thrd', Created')
      BY <1>1, <2>1, <2>2, <2>3, <2>4, CircleTurn
    <2>6. RingOfThreads' = RR!Rotate(s, k)
      BY <2>5, RingIsCircle
    <2>7. RR!Switch(k)
      BY <1>3, <2>1, <2>4, <2>6 DEF RR!Switch
    <2>8. RR!RRNext
      BY <1>3, <2>4, <2>7 DEF RR!RRNext
    <2> QED
      BY <1>2, <2>2, <2>3, <2>5, <2>8 DEF Circles
  <1> USE DEF ring, procs, vars
  <1>7. CASE kmain_fexec
    <2>1. CASE \E t \in Thread : uspawn(t)
      BY Zenon, <1>5, <2>1 DEF uspawn
    <2> QED
      BY <1>4, <1>7, <2>1 DEF kmain_fexec
  <1>8. CASE start_scheduler \/ kmain_sti \/ PitExpire
    BY <1>4, <1>8 DEF start_scheduler, kmain_sti, PitExpire
  <1>9. CASE timer_irq
    <2>1. CASE yield_return_early
      BY <1>4, <1>9, <2>1 DEF timer_irq, yield_return_early
    <2> QED
      BY <1>6, <1>9, <2>1 DEF timer_irq
  <1>10. CASE kb_handle_escape \/ KbEoi
    BY <1>4, <1>10 DEF kb_handle_escape, KbEoi
  <1>11. CASE kb_handle_key
    <2>1. CASE \E t \in Thread : kspawn(t)
      BY Zenon, <1>5, <2>1 DEF kspawn
    <2> QED
      BY <1>4, <1>11, <2>1 DEF kb_handle_key
  <1>12. CASE syscall_exec
    BY Zenon, <1>5, <1>12 DEF syscall_exec, uspawn
  <1>13. CASE UseFpu
    BY <1>4, <1>13 DEF UseFpu
  <1>14. CASE UNCHANGED vars
    BY <1>4, <1>14
  <1> QED
    BY <1>7, <1>8, <1>9, <1>10, <1>11, <1>12, <1>13, <1>14 DEF Next

LEMMA InitCircles == Init => Circles /\ RR!RRInit
  <1> SUFFICES ASSUME Init PROVE Circles /\ RR!RRInit
    OBVIOUS
  <1>1. Created = {} /\ head_thrd = NULL /\ head_proc = NULL /\ cur_thrd = NULL
    BY DEF Init, Created
  <1>2. /\ CircleOf(<<>>, next_sched, head_thrd, Created)
        /\ CircleOf(<<>>, next, head_proc, Created)
    BY <1>1 DEF CircleOf
  <1>3. RingOfThreads = <<>>
    BY <1>2, RingIsCircle
  <1> QED
    BY <1>1, <1>2, <1>3 DEF Circles, RR!RRInit

LEMMA CircleInvariance == Spec => [](IInv /\ Circles)
  BY InitIInv, NextIInv, InitCircles, CircleStep, PTL DEF Spec

(* add_process() keeps all processes in one circle that head_proc leads    *)
(* into, for any number of processes.                                      *)
THEOREM ProcessesInCircle == Spec => []ProcessCircle
  <1>1. Circles => ProcessCircle
    <2> SUFFICES ASSUME Circles PROVE ProcessCircle
      OBVIOUS
    <2>1. PICK s : CircleOf(s, next, head_proc, Created)
      BY DEF Circles
    <2> DEFINE n == Cardinality(Created)
    <2> SUFFICES ASSUME n > 0
                 PROVE  /\ {Walk(next, head_proc, i) : i \in 0..n - 1} = Created
                        /\ Walk(next, head_proc, n) = head_proc
      BY DEF ProcessCircle
    <2>2. n = Len(s) /\ Len(s) \in Nat /\ s # <<>>
      BY <2>1, CircleSize
    <2>3. /\ \A i \in 0..Len(s) - 1 : Walk(next, head_proc, i) = s[i + 1]
          /\ Walk(next, head_proc, Len(s)) = head_proc
      BY <2>1, <2>2, CircleWalk
    <2>4. {s[i + 1] : i \in 0..Len(s) - 1} = Created
      <3>1. Created = {s[i] : i \in 1..Len(s)}
        BY <2>1 DEF CircleOf
      <3>2. \A i \in 1..Len(s) : i - 1 \in 0..Len(s) - 1 /\ (i - 1) + 1 = i
        BY <2>2
      <3>3. \A i \in 0..Len(s) - 1 : i + 1 \in 1..Len(s)
        BY <2>2
      <3> QED
        BY <3>1, <3>2, <3>3
    <2> QED
      BY <2>2, <2>3, <2>4
  <1> QED
    BY <1>1, CircleInvariance, PTL

(* schedule() and yield() implement the round robin: the pointers form one *)
(* circle of all threads, a new thread is linked behind head_thrd, and a   *)
(* switch takes the first thread of the circle that is not running.        *)
THEOREM SchedulerImplements == Spec => ImplementsRoundRobin
  <1>1. IInv /\ Circles /\ [Next]_vars => [RR!RRNext]_(RR!rrvars)
    BY CircleStep
  <1> QED
    BY <1>1, InitCircles, CircleInvariance, PTL
    DEF Spec, ImplementsRoundRobin, RR!RRSpec

(* Every switch of the scheduler brings every thread that keeps waiting    *)
(* closer to head_thrd: what RoundRobinProofs.tla proves of the round      *)
(* robin holds of the pointers.                                            *)
THEOREM SchedulerWaitIsBounded == Spec => RR!BoundedWait
  <1>1. RRP!RRSpec => RRP!BoundedWait
    BY RRP!WaitIsBounded
  <1>2. RR!RRInit => RRP!RRInit
    BY DEF RR!RRInit, RRP!RRInit
  <1>3. [RR!RRNext]_(RR!rrvars) => [RRP!RRNext]_(RRP!rrvars)
    BY DEF RR!RRNext, RRP!RRNext, RR!rrvars, RRP!rrvars, RR!Insert, RRP!Insert,
           RR!Switch, RRP!Switch, RR!InRing, RRP!InRing, RR!InsertBehindHead,
           RRP!InsertBehindHead, RR!Rotate, RRP!Rotate
  <1>4. [RRP!CloserStep]_(RRP!rrvars) => [RR!CloserStep]_(RR!rrvars)
    BY DEF RR!CloserStep, RRP!CloserStep, RR!rrvars, RRP!rrvars
  <1> QED
    BY <1>1, <1>2, <1>3, <1>4, SchedulerImplements, PTL
    DEF ImplementsRoundRobin, RR!RRSpec, RRP!RRSpec, RR!BoundedWait,
        RRP!BoundedWait
=============================================================================
