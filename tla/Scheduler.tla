------------------------------ MODULE Scheduler ------------------------------
(***************************************************************************)
(* The task switching of the frosk kernel: kernel/src/scheduler.c and      *)
(* scheduler.asm, the end of kmain(), and the two interrupt sources that   *)
(* reach them, the one-shot timer and the keyboard.                        *)
(*                                                                         *)
(* There is one processor.  Every interrupt and system call enters the     *)
(* kernel through an interrupt gate, so it runs with interrupts off and is *)
(* one action here.  The one exception is the Escape key, whose handler    *)
(* executes sti before it acknowledges its interrupt: the rest of that     *)
(* handler is an action of its own (KbEoi).                                *)
(*                                                                         *)
(* schedule() is called once per process (from uspawn and kspawn), so a    *)
(* process and its only thread share a name.                               *)
(***************************************************************************)
EXTENDS Integers, Sequences, FiniteSets

CONSTANTS
  Thread,      \* the thread (and process) structures kalloc can hand out
  NULL

ASSUME ThreadAssumption == IsFiniteSet(Thread) /\ NULL \notin Thread

VARIABLES
  kmain,           \* where the boot code is; "left" once a thread has run
  pit,             \* the one-shot timer: "off", "counting" or "expired"
  escape,          \* contexts that owe the keyboard an end of interrupt
  scheduler_lock,  \* "UNLOCKED" or "LOCKED"
  head_thrd, next_sched, state, cur_thrd,        \* the threads
  head_proc, next, parent,                       \* the processes
  kthrd,           \* the threads that kspawn made: they have no code region
  frame,           \* what lies at the rsp of a thread that does not run
  in,              \* the regions whose pages are mapped (region.c)
  fpu,             \* whose values are in the FPU registers
  fxsave_block,    \* whose values are in the save area of a thread
  used             \* history: the threads that have used the FPU

procs == <<head_proc, next, parent, kthrd>>
ring  == <<head_thrd, next_sched>>
fpus  == <<fpu, fxsave_block, used>>
vars  == <<kmain, pit, escape, scheduler_lock, ring, state, cur_thrd, procs,
           frame, in, fpus>>

Boot == "boot"                    \* kmain(), as a context to interrupt
Context == IF cur_thrd = NULL THEN Boot ELSE cur_thrd

Code(t)  == <<"code", t>>
Stack(t) == <<"stack", t>>
CodeOf(t)  == IF t = NULL \/ t \in kthrd THEN {} ELSE {Code(t)}
StackOf(t) == IF t = NULL THEN {} ELSE {Stack(t)}

-----------------------------------------------------------------------------
(* Creating processes and threads.                                         *)

(* Fault: the head keeps its successor. *)
Link_aside(nxt, h, x) == [nxt EXCEPT ![x] = IF h = NULL THEN x ELSE h]

(* Links x behind the head h of a circular list with successors nxt.       *)
Link(nxt, h, x) ==
  IF h = NULL THEN [nxt EXCEPT ![x] = x]
              ELSE [nxt EXCEPT ![x] = nxt[h], ![h] = x]

(* Fault: the same, for processes only. *)
add_process_aside(p) ==
  /\ scheduler_lock = "UNLOCKED"
  /\ next' = Link_aside(next, head_proc, p)
  /\ head_proc' = IF head_proc = NULL THEN p ELSE head_proc

add_process(p) ==
  /\ scheduler_lock = "UNLOCKED"
  /\ next' = Link(next, head_proc, p)
  /\ head_proc' = IF head_proc = NULL THEN p ELSE head_proc

(* Fault: no frame is put on the new stack. *)
schedule_noframe(t) ==
  /\ scheduler_lock = "UNLOCKED"
  /\ next_sched' = Link(next_sched, head_thrd, t)
  /\ head_thrd' = IF head_thrd = NULL THEN t ELSE head_thrd
  /\ state' = [state EXCEPT ![t] = "READY"]
  /\ UNCHANGED frame

(* The stack is written through a temporary mapping that is gone at the    *)
(* end, and ends in the frame that makes yield() iretq to the start.       *)
schedule(t) ==
  /\ scheduler_lock = "UNLOCKED"
  /\ next_sched' = Link(next_sched, head_thrd, t)
  /\ head_thrd' = IF head_thrd = NULL THEN t ELSE head_thrd
  /\ state' = [state EXCEPT ![t] = "READY"]
  /\ frame' = [frame EXCEPT ![t] = "first"]

(* create_process() and what both spawns do with its result. *)
spawn(t, kernel) ==
  /\ state[t] = "FREE"
  /\ parent' = [parent EXCEPT ![t] = cur_thrd]
  /\ kthrd' = IF kernel THEN kthrd \cup {t} ELSE kthrd
  /\ add_process(t)
  /\ schedule(t)
  /\ UNCHANGED <<pit, escape, scheduler_lock, cur_thrd, in, fpus>>

uspawn(t) == spawn(t, FALSE)
kspawn(t) == spawn(t, TRUE)

-----------------------------------------------------------------------------
(* kmain() after the devices are set up, with interrupts off.              *)

kmain_fexec ==
  /\ kmain = "fexec"
  /\ kmain' = "start_scheduler"
  /\ \/ \E t \in Thread : uspawn(t)
     \/ UNCHANGED <<pit, escape, scheduler_lock, ring, state, cur_thrd, procs,
                    frame, in, fpus>>     \* /prgm/start could not be executed

start_scheduler ==
  /\ kmain = "start_scheduler"
  /\ kmain' = "sti"
  /\ pit' = "counting"
  /\ UNCHANGED <<escape, scheduler_lock, ring, state, cur_thrd, procs, frame,
                 in, fpus>>

kmain_sti ==
  /\ kmain = "sti"
  /\ kmain' = "hlt"
  /\ UNCHANGED <<pit, escape, scheduler_lock, ring, state, cur_thrd, procs,
                 frame, in, fpus>>

(* Interrupts are on from kmain's sti on. *)
InterruptsOn == kmain \in {"hlt", "assert", "left"}

(* An interrupt that returns to kmain() ends its hlt. *)
AfterReturn == IF kmain = "hlt" THEN "assert" ELSE kmain

-----------------------------------------------------------------------------
(* The timer.                                                              *)

(* The timer counts down once each time it is programmed. *)
PitExpire ==
  /\ pit = "counting"
  /\ pit' = "expired"
  /\ UNCHANGED <<kmain, escape, scheduler_lock, ring, state, cur_thrd, procs,
                 frame, in, fpus>>

(* What a walk along the links nxt reaches from h with its k-th step. *)
Walk(nxt, h, k) ==
  LET walk[i \in Nat] == IF i = 0 THEN h ELSE nxt[walk[i - 1]]
  IN  walk[k]

(* The k-th thread that the search of yield() looks at. *)
Visit(k) == Walk(next_sched, head_thrd, k)

Eligible(t) == state[t] = "READY" /\ t # cur_thrd

(* yield() finds t: the lists are not locked, no thread before t was       *)
(* eligible, and the search was not back at the head.                      *)
Finds(t) ==
  /\ scheduler_lock = "UNLOCKED"
  /\ head_thrd # NULL
  /\ \E k \in 0..Cardinality(Thread) - 1 :
       /\ Visit(k) = t
       /\ Eligible(t)
       /\ \A j \in 0..k - 1 : ~Eligible(Visit(j))
       /\ \A j \in 1..k : Visit(j) # head_thrd

(* Fault: the old region is not swapped out. *)
swapflop_keep(mapped, old, new) == mapped \cup new

(* swapflop(old, new): new is mapped where old was.                        *)
swapflop(mapped, old, new) == (mapped \ old) \cup new

(* Fault: the FPU is not saved. *)
fxsave_none == fxsave_block

(* yield() saves the FPU first, whether or not it switches. *)
fxsave == IF cur_thrd = NULL THEN fxsave_block
          ELSE [fxsave_block EXCEPT ![cur_thrd] = fpu]

(* What the registers hold when yield() ends in thread t. *)
fxrstor(t) == IF t = NULL \/ frame[t] = "first" THEN fpu ELSE fxsave[t]

(* yield(): no other thread is ready, or the lists are locked. *)
yield_return_early ==
  /\ ~\E t \in Thread : Finds(t)
  /\ kmain' = AfterReturn
  /\ fxsave_block' = fxsave
  /\ fpu' = IF cur_thrd = NULL THEN fpu ELSE fxsave[cur_thrd]
  /\ UNCHANGED <<ring, state, cur_thrd, frame, in>>

(* Fault: head_thrd is left at the thread that was found. *)
NextHead_stays(t) == t

(* The next search starts behind the thread that was found. *)
NextHead(t) == next_sched[t]

(* yield(): the processor goes to the thread the search found. *)
yield_switch ==
  /\ \E t \in Thread :
       /\ Finds(t)
       /\ state' = [u \in Thread |-> IF u = t THEN "RUNNING"
                                     ELSE IF u = cur_thrd THEN "READY"
                                     ELSE state[u]]
       /\ head_thrd' = NextHead(t)
       /\ in' = swapflop(swapflop(in, CodeOf(cur_thrd), CodeOf(t)),
                         StackOf(cur_thrd), StackOf(t))
       /\ frame' = [u \in Thread |-> IF u = t THEN "live"
                                     ELSE IF u = cur_thrd THEN "saved"
                                     ELSE frame[u]]
       /\ cur_thrd' = t
       /\ fxsave_block' = fxsave
       /\ fpu' = fxrstor(t)
  /\ kmain' = "left"
  /\ UNCHANGED next_sched

(* Fault: the timer is programmed again only after a switch. *)
timer_irq_once ==
  /\ InterruptsOn
  /\ pit = "expired"
  /\ \/ yield_return_early /\ pit' = "off"
     \/ yield_switch /\ pit' = "counting"
  /\ UNCHANGED <<escape, scheduler_lock, procs, used>>

(* timer_irq() acknowledges its interrupt at once; yield() programs the    *)
(* timer again whichever way it ends.                                      *)
timer_irq ==
  /\ InterruptsOn
  /\ pit = "expired"
  /\ yield_return_early \/ yield_switch
  /\ pit' = "counting"
  /\ UNCHANGED <<escape, scheduler_lock, procs, used>>

-----------------------------------------------------------------------------
(* The keyboard.  Its interrupt is blocked while one is not acknowledged.  *)

(* Fault: the lock is never given back. *)
DumpLock_keep(lock, head) == "LOCKED"

(* dump_threads() and dump_procs() keep the lock when the list is empty.   *)
DumpLock(lock, head) == IF head = NULL THEN "LOCKED" ELSE lock

kb_handle_escape ==
  /\ InterruptsOn
  /\ escape = {}
  /\ scheduler_lock' = DumpLock(DumpLock(scheduler_lock, head_thrd), head_proc)
  /\ escape' = {Context}
  /\ UNCHANGED <<kmain, pit, ring, state, cur_thrd, procs, frame, in, fpus>>

(* Fault: the handler returns without acknowledging its interrupt. *)
KbEoi_forgotten ==
  /\ Context \in escape
  /\ kmain' = AfterReturn
  /\ UNCHANGED <<pit, escape, scheduler_lock, ring, state, cur_thrd, procs,
                 frame, in, fpus>>

(* The end of the Escape handler, with interrupts on, in the context that  *)
(* was interrupted.                                                        *)
KbEoi ==
  /\ Context \in escape
  /\ escape' = {}
  /\ kmain' = AfterReturn
  /\ UNCHANGED <<pit, scheduler_lock, ring, state, cur_thrd, procs, frame, in,
                 fpus>>

(* Any other key: kb_put() starts its helper thread the first time a       *)
(* process holds the keyboard file; otherwise it leaves the lists alone.   *)
kb_handle_key ==
  /\ InterruptsOn
  /\ escape = {}
  /\ kmain' = AfterReturn
  /\ \/ /\ kthrd = {}
        /\ cur_thrd # NULL
        /\ \E t \in Thread : kspawn(t)
     \/ UNCHANGED <<pit, escape, scheduler_lock, ring, state, cur_thrd, procs,
                    frame, in, fpus>>

-----------------------------------------------------------------------------
(* Threads.                                                                *)

InThread == cur_thrd # NULL /\ cur_thrd \notin escape

(* The bexec and fexec system calls. *)
syscall_exec ==
  /\ InThread
  /\ cur_thrd \notin kthrd
  /\ \E t \in Thread : uspawn(t)
  /\ UNCHANGED kmain

(* A thread computes with the FPU. *)
UseFpu ==
  /\ InThread
  /\ fpu' = cur_thrd
  /\ used' = used \cup {cur_thrd}
  /\ UNCHANGED <<kmain, pit, escape, scheduler_lock, ring, state, cur_thrd,
                 procs, frame, in, fxsave_block>>

-----------------------------------------------------------------------------
Init ==
  /\ kmain = "fexec"
  /\ pit = "off"
  /\ escape = {}
  /\ scheduler_lock = "UNLOCKED"
  /\ head_thrd = NULL
  /\ head_proc = NULL
  /\ cur_thrd = NULL
  /\ next_sched = [t \in Thread |-> NULL]
  /\ next = [t \in Thread |-> NULL]
  /\ parent = [t \in Thread |-> NULL]
  /\ state = [t \in Thread |-> "FREE"]
  /\ frame = [t \in Thread |-> "none"]
  /\ kthrd = {}
  /\ in = {}
  /\ fpu = NULL
  /\ fxsave_block = [t \in Thread |-> NULL]
  /\ used = {}

Next ==
  \/ kmain_fexec
  \/ start_scheduler
  \/ kmain_sti
  \/ PitExpire
  \/ timer_irq
  \/ kb_handle_escape
  \/ KbEoi
  \/ kb_handle_key
  \/ syscall_exec
  \/ UseFpu

(* The boot code runs on, the timer counts and is served, and a context    *)
(* that owes an end of interrupt sends it in one of its time slices: a     *)
(* slice is 0x101 timer ticks, the rest of the handler a few instructions. *)
Fairness ==
  /\ WF_vars(kmain_fexec) /\ WF_vars(start_scheduler) /\ WF_vars(kmain_sti)
  /\ WF_vars(PitExpire) /\ WF_vars(timer_irq)
  /\ SF_vars(KbEoi)

Spec == Init /\ [][Next]_vars
FairSpec == Spec /\ Fairness

-----------------------------------------------------------------------------
Created == {t \in Thread : state[t] # "FREE"}

TypeOK ==
  /\ kmain \in {"fexec", "start_scheduler", "sti", "hlt", "assert", "left"}
  /\ pit \in {"off", "counting", "expired"}
  /\ escape \subseteq Thread \cup {Boot}
  /\ scheduler_lock \in {"UNLOCKED", "LOCKED"}
  /\ head_thrd \in Thread \cup {NULL}
  /\ head_proc \in Thread \cup {NULL}
  /\ cur_thrd \in Thread \cup {NULL}
  /\ next_sched \in [Thread -> Thread \cup {NULL}]
  /\ next \in [Thread -> Thread \cup {NULL}]
  /\ parent \in [Thread -> Thread \cup {NULL}]
  /\ state \in [Thread -> {"FREE", "READY", "RUNNING"}]
  /\ frame \in [Thread -> {"none", "first", "saved", "live"}]
  /\ kthrd \subseteq Thread
  /\ in \subseteq {"code", "stack"} \X Thread
  /\ fpu \in Thread \cup {NULL}
  /\ fxsave_block \in [Thread -> Thread \cup {NULL}]
  /\ used \subseteq Thread

(* The thread on the processor is the one marked running, and every other  *)
(* created thread is ready with a frame that yield() can resume: no thread *)
(* is lost by a switch and none runs from a frame in use.                  *)
RunningIsCurrent ==
  \A t \in Thread :
    /\ state[t] = "RUNNING" <=> t = cur_thrd
    /\ frame[t] = "live" <=> t = cur_thrd
    /\ state[t] = "READY" <=> frame[t] \in {"first", "saved"}

(* Exactly the code and stack of the running thread are mapped, so that no *)
(* thread ever runs on the memory of another, and the assertion of         *)
(* swapout() that the old region is in the list holds at every switch.     *)
OwnMemoryMapped == in = CodeOf(cur_thrd) \cup StackOf(cur_thrd)

(* A thread that has used the FPU finds its own values there whenever it   *)
(* has the processor, however often it was interrupted and switched out.   *)
OwnFpuState ==
  \A t \in used : IF t = cur_thrd THEN fpu = t ELSE fxsave_block[t] = t

(* The scheduler lock is free whenever a thread runs: neither a spawn with *)
(* interrupts off nor yield() ever meets it locked.                        *)
LockFreeInThreads == head_thrd # NULL => scheduler_lock = "UNLOCKED"

(* The process list is one circle of all the processes there are.          *)
ProcessCircle ==
  LET n == Cardinality(Created) IN
  n > 0 => /\ {Walk(next, head_proc, i) : i \in 0..n - 1} = Created
           /\ Walk(next, head_proc, n) = head_proc

(* The threads of the circular list, from head_thrd on.                    *)
RingOfThreads ==
  [i \in 1..Cardinality(Created) |-> Visit(i - 1)]

RR == INSTANCE RoundRobin WITH ring <- RingOfThreads, cur <- cur_thrd

(* schedule() and yield() implement the round robin of RoundRobin.tla: the *)
(* pointers always form one circle of all threads, and a switch takes the  *)
(* first one that waits.                                                   *)
ImplementsRoundRobin == RR!RRSpec

(* Every thread that was created gets the processor again and again.       *)
EveryThreadRuns ==
  \A t \in Thread : state[t] # "FREE" ~> cur_thrd = t

(* The keyboard is unblocked again after Escape was pressed in a thread.   *)
KeyboardUnblocked ==
  \A t \in Thread : t \in escape ~> escape = {}

(* kmain(): "We should never reach this".                                  *)
KmainNeverReturns == kmain # "assert"
=============================================================================
