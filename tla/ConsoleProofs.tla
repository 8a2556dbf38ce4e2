---------------------------- MODULE ConsoleProofs ----------------------------
(***************************************************************************)
(* Neither start nor its child waits for its own lock, for any number of   *)
(* keys, messages and message sizes.  The invariant needs that both reach  *)
(* stop_recv only at the end of their queue: a result of 0 must not come   *)
(* from a message, which is why pointers must lead to messages that were   *)
(* made, and those are not empty.                                          *)
(*                                                                         *)
(* That the output arrives in order adds what the two queues hold: what    *)
(* the child has put and start has not yet taken is start's queue, in the  *)
(* order of the puts.                                                      *)
(***************************************************************************)
EXTENDS Console, MqueueProofs

Labels == {"recv", "consume", "stop", "size", "keys", "halted",
           "fill", "retry", "scan", "put"}

AtEnd ==
  /\ pc[start] = "stop" => current[start] = NULL
  /\ pc[child] = "scan" => current[child] = NULL

PairInv ==
  /\ QInv
  /\ pc \in [Proc -> Labels]
  /\ LockedInIteration
  /\ AtEnd

LEMMA Programs == start \in Proc /\ child \in Proc /\ start # child
  BY ConsoleAssumption

LEMMA InitPairInv == Init => PairInv
  BY MqInitInv, Programs
  DEF Init, PairInv, LockedInIteration, AtEnd, Labels, Paired

(* An operation of p keeps the invariant if it keeps p's own part.         *)
LEMMA OwnPart ==
  ASSUME PairInv, NEW p \in Proc, NEW l \in Labels, QInv', OthersKept(p), Paired(p)',
         pc' = [pc EXCEPT ![p] = l], l \in {"stop", "scan"} => current'[p] = NULL
  PROVE  PairInv'
  <1>1. pc' \in [Proc -> Labels] /\ pc'[p] = l /\ \A r \in Proc \ {p} : pc'[r] = pc[r]
    BY DEF PairInv
  <1>2. LockedInIteration'
    BY DEF PairInv, LockedInIteration, OthersKept, Paired
  <1>3. AtEnd'
    BY <1>1, Programs DEF PairInv, AtEnd, OthersKept
  <1>4. QED
    BY <1>1, <1>2, <1>3 DEF PairInv

(* A step that takes no message and moves no program to stop_recv.         *)
LEMMA QueueKept ==
  ASSUME PairInv, NEW p \in Proc, NEW l \in Labels \ {"stop", "scan"}, QInv',
         lock' = lock, current' = current, pc' = [pc EXCEPT ![p] = l] \/ pc' = pc
  PROVE  PairInv'
  <1>1. pc' \in [Proc -> Labels]
        /\ \A r \in Proc : pc'[r] \in {"stop", "scan"} => pc'[r] = pc[r]
    BY DEF PairInv
  <1>2. LockedInIteration' /\ AtEnd'
    BY <1>1, Programs DEF PairInv, LockedInIteration, AtEnd
  <1>3. QED
    BY <1>1, <1>2 DEF PairInv

LEMMA StartPairInv == ASSUME PairInv, StartStep PROVE PairInv'
  <1>. USE Programs
  <1>0. QInv /\ Paired(start)
    BY DEF PairInv, LockedInIteration, Paired
  <1>1. CASE start_recv
    <2>1. /\ QInv' /\ OthersKept(start) /\ Paired(start)'
          /\ current'[start] = Received(start)
          /\ RecvResult(start) = 0 <=> Received(start) = NULL
      BY <1>0, <1>1, RecvKeeps DEF start_recv
    <2>2. \/ RecvResult(start) = 0 /\ pc' = [pc EXCEPT ![start] = "stop"]
          \/ pc' = [pc EXCEPT ![start] = "consume"]
      BY <1>1 DEF start_recv, Goto
    <2>3. QED
      BY <2>1, <2>2, OwnPart DEF Labels
  <1>2. CASE start_consume
    <2>1. QInv' /\ OthersKept(start) /\ Paired(start)'
      BY <1>0, <1>2, ConsumeKeeps DEF start_consume
    <2>2. pc' = [pc EXCEPT ![start] = "recv"]
      BY <1>2 DEF start_consume, Goto
    <2>3. QED
      BY <2>1, <2>2, OwnPart DEF Labels
  <1>3. CASE start_stop
    <2>1. /\ QInv' /\ OthersKept(start) /\ lock'[start] = "UNLOCKED"
          /\ current' = current
      BY <1>0, <1>3, StopKeeps DEF start_stop
    <2>2. current[start] = NULL
      BY <1>3 DEF start_stop, PairInv, AtEnd
    <2>3. pc' = [pc EXCEPT ![start] = "size"]
      BY <1>3 DEF start_stop, Goto
    <2>4. QED
      BY <2>1, <2>2, <2>3, OwnPart DEF Labels, Paired
  <1>4. CASE start_keys
    <2>1. CASE send_spin(start, child) /\ pc' = pc
      BY <1>0, <2>1, SpinKeeps, QueueKept DEF Labels
    <2>2. ASSUME NEW ends \in BOOLEAN, send_msg(child, Char(typed + 1, ends), 1), pc' = pc
          PROVE  PairInv'
      <3>1. QInv' /\ lock' = lock /\ current' = current
        BY <1>0, <2>2, SendKeeps
      <3>2. QED
        BY <2>2, <3>1, QueueKept DEF Labels
    <2>3. CASE Goto(start, "recv") /\ UNCHANGED mqvars
      <3>1. QInv' /\ lock' = lock /\ current' = current
        BY <1>0, <2>3 DEF mqvars, lists, QInv, QTypes, LeadsToMade, Made
      <3>2. QED
        BY <2>3, <3>1, QueueKept DEF Labels, Goto
    <2>4. QED
      BY <1>4, <2>1, <2>2, <2>3 DEF start_keys
  <1>5. CASE start_size
    <2>1. QInv' /\ lock' = lock /\ current' = current
      BY <1>0, <1>5 DEF start_size, mqvars, lists, QInv, QTypes, LeadsToMade, Made
    <2>2. QED
      BY <1>5, <2>1, QueueKept DEF start_size, Labels, Goto
  <1>6. QED
    BY <1>1, <1>2, <1>3, <1>4, <1>5 DEF StartStep

LEMMA ChildPairInv == ASSUME PairInv, ChildStep PROVE PairInv'
  <1>. USE Programs
  <1>0. QInv /\ Paired(child)
    BY DEF PairInv, LockedInIteration, Paired
  <1>1. CASE fgets_recv \/ fgets_retry
    <2>1. QInv' /\ OthersKept(child) /\ Paired(child)'
      BY <1>0, <1>1, RecvKeeps DEF fgets_recv, fgets_retry
    <2>2. \/ pc' = [pc EXCEPT ![child] = "consume"]
          \/ pc' = [pc EXCEPT ![child] = "retry"]
      BY <1>1 DEF fgets_recv, fgets_retry, Fill, Goto
    <2>3. QED
      BY <2>1, <2>2, OwnPart DEF Labels
  <1>2. CASE fgets_consume
    <2>1. QInv' /\ OthersKept(child) /\ Paired(child)'
      BY <1>0, <1>2, ConsumeKeeps DEF fgets_consume
    <2>2. pc' = [pc EXCEPT ![child] = IF current'[child] = NULL THEN "scan" ELSE "fill"]
      BY <1>2 DEF fgets_consume, Goto
    <2>3. QED
      BY <2>1, <2>2, OwnPart DEF Labels
  <1>3. CASE fgets_scan
    <2>1. /\ QInv' /\ OthersKept(child) /\ lock'[child] = "UNLOCKED"
          /\ current' = current
      BY <1>0, <1>3, StopKeeps DEF fgets_scan
    <2>2. current[child] = NULL
      BY <1>3 DEF fgets_scan, PairInv, AtEnd
    <2>3. \/ pc' = [pc EXCEPT ![child] = "put"]
          \/ pc' = [pc EXCEPT ![child] = "fill"]
      BY <1>3 DEF fgets_scan, Goto
    <2>4. QED
      BY <2>1, <2>2, <2>3, OwnPart DEF Labels, Paired
  <1>4. CASE child_puts
    <2>1. CASE send_spin(child, start) /\ pc' = pc
      BY <1>0, <2>1, SpinKeeps, QueueKept DEF Labels
    <2>2. ASSUME NEW sz \in OutSizes, send_msg(start, Char(written + 1, FALSE), sz), pc' = pc
          PROVE  PairInv'
      <3>1. QInv' /\ lock' = lock /\ current' = current
        BY <1>0, <2>2, SendKeeps, ConsoleAssumption
      <3>2. QED
        BY <2>2, <3>1, QueueKept DEF Labels
    <2>3. CASE Goto(child, "fill") /\ UNCHANGED mqvars
      <3>1. QInv' /\ lock' = lock /\ current' = current
        BY <1>0, <2>3 DEF mqvars, lists, QInv, QTypes, LeadsToMade, Made
      <3>2. QED
        BY <2>3, <3>1, QueueKept DEF Labels, Goto
    <2>4. QED
      BY <1>4, <2>1, <2>2, <2>3 DEF child_puts
  <1>5. QED
    BY <1>1, <1>2, <1>3, <1>4 DEF ChildStep

LEMMA NextPairInv == PairInv /\ [Next]_vars => PairInv'
  <1>. SUFFICES ASSUME PairInv, [Next]_vars PROVE PairInv'
    OBVIOUS
  <1>1. CASE UNCHANGED vars
    BY <1>1
    DEF vars, mqvars, lists, PairInv, QInv, QTypes, LeadsToMade, Made,
        LockedInIteration, AtEnd
  <1>2. QED
    BY <1>1, StartPairInv, ChildPairInv DEF Next

(* Whatever is typed and written, in any amount, start and its child hold  *)
(* the lock of their queue exactly while they iterate over it: recv_msg    *)
(* never waits for a lock its own caller left behind.                      *)
THEOREM NeverWaitsForItself == Spec => []LockedInIteration
  <1>1. PairInv => LockedInIteration
    BY DEF PairInv
  <1>2. QED
    BY <1>1, InitPairInv, NextPairInv, PTL DEF Spec

-----------------------------------------------------------------------------
(* What the child writes.  start consumes each message as it receives it,  *)
(* so always the tail.  The child may keep a pointer to the message that   *)
(* it consumed at the head; that one is in neither queue, leads nowhere,   *)
(* and is not reused before the child has moved on, for then no process    *)
(* sends: start spins on the child's lock.                                 *)

(* What the child writes n-th. *)
Out(n) == Char(n, FALSE)

(* The number of messages that left the queue of start. *)
Gone == IF pc[start] = "consume" THEN Len(shown) - 1 ELSE Len(shown)

Queues(s, c) ==
  /\ Queue(s, start) /\ Queue(c, child)
  /\ Members(s) \cap Members(c) = {}

StartAt(s) ==
  current[start] = IF pc[start] = "consume" THEN s[1] ELSE NULL

ChildAt(s, c) ==
  \/ current[child] \in Members(c) \cup {NULL}
  \/ /\ pc[child] = "fill"
     /\ prev[current[child]] = NULL
     /\ current[child] \in Msg \ Members(s)

Chars == [n : Nat, ends : BOOLEAN]

Output(s) ==
  /\ pc[start] = "consume" => s # <<>>
  /\ DOMAIN data = Msg
  /\ written \in Nat
  /\ shown \in Seq(Chars)
  /\ Gone + Len(s) = written
  /\ \A i \in 1..Len(s) : data[s[i]] = Out(Gone + i)
  /\ \A i \in 1..Len(shown) : shown[i] \in {Out(i), DISCARDED}

OutInv ==
  /\ PairInv
  /\ \E s, c : Queues(s, c) /\ StartAt(s) /\ ChildAt(s, c) /\ Output(s)

LEMMA CharsAre == DISCARDED \in Chars /\ \A n \in Nat : Out(n) \in Chars
  BY DEF Out, Char, Chars, DISCARDED

LEMMA InitOutInv == Init => OutInv
  <1> SUFFICES ASSUME Init PROVE OutInv
    OBVIOUS
  <1> USE Programs
  <1>1. Members(<<>>) = {}
    BY DEF Members
  <1>2. Queues(<<>>, <<>>)
    BY <1>1 DEF Init, MqInit, Queues, Queue, IsQueue
  <1>3. current[start] = NULL /\ current[child] = NULL /\ pc[start] = "recv"
    BY DEF Init, MqInit
  <1>4. StartAt(<<>>) /\ ChildAt(<<>>, <<>>)
    BY <1>3 DEF StartAt, ChildAt
  <1>5. Output(<<>>)
    BY <1>3 DEF Output, Init, MqInit, Gone
  <1> QED
    BY <1>2, <1>4, <1>5, InitPairInv DEF OutInv

(* recv_msg() of a process that is at a message of its queue, or at none,  *)
(* moves to one or to none.                                                *)
LEMMA ReceivedInQueue ==
  ASSUME NEW p, NEW s, Queue(s, p), current[p] \in Members(s) \cup {NULL}
  PROVE  /\ Received(p) \in Members(s) \cup {NULL}
         /\ current[p] = NULL => Received(p) = IF s = <<>> THEN NULL ELSE s[1]
  <1>1. /\ s \in Seq(Msg) /\ Len(s) \in Nat
        /\ \A i \in 1..Len(s) : s[i] \in Members(s)
    BY DEF Queue, IsQueue, Members
  <1>2. CASE current[p] = NULL
    BY <1>1, <1>2 DEF Received, Queue, IsQueue
  <1>3. CASE current[p] # NULL
    <2>1. PICK i \in 1..Len(s) : current[p] = s[i]
      BY <1>3 DEF Members
    <2>2. prev[s[i]] = IF i = Len(s) THEN NULL ELSE s[i + 1]
      BY DEF Queue, IsQueue
    <2>3. i # Len(s) => i + 1 \in 1..Len(s)
      BY <1>1
    <2> QED
      BY <1>1, <1>3, <2>1, <2>2, <2>3 DEF Received
  <1> QED
    BY <1>2, <1>3

(* A step of the child that leaves the lists and the output alone. *)
LEMMA ChildMoves ==
  ASSUME PairInv', NEW s, NEW c,
         Queues(s, c), StartAt(s), Output(s), ChildAt(s, c)',
         UNCHANGED lists, current'[start] = current[start],
         pc'[start] = pc[start], UNCHANGED <<written, shown>>
  PROVE  OutInv'
  <1>1. Queues(s, c)'
    BY ListsKept DEF Queues
  <1>2. StartAt(s)'
    BY DEF StartAt
  <1>3. Output(s)'
    BY DEF Output, Gone, lists
  <1> QED
    BY <1>1, <1>2, <1>3 DEF OutInv

(* A step of start that leaves the lists alone and does not receive. *)
LEMMA StartMoves ==
  ASSUME PairInv', NEW s, NEW c,
         Queues(s, c), StartAt(s), Output(s), ChildAt(s, c),
         UNCHANGED <<lists, current>>, pc'[child] = pc[child],
         pc[start] # "consume", pc'[start] # "consume",
         UNCHANGED <<written, shown>>
  PROVE  OutInv'
  <1>1. Queues(s, c)'
    BY ListsKept DEF Queues
  <1>2. StartAt(s)'
    BY DEF StartAt
  <1>3. ChildAt(s, c)'
    BY DEF ChildAt, lists
  <1>4. Output(s)'
    BY DEF Output, Gone, lists
  <1> QED
    BY <1>1, <1>2, <1>3, <1>4 DEF OutInv

(* What consume_msg of the k-th message leaves of p's queue s. *)
Removed(p, s, k) ==
  /\ Queue(Without(s, k), p)'
  /\ Members(Without(s, k)) = Members(s) \ {s[k]}
  /\ OtherQueuesKept(p, s)
  /\ \A x \in Msg \ Members(s) : prev'[x] = prev[x]
  /\ data' = data
  /\ \/ current'[p] = NULL
     \/ current'[p] = s[k] /\ prev'[s[k]] = NULL
     \/ current'[p] \in Members(Without(s, k))
  /\ k = 1 => current'[p] = NULL

LEMMA ConsumeRemoved ==
  ASSUME QTypes, NEW p \in Proc, consume_msg(p), NEW s, Queue(s, p),
         NEW k \in 1..Len(s), current[p] = s[k]
  PROVE  Removed(p, s, k)
  BY ConsumeRemoves DEF Removed

LEMMA StartOutInv == ASSUME OutInv, StartStep PROVE OutInv'
  <1> USE Programs
  <1>1. PICK s, c : Queues(s, c) /\ StartAt(s) /\ ChildAt(s, c) /\ Output(s)
    BY DEF OutInv
  <1>2. /\ PairInv /\ PairInv' /\ QTypes /\ QInv /\ pc \in [Proc -> Labels]
        /\ Paired(start) /\ Paired(child)
    BY StartPairInv DEF OutInv, PairInv, QInv, LockedInIteration, Paired
  <1>3. Queue(s, start) /\ Queue(c, child) /\ Members(s) \cap Members(c) = {}
    BY <1>1 DEF Queues
  <1>4. s \in Seq(Msg) /\ Len(s) \in Nat /\ (s = <<>> <=> Len(s) = 0)
        /\ Members(c) \subseteq Msg /\ NULL \notin Msg
    BY <1>3, MqueueAssumption DEF Queue, IsQueue, Members
  <1>5. CASE start_recv
    <2>1. /\ pc[start] = "recv" /\ current[start] = NULL
          /\ UNCHANGED <<lists, written>>
      BY <1>1, <1>5 DEF StartAt, start_recv, recv_msg
    <2>2. Received(start) = IF s = <<>> THEN NULL ELSE s[1]
      BY <1>3, <2>1, ReceivedInQueue
    <2>3. /\ RecvResult(start) = 0 <=> Received(start) = NULL
          /\ current'[start] = Received(start) /\ current'[child] = current[child]
      BY <1>2, <1>5, RecvKeeps DEF start_recv, OthersKept
    <2>4. Queues(s, c)'
      BY <1>3, <2>1, ListsKept DEF Queues
    <2>5. ASSUME pc'[child] = pc[child] PROVE ChildAt(s, c)'
      BY <1>1, <2>1, <2>3, <2>5 DEF ChildAt, lists
    <2>6. CASE s = <<>>
      <3>1. pc'[start] = "stop" /\ pc'[child] = pc[child] /\ shown' = shown
        BY <1>2, <1>5, <2>2, <2>3, <2>6 DEF start_recv, Goto
      <3>2. StartAt(s)'
        BY <2>2, <2>3, <2>6, <3>1 DEF StartAt
      <3>3. Output(s)'
        BY <1>1, <2>1, <3>1 DEF Output, Gone, lists
      <3> QED
        BY <1>2, <2>4, <2>5, <3>1, <3>2, <3>3 DEF OutInv
    <2>7. CASE s # <<>>
      <3>1. s[1] # NULL /\ 1 \in 1..Len(s)
        BY <1>4, <2>7
      <3>2. /\ pc'[start] = "consume" /\ pc'[child] = pc[child]
            /\ \/ shown' = Append(shown, data[s[1]])
               \/ shown' = Append(shown, DISCARDED)
        BY <1>2, <1>5, <2>2, <2>3, <2>7, <3>1 DEF start_recv, Goto
      <3>3. StartAt(s)'
        BY <2>2, <2>3, <2>7, <3>2 DEF StartAt
      <3>4. Output(s)'
        <4>0. Gone = Len(shown)
          BY <2>1 DEF Gone
        <4>1. /\ shown \in Seq(Chars) /\ Len(shown) \in Nat
              /\ \A i \in 1..Len(shown) : shown[i] \in {Out(i), DISCARDED}
              /\ Len(shown) + Len(s) = written /\ written \in Nat
              /\ \A i \in 1..Len(s) : data[s[i]] = Out(Len(shown) + i)
          <5>1. /\ shown \in Seq(Chars)
                /\ \A i \in 1..Len(shown) : shown[i] \in {Out(i), DISCARDED}
                /\ Gone + Len(s) = written /\ written \in Nat
                /\ \A i \in 1..Len(s) : data[s[i]] = Out(Gone + i)
            BY <1>1 DEF Output
          <5> QED
            BY <4>0, <5>1
        <4>2. PICK o : shown' = Append(shown, o)
                       /\ o \in {Out(Len(shown) + 1), DISCARDED}
          BY <3>1, <3>2, <4>1
        <4>3. o \in Chars
          BY <4>1, <4>2, CharsAre
        <4>4. /\ shown' \in Seq(Chars) /\ Len(shown') = Len(shown) + 1
              /\ \A i \in 1..Len(shown) : shown'[i] = shown[i]
              /\ shown'[Len(shown) + 1] = o
          BY <4>1, <4>2, <4>3
        <4>5. Gone' = Len(shown)
          BY <3>2, <4>1, <4>4 DEF Gone
        <4>6. \A i \in 1..Len(shown') : shown'[i] \in {Out(i), DISCARDED}
          <5>1. \A i \in 1..Len(shown') : i \in 1..Len(shown) \/ i = Len(shown) + 1
            BY <4>1, <4>4
          <5> QED
            BY <4>1, <4>2, <4>4, <5>1
        <4>7. \A i \in 1..Len(s) : data'[s[i]] = Out(Gone' + i)
          BY <2>1, <4>1, <4>5 DEF lists
        <4>8. Gone' + Len(s) = written' /\ written' \in Nat
          BY <2>1, <4>1, <4>5
        <4> QED
          BY <1>1, <2>1, <2>7, <4>4, <4>6, <4>7, <4>8 DEF Output, lists
      <3> QED
        BY <1>2, <2>4, <2>5, <3>2, <3>3, <3>4 DEF OutInv
    <2> QED
      BY <2>6, <2>7
  <1>6. CASE start_consume
    <2>1. /\ pc[start] = "consume" /\ s # <<>> /\ current[start] = s[1]
          /\ consume_msg(start) /\ UNCHANGED <<written, shown>>
      BY <1>1, <1>6 DEF start_consume, StartAt, Output
    <2>2. pc'[start] = "recv" /\ pc'[child] = pc[child]
      BY <1>2, <1>6 DEF start_consume, Goto
    <2> DEFINE w == Without(s, 1)
    <2>3. 1 \in 1..Len(s)
      BY <1>4, <2>1
    <2>4. /\ Queue(w, start)' /\ Members(w) = Members(s) \ {s[1]}
          /\ OtherQueuesKept(start, s)
          /\ data' = data /\ current'[start] = NULL
      <3>1. /\ QTypes /\ start \in Proc /\ consume_msg(start) /\ Queue(s, start)
            /\ 1 \in 1..Len(s) /\ current[start] = s[1]
        BY <1>2, <1>3, <2>1, <2>3
      <3>2. Removed(start, s, 1)
        BY Zenon, <3>1, ConsumeRemoved
      <3> QED
        BY Zenon, <3>2 DEF Removed
    <2>5. Queue(c, child)'
      BY <1>3, <2>4 DEF OtherQueuesKept
    <2>6. Queues(w, c)'
      BY <1>3, <2>4, <2>5 DEF Queues
    <2>7. StartAt(w)'
      BY <2>2, <2>4 DEF StartAt
    <2>8. current'[child] = current[child]
      BY <1>2, <2>1, ConsumeKeeps DEF OthersKept
    <2>9. ChildAt(w, c)'
      <3>1. CASE current[child] \in Members(c) \cup {NULL}
        BY <2>8, <3>1 DEF ChildAt
      <3>2. CASE /\ pc[child] = "fill" /\ prev[current[child]] = NULL
                 /\ current[child] \in Msg \ Members(s)
        <4>1. prev'[current[child]] = prev[current[child]]
          <5>1. /\ QTypes /\ start \in Proc /\ consume_msg(start) /\ Queue(s, start)
                /\ 1 \in 1..Len(s) /\ current[start] = s[1]
            BY <1>2, <1>3, <2>1, <2>3
          <5>2. Removed(start, s, 1)
            BY Zenon, <5>1, ConsumeRemoved
          <5> QED
            BY Zenon, <3>2, <5>2 DEF Removed
        <4> QED
          BY <2>2, <2>4, <2>8, <3>2, <4>1 DEF ChildAt
      <3> QED
        BY <1>1, <3>1, <3>2 DEF ChildAt
    <2>10. Output(w)'
      <3>1. /\ Len(shown) \in Nat /\ Gone = Len(shown) - 1 /\ Gone' = Len(shown)
        BY <1>1, <2>1, <2>2 DEF Gone, Output
      <3>2. Len(w) = Len(s) - 1 /\ \A i \in 1..Len(s) - 1 : w[i] = s[i + 1]
        <4>1. \A i, j \in 1..Len(s) : s[i] = s[j] => i = j
          BY <1>3 DEF Queue, IsQueue
        <4>2. Len(w) = Len(s) - 1
          BY <1>4, <2>3, <4>1, WithoutShape
        <4>3. \A i \in 1..Len(s) - 1 : ~(i < 1)
          BY <1>4
        <4> QED
          BY <4>2, <4>3 DEF Without
      <3>3. \A i \in 1..Len(s) : data[s[i]] = Out(Gone + i)
        BY <1>1 DEF Output
      <3>4. \A i \in 1..Len(w) : data'[w[i]] = Out(Gone' + i)
        <4> SUFFICES ASSUME NEW i \in 1..Len(w)
                     PROVE  data[w[i]] = Out(Len(shown) + i)
          BY <2>4, <3>1
        <4>1. i + 1 \in 1..Len(s) /\ w[i] = s[i + 1] /\ Gone + (i + 1) = Len(shown) + i
          BY <1>4, <3>1, <3>2
        <4> QED
          BY <3>3, <4>1
      <3>5. Gone' + Len(w) = written'
        <4>1. Gone + Len(s) = written /\ written' = written
          BY <1>1, <2>1 DEF Output
        <4> HIDE DEF w
        <4>2. Len(w) = Len(s) - 1
          BY <3>2
        <4> QED
          BY <1>4, <3>1, <4>1, <4>2
      <3> QED
        BY <1>1, <2>1, <2>2, <2>4, <3>4, <3>5 DEF Output
    <2> QED
      BY <1>2, <2>6, <2>7, <2>9, <2>10 DEF OutInv
  <1>7. CASE start_stop
    <2>1. /\ UNCHANGED <<lists, current, written, shown>>
          /\ pc[start] = "stop" /\ pc'[start] = "size" /\ pc'[child] = pc[child]
      BY <1>2, <1>7 DEF start_stop, stop_recv, Goto
    <2> QED
      BY <1>1, <1>2, <2>1, StartMoves
  <1>8. CASE start_keys
    <2>1. ASSUME UNCHANGED <<lists, current>>, pc' = pc \/ Goto(start, "recv")
          PROVE  OutInv'
      <3>1. /\ pc[start] = "keys" /\ pc'[start] \in {"keys", "recv"}
            /\ pc'[child] = pc[child] /\ UNCHANGED <<written, shown>>
        BY <1>2, <1>8, <2>1 DEF start_keys, Goto
      <3> QED
        BY <1>1, <1>2, <2>1, <3>1, StartMoves
    <2>2. ASSUME NEW ends \in BOOLEAN, send_msg(child, Char(typed + 1, ends), 1),
                 pc' = pc, UNCHANGED <<written, shown>>
          PROVE  OutInv'
      <3>1. PICK m \in Msg :
              /\ heap[m] # "used"
              /\ data' = [data EXCEPT ![m] = Char(typed + 1, ends)]
              /\ Queue(Append(c, m), child)'
              /\ Members(Append(c, m)) = Members(c) \cup {m}
              /\ OtherQueuesKept(child, c)
        BY <1>2, <1>3, <2>2, SendAppends
      <3>2. Queue(s, start)' /\ m \notin Members(s)
        BY <1>3, <3>1 DEF OtherQueuesKept, Queue
      <3>3. Queues(s, Append(c, m))'
        BY <1>3, <3>1, <3>2 DEF Queues
      <3>4. current' = current /\ lock[child] = "UNLOCKED"
        BY <2>2 DEF send_msg
      <3>5. StartAt(s)'
        BY <1>1, <2>2, <3>4 DEF StartAt
      <3>6. ChildAt(s, Append(c, m))'
        BY <1>2, <3>4 DEF ChildAt, Paired
      <3>7. \A i \in 1..Len(s) : data'[s[i]] = data[s[i]]
        BY <3>1, <3>2 DEF Members
      <3>8. Output(s)'
        BY <1>1, <2>2, <3>1, <3>7 DEF Output, Gone
      <3> QED
        BY <1>2, <3>3, <3>5, <3>6, <3>8 DEF OutInv
    <2>3. CASE send_spin(start, child) /\ pc' = pc
      BY <2>1, <2>3 DEF send_spin
    <2>4. CASE Goto(start, "recv") /\ UNCHANGED mqvars
      BY <2>1, <2>4 DEF mqvars
    <2> QED
      BY <1>8, <2>2, <2>3, <2>4 DEF start_keys
  <1>9. CASE start_size
    <2>1. /\ UNCHANGED <<lists, current, written, shown>>
          /\ pc[start] = "size" /\ pc'[start] \in {"keys", "halted"}
          /\ pc'[child] = pc[child]
      BY <1>2, <1>9 DEF start_size, mqvars, Goto
    <2> QED
      BY <1>1, <1>2, <2>1, StartMoves
  <1> QED
    BY <1>5, <1>6, <1>7, <1>8, <1>9 DEF StartStep

LEMMA ChildOutInv == ASSUME OutInv, ChildStep PROVE OutInv'
  <1> USE Programs
  <1>1. PICK s, c : Queues(s, c) /\ StartAt(s) /\ ChildAt(s, c) /\ Output(s)
    BY DEF OutInv
  <1>2. /\ PairInv /\ PairInv' /\ QTypes /\ QInv /\ pc \in [Proc -> Labels]
        /\ Paired(start) /\ Paired(child)
    BY ChildPairInv DEF OutInv, PairInv, QInv, LockedInIteration, Paired
  <1>3. Queue(s, start) /\ Queue(c, child) /\ Members(s) \cap Members(c) = {}
    BY <1>1 DEF Queues
  <1>4. s \in Seq(Msg) /\ Len(s) \in Nat /\ Members(s) \subseteq Msg
        /\ Members(c) \subseteq Msg /\ NULL \notin Msg
    BY <1>3, MqueueAssumption DEF Queue, IsQueue, Members
  <1>5. CASE fgets_recv \/ fgets_retry
    <2>1. /\ UNCHANGED <<lists, written, shown>> /\ pc'[start] = pc[start]
          /\ recv_msg(child)
      BY <1>2, <1>5 DEF fgets_recv, fgets_retry, Fill, Goto, recv_msg
    <2>2. current'[child] = Received(child) /\ current'[start] = current[start]
      BY <1>2, <2>1, RecvKeeps DEF OthersKept
    <2>3. Received(child) \in Members(c) \cup {NULL}
      <3>1. CASE current[child] \in Members(c) \cup {NULL}
        BY <1>3, <3>1, ReceivedInQueue
      <3>2. CASE prev[current[child]] = NULL /\ current[child] \in Msg
        BY <1>4, <3>2 DEF Received
      <3> QED
        BY <1>1, <3>1, <3>2 DEF ChildAt
    <2>4. ChildAt(s, c)'
      BY <2>2, <2>3 DEF ChildAt
    <2> QED
      BY <1>1, <1>2, <2>1, <2>2, <2>4, ChildMoves
  <1>6. CASE fgets_consume
    <2>1. /\ UNCHANGED <<written, shown>> /\ pc'[start] = pc[start]
          /\ pc[child] = "consume" /\ consume_msg(child)
          /\ pc'[child] = IF current'[child] = NULL THEN "scan" ELSE "fill"
      BY <1>2, <1>6 DEF fgets_consume, Goto
    <2>2. current[child] \in Members(c) \cup {NULL}
      BY <1>1, <2>1 DEF ChildAt
    <2>3. current'[start] = current[start]
      BY <1>2, <2>1, ConsumeKeeps DEF OthersKept
    <2>4. CASE current[child] = NULL
      <3>1. UNCHANGED <<lists, current>>
        BY <2>1, <2>4 DEF consume_msg
      <3>2. ChildAt(s, c)'
        BY <2>4, <3>1 DEF ChildAt
      <3> QED
        BY <1>1, <1>2, <2>1, <3>1, <3>2, ChildMoves
    <2>5. CASE current[child] \in Members(c)
      <3>1. PICK k \in 1..Len(c) : current[child] = c[k]
        BY <2>5 DEF Members
      <3>2. /\ Queue(Without(c, k), child)'
            /\ Members(Without(c, k)) = Members(c) \ {c[k]}
            /\ OtherQueuesKept(child, c)
            /\ data' = data
            /\ \/ current'[child] = NULL
               \/ current'[child] = c[k] /\ prev'[c[k]] = NULL
               \/ current'[child] \in Members(Without(c, k))
        <4>1. /\ QTypes /\ child \in Proc /\ consume_msg(child) /\ Queue(c, child)
              /\ k \in 1..Len(c) /\ current[child] = c[k]
          BY <1>2, <1>3, <2>1, <3>1
        <4>2. Removed(child, c, k)
          BY Zenon, <4>1, ConsumeRemoved
        <4> QED
          BY Zenon, <4>2 DEF Removed
      <3>3. Queue(s, start)'
        BY <1>3, <3>2 DEF OtherQueuesKept
      <3>4. Queues(s, Without(c, k))'
        BY <1>3, <3>2, <3>3 DEF Queues
      <3>5. c[k] \in Msg \ Members(s) /\ c[k] # NULL
        BY <1>3, <1>4, <2>5, <3>1
      <3>6. ChildAt(s, Without(c, k))'
        BY <2>1, <3>2, <3>5 DEF ChildAt
      <3>7. StartAt(s)'
        BY <1>1, <2>1, <2>3 DEF StartAt
      <3>8. Output(s)'
        BY <1>1, <2>1, <3>2 DEF Output, Gone
      <3> QED
        BY <1>2, <3>4, <3>6, <3>7, <3>8 DEF OutInv
    <2> QED
      BY <2>2, <2>4, <2>5
  <1>7. CASE fgets_scan
    <2>1. /\ UNCHANGED <<lists, current, written, shown>> /\ pc'[start] = pc[start]
          /\ pc[child] = "scan"
      BY <1>2, <1>7 DEF fgets_scan, stop_recv, Goto
    <2>2. ChildAt(s, c)'
      BY <1>1, <2>1 DEF ChildAt
    <2> QED
      BY <1>1, <1>2, <2>1, <2>2, ChildMoves
  <1>8. CASE child_puts
    <2>1. ASSUME UNCHANGED <<lists, current, written>>, pc' = pc \/ Goto(child, "fill")
          PROVE  OutInv'
      <3>1. pc[child] = "put" /\ pc'[start] = pc[start] /\ shown' = shown
        BY <1>2, <1>8, <2>1 DEF child_puts, Goto
      <3>2. ChildAt(s, c)'
        BY <1>1, <2>1, <3>1 DEF ChildAt
      <3> QED
        BY <1>1, <1>2, <2>1, <3>1, <3>2, ChildMoves
    <2>2. ASSUME NEW sz \in OutSizes, send_msg(start, Char(written + 1, FALSE), sz),
                 pc' = pc, written' = written + 1, shown' = shown
          PROVE  OutInv'
      <3>1. PICK m \in Msg :
              /\ heap[m] # "used"
              /\ data' = [data EXCEPT ![m] = Out(written + 1)]
              /\ Queue(Append(s, m), start)'
              /\ Members(Append(s, m)) = Members(s) \cup {m}
              /\ OtherQueuesKept(start, s)
        BY <1>2, <1>3, <2>2, SendAppends DEF Out
      <3>2. Queue(c, child)' /\ m \notin Members(c) /\ m \notin Members(s)
        BY <1>3, <3>1 DEF OtherQueuesKept, Queue
      <3>3. Queues(Append(s, m), c)'
        BY <1>3, <3>1, <3>2 DEF Queues
      <3>4. current' = current /\ lock[start] = "UNLOCKED" /\ pc[child] = "put"
        BY <1>8, <2>2 DEF send_msg, child_puts
      <3>5. current[start] = NULL /\ pc[start] # "consume"
        <4>1. current[start] = NULL
          BY <1>2, <3>4 DEF Paired
        <4>2. pc[start] = "consume" => current[start] \in Msg
          BY <1>1, <1>4, SMTT(30) DEF StartAt, Output
        <4> QED
          BY <1>4, <4>1, <4>2
      <3>6. StartAt(Append(s, m))'
        BY <2>2, <3>4, <3>5 DEF StartAt
      <3>7. ChildAt(Append(s, m), c)'
        BY <1>1, <3>4 DEF ChildAt
      <3>8. Output(Append(s, m))'
        <4> DEFINE n == Len(s)
                   a == Append(s, m)
        <4>1. /\ Len(a) = n + 1 /\ a[n + 1] = m /\ n \in Nat
              /\ \A i \in 1..n : a[i] = s[i] /\ s[i] \in Members(s)
          BY <1>4 DEF Members
        <4>2. /\ written \in Nat /\ Gone \in Nat /\ Gone' = Gone
              /\ Gone + n = written
              /\ \A i \in 1..n : data[s[i]] = Out(Gone + i)
          <5>1. Gone = Len(shown) /\ Gone' = Gone
            BY <2>2, <3>5 DEF Gone
          <5> QED
            BY <1>1, <5>1 DEF Output
        <4>3. data'[m] = Out(written + 1) /\ DOMAIN data' = Msg
          BY <1>1, <3>1 DEF Output
        <4> HIDE DEF n, a
        <4>4. ASSUME NEW i \in 1..n + 1 PROVE data'[a[i]] = Out(Gone' + i)
          <5>1. CASE i \in 1..n
            <6>1. a[i] = s[i] /\ data'[s[i]] = data[s[i]]
              BY <1>4, <3>1, <3>2, <4>1, <4>3, <5>1
            <6> QED
              BY <4>2, <5>1, <6>1
          <5>2. CASE i = n + 1
            <6>1. Gone' + i = written + 1
              BY <4>1, <4>2, <5>2
            <6> QED
              BY <4>1, <4>3, <5>2, <6>1
          <5>3. i \in 1..n \/ i = n + 1
            BY <4>1
          <5> QED
            BY <5>1, <5>2, <5>3
        <4>5. Gone' + Len(a) = written' /\ written' \in Nat
          BY <2>2, <4>1, <4>2
        <4>6. Output(a)'
          BY <1>1, <2>2, <3>5, <4>1, <4>3, <4>4, <4>5 DEF Output
        <4> QED
          BY <4>6 DEF a
      <3> QED
        BY <1>2, <3>3, <3>6, <3>7, <3>8 DEF OutInv
    <2>3. CASE send_spin(child, start) /\ UNCHANGED <<pc, written>>
      BY <2>1, <2>3 DEF send_spin
    <2>4. CASE Goto(child, "fill") /\ UNCHANGED <<mqvars, written>>
      BY <2>1, <2>4 DEF mqvars
    <2> QED
      BY <1>8, <2>2, <2>3, <2>4 DEF child_puts
  <1> QED
    BY <1>5, <1>6, <1>7, <1>8 DEF ChildStep

LEMMA NextOutInv == OutInv /\ [Next]_vars => OutInv'
  <1> SUFFICES ASSUME OutInv, [Next]_vars PROVE OutInv'
    OBVIOUS
  <1>1. CASE UNCHANGED vars
    <2>1. PICK s, c : Queues(s, c) /\ StartAt(s) /\ ChildAt(s, c) /\ Output(s)
      BY DEF OutInv
    <2>2. UNCHANGED <<lists, current, pc, written, shown>> /\ PairInv'
      BY <1>1, NextPairInv DEF OutInv, vars, mqvars
    <2>3. ChildAt(s, c)'
      BY <2>1, <2>2 DEF ChildAt, lists
    <2> QED
      BY <2>1, <2>2, <2>3, ChildMoves
  <1> QED
    BY <1>1, StartOutInv, ChildOutInv DEF Next

(* However start and its child interleave and whatever is typed, what the  *)
(* child writes with puts() is shown or still queued in the order in which *)
(* it was written, each message once, as itself or as "-Discarding-".      *)
THEOREM OutputArrivesInOrder == Spec => []OutputInOrder
  <1>1. OutInv => OutputInOrder
    <2> SUFFICES ASSUME OutInv PROVE OutputInOrder
      OBVIOUS
    <2>1. PICK s : Queue(s, start) /\ Output(s)
      BY DEF OutInv, Queues
    <2>2. FromTail(start) = s
      BY <2>1, QueueIsRead
    <2> DEFINE queued == [i \in 1..Len(s) |-> data[s[i]]]
               open == IF pc[start] = "consume" THEN Tail(queued) ELSE queued
               all == shown \o open
    <2>3. Len(s) \in Nat /\ (s = <<>> <=> Len(s) = 0)
      BY <2>1 DEF Queue, IsQueue
    <2>4. /\ shown \in Seq(Chars) /\ Len(shown) \in Nat /\ written \in Nat
          /\ \A i \in 1..Len(s) : queued[i] = Out(Gone + i)
          /\ \A i \in 1..Len(shown) : shown[i] \in {Out(i), DISCARDED}
      BY <2>1, <2>3 DEF Output
    <2>5. /\ pc[start] = "consume" => Gone = Len(shown) - 1
          /\ pc[start] # "consume" => Gone = Len(shown)
          /\ Gone \in Int /\ Gone + 1 >= 0
      BY <2>4 DEF Gone
    <2>10. Gone + Len(s) = written /\ (pc[start] = "consume" => Len(s) # 0)
      BY <2>1, <2>3 DEF Output
    <2>11. Len(shown) \in Nat /\ written \in Nat
      BY <2>4
    <2>6. queued \in Seq(Chars) /\ Len(queued) = Len(s)
      <3>1. ASSUME NEW i \in 1..Len(s) PROVE Out(Gone + i) \in Chars
        <4>1. Gone + i \in Nat
          BY <2>3, <2>5
        <4> QED
          BY <4>1, CharsAre
      <3>2. queued \in [1..Len(s) -> Chars]
        BY <2>4, <3>1
      <3> QED
        BY <2>3, <3>2
    <2> HIDE DEF queued
    <2>7. /\ open \in Seq(Chars) /\ Len(shown) + Len(open) = written
          /\ \A i \in 1..Len(open) : open[i] = Out(Len(shown) + i)
      <3>1. CASE pc[start] = "consume"
        <4>1. /\ open = Tail(queued) /\ Len(open) = Len(s) - 1 /\ open \in Seq(Chars)
              /\ \A i \in 1..Len(s) - 1 : open[i] = queued[i + 1]
          BY <2>3, <2>6, <2>10, <3>1
        <4> HIDE DEF open
        <4>2. ASSUME NEW i \in 1..Len(s) - 1
              PROVE  open[i] = Out(Len(shown) + i)
          <5>1. i + 1 \in 1..Len(s) /\ Gone + (i + 1) = Len(shown) + i
            BY <2>3, <2>5, <2>11, <3>1
          <5> QED
            BY <2>4, <4>1, <5>1
        <4>3. Len(shown) + Len(open) = written
          <5>1. Len(open) = Len(s) - 1
            BY <4>1
          <5> QED
            BY <2>3, <2>5, <2>10, <2>11, <3>1, <5>1
        <4> QED
          BY <4>1, <4>2, <4>3
      <3>2. CASE pc[start] # "consume"
        <4>1. open = queued
          BY <3>2
        <4> HIDE DEF open
        <4> QED
          BY <2>3, <2>4, <2>5, <2>6, <2>10, <3>2, <4>1
      <3> QED
        BY <3>1, <3>2
    <2> HIDE DEF open
    <2>8. Len(all) = written
      BY <2>4, <2>7
    <2>9. ASSUME NEW i \in 1..written PROVE all[i] \in {Out(i), DISCARDED}
      <3>1. CASE i <= Len(shown)
        <4>1. i \in 1..Len(shown) /\ all[i] = shown[i]
          BY <2>4, <2>7, <3>1
        <4> QED
          BY <2>4, <4>1
      <3>2. CASE i > Len(shown)
        <4>1. /\ i - Len(shown) \in 1..Len(open) /\ all[i] = open[i - Len(shown)]
              /\ Len(shown) + (i - Len(shown)) = i
          BY <2>4, <2>7, <3>2
        <4> QED
          BY <2>7, <4>1
      <3>3. i <= Len(shown) \/ i > Len(shown)
        BY <2>4
      <3> QED
        BY <3>1, <3>2, <3>3
    <2> QED
      BY <2>2, <2>8, <2>9 DEF OutputInOrder, all, open, queued, Out
  <1> QED
    BY <1>1, InitOutInv, NextOutInv, PTL DEF Spec
=============================================================================
