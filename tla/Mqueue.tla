------------------------------- MODULE Mqueue -------------------------------
(***************************************************************************)
(* The message queues of the frosk kernel (kernel/src/mqueue.c), down to   *)
(* the pointers of the doubly linked list.  Messages enter at the head and *)
(* are received from the tail; prev leads towards the head.                *)
(*                                                                         *)
(* Every operation is a system call, runs with interrupts off and is one   *)
(* action.  A receiver keeps the lock of its queue from recv_msg until the *)
(* iteration ends, across its returns to user mode.  A sender that meets   *)
(* that lock spins with interrupts off, and nothing runs any more.         *)
(*                                                                         *)
(* A freed message keeps its contents until kalloc hands it out again.     *)
(***************************************************************************)
EXTENDS Integers, Sequences, FiniteSets

CONSTANTS
  Proc,       \* the processes
  Msg,        \* the message structures the kernel heap can hand out
  NULL

ASSUME MqueueAssumption ==
  NULL \notin Proc /\ NULL \notin Msg /\ IsFiniteSet(Msg)

VARIABLES
  head, tail, lock,       \* per process: its mqueue_t
  current,                \* per process: the next_message_t of its program
  next, prev, size, data, \* per message: its fields
  heap,                   \* per message: "unused", "used" or "freed"
  spinning                \* the sender that waits for a lock, or NULL

lists  == <<head, tail, next, prev, size, data, heap>>
mqvars == <<lists, lock, current, spinning>>

MqInit ==
  /\ head = [p \in Proc |-> NULL] /\ tail = [p \in Proc |-> NULL]
  /\ lock = [p \in Proc |-> "UNLOCKED"]
  /\ current = [p \in Proc |-> NULL]
  /\ next = [m \in Msg |-> NULL] /\ prev = [m \in Msg |-> NULL]
  /\ size = [m \in Msg |-> 0] /\ data = [m \in Msg |-> NULL]
  /\ heap = [m \in Msg |-> "unused"]
  /\ spinning = NULL

Running == spinning = NULL

-----------------------------------------------------------------------------
(* send_msg() by p when the lock of queue q is taken: it never returns.    *)
send_spin(p, q) ==
  /\ Running
  /\ lock[q] = "LOCKED"
  /\ spinning' = p
  /\ UNCHANGED <<lists, lock, current>>

create_message(m, d, sz) ==
  /\ heap' = [heap EXCEPT ![m] = "used"]
  /\ data' = [data EXCEPT ![m] = d]
  /\ size' = [size EXCEPT ![m] = sz]

send_msg(q, d, sz) ==
  /\ Running
  /\ lock[q] = "UNLOCKED"
  /\ \E m \in Msg :
       /\ heap[m] # "used"
       /\ create_message(m, d, sz)
       /\ next' = [next EXCEPT ![m] = head[q]]
       /\ prev' = IF head[q] = NULL THEN [prev EXCEPT ![m] = NULL]
                  ELSE [prev EXCEPT ![m] = NULL, ![head[q]] = m]
       /\ head' = [head EXCEPT ![q] = m]
       /\ tail' = IF head[q] = NULL THEN [tail EXCEPT ![q] = m] ELSE tail
  /\ UNCHANGED <<lock, current, spinning>>

(* Fault: the queue is read from the head. *)
Received_newest(p) == IF current[p] = NULL THEN head[p] ELSE next[current[p]]

(* The message that recv_msg() of process p moves to: NULL at the end.     *)
Received(p) == IF current[p] = NULL THEN tail[p] ELSE prev[current[p]]

(* The result of recv_msg(): what it copies is data[Received(p)], and only *)
(* if the result is not greater than the size of the buffer.               *)
RecvResult(p) == IF Received(p) = NULL THEN 0 ELSE size[Received(p)]

(* Fault: the lock is kept at the end of the queue. *)
recv_msg_locked(p) ==
  /\ Running
  /\ current[p] = NULL => lock[p] = "UNLOCKED"
  /\ current' = [current EXCEPT ![p] = Received(p)]
  /\ lock' = [lock EXCEPT ![p] = "LOCKED"]
  /\ UNCHANGED <<lists, spinning>>

recv_msg(p) ==
  /\ Running
  /\ current[p] = NULL => lock[p] = "UNLOCKED"     \* getlock
  /\ current' = [current EXCEPT ![p] = Received(p)]
  /\ lock' = [lock EXCEPT ![p] = IF Received(p) = NULL THEN "UNLOCKED"
                                 ELSE IF current[p] = NULL THEN "LOCKED"
                                 ELSE @]
  /\ UNCHANGED <<lists, spinning>>

(* Fault: the head is not reset with the last message. *)
consume_tail_head(p, m) ==
  /\ m = tail[p]
  /\ tail' = [tail EXCEPT ![p] = prev[m]]
  /\ next' = IF prev[m] = NULL THEN next ELSE [next EXCEPT ![prev[m]] = NULL]
  /\ current' = [current EXCEPT ![p] = NULL]
  /\ lock' = [lock EXCEPT ![p] = "UNLOCKED"]
  /\ UNCHANGED <<head, prev, size, data, heap>>

(* consume_msg() of the message at the tail: it is not freed. *)
consume_tail(p, m) ==
  /\ m = tail[p]
  /\ tail' = [tail EXCEPT ![p] = prev[m]]
  /\ next' = IF prev[m] = NULL THEN next ELSE [next EXCEPT ![prev[m]] = NULL]
  /\ head' = IF m = head[p] THEN [head EXCEPT ![p] = NULL] ELSE head
  /\ current' = [current EXCEPT ![p] = NULL]
  /\ lock' = [lock EXCEPT ![p] = "UNLOCKED"]
  /\ UNCHANGED <<prev, size, data, heap>>

(* ... of the message at the head: *current keeps pointing to it. *)
consume_head(p, m) ==
  /\ m # tail[p] /\ m = head[p]
  /\ next[m] # NULL                     \* assert
  /\ head' = [head EXCEPT ![p] = next[m]]
  /\ prev' = [prev EXCEPT ![next[m]] = NULL]
  /\ heap' = [heap EXCEPT ![m] = "freed"]
  /\ UNCHANGED <<tail, next, size, data, current, lock>>

(* ... of a message between others. *)
consume_inner(p, m) ==
  /\ m # tail[p] /\ m # head[p]
  /\ next' = IF prev[m] = NULL THEN next ELSE [next EXCEPT ![prev[m]] = next[m]]
  /\ prev' = IF next[m] = NULL THEN prev ELSE [prev EXCEPT ![next[m]] = prev[m]]
  /\ current' = [current EXCEPT ![p] = next[m]]
  /\ IF next[m] # NULL
     THEN heap' = [heap EXCEPT ![m] = "freed"] /\ UNCHANGED lock
     ELSE lock' = [lock EXCEPT ![p] = "UNLOCKED"] /\ UNCHANGED heap
  /\ UNCHANGED <<head, tail, size, data>>

consume_msg(p) ==
  /\ Running
  /\ IF current[p] = NULL
     THEN /\ lock' = [lock EXCEPT ![p] = "UNLOCKED"]
          /\ UNCHANGED <<lists, current>>
     ELSE \/ consume_tail(p, current[p])
          \/ consume_head(p, current[p])
          \/ consume_inner(p, current[p])
  /\ UNCHANGED spinning

(* Fault: the lock is kept. *)
stop_recv_locked(p) == Running /\ UNCHANGED mqvars

stop_recv(p) ==
  /\ Running
  /\ lock' = IF current[p] = NULL THEN lock ELSE [lock EXCEPT ![p] = "UNLOCKED"]
  /\ UNCHANGED <<lists, current, spinning>>

-----------------------------------------------------------------------------
(* The messages that the links prv lead to from t on, t first. *)
Reached(t, prv) ==
  LET walk[k \in 0..Cardinality(Msg)] ==
        IF k = 0 THEN <<>>
        ELSE LET s == walk[k - 1]
                 m == IF s = <<>> THEN t ELSE prv[s[Len(s)]]
             IN  IF m = NULL THEN s ELSE Append(s, m)
  IN  walk[Cardinality(Msg)]

(* The messages of the queue of p, from the tail on. *)
FromTail(p) == Reached(tail[p], prev)
=============================================================================
