------------------------------- MODULE Mailbox -------------------------------
(***************************************************************************)
(* The message queues with any programs that keep to the comments of       *)
(* mqueue.c: a program iterates with recv_msg, consumes a message it has   *)
(* received or skips it, stops with stop_recv, and starts the next         *)
(* iteration with a NULL pointer.                                          *)
(***************************************************************************)
EXTENDS Mqueue

CONSTANTS
  Receiver,   \* the processes that are sent messages
  MaxSent     \* bound: messages sent to one queue

ASSUME MailboxAssumption == Receiver \subseteq Proc /\ MaxSent \in Nat

VARIABLES
  phase,      \* per process: what its program did last with the queue
  sent,       \* history, per process: how many messages it was sent
  consumed    \* history, per process: the messages it consumed

vars == <<mqvars, phase, sent, consumed>>

Init ==
  /\ MqInit
  /\ phase = [p \in Proc |-> "idle"]
  /\ sent = [p \in Proc |-> 0]
  /\ consumed = [p \in Proc |-> {}]

(* The data of a message is its number among those of its queue. *)
Send(q) ==
  /\ sent[q] < MaxSent
  /\ send_msg(q, sent[q] + 1, 1)
  /\ sent' = [sent EXCEPT ![q] = @ + 1]
  /\ UNCHANGED <<phase, consumed>>

Spin(p, q) ==
  /\ p # q
  /\ send_spin(p, q)
  /\ UNCHANGED <<phase, sent, consumed>>

Receive(p) ==
  /\ phase[p] # "stopped"
  /\ recv_msg(p)
  /\ phase' = [phase EXCEPT ![p] = IF Received(p) = NULL THEN "idle"
                                   ELSE "received"]
  /\ UNCHANGED <<sent, consumed>>

Consume(p) ==
  /\ phase[p] = "received"
  /\ consume_msg(p)
  /\ phase' = [phase EXCEPT ![p] = IF current'[p] = NULL THEN "idle"
                                   ELSE "consumed"]
  /\ consumed' = [consumed EXCEPT ![p] = @ \cup {data[current[p]]}]
  /\ UNCHANGED sent

Stop(p) ==
  /\ phase[p] \in {"received", "consumed"}
  /\ stop_recv(p)
  /\ phase' = [phase EXCEPT ![p] = "stopped"]
  /\ UNCHANGED <<sent, consumed>>

(* The program sets its pointer to NULL for the next iteration. *)
Restart(p) ==
  /\ Running
  /\ phase[p] = "stopped"
  /\ phase' = [phase EXCEPT ![p] = "idle"]
  /\ current' = [current EXCEPT ![p] = NULL]
  /\ UNCHANGED <<lists, lock, spinning, sent, consumed>>

Next ==
  \/ \E q \in Receiver :
       Send(q) \/ Receive(q) \/ Consume(q) \/ Stop(q) \/ Restart(q)
  \/ \E p \in Proc, q \in Receiver : Spin(p, q)

Spec == Init /\ [][Next]_vars

-----------------------------------------------------------------------------
TypeOK ==
  LET Pointer == Msg \cup {NULL} IN
  /\ head \in [Proc -> Pointer] /\ tail \in [Proc -> Pointer]
  /\ lock \in [Proc -> {"UNLOCKED", "LOCKED"}]
  /\ current \in [Proc -> Pointer]
  /\ next \in [Msg -> Pointer] /\ prev \in [Msg -> Pointer]
  /\ size \in [Msg -> 0..1] /\ data \in [Msg -> 1..MaxSent \cup {NULL}]
  /\ heap \in [Msg -> {"unused", "used", "freed"}]
  /\ spinning \in Proc \cup {NULL}
  /\ phase \in [Proc -> {"idle", "received", "consumed", "stopped"}]
  /\ sent \in [Proc -> 0..MaxSent]
  /\ consumed \in [Proc -> SUBSET (1..MaxSent)]

(* The list is doubly linked from tail to head, and none of its messages   *)
(* was freed.                                                              *)
WellLinked(q) ==
  LET s == FromTail(q) n == Len(s) IN
  /\ \A i \in 1..n : heap[s[i]] = "used"
  /\ \A i \in 1..n : next[s[i]] = IF i = 1 THEN NULL ELSE s[i - 1]
  /\ head[q] = IF n = 0 THEN NULL ELSE s[n]

(* However the receiver skips, consumes and stops, a queue holds exactly   *)
(* the messages that were sent and not consumed, oldest first and linked   *)
(* in both directions: consuming one loses no other and none comes back.   *)
HoldsTheUnconsumed ==
  /\ TypeOK
  /\ \A q \in Receiver :
       LET s == FromTail(q) IN
       /\ WellLinked(q)
       /\ {data[s[i]] : i \in 1..Len(s)} = (1..sent[q]) \ consumed[q]
       /\ \A i, j \in 1..Len(s) : i < j => data[s[i]] < data[s[j]]

(* The lock of a queue is held exactly while its receiver iterates.        *)
LockedWhileIterating ==
  \A q \in Receiver :
    lock[q] = "LOCKED" <=> phase[q] \in {"received", "consumed"}

(* One iteration goes strictly from older to newer messages, also past the *)
(* messages consumed in between.                                           *)
OldestFirst ==
  [][\A q \in Receiver :
       current[q] # NULL /\ phase'[q] = "received" /\ current'[q] # current[q]
         => data[current'[q]] > data[current[q]]]_vars

(* "This function will update it to the next message in the queue when     *)
(* called again": what recv_msg moves to is in the receiver's queue.       *)
UpdatesToTheNextInQueue ==
  \A q \in Receiver :
    phase[q] \in {"received", "consumed"} /\ Received(q) # NULL
      => \E i \in 1..Len(FromTail(q)) : FromTail(q)[i] = Received(q)
=============================================================================
