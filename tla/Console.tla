------------------------------- MODULE Console -------------------------------
(***************************************************************************)
(* The programs at the two ends of the message queues: the main loop of    *)
(* prgm/start, which shows what its child writes and sends it the keys     *)
(* that are typed, and a child that reads lines with fgets() and writes    *)
(* with puts() (lib/cstd/src/stdio.c), as prgm/echo does.  The two are     *)
(* preemptible between their system calls.                                 *)
(*                                                                         *)
(* A key is a message of one character; the characters are told apart only *)
(* by their number and by whether fgets() ends its line there.             *)
(***************************************************************************)
EXTENDS Mqueue

CONSTANTS
  start, child,   \* the two processes
  OutSizes,       \* the sizes of what the child writes
  MsgBuf,         \* sizeof(msg) in main() of start
  MaxKeys,        \* bound: keys typed
  MaxOut          \* bound: messages the child writes

ASSUME ConsoleAssumption ==
  /\ start # child /\ Proc = {start, child}
  /\ OutSizes \subseteq Nat \ {0} /\ MsgBuf \in Nat
  /\ MaxKeys \in Nat /\ MaxOut \in Nat

VARIABLES
  pc,             \* per process: its next system call
  typed,          \* history: keys sent to the child
  written,        \* history: messages the child wrote
  shown,          \* history: the messages start put on the screen
  buffer,         \* stdin of the child: its buffer_size characters
  buffer_length,
  taken           \* history: keys received and copied since the last scan

stdin == <<buffer, buffer_length, taken>>
vars  == <<mqvars, pc, typed, written, shown, stdin>>

Init ==
  /\ MqInit
  /\ pc = [p \in Proc |-> IF p = start THEN "recv" ELSE "put"]
  /\ typed = 0 /\ written = 0
  /\ shown = <<>>
  /\ buffer = <<>> /\ buffer_length = 0 /\ taken = <<>>

Goto(p, label) == pc' = [pc EXCEPT ![p] = label]

(* A character, and a message of the child, by its number. *)
Char(n, ends) == [n |-> n, ends |-> ends]
DISCARDED == Char(0, FALSE)      \* start shows "-Discarding-" instead

-----------------------------------------------------------------------------
(* start: the output of the child to the screen.                           *)

start_recv ==
  /\ pc[start] = "recv"
  /\ recv_msg(start)
  /\ IF RecvResult(start) = 0
     THEN Goto(start, "stop") /\ UNCHANGED shown
     ELSE /\ Goto(start, "consume")
          /\ shown' = Append(shown, IF RecvResult(start) <= MsgBuf
                                    THEN data[Received(start)]
                                    ELSE DISCARDED)
  /\ UNCHANGED <<typed, written, stdin>>

start_consume ==
  /\ pc[start] = "consume"
  /\ consume_msg(start)
  /\ Goto(start, "recv")
  /\ UNCHANGED <<typed, written, shown, stdin>>

start_stop ==
  /\ pc[start] = "stop"
  /\ stop_recv(start)
  /\ Goto(start, "size")
  /\ UNCHANGED <<typed, written, shown, stdin>>

(* The size of /dev/kb.  How many keys wait there is up to the keyboard    *)
(* (Ps2.tla): when they do not fit into buf, start says "Too much input!", *)
(* leaves its loop and halts.                                              *)
start_size ==
  /\ pc[start] = "size"
  /\ Running
  /\ Goto(start, "keys") \/ Goto(start, "halted")
  /\ UNCHANGED <<mqvars, typed, written, shown, stdin>>

(* Fault: main waits for a key before it looks for output again. *)
start_keys_wait ==
  /\ pc[start] = "keys"
  /\ typed < MaxKeys
  /\ \/ send_spin(start, child) /\ UNCHANGED <<pc, typed>>
     \/ /\ \E ends \in BOOLEAN : send_msg(child, Char(typed + 1, ends), 1)
        /\ typed' = typed + 1
        /\ Goto(start, "recv")
  /\ UNCHANGED <<written, shown, stdin>>

(* process_key() for each key that was typed, then the next iteration. *)
start_keys ==
  /\ pc[start] = "keys"
  /\ \/ /\ typed < MaxKeys
        /\ \/ send_spin(start, child) /\ UNCHANGED typed
           \/ /\ \E ends \in BOOLEAN :
                   send_msg(child, Char(typed + 1, ends), 1)
              /\ typed' = typed + 1
        /\ UNCHANGED pc
     \/ /\ Running
        /\ Goto(start, "recv")
        /\ UNCHANGED <<mqvars, typed>>
  /\ UNCHANGED <<written, shown, stdin>>

-----------------------------------------------------------------------------
(* The child: fgets(), one action per system call.                         *)

(* The end of a proc_recv_msg() that got a message into a buffer: the data *)
(* goes to the front of the buffer, wherever buffer_length is.             *)
Fill(buf) ==
  /\ buffer' = IF RecvResult(child) = 0 THEN buf
               ELSE [buf EXCEPT ![1] = data[Received(child)]]
  /\ buffer_length' = buffer_length + RecvResult(child)
  /\ taken' = IF RecvResult(child) = 0 THEN taken
              ELSE Append(taken, data[Received(child)])
  /\ Goto(child, "consume")

fgets_recv ==
  LET available == Len(buffer) - buffer_length
      more == RecvResult(child) - available IN
  /\ pc[child] = "fill"
  /\ recv_msg(child)
  /\ IF more <= 0
     THEN Fill(buffer)
     ELSE /\ \E ends \in BOOLEAN :   \* what realloc() adds is any character
               buffer' = buffer \o [i \in 1..more |-> Char(0, ends)]
          /\ Goto(child, "retry")
          /\ UNCHANGED <<buffer_length, taken>>
  /\ UNCHANGED <<typed, written, shown>>

(* After the resize.  The message received now is the one behind the one   *)
(* that did not fit, and it fits: every key has the size of the other.     *)
fgets_retry ==
  /\ pc[child] = "retry"
  /\ recv_msg(child)
  /\ Fill(buffer)
  /\ UNCHANGED <<typed, written, shown>>

fgets_consume ==
  /\ pc[child] = "consume"
  /\ consume_msg(child)
  /\ Goto(child, IF current'[child] = NULL THEN "scan" ELSE "fill")
  /\ UNCHANGED <<typed, written, shown, stdin>>

(* stop_recv, then the loop over the characters of the buffer. *)
fgets_scan ==
  /\ pc[child] = "scan"
  /\ stop_recv(child)
  /\ IF \E i \in 1..buffer_length : buffer[i].ends
     THEN buffer' = <<>> /\ Goto(child, "put")
     ELSE UNCHANGED buffer /\ Goto(child, "fill")
  /\ buffer_length' = 0
  /\ taken' = <<>>
  /\ UNCHANGED <<typed, written, shown>>

(* puts(), after which the program writes again or reads the next line. *)
child_puts ==
  /\ pc[child] = "put"
  /\ \/ written < MaxOut /\ send_spin(child, start) /\ UNCHANGED <<pc, written>>
     \/ /\ written < MaxOut
        /\ \E sz \in OutSizes : send_msg(start, Char(written + 1, FALSE), sz)
        /\ written' = written + 1
        /\ UNCHANGED pc
     \/ /\ Running
        /\ Goto(child, "fill")
        /\ UNCHANGED <<mqvars, written>>
  /\ UNCHANGED <<typed, shown, stdin>>

-----------------------------------------------------------------------------
StartStep ==
  start_recv \/ start_consume \/ start_stop \/ start_size \/ start_keys

ChildStep ==
  fgets_recv \/ fgets_retry \/ fgets_consume \/ fgets_scan \/ child_puts

Next == StartStep \/ ChildStep

Spec == Init /\ [][Next]_vars

(* The scheduler gives both the processor again and again, unless one of   *)
(* them spins in the kernel (EveryThreadRuns in Scheduler.tla).            *)
FairSpec == Spec /\ WF_vars(StartStep) /\ WF_vars(ChildStep)

-----------------------------------------------------------------------------
(* What the child wrote reaches the screen in order, each message once, as *)
(* itself or as "-Discarding-": shown and still queued is what was written.*)
OutputInOrder ==
  LET queued == [i \in 1..Len(FromTail(start)) |-> data[FromTail(start)[i]]]
      open == IF pc[start] = "consume" THEN Tail(queued) ELSE queued
      all == shown \o open
  IN  /\ Len(all) = written
      /\ \A i \in 1..written : all[i] \in {Char(i, FALSE), DISCARDED}

(* Neither program ever waits in recv_msg for the lock of its own queue:   *)
(* it holds that lock exactly while it is in the middle of an iteration.   *)
LockedInIteration ==
  \A p \in Proc : lock[p] = "LOCKED" <=> current[p] # NULL

(* Everything that was written is shown, unless a sender has run into the  *)
(* lock that the receiver holds while it is in user mode, or start has     *)
(* halted because more keys were waiting than its buffer holds (start.c    *)
(* 355-359): those are the only two ways to lose output for good.          *)
OutputShown ==
  \A n \in 1..MaxOut :
    written >= n ~> Len(shown) >= n \/ spinning # NULL \/ pc[start] = "halted"

(* "Fill the buffer from the message queue": the buffer that fgets() scans *)
(* consists of the characters it received and removed from the queue.      *)
FilledFromQueue ==
  pc[child] = "scan" => SubSeq(buffer, 1, buffer_length) = taken
=============================================================================
