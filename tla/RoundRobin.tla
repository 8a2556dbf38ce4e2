----------------------------- MODULE RoundRobin -----------------------------
(***************************************************************************)
(* What the scheduler of the frosk kernel promises, without its pointers:  *)
(* the circular list that head_thrd points into is the sequence of its     *)
(* threads read from head_thrd on, and a task switch takes the first       *)
(* thread of that sequence that is not the running one.                    *)
(* Scheduler.tla is the detailed specification that implements this one.   *)
(***************************************************************************)
EXTENDS Integers, Sequences

CONSTANTS
  Thread,   \* the thread structures kalloc can hand out
  NULL

VARIABLES
  ring,     \* the threads of the circular list, from head_thrd on
  cur       \* cur_thrd: the thread on the processor, NULL during boot

rrvars == <<ring, cur>>

InRing(t) == \E i \in 1..Len(ring) : ring[i] = t

RRInit ==
  /\ ring = <<>>
  /\ cur = NULL

(* schedule() links a new thread behind the head of the list. *)
InsertBehindHead(s, t) ==
  IF s = <<>> THEN <<t>> ELSE <<Head(s), t>> \o Tail(s)

Insert(t) ==
  /\ ~InRing(t)
  /\ ring' = InsertBehindHead(ring, t)
  /\ UNCHANGED cur

(* The list read from behind its i-th thread on. *)
Rotate(s, i) ==
  [j \in 1..Len(s) |-> s[IF j + i <= Len(s) THEN j + i ELSE j + i - Len(s)]]

(* yield() takes the first thread of the list that is not running, and     *)
(* moves head_thrd to the thread behind it.                                *)
Switch(i) ==
  /\ ring[i] # cur
  /\ \A j \in 1..i - 1 : ring[j] = cur
  /\ cur' = ring[i]
  /\ ring' = Rotate(ring, i)

RRNext ==
  \/ \E t \in Thread : Insert(t)
  \/ \E i \in 1..Len(ring) : Switch(i)

RRSpec == RRInit /\ [][RRNext]_rrvars

-----------------------------------------------------------------------------
RRTypeOK ==
  /\ ring \in Seq(Thread)
  /\ cur \in Thread \cup {NULL}

(* No thread is linked twice, and the running thread stays linked.         *)
RingOK ==
  /\ \A i, j \in 1..Len(ring) : ring[i] = ring[j] => i = j
  /\ cur # NULL => InRing(cur)

(* Every task switch brings every thread that keeps waiting strictly       *)
(* closer to the head of the list: no waiting thread is ever overtaken by  *)
(* one behind it, so that it waits for at most as many switches as there   *)
(* are threads ahead of it.                                                *)
CloserStep ==
  cur' # cur =>
    \A i \in 1..Len(ring) :
      ring[i] \notin {cur, cur'} => \E j \in 1..i - 1 : ring'[j] = ring[i]

BoundedWait == [][CloserStep]_rrvars
=============================================================================
