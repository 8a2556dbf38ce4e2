--------------------------------- MODULE Ps2 ---------------------------------
(***************************************************************************)
(* The keyboard of the frosk kernel (kernel/src/dev/ps2.c): the interrupt  *)
(* handler that puts keys into the buffer behind /dev/kb, the kernel       *)
(* thread that puts them there later when the file was locked, and the     *)
(* part of prgm/start's main loop that reads the file.                     *)
(*                                                                         *)
(* The interrupt handler runs with interrupts off and is one action.  The  *)
(* helper thread runs with interrupts on: the handler, and start after a   *)
(* task switch, can run between any two of its steps.  Keys are numbered   *)
(* in the order in which they are typed.                                   *)
(***************************************************************************)
EXTENDS Integers, Sequences

CONSTANTS
  KB_BUFFER_SIZE,
  BufSize,          \* sizeof(buf) in main() of start
  MaxKeys           \* bound: keys typed

ASSUME Ps2Assumption ==
  /\ KB_BUFFER_SIZE \in Nat /\ BufSize \in Nat /\ MaxKeys \in Nat
  /\ 0 < BufSize /\ BufSize <= KB_BUFFER_SIZE

VARIABLES
  kb_buffer, kb_buffer_head,
  file_size, file_lock,     \* of kb_buffer_file
  ls, ls_lock,              \* the keys from first to last, and their lock
  helper,                   \* kb_put_delayed(): its next step, "none" at first
  held,                     \* the key it took from the list, 0 if none
  start, size,              \* start: its next step, and what fs_size returned
  spinning,                 \* the handler waits for ls_lock, and for ever
  typed,                    \* history: how many keys were typed
  delayed,                  \* history: those that went through the list
  got                       \* history: the keys start has processed

bufvars == <<kb_buffer, kb_buffer_head, file_size>>
lsvars  == <<ls, ls_lock>>
vars == <<bufvars, file_lock, lsvars, helper, held, start, size, spinning,
          typed, delayed, got>>

Slot == 0..KB_BUFFER_SIZE - 1

Init ==
  /\ kb_buffer = [i \in Slot |-> 0]
  /\ kb_buffer_head = KB_BUFFER_SIZE - 1
  /\ file_size = 0 /\ file_lock = "UNLOCKED"
  /\ ls = <<>> /\ ls_lock = "UNLOCKED"
  /\ helper = "none" /\ held = 0
  /\ start = "acquire" /\ size = 0
  /\ spinning = FALSE
  /\ typed = 0 /\ delayed = {} /\ got = <<>>

(* Fault: the key is stored before the head is moved. *)
Put_before(k) ==
  /\ kb_buffer_head' = (kb_buffer_head + 1) % KB_BUFFER_SIZE
  /\ kb_buffer' = [kb_buffer EXCEPT ![kb_buffer_head % KB_BUFFER_SIZE] = k]
  /\ file_size' = file_size + 1

(* Fault: the key is counted twice. *)
Put_twice(k) ==
  /\ kb_buffer_head' = (kb_buffer_head + 1) % KB_BUFFER_SIZE
  /\ kb_buffer' = [kb_buffer EXCEPT ![(kb_buffer_head + 1) % KB_BUFFER_SIZE] = k]
  /\ file_size' = file_size + 2

(* What kb_put_actual() does with the lock of the file. *)
Put(k) ==
  /\ kb_buffer_head' = (kb_buffer_head + 1) % KB_BUFFER_SIZE
  /\ kb_buffer' = [kb_buffer EXCEPT ![(kb_buffer_head + 1) % KB_BUFFER_SIZE] = k]
  /\ file_size' = file_size + 1

-----------------------------------------------------------------------------
(* The interrupt handler.                                                  *)

(* kb_put(): the key goes to the buffer if the file is not locked.         *)
kb_put_now(k) ==
  /\ file_lock = "UNLOCKED"
  /\ Put(k)
  /\ UNCHANGED <<lsvars, helper, spinning, delayed>>

(* Otherwise it goes to the list, and the first time the thread is made.   *)
kb_put_later(k) ==
  /\ file_lock = "LOCKED" /\ ls_lock = "UNLOCKED"
  /\ ls' = Append(ls, k)
  /\ delayed' = delayed \cup {k}
  /\ helper' = IF helper = "none" THEN "test" ELSE helper
  /\ UNCHANGED <<bufvars, ls_lock, spinning>>

(* getlock() with interrupts off, while the thread it interrupted or one   *)
(* that was switched out is in the critical section.                       *)
kb_put_spin(k) ==
  /\ file_lock = "LOCKED" /\ ls_lock = "LOCKED"
  /\ spinning' = TRUE
  /\ UNCHANGED <<bufvars, lsvars, helper, delayed>>

kb_put ==
  /\ ~spinning
  /\ typed < MaxKeys
  /\ typed' = typed + 1
  /\ \/ kb_put_now(typed + 1)
     \/ kb_put_later(typed + 1)
     \/ kb_put_spin(typed + 1)
  /\ UNCHANGED <<file_lock, held, start, size, got>>

-----------------------------------------------------------------------------
(* The helper thread, kb_put_delayed().                                    *)

HelperAt(here, there) ==
  /\ ~spinning
  /\ helper = here
  /\ helper' = there
  /\ UNCHANGED <<start, size, spinning, typed, delayed, got>>

delayed_test ==
  /\ ls # <<>>
  /\ HelperAt("test", "getlock")
  /\ UNCHANGED <<bufvars, file_lock, lsvars, held>>

delayed_getlock ==
  /\ ls_lock = "UNLOCKED"
  /\ ls_lock' = "LOCKED"
  /\ HelperAt("getlock", "take")
  /\ UNCHANGED <<bufvars, file_lock, ls, held>>

delayed_take ==
  /\ HelperAt("take", "unlock")
  /\ held' = Head(ls)
  /\ ls' = Tail(ls)
  /\ UNCHANGED <<bufvars, file_lock, ls_lock>>

delayed_unlock ==
  /\ HelperAt("unlock", "trylock")
  /\ ls_lock' = "UNLOCKED"
  /\ UNCHANGED <<bufvars, file_lock, ls, held>>

(* Fault: the buffer is used whether or not trylock() succeeds. *)
delayed_trylock_ignored ==
  /\ HelperAt("trylock", "put")
  /\ file_lock' = "LOCKED"
  /\ UNCHANGED <<bufvars, lsvars, held>>

(* It tries until the file is not locked. *)
delayed_trylock ==
  /\ file_lock = "UNLOCKED"
  /\ HelperAt("trylock", "put")
  /\ file_lock' = "LOCKED"
  /\ UNCHANGED <<bufvars, lsvars, held>>

delayed_put ==
  /\ HelperAt("put", "release")
  /\ Put(held)
  /\ held' = 0
  /\ UNCHANGED <<file_lock, lsvars>>

(* Fault: the file stays locked. *)
delayed_release_forgotten ==
  /\ HelperAt("release", "test")
  /\ UNCHANGED <<bufvars, file_lock, lsvars, held>>

(* The file is unlocked, and the list element freed. *)
delayed_release ==
  /\ HelperAt("release", "test")
  /\ file_lock' = "UNLOCKED"
  /\ UNCHANGED <<bufvars, lsvars, held>>

Helper ==
  \/ delayed_test \/ delayed_getlock \/ delayed_take \/ delayed_unlock
  \/ delayed_trylock \/ delayed_put \/ delayed_release

-----------------------------------------------------------------------------
(* start: one action per system call.  What fs_acquire does when it fails, *)
(* and fs_release of its NULL, leave the state alone.                      *)

StartAt(here) ==
  /\ ~spinning
  /\ start = here
  /\ UNCHANGED <<lsvars, helper, held, spinning, typed, delayed>>

pub_fs_acquire ==
  /\ StartAt("acquire")
  /\ file_lock = "UNLOCKED"
  /\ file_lock' = "LOCKED"
  /\ start' = "size"
  /\ UNCHANGED <<bufvars, size, got>>

(* "Too much input!" ends the main loop with the file still locked. *)
start_size ==
  /\ StartAt("size")
  /\ size' = file_size
  /\ start' = IF file_size = 0 THEN "release"
              ELSE IF file_size + 1 > BufSize THEN "halt"
              ELSE "read"
  /\ UNCHANGED <<bufvars, file_lock, got>>

(* kb_fs_read() takes n keys from the head backwards.  In C, -1 % 1024 is  *)
(* -1: the index runs below the buffer rather than around it.              *)
HeadAfterRead(n) == kb_buffer_head - n
KeyAt(i) == IF i \in Slot THEN kb_buffer[i] ELSE 0

(* Fault: the keys are processed in the order of buf. *)
InOrder_reversed(n) == [i \in 1..n |-> KeyAt(kb_buffer_head - (i - 1))]

(* main() processes what was read from its end to its start. *)
InOrder(n) == [i \in 1..n |-> KeyAt(kb_buffer_head - (n - i))]

kb_fs_read ==
  LET n == IF size > file_size THEN file_size ELSE size IN
  /\ StartAt("read")
  /\ kb_buffer_head' = HeadAfterRead(n)
  /\ file_size' = file_size - n
  /\ got' = got \o InOrder(n)
  /\ start' = "release"
  /\ UNCHANGED <<kb_buffer, file_lock, size>>

pub_fs_release ==
  /\ StartAt("release")
  /\ file_lock' = "UNLOCKED"
  /\ start' = "acquire"
  /\ UNCHANGED <<bufvars, size, got>>

Start == pub_fs_acquire \/ start_size \/ kb_fs_read \/ pub_fs_release

-----------------------------------------------------------------------------
Next == kb_put \/ Helper \/ Start

Spec == Init /\ [][Next]_vars

(* Both threads get the processor again and again (EveryThreadRuns in      *)
(* Scheduler.tla).  Each holds the file for a few steps of each of its     *)
(* rounds, and start then waits for an eighth of a second, so that neither *)
(* finds the file locked for ever.                                         *)
FairSpec ==
  /\ Spec
  /\ WF_vars(Helper) /\ SF_vars(delayed_trylock)
  /\ WF_vars(Start) /\ SF_vars(pub_fs_acquire)

-----------------------------------------------------------------------------
TypeOK ==
  /\ kb_buffer \in [Slot -> 0..MaxKeys]
  /\ kb_buffer_head \in -1..KB_BUFFER_SIZE - 1
  /\ file_size \in 0..MaxKeys
  /\ file_lock \in {"UNLOCKED", "LOCKED"} /\ ls_lock \in {"UNLOCKED", "LOCKED"}
  /\ ls \in Seq(1..MaxKeys) /\ got \in Seq(0..MaxKeys)
  /\ helper \in {"none", "test", "getlock", "take", "unlock", "trylock", "put",
                 "release"}
  /\ held \in 0..MaxKeys
  /\ start \in {"acquire", "size", "read", "release", "halt"}
  /\ size \in 0..MaxKeys
  /\ spinning \in BOOLEAN
  /\ typed \in 0..MaxKeys
  /\ delayed \subseteq 1..typed

(* The file is locked exactly while one of the two threads is between its  *)
(* locking and its unlocking, and never both: the keys in the buffer are   *)
(* never read while one is put there.                                      *)
OneHoldsTheFile ==
  LET s == start \in {"size", "read", "release", "halt"}
      h == helper \in {"put", "release"}
  IN  /\ ~(s /\ h)
      /\ file_lock = "LOCKED" <=> s \/ h

(* The keys in the buffer are below the head: a read never takes one from  *)
(* below the buffer, although the index of kb_fs_read() does not wrap.     *)
ReadsStayInBuffer ==
  start = "read" => size = file_size /\ size <= kb_buffer_head + 1

(* Every key typed is in exactly one place: processed, in the buffer, in   *)
(* the list, in the hands of the helper, or in those of a handler that     *)
(* spins; until more keys are put into the buffer than it can hold.        *)
KeysInBuffer == [i \in 1..file_size |-> kb_buffer[i - 1]]

EveryKeyOnce ==
  LET places == got \o KeysInBuffer \o ls
                  \o (IF held = 0 THEN <<>> ELSE <<held>>)
                  \o (IF spinning THEN <<typed>> ELSE <<>>)
  IN  file_size <= KB_BUFFER_SIZE =>
        /\ Len(places) = typed
        /\ \A k \in 1..typed : \E i \in 1..typed : places[i] = k

(* Keys are processed in the order typed, except that a key that had to    *)
(* go through the list may be overtaken by keys that did not.              *)
OvertakenOnlyInList ==
  \A i, j \in 1..Len(got) :
    i < j /\ got[i] > got[j] => got[j] \in delayed /\ got[i] \notin delayed

(* Every key typed is processed in the end, unless the machine hangs in    *)
(* the handler or start gave up on too much input.                         *)
KeysArrive ==
  \A k \in 1..MaxKeys :
    typed >= k ~> \/ \E i \in 1..Len(got) : got[i] = k
                  \/ spinning \/ start = "halt"
=============================================================================
