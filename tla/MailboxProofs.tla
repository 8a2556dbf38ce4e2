---------------------------- MODULE MailboxProofs ----------------------------
(***************************************************************************)
(* The lock of every queue, for any number of processes, receivers and     *)
(* messages, two queues in use at once included.  Lock and phase alone are *)
(* no invariant: recv_msg and consume_msg decide by the receiver's pointer *)
(* whether they lock, so the pointer has to go with the lock while an      *)
(* iteration lasts.  After stop_recv it no longer does: the pointer still  *)
(* points into the queue until the program resets it.                      *)
(*                                                                         *)
(* What a queue holds, and the order in which it is read, are proved for   *)
(* one receiver and any number of senders.  With two receivers the first   *)
(* fails, and the proof of the second rests on it: consume_msg frees a     *)
(* message at the head that the receiver's pointer stays on, and the       *)
(* other's queue may get it next.                                          *)
(***************************************************************************)
EXTENDS Mailbox, MqueueProofs

LockInv ==
  /\ QInv
  /\ phase \in [Proc -> {"idle", "received", "consumed", "stopped"}]
  /\ \A q \in Receiver :
       /\ lock[q] = "LOCKED" <=> phase[q] \in {"received", "consumed"}
       /\ phase[q] # "stopped" => Paired(q)

LEMMA InitLockInv == Init => LockInv
  BY MqInitInv, MailboxAssumption DEF Init, LockInv, MqInit

(* An operation of receiver q on its own queue leaves the others' alone.   *)
LEMMA OwnQueue ==
  ASSUME LockInv, NEW q \in Receiver, QInv', OthersKept(q),
         NEW ph \in {"idle", "received", "consumed", "stopped"},
         phase' = [phase EXCEPT ![q] = ph],
         lock'[q] = "LOCKED" <=> ph \in {"received", "consumed"},
         ph # "stopped" => Paired(q)'
  PROVE  LockInv'
  <1>1. q \in Proc /\ phase'[q] = ph /\ \A r \in Receiver \ {q} : phase'[r] = phase[r]
    BY MailboxAssumption DEF LockInv
  <1>2. phase' \in [Proc -> {"idle", "received", "consumed", "stopped"}]
    BY DEF LockInv
  <1>3. \A r \in Receiver \ {q} : lock'[r] = lock[r] /\ current'[r] = current[r]
    BY MailboxAssumption DEF OthersKept
  <1>4. QED
    BY <1>1, <1>2, <1>3 DEF LockInv, Paired

LEMMA NextLockInv == LockInv /\ [Next]_vars => LockInv'
  <1>. SUFFICES ASSUME LockInv, [Next]_vars PROVE LockInv'
    OBVIOUS
  <1>0. QInv /\ Receiver \subseteq Proc
    BY MailboxAssumption DEF LockInv
  <1>1. CASE UNCHANGED vars
    BY <1>1 DEF LockInv, QInv, QTypes, LeadsToMade, Made, Paired, vars, mqvars, lists
  <1>2. ASSUME NEW q \in Receiver, Send(q) PROVE LockInv'
    <2>1. QInv' /\ lock' = lock /\ current' = current
      BY <1>0, <1>2, SendKeeps DEF Send
    <2>2. phase' = phase
      BY <1>2 DEF Send
    <2>3. QED
      BY <2>1, <2>2 DEF LockInv, Paired
  <1>3. ASSUME NEW p \in Proc, NEW q \in Receiver, Spin(p, q) PROVE LockInv'
    <2>1. QInv' /\ lock' = lock /\ current' = current
      BY <1>0, <1>3, SpinKeeps DEF Spin
    <2>2. phase' = phase
      BY <1>3 DEF Spin
    <2>3. QED
      BY <2>1, <2>2 DEF LockInv, Paired
  <1>4. ASSUME NEW q \in Receiver, Receive(q) PROVE LockInv'
    <2>1. Paired(q) /\ q \in Proc
      BY <1>0, <1>4 DEF LockInv, Receive
    <2>2. /\ QInv' /\ OthersKept(q) /\ Paired(q)' /\ current'[q] = Received(q)
      BY <1>0, <1>4, <2>1, RecvKeeps DEF Receive
    <2>3. phase' = [phase EXCEPT ![q] = IF Received(q) = NULL THEN "idle" ELSE "received"]
      BY <1>4 DEF Receive
    <2>4. QED
      BY <2>2, <2>3, OwnQueue DEF Paired
  <1>5. ASSUME NEW q \in Receiver, Consume(q) PROVE LockInv'
    <2>1. Paired(q) /\ q \in Proc
      BY <1>0, <1>5 DEF LockInv, Consume
    <2>2. QInv' /\ OthersKept(q) /\ Paired(q)'
      BY <1>0, <1>5, <2>1, ConsumeKeeps DEF Consume
    <2>3. phase' = [phase EXCEPT ![q] = IF current'[q] = NULL THEN "idle" ELSE "consumed"]
      BY <1>5 DEF Consume
    <2>4. QED
      BY <2>2, <2>3, OwnQueue DEF Paired
  <1>6. ASSUME NEW q \in Receiver, Stop(q) PROVE LockInv'
    <2>1. Paired(q) /\ q \in Proc
      BY <1>0, <1>6 DEF LockInv, Stop
    <2>2. QInv' /\ OthersKept(q) /\ lock'[q] = "UNLOCKED"
      BY <1>0, <1>6, <2>1, StopKeeps DEF Stop
    <2>3. phase' = [phase EXCEPT ![q] = "stopped"]
      BY <1>6 DEF Stop
    <2>4. QED
      BY <2>2, <2>3, OwnQueue
  <1>7. ASSUME NEW q \in Receiver, Restart(q) PROVE LockInv'
    <2>1. /\ lock' = lock /\ current' = [current EXCEPT ![q] = NULL]
          /\ UNCHANGED lists
          /\ phase' = [phase EXCEPT ![q] = "idle"]
      BY <1>7 DEF Restart
    <2>2. lock[q] = "UNLOCKED" /\ q \in Proc
      BY <1>0, <1>7 DEF LockInv, Restart, QInv, QTypes
    <2>3. QInv'
      BY <1>0, <2>1 DEF QInv, QTypes, LeadsToMade, Made, Pointer, lists
    <2>4. OthersKept(q) /\ Paired(q)'
      BY <1>0, <2>1, <2>2 DEF OthersKept, Paired, QInv, QTypes
    <2>5. QED
      BY <2>1, <2>2, <2>3, <2>4, OwnQueue
  <1>8. QED
    BY <1>1, <1>2, <1>3, <1>4, <1>5, <1>6, <1>7 DEF Next

(* Whatever its receiver skips, consumes and stops, and however many other *)
(* queues are in use, the lock of a queue is held exactly from recv_msg to *)
(* the end of the iteration.                                               *)
THEOREM LockFollowsIteration == Spec => []LockedWhileIterating
  <1>1. LockInv => LockedWhileIterating
    BY DEF LockInv, LockedWhileIterating
  <1>2. QED
    BY <1>1, InitLockInv, NextLockInv, PTL DEF Spec

-----------------------------------------------------------------------------
MailTypes ==
  /\ data \in [Msg -> 1..MaxSent \cup {NULL}] /\ size \in [Msg -> 0..1]
  /\ spinning \in Proc \cup {NULL}
  /\ sent \in [Proc -> 0..MaxSent]
  /\ consumed \in [Proc -> SUBSET (1..MaxSent)]

(* The queue of q is s: the messages sent and not consumed, oldest first.  *)
Unconsumed(s, q) ==
  /\ Queue(s, q)
  /\ consumed[q] \subseteq 1..sent[q]
  /\ {data[m] : m \in Members(s)} = (1..sent[q]) \ consumed[q]
  /\ \A i, j \in 1..Len(s) : i < j => data[s[i]] < data[s[j]]

(* While it iterates, the receiver of q is at a message of s or at the one *)
(* it consumed at the head, from where no message is reached.              *)
PointsInto(s, q) ==
  /\ phase[q] = "received" => current[q] \in Members(s)
  /\ phase[q] = "consumed" => current[q] \in Members(s) \/ prev[current[q]] = NULL

MailInv ==
  /\ LockInv /\ MailTypes
  /\ \A q \in Receiver : \E s : Unconsumed(s, q) /\ PointsInto(s, q)

LEMMA InitMailInv == Init => MailInv
  <1> SUFFICES ASSUME Init PROVE MailInv
    OBVIOUS
  <1>1. LockInv
    BY InitLockInv
  <1>2. MailTypes
    BY MailboxAssumption DEF Init, MqInit, MailTypes
  <1>3. ASSUME NEW q \in Receiver PROVE Unconsumed(<<>>, q) /\ PointsInto(<<>>, q)
    <2>1. q \in Proc /\ Members(<<>>) = {}
      BY MailboxAssumption DEF Members
    <2>2. Queue(<<>>, q)
      BY <2>1 DEF Init, MqInit, Queue, IsQueue
    <2>3. sent[q] = 0 /\ phase[q] = "idle"
      BY <2>1 DEF Init
    <2> QED
      BY <2>1, <2>2, <2>3 DEF Unconsumed, PointsInto, Init
  <1> QED
    BY <1>1, <1>2, <1>3 DEF MailInv

(* Of the messages of a queue, a later one is a newer one: their data tell *)
(* them apart.                                                             *)
LEMMA DataTellApart ==
  ASSUME NEW s, NEW q, Unconsumed(s, q), MailTypes, q \in Proc,
         NEW x \in Members(s), NEW y \in Members(s), data[x] = data[y]
  PROVE  x = y
  <1>1. PICK i \in 1..Len(s) : x = s[i]
    BY DEF Members
  <1>2. PICK j \in 1..Len(s) : y = s[j]
    BY DEF Members
  <1>3. data[x] \in Int /\ data[y] \in Int
    BY DEF Unconsumed, MailTypes
  <1>4. Len(s) \in Nat
    BY DEF Unconsumed, Queue, IsQueue
  <1>5. ~(i < j) /\ ~(j < i)
    BY <1>1, <1>2, <1>3 DEF Unconsumed
  <1> QED
    BY <1>1, <1>2, <1>4, <1>5

(* Without keeps an order of the values f. *)
LEMMA WithoutKeepsOrder ==
  ASSUME NEW s, Len(s) \in Nat, NEW k \in 1..Len(s), NEW f,
         \A i, j \in 1..Len(s) : i < j => f[s[i]] < f[s[j]]
  PROVE  \A i, j \in 1..Len(s) - 1 :
            i < j => f[Without(s, k)[i]] < f[Without(s, k)[j]]
  <1> SUFFICES ASSUME NEW i \in 1..Len(s) - 1, NEW j \in 1..Len(s) - 1, i < j
               PROVE  f[Without(s, k)[i]] < f[Without(s, k)[j]]
    OBVIOUS
  <1> DEFINE At(a) == IF a < k THEN a ELSE a + 1
  <1>1. Without(s, k)[i] = s[At(i)] /\ Without(s, k)[j] = s[At(j)]
    BY DEF Without
  <1>2. At(i) \in 1..Len(s) /\ At(j) \in 1..Len(s) /\ At(i) < At(j)
    <2> DEFINE n == Len(s)
    <2>1. n \in Nat /\ k \in 1..n /\ i \in 1..n - 1 /\ j \in 1..n - 1
      OBVIOUS
    <2> HIDE DEF n
    <2>2. At(i) \in 1..n /\ At(j) \in 1..n /\ At(i) < At(j)
      BY <2>1
    <2> QED
      BY <2>2 DEF n
  <1> HIDE DEF At
  <1> QED
    BY <1>1, <1>2

LEMMA SendUnconsumed ==
  ASSUME MailInv, NEW q \in Receiver, Send(q), NEW s, Unconsumed(s, q)
  PROVE  MailTypes' /\ \E m : Unconsumed(Append(s, m), q)'
  <1>1. q \in Proc /\ QTypes /\ MailTypes
    BY MailboxAssumption DEF MailInv, LockInv, QInv
  <1>2. PICK m \in Msg :
          /\ heap[m] # "used"
          /\ data' = [data EXCEPT ![m] = sent[q] + 1]
          /\ size' = [size EXCEPT ![m] = 1]
          /\ Queue(Append(s, m), q)'
          /\ Members(Append(s, m)) = Members(s) \cup {m}
    BY <1>1, SendAppends DEF Send, Unconsumed
  <1>3. /\ sent[q] \in Nat /\ sent[q] < MaxSent /\ sent' = [sent EXCEPT ![q] = @ + 1]
        /\ consumed' = consumed /\ spinning' = spinning
    BY <1>1 DEF Send, send_msg, MailTypes
  <1>4. m \notin Members(s) /\ Members(s) \subseteq Msg /\ s \in Seq(Msg)
    BY <1>2 DEF Unconsumed, Queue, Members, IsQueue
  <1>5. MailTypes'
    BY <1>1, <1>2, <1>3, MailboxAssumption DEF MailTypes
  <1>6. \A x \in Members(s) : data'[x] = data[x] /\ data[x] \in 1..sent[q]
    BY <1>1, <1>2, <1>4 DEF Unconsumed, MailTypes
  <1>7. data'[m] = sent[q] + 1 /\ sent'[q] = sent[q] + 1
    BY <1>1, <1>2, <1>3 DEF MailTypes
  <1>8. {data'[x] : x \in Members(Append(s, m))} = (1..sent'[q]) \ consumed'[q]
    <2>1. {data'[x] : x \in Members(Append(s, m))}
            = {data[x] : x \in Members(s)} \cup {sent[q] + 1}
      BY <1>2, <1>6, <1>7
    <2>2. sent[q] + 1 \notin consumed[q]
      BY <1>3 DEF Unconsumed
    <2>3. 1..sent[q] + 1 = (1..sent[q]) \cup {sent[q] + 1}
      BY <1>3
    <2> QED
      BY <1>3, <1>7, <2>1, <2>2, <2>3 DEF Unconsumed
  <1>9. consumed'[q] \subseteq 1..sent'[q]
    BY <1>3, <1>7 DEF Unconsumed
  <1>10. ASSUME NEW i \in 1..Len(Append(s, m)), NEW j \in 1..Len(Append(s, m)), i < j
         PROVE  data'[Append(s, m)[i]] < data'[Append(s, m)[j]]
    <2> DEFINE n == Len(s)
               a == Append(s, m)
    <2>1. /\ n \in Nat /\ Len(a) = n + 1 /\ a[n + 1] = m
          /\ \A l \in 1..n : a[l] = s[l] /\ s[l] \in Members(s)
          /\ \A l, o \in 1..n : l < o => data[s[l]] < data[s[o]]
      BY <1>2, <1>4 DEF Members, Unconsumed
    <2>2. i \in 1..n + 1 /\ j \in 1..n + 1 /\ i < j
      BY <1>10, <2>1
    <2> HIDE DEF n, a
    <2>3. i \in 1..n /\ (j \in 1..n \/ j = n + 1)
      BY <2>1, <2>2
    <2>4. data'[a[i]] < data'[a[j]]
      BY <1>3, <1>6, <1>7, <2>1, <2>2, <2>3
    <2> QED
      BY <2>4 DEF a
  <1> QED
    BY <1>2, <1>5, <1>8, <1>9, <1>10 DEF Unconsumed

LEMMA ConsumeUnconsumed ==
  ASSUME MailInv, NEW q \in Receiver, Consume(q), NEW s, Unconsumed(s, q),
         NEW k \in 1..Len(s), current[q] = s[k]
  PROVE  MailTypes' /\ Unconsumed(Without(s, k), q)' /\ PointsInto(Without(s, k), q)'
  <1> DEFINE w == Without(s, k)
             m == s[k]
  <1>1. q \in Proc /\ QTypes /\ MailTypes
    BY MailboxAssumption DEF MailInv, LockInv, QInv
  <1>2. /\ Queue(w, q)' /\ Members(w) = Members(s) \ {m}
        /\ data' = data /\ size' = size
        /\ \/ current'[q] = NULL
           \/ current'[q] = m /\ prev'[m] = NULL
           \/ current'[q] \in Members(w)
    BY <1>1, ConsumeRemoves DEF Consume, Unconsumed
  <1>3. /\ s \in Seq(Msg) /\ Len(s) \in Nat /\ m \in Members(s)
        /\ \A i, j \in 1..Len(s) : s[i] = s[j] => i = j
    BY SMTT(30) DEF Unconsumed, Queue, IsQueue, Members
  <1>4. Len(w) = Len(s) - 1
    BY <1>3, WithoutShape
  <1> HIDE DEF w, m
  <1>5. data[m] \in (1..sent[q]) \ consumed[q] /\ sent[q] \in 0..MaxSent
    BY <1>1, <1>3 DEF Unconsumed, MailTypes
  <1>6. /\ consumed' = [consumed EXCEPT ![q] = @ \cup {data[m]}]
        /\ sent' = sent /\ spinning' = spinning
    BY DEF Consume, consume_msg, m
  <1>7. consumed'[q] = consumed[q] \cup {data[m]}
    BY <1>1, <1>6 DEF MailTypes
  <1>8. MailTypes'
    <2>1. data[m] \in 1..MaxSent
      BY <1>5, MailboxAssumption
    <2> QED
      BY <1>1, <1>2, <1>6, <2>1 DEF MailTypes
  <1>9. {data[x] : x \in Members(w)} = (1..sent[q]) \ consumed'[q]
    <2>1. \A x \in Members(s) : data[x] = data[m] => x = m
      BY <1>1, <1>3, DataTellApart
    <2>2. {data[x] : x \in Members(s)} = (1..sent[q]) \ consumed[q]
      BY DEF Unconsumed
    <2>3. {data[x] : x \in Members(w)} = {data[x] : x \in Members(s)} \ {data[m]}
      BY <1>2, <2>1
    <2> QED
      BY <1>7, <2>2, <2>3
  <1>10. \A i, j \in 1..Len(w) : i < j => data[w[i]] < data[w[j]]
    <2>1. \A i, j \in 1..Len(s) : i < j => data[s[i]] < data[s[j]]
      BY DEF Unconsumed
    <2> QED
      BY <1>3, <1>4, <2>1, WithoutKeepsOrder DEF w
  <1>11. consumed'[q] \subseteq 1..sent[q]
    BY <1>5, <1>7 DEF Unconsumed
  <1>12. Unconsumed(w, q)'
    BY <1>2, <1>6, <1>9, <1>10, <1>11 DEF Unconsumed
  <1>13. PointsInto(w, q)'
    <2>1. phase'[q] = IF current'[q] = NULL THEN "idle" ELSE "consumed"
      BY <1>1 DEF Consume, MailInv, LockInv
    <2> QED
      BY <1>2, <2>1 DEF PointsInto
  <1> QED
    BY <1>8, <1>12, <1>13 DEF w

(* From a message of the queue, recv_msg() moves to the next newer one.    *)
LEMMA ReceivedIsNewer ==
  ASSUME MailInv, NEW q \in Receiver, NEW s, Unconsumed(s, q), PointsInto(s, q),
         phase[q] # "stopped", Received(q) # NULL
  PROVE  /\ Received(q) \in Members(s)
         /\ current[q] # NULL => data[Received(q)] > data[current[q]]
  <1>1. q \in Proc /\ Paired(q) /\ LockInv
    BY MailboxAssumption DEF MailInv, LockInv
  <1>2. /\ s \in Seq(Msg) /\ Len(s) \in Nat
        /\ \A i \in 1..Len(s) : s[i] \in Members(s)
    BY DEF Unconsumed, Queue, IsQueue, Members
  <1>3. CASE current[q] = NULL
    <2>1. s # <<>> /\ tail[q] = s[1]
      BY <1>3 DEF Received, Unconsumed, Queue, IsQueue
    <2> QED
      BY <1>2, <1>3, <2>1 DEF Received
  <1>4. CASE current[q] # NULL
    <2>1. phase[q] \in {"received", "consumed"}
      BY <1>1, <1>4 DEF LockInv, Paired
    <2>2. current[q] \in Members(s) /\ prev[current[q]] # NULL
      BY <1>4, <2>1 DEF PointsInto, Received
    <2>3. PICK i \in 1..Len(s) : current[q] = s[i]
      BY <2>2 DEF Members
    <2>4. prev[s[i]] = IF i = Len(s) THEN NULL ELSE s[i + 1]
      BY DEF Unconsumed, Queue, IsQueue
    <2>5. i # Len(s) /\ Received(q) = s[i + 1] /\ i + 1 \in 1..Len(s)
      BY <1>2, <1>4, <2>2, <2>3, <2>4 DEF Received
    <2>6. data[s[i]] < data[s[i + 1]]
      BY <2>5 DEF Unconsumed
    <2>7. data[s[i]] \in Int /\ data[s[i + 1]] \in Int
      BY <1>2, <2>5 DEF Unconsumed
    <2> QED
      BY <1>2, <2>3, <2>5, <2>6, <2>7
  <1> QED
    BY <1>3, <1>4

LEMMA NextMailInv ==
  ASSUME \A p, q \in Receiver : p = q
  PROVE  MailInv /\ [Next]_vars => MailInv'
  <1> SUFFICES ASSUME MailInv, [Next]_vars PROVE MailInv'
    OBVIOUS
  <1>1. LockInv' /\ Receiver \subseteq Proc
    BY NextLockInv, MailboxAssumption DEF MailInv
  <1>2. ASSUME NEW q \in Receiver, MailTypes',
               \E s : Unconsumed(s, q)' /\ PointsInto(s, q)'
        PROVE  MailInv'
    BY <1>1, <1>2 DEF MailInv
  <1>3. ASSUME NEW q \in Receiver
        PROVE  /\ q \in Proc /\ MailTypes /\ QTypes
               /\ \E s : Unconsumed(s, q) /\ PointsInto(s, q)
               /\ phase \in [Proc -> {"idle", "received", "consumed", "stopped"}]
               /\ phase[q] # "stopped" => Paired(q)
    BY <1>1 DEF MailInv, LockInv, QInv
  <1>4. ASSUME NEW q \in Receiver, NEW s, Unconsumed(s, q),
               UNCHANGED <<lists, sent, consumed>>, spinning' \in Proc \cup {NULL}
        PROVE  MailTypes' /\ Unconsumed(s, q)'
    BY <1>3, <1>4, ListsKept DEF Unconsumed, MailTypes, lists
  <1>5. ASSUME NEW q \in Receiver, Send(q) PROVE MailInv'
    <2>1. PICK s : Unconsumed(s, q) /\ PointsInto(s, q)
      BY <1>3
    <2>2. PICK m : Unconsumed(Append(s, m), q)'
      BY <1>5, <2>1, SendUnconsumed
    <2>3. phase' = phase /\ lock[q] = "UNLOCKED"
      BY <1>5 DEF Send, send_msg
    <2>4. phase'[q] \notin {"received", "consumed"}
      BY <1>5, <2>3 DEF MailInv, LockInv
    <2> QED
      BY <1>2, <1>5, <2>1, <2>2, <2>4, SendUnconsumed DEF PointsInto
  <1>6. ASSUME NEW p \in Proc, NEW q \in Receiver, Spin(p, q) PROVE MailInv'
    <2>1. PICK s : Unconsumed(s, q) /\ PointsInto(s, q)
      BY <1>3
    <2>2. /\ UNCHANGED <<lists, sent, consumed, phase, current>>
          /\ spinning' \in Proc \cup {NULL}
      BY <1>6 DEF Spin, send_spin
    <2>3. PointsInto(s, q)'
      BY <2>1, <2>2 DEF PointsInto, lists
    <2> QED
      BY <1>2, <1>4, <2>1, <2>2, <2>3
  <1>7. ASSUME NEW q \in Receiver, Receive(q) PROVE MailInv'
    <2>1. PICK s : Unconsumed(s, q) /\ PointsInto(s, q)
      BY <1>3
    <2>2. /\ UNCHANGED <<lists, sent, consumed>>
          /\ spinning' \in Proc \cup {NULL}
          /\ phase[q] # "stopped"
      BY <1>3, <1>7 DEF Receive, recv_msg, MailTypes
    <2>3. /\ phase'[q] = IF Received(q) = NULL THEN "idle" ELSE "received"
          /\ current'[q] = Received(q)
      BY <1>3, <1>7 DEF Receive, recv_msg, QTypes
    <2>4. Received(q) # NULL => Received(q) \in Members(s)
      BY <2>1, <2>2, ReceivedIsNewer
    <2>5. PointsInto(s, q)'
      BY <2>3, <2>4 DEF PointsInto
    <2> QED
      BY <1>2, <1>4, <2>1, <2>2, <2>5
  <1>8. ASSUME NEW q \in Receiver, Consume(q) PROVE MailInv'
    <2>1. PICK s : Unconsumed(s, q) /\ PointsInto(s, q)
      BY <1>3
    <2>2. PICK k \in 1..Len(s) : current[q] = s[k]
      BY <1>8, <2>1 DEF Consume, PointsInto, Members
    <2> QED
      BY <1>2, <1>8, <2>1, <2>2, ConsumeUnconsumed
  <1>9. ASSUME NEW q \in Receiver, Stop(q) \/ Restart(q) PROVE MailInv'
    <2>1. PICK s : Unconsumed(s, q) /\ PointsInto(s, q)
      BY <1>3
    <2>2. /\ UNCHANGED <<lists, sent, consumed>>
          /\ spinning' \in Proc \cup {NULL}
          /\ phase'[q] \notin {"received", "consumed"}
      BY <1>3, <1>9 DEF Stop, stop_recv, Restart, MailTypes
    <2>3. PointsInto(s, q)'
      BY <2>2 DEF PointsInto
    <2> QED
      BY <1>2, <1>4, <2>1, <2>2, <2>3
  <1>10. CASE UNCHANGED vars
    <2>1. ASSUME NEW q \in Receiver, NEW s, Unconsumed(s, q) /\ PointsInto(s, q)
          PROVE  Unconsumed(s, q)' /\ PointsInto(s, q)'
      <3>1. UNCHANGED <<lists, sent, consumed, spinning, phase, current>>
        BY <1>10 DEF vars, mqvars
      <3>2. Unconsumed(s, q)'
        BY <1>3, <1>4, <2>1, <3>1 DEF MailTypes
      <3> QED
        BY <2>1, <3>1, <3>2 DEF PointsInto, lists
    <2>2. MailTypes'
      BY <1>10 DEF MailInv, MailTypes, vars, mqvars, lists
    <2> QED
      BY <1>1, <2>1, <2>2 DEF MailInv
  <1> QED
    BY <1>5, <1>6, <1>7, <1>8, <1>9, <1>10 DEF Next

(* With one receiver, whatever it skips, consumes and stops and however    *)
(* many processes send, send_msg, recv_msg and consume_msg keep the list   *)
(* doubly linked and in it exactly the messages sent and not consumed,     *)
(* oldest first.  With two receivers this fails: a message consumed at the *)
(* head is freed while the receiver's pointer stays on it.                 *)
THEOREM QueueHoldsUnconsumed ==
  ASSUME \A p, q \in Receiver : p = q
  PROVE  Spec => []HoldsTheUnconsumed
  <1>1. MailInv => HoldsTheUnconsumed
    <2> SUFFICES ASSUME MailInv PROVE HoldsTheUnconsumed
      OBVIOUS
    <2>1. TypeOK
      BY DEF MailInv, LockInv, QInv, QTypes, MailTypes, TypeOK, Pointer
    <2>2. ASSUME NEW q \in Receiver
          PROVE  LET s == FromTail(q) IN
                 /\ WellLinked(q)
                 /\ {data[s[i]] : i \in 1..Len(s)} = (1..sent[q]) \ consumed[q]
                 /\ \A i, j \in 1..Len(s) : i < j => data[s[i]] < data[s[j]]
      <3>1. PICK s : Unconsumed(s, q)
        BY DEF MailInv
      <3>2. FromTail(q) = s
        BY <3>1, QueueIsRead DEF Unconsumed
      <3>3. WellLinked(q)
        BY <3>1, <3>2 DEF WellLinked, Unconsumed, Queue, IsQueue, Members
      <3>4. {data[s[i]] : i \in 1..Len(s)} = {data[m] : m \in Members(s)}
        BY DEF Members
      <3> QED
        BY <3>1, <3>2, <3>3, <3>4 DEF Unconsumed
    <2> QED
      BY <2>1, <2>2 DEF HoldsTheUnconsumed
  <1> QED
    BY <1>1, InitMailInv, NextMailInv, PTL DEF Spec

(* With one receiver, an iteration of recv_msg goes strictly from older to *)
(* newer messages, also past those that consume_msg removed.               *)
THEOREM IterationGoesToNewer ==
  ASSUME \A p, q \in Receiver : p = q
  PROVE  Spec => OldestFirst
  <1> DEFINE Newer == \A q \in Receiver :
        current[q] # NULL /\ phase'[q] = "received" /\ current'[q] # current[q]
          => data[current'[q]] > data[current[q]]
  <1>1. MailInv /\ [Next]_vars => [Newer]_vars
    <2> SUFFICES ASSUME MailInv, Next, NEW q \in Receiver, current[q] # NULL,
                        phase'[q] = "received", current'[q] # current[q]
                 PROVE  data[current'[q]] > data[current[q]]
      OBVIOUS
    <2>1. /\ q \in Proc /\ QTypes
          /\ phase \in [Proc -> {"idle", "received", "consumed", "stopped"}]
      BY MailboxAssumption DEF MailInv, LockInv, QInv
    <2>2. PICK r \in Receiver :
            \/ Send(r) \/ Receive(r) \/ Consume(r) \/ Stop(r) \/ Restart(r)
            \/ \E p \in Proc : Spin(p, r)
      BY DEF Next
    <2>3. r = q
      OBVIOUS
    <2>4. Receive(q)
      <3>1. ~Send(q) /\ ~\E p \in Proc : Spin(p, q)
        BY DEF Send, send_msg, Spin, send_spin
      <3>2. ~Consume(q) /\ ~Stop(q) /\ ~Restart(q)
        BY <2>1 DEF Consume, Stop, Restart
      <3> QED
        BY <2>2, <2>3, <3>1, <3>2
    <2>5. PICK s : Unconsumed(s, q) /\ PointsInto(s, q)
      BY DEF MailInv
    <2>6. current'[q] = Received(q) /\ Received(q) # NULL /\ phase[q] # "stopped"
      BY <2>1, <2>4 DEF Receive, recv_msg, QTypes
    <2> QED
      BY <2>5, <2>6, ReceivedIsNewer
  <1>2. Spec => []MailInv
    BY InitMailInv, NextMailInv, PTL DEF Spec
  <1> QED
    BY <1>1, <1>2, PTL DEF Spec, OldestFirst
=============================================================================
