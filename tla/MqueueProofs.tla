---------------------------- MODULE MqueueProofs ----------------------------
(***************************************************************************)
(* Lemmas about the operations of Mqueue.tla, for any set of processes and *)
(* of messages.  The lock of a queue and the receiver's pointer go         *)
(* together; and pointers lead only to messages that were made, none of    *)
(* them empty, so that a result of 0 means the end of the queue.           *)
(*                                                                         *)
(* What a queue holds: its messages are a sequence, doubly linked from     *)
(* tail to head (IsQueue).  send_msg() appends to it, consume_msg() takes  *)
(* one message out wherever it is, and both leave the sequences of other   *)
(* processes as they are.                                                  *)
(***************************************************************************)
EXTENDS Mqueue, FiniteSetTheorems, FunctionTheorems, TLAPS

Pointer == Msg \cup {NULL}
Made == {m \in Msg : heap[m] # "unused"}

QTypes ==
  /\ head \in [Proc -> Pointer] /\ tail \in [Proc -> Pointer]
  /\ current \in [Proc -> Pointer]
  /\ lock \in [Proc -> {"UNLOCKED", "LOCKED"}]
  /\ next \in [Msg -> Pointer] /\ prev \in [Msg -> Pointer]
  /\ size \in [Msg -> Nat]
  /\ heap \in [Msg -> {"unused", "used", "freed"}]

LeadsToMade ==
  /\ \A m \in Made : size[m] # 0
  /\ \A p \in Proc : {head[p], tail[p], current[p]} \subseteq Made \cup {NULL}
  /\ \A m \in Msg : {next[m], prev[m]} \subseteq Made \cup {NULL}

QInv == QTypes /\ LeadsToMade

(* The receiver p is in an iteration exactly while it holds its lock.      *)
Paired(p) == lock[p] = "LOCKED" <=> current[p] # NULL

(* What an operation of p leaves alone.                                    *)
OthersKept(p) ==
  \A r \in Proc \ {p} : lock'[r] = lock[r] /\ current'[r] = current[r]

LEMMA MqInitInv == MqInit => QInv /\ \A p \in Proc : Paired(p)
  BY MqueueAssumption DEF MqInit, QInv, QTypes, LeadsToMade, Paired, Made, Pointer

LEMMA SpinKeeps ==
  ASSUME NEW p, NEW q, QInv, send_spin(p, q)
  PROVE  QInv' /\ lock' = lock /\ current' = current
  BY DEF send_spin, QInv, QTypes, LeadsToMade, Made, lists

LEMMA SendKeeps ==
  ASSUME NEW q \in Proc, NEW d, NEW sz \in Nat \ {0}, QInv, send_msg(q, d, sz)
  PROVE  QInv' /\ lock' = lock /\ current' = current
  <1>. USE DEF QInv
  <1>1. PICK m \in Msg :
          /\ heap' = [heap EXCEPT ![m] = "used"]
          /\ size' = [size EXCEPT ![m] = sz]
          /\ next' = [next EXCEPT ![m] = head[q]]
          /\ prev' = IF head[q] = NULL THEN [prev EXCEPT ![m] = NULL]
                     ELSE [prev EXCEPT ![m] = NULL, ![head[q]] = m]
          /\ head' = [head EXCEPT ![q] = m]
          /\ tail' = IF head[q] = NULL THEN [tail EXCEPT ![q] = m] ELSE tail
    BY DEF send_msg, create_message
  <1>2. lock' = lock /\ current' = current
    BY DEF send_msg
  <1>3. m \in Pointer /\ NULL \in Pointer /\ head[q] \in Pointer
    BY DEF Pointer, QTypes
  <1>4. QTypes'
    BY <1>1, <1>2, <1>3 DEF QTypes, Pointer
  <1>5. Made' = Made \cup {m}
    BY <1>1 DEF Made, QTypes
  <1>6. \A x \in Made' : size'[x] # 0
    BY <1>1, <1>5 DEF LeadsToMade, QTypes
  <1>7. \A p \in Proc : {head'[p], tail'[p], current'[p]} \subseteq Made' \cup {NULL}
    BY <1>1, <1>2, <1>5 DEF LeadsToMade, QTypes
  <1>8. \A x \in Msg : {next'[x], prev'[x]} \subseteq Made' \cup {NULL}
    BY <1>1, <1>5 DEF LeadsToMade, QTypes
  <1>9. QED
    BY <1>2, <1>4, <1>6, <1>7, <1>8 DEF LeadsToMade

(* recv_msg() moves to a made message or to the end, and the lock follows. *)
LEMMA RecvKeeps ==
  ASSUME NEW p \in Proc, QInv, recv_msg(p)
  PROVE  /\ QInv' /\ OthersKept(p)
         /\ current'[p] = Received(p)
         /\ Paired(p) => Paired(p)'
         /\ RecvResult(p) = 0 <=> Received(p) = NULL
  <1>. USE DEF QInv
  <1>1. Received(p) \in Made \cup {NULL} /\ Received(p) \in Pointer
    BY DEF Received, LeadsToMade, QTypes, Made, Pointer
  <1>2. /\ current' = [current EXCEPT ![p] = Received(p)]
        /\ lock' = [lock EXCEPT ![p] = IF Received(p) = NULL THEN "UNLOCKED"
                                       ELSE IF current[p] = NULL THEN "LOCKED"
                                       ELSE lock[p]]
        /\ UNCHANGED lists
    BY DEF recv_msg
  <1>3. QTypes'
    BY <1>1, <1>2 DEF QTypes, Pointer, lists
  <1>4. LeadsToMade'
    BY <1>1, <1>2 DEF LeadsToMade, Made, QTypes, lists
  <1>5. OthersKept(p) /\ current'[p] = Received(p)
    BY <1>2 DEF OthersKept, QTypes
  <1>6. Paired(p) => Paired(p)'
    BY <1>2, <1>5 DEF Paired, QTypes
  <1>7. RecvResult(p) = 0 <=> Received(p) = NULL
    BY <1>1, MqueueAssumption DEF RecvResult, LeadsToMade, Made
  <1>8. QED
    BY <1>3, <1>4, <1>5, <1>6, <1>7

(* consume_msg() keeps both on each of its four ways.                      *)
LEMMA ConsumeKeeps ==
  ASSUME NEW p \in Proc, QInv, Paired(p), consume_msg(p)
  PROVE  QInv' /\ OthersKept(p) /\ Paired(p)'
  <1>. USE DEF QInv
  <1>. DEFINE m == current[p]
  <1>1. CASE current[p] = NULL
    <2>1. /\ lock' = [lock EXCEPT ![p] = "UNLOCKED"]
          /\ UNCHANGED <<lists, current>>
      BY <1>1 DEF consume_msg
    <2>2. QED
      BY <1>1, <2>1 DEF QTypes, LeadsToMade, Made, OthersKept, Paired, lists
  <1>2. ASSUME current[p] # NULL
        PROVE  m \in Made /\ m \in Msg /\ lock[p] = "LOCKED"
    BY <1>2 DEF LeadsToMade, Made, Paired
  <1>3. CASE current[p] # NULL /\ consume_tail(p, m)
    <2>1. /\ tail' = [tail EXCEPT ![p] = prev[m]]
          /\ next' = IF prev[m] = NULL THEN next ELSE [next EXCEPT ![prev[m]] = NULL]
          /\ head' = IF m = head[p] THEN [head EXCEPT ![p] = NULL] ELSE head
          /\ current' = [current EXCEPT ![p] = NULL]
          /\ lock' = [lock EXCEPT ![p] = "UNLOCKED"]
          /\ UNCHANGED <<prev, size, heap>>
      BY <1>3 DEF consume_tail
    <2>2. QTypes'
      BY <1>2, <1>3, <2>1 DEF QTypes, Pointer
    <2>3. LeadsToMade'
      BY <1>2, <1>3, <2>1 DEF LeadsToMade, Made, QTypes
    <2>4. OthersKept(p) /\ Paired(p)'
      BY <2>1 DEF OthersKept, Paired, QTypes
    <2>5. QED
      BY <2>2, <2>3, <2>4
  <1>4. CASE current[p] # NULL /\ consume_head(p, m)
    <2>1. /\ head' = [head EXCEPT ![p] = next[m]]
          /\ prev' = [prev EXCEPT ![next[m]] = NULL]
          /\ heap' = [heap EXCEPT ![m] = "freed"]
          /\ UNCHANGED <<tail, next, size, current, lock>>
      BY <1>4 DEF consume_head
    <2>2. QTypes'
      BY <1>2, <1>4, <2>1 DEF QTypes, Pointer
    <2>3. Made' = Made
      BY <1>2, <1>4, <2>1 DEF Made, QTypes
    <2>4. LeadsToMade'
      BY <1>2, <1>4, <2>1, <2>3 DEF LeadsToMade, QTypes
    <2>5. OthersKept(p) /\ Paired(p)'
      BY <2>1 DEF OthersKept, Paired
    <2>6. QED
      BY <2>2, <2>4, <2>5
  <1>5. CASE current[p] # NULL /\ consume_inner(p, m)
    <2>1. /\ next' = IF prev[m] = NULL THEN next
                     ELSE [next EXCEPT ![prev[m]] = next[m]]
          /\ prev' = IF next[m] = NULL THEN prev
                     ELSE [prev EXCEPT ![next[m]] = prev[m]]
          /\ current' = [current EXCEPT ![p] = next[m]]
          /\ UNCHANGED <<head, tail, size>>
      BY <1>5 DEF consume_inner
    <2>2. \/ next[m] # NULL /\ heap' = [heap EXCEPT ![m] = "freed"] /\ lock' = lock
          \/ next[m] = NULL /\ lock' = [lock EXCEPT ![p] = "UNLOCKED"] /\ heap' = heap
      BY <1>5 DEF consume_inner
    <2>3. QTypes'
      BY <1>2, <1>5, <2>1, <2>2 DEF QTypes, Pointer
    <2>4. Made' = Made
      BY <1>2, <1>5, <2>2 DEF Made, QTypes
    <2>5. LeadsToMade'
      BY <1>2, <1>5, <2>1, <2>4 DEF LeadsToMade, QTypes
    <2>6. OthersKept(p) /\ Paired(p)'
      BY <1>2, <1>5, <2>1, <2>2 DEF OthersKept, Paired, QTypes
    <2>7. QED
      BY <2>3, <2>5, <2>6
  <1>6. QED
    BY <1>1, <1>3, <1>4, <1>5 DEF consume_msg

(* stop_recv() leaves the queue unlocked and the pointer where it is.      *)
LEMMA StopKeeps ==
  ASSUME NEW p \in Proc, QInv, Paired(p), stop_recv(p)
  PROVE  QInv' /\ OthersKept(p) /\ lock'[p] = "UNLOCKED" /\ current' = current
  BY DEF stop_recv, QInv, QTypes, LeadsToMade, Made, OthersKept, Paired, lists

-----------------------------------------------------------------------------
(* Induction over the naturals: a set of them has a least element. *)
LEMMA Least ==
  ASSUME NEW T \in SUBSET Nat, T # {}
  PROVE  \E n \in T : \A m \in T : n <= m
  <1> DEFINE R == OpToRel(<, Nat)
  <1>1. IsWellFoundedOn(R, Nat)
    BY Zenon, NatLessThanWellFounded
  <1>2. PICK n \in T : \A m \in T : ~(<<m, n>> \in R)
    <2> HIDE DEF R
    <2> QED
      BY <1>1, WFMin
  <1>3. ASSUME NEW m \in T PROVE n <= m
    <2>1. ~(m < n)
      BY <1>2 DEF OpToRel
    <2> HIDE DEF R
    <2> QED
      BY <2>1
  <1> HIDE DEF R
  <1> QED
    BY <1>3

LEMMA Induction ==
  ASSUME NEW T \in SUBSET Nat, 0 \in T, \A n \in T : n + 1 \in T
  PROVE  T = Nat
  <1> DEFINE U == Nat \ T
  <1>1. SUFFICES ASSUME U # {} PROVE FALSE
    OBVIOUS
  <1>2. PICK n \in U : \A m \in U : n <= m
    BY <1>1, Least
  <1>3. n # 0 /\ n \in Nat /\ n - 1 \in T
    BY <1>2
  <1> QED
    BY <1>2, <1>3

-----------------------------------------------------------------------------
(* The messages s form a list that is doubly linked by nxt and prv from    *)
(* its tail t to its head h.                                               *)
IsQueue(s, t, h, nxt, prv) ==
  /\ s \in Seq(Msg)
  /\ \A i, j \in 1..Len(s) : s[i] = s[j] => i = j
  /\ t = IF s = <<>> THEN NULL ELSE s[1]
  /\ h = IF s = <<>> THEN NULL ELSE s[Len(s)]
  /\ \A i \in 1..Len(s) : /\ prv[s[i]] = IF i = Len(s) THEN NULL ELSE s[i + 1]
                          /\ nxt[s[i]] = IF i = 1 THEN NULL ELSE s[i - 1]

Members(s) == {s[i] : i \in 1..Len(s)}

LEMMA QueueFits ==
  ASSUME NEW s, NEW t, NEW h, NEW nxt, NEW prv, IsQueue(s, t, h, nxt, prv)
  PROVE  /\ Len(s) \in Nat /\ Cardinality(Msg) \in Nat
         /\ Len(s) <= Cardinality(Msg)
  <1> DEFINE C == Members(s)
  <1>1. s \in Seq(Msg) /\ Len(s) \in Nat
    BY DEF IsQueue
  <1>2. IsFiniteSet(1..Len(s)) /\ Cardinality(1..Len(s)) = Len(s)
    <2> DEFINE n == Len(s)
    <2>1. n \in Nat /\ n \in Int /\ 1 \in Int
      BY <1>1
    <2> HIDE DEF n
    <2>2. IsFiniteSet(1..n) /\ Cardinality(1..n) = IF 1 > n THEN 0 ELSE n - 1 + 1
      BY <2>1, FS_Interval
    <2>3. IsFiniteSet(1..n) /\ Cardinality(1..n) = n
      BY <2>1, <2>2
    <2> QED
      BY <2>3 DEF n
  <1>3. s \in Bijection(1..Len(s), C)
    <2>1. s \in [1..Len(s) -> C]
      BY <1>1 DEF Members
    <2>2. \A i, j \in 1..Len(s) : s[i] = s[j] => i = j
      BY DEF IsQueue
    <2>3. \A x \in C : \E i \in 1..Len(s) : s[i] = x
      BY DEF Members
    <2> HIDE DEF C
    <2> QED
      BY <2>1, <2>2, <2>3, Fun_IsBij
  <1>4. IsFiniteSet(C) /\ Cardinality(C) = Len(s)
    <2>1. ExistsBijection(1..Len(s), C)
      BY <1>3 DEF ExistsBijection
    <2> QED
      BY <1>2, <2>1, FS_Bijection
  <1>5. C \subseteq Msg /\ IsFiniteSet(Msg)
    BY <1>1, MqueueAssumption DEF Members
  <1>6. Cardinality(C) <= Cardinality(Msg) /\ Cardinality(Msg) \in Nat
    BY <1>5, FS_Subset, FS_CardinalityType
  <1> QED
    BY <1>1, <1>4, <1>6

(* The first k messages, or all. *)
Upto(s, k) == [i \in 1..(IF k < Len(s) THEN k ELSE Len(s)) |-> s[i]]

NextOf(w, t, prv) == IF w = <<>> THEN t ELSE prv[w[Len(w)]]

LEMMA UptoStep ==
  ASSUME NEW s, NEW t, NEW h, NEW nxt, NEW prv, IsQueue(s, t, h, nxt, prv),
         NEW k \in Nat
  PROVE  Upto(s, k + 1) = IF NextOf(Upto(s, k), t, prv) = NULL THEN Upto(s, k)
                          ELSE Append(Upto(s, k), NextOf(Upto(s, k), t, prv))
  <1>1. s \in Seq(Msg) /\ Len(s) \in Nat /\ NULL \notin Msg
    BY MqueueAssumption DEF IsQueue
  <1>2. CASE k >= Len(s)
    <2>1. Upto(s, k) = s /\ Upto(s, k + 1) = s
      BY <1>1, <1>2 DEF Upto
    <2>2. NextOf(s, t, prv) = NULL
      BY <1>1 DEF NextOf, IsQueue
    <2> QED
      BY <2>1, <2>2
  <1>3. CASE k < Len(s)
    <2>1. /\ Upto(s, k) = [i \in 1..k |-> s[i]]
          /\ Upto(s, k + 1) = [i \in 1..k + 1 |-> s[i]]
      BY <1>1, <1>3 DEF Upto
    <2>2. Upto(s, k) \in Seq(Msg) /\ Len(Upto(s, k)) = k
      BY <1>1, <1>3, <2>1
    <2>3. NextOf(Upto(s, k), t, prv) = s[k + 1]
      <3>1. CASE k = 0
        BY <1>1, <1>3, <2>1, <2>2, <3>1 DEF NextOf, IsQueue
      <3>2. CASE k # 0
        <4>1. k \in 1..Len(s) /\ k # Len(s) /\ Upto(s, k)[k] = s[k] /\ Upto(s, k) # <<>>
          BY <1>1, <1>3, <2>1, <2>2, <3>2
        <4> QED
          BY <2>2, <4>1 DEF NextOf, IsQueue
      <3> QED
        BY <3>1, <3>2
    <2>4. s[k + 1] \in Msg
      BY <1>1, <1>3
    <2>5. Append(Upto(s, k), s[k + 1]) = [i \in 1..k + 1 |-> s[i]]
      BY <1>1, <1>3, <2>1, <2>2, <2>4
    <2> QED
      BY <1>1, <2>1, <2>3, <2>4, <2>5
  <1> QED
    BY <1>1, <1>2, <1>3

(* A walk from the tail reads the queue. *)
LEMMA WalkReadsQueue ==
  ASSUME NEW s, NEW t, NEW h, NEW nxt, NEW prv, IsQueue(s, t, h, nxt, prv)
  PROVE  Reached(t, prv) = s
  <1> DEFINE N == Cardinality(Msg)
             Walks(w) == w = [k \in 0..N |->
               IF k = 0 THEN <<>>
               ELSE IF NextOf(w[k - 1], t, prv) = NULL THEN w[k - 1]
               ELSE Append(w[k - 1], NextOf(w[k - 1], t, prv))]
             v == [k \in 0..N |-> Upto(s, k)]
             w == CHOOSE w : Walks(w)
  <1>1. /\ Len(s) \in Nat /\ N \in Nat /\ Len(s) <= N
    BY QueueFits
  <1>2. s \in Seq(Msg) /\ Upto(s, 0) = <<>> /\ Upto(s, N) = s
    BY <1>1 DEF IsQueue, Upto
  <1>3. Reached(t, prv) = w[N]
    BY DEF Reached, NextOf
  <1> HIDE DEF N
  <1>4. Walks(v)
    <2>1. ASSUME NEW k \in 0..N, k # 0
          PROVE  v[k] = IF NextOf(v[k - 1], t, prv) = NULL THEN v[k - 1]
                        ELSE Append(v[k - 1], NextOf(v[k - 1], t, prv))
      <3>1. k - 1 \in Nat /\ k - 1 \in 0..N /\ (k - 1) + 1 = k
        BY <1>1, <2>1
      <3>2. v[k] = Upto(s, (k - 1) + 1) /\ v[k - 1] = Upto(s, k - 1)
        BY <3>1
      <3> DEFINE j == k - 1
      <3>3. j \in Nat
        BY <3>1
      <3> HIDE DEF v, j
      <3>4. Upto(s, j + 1) = IF NextOf(Upto(s, j), t, prv) = NULL THEN Upto(s, j)
                             ELSE Append(Upto(s, j), NextOf(Upto(s, j), t, prv))
        BY <3>3, UptoStep
      <3> QED
        BY <3>2, <3>4 DEF j
    <2>2. 0 \in 0..N /\ v[0] = <<>>
      BY <1>1, <1>2
    <2>3. v = [k \in 0..N |-> v[k]]
      OBVIOUS
    <2> HIDE DEF v
    <2> QED
      BY <2>1, <2>2, <2>3
  <1>5. Walks(w)
    <2> HIDE DEF Walks, v
    <2> QED
      BY <1>4
  <1> DEFINE T == {k \in Nat : k <= N => w[k] = Upto(s, k)}
  <1> HIDE DEF w
  <1>6. 0 \in T
    BY <1>1, <1>2, <1>5
  <1>7. ASSUME NEW k \in T PROVE k + 1 \in T
    <2>1. SUFFICES ASSUME k + 1 <= N PROVE w[k + 1] = Upto(s, k + 1)
      OBVIOUS
    <2>2. k \in Nat /\ w[k] = Upto(s, k) /\ k + 1 \in 0..N /\ (k + 1) - 1 = k
          /\ k + 1 # 0
      BY <1>1, <2>1
    <2>3. w[k + 1] = IF NextOf(w[k], t, prv) = NULL THEN w[k]
                     ELSE Append(w[k], NextOf(w[k], t, prv))
      BY <1>5, <2>2
    <2> QED
      BY <2>2, <2>3, UptoStep
  <1>8. T = Nat
    <2>1. T \subseteq Nat
      OBVIOUS
    <2> HIDE DEF T
    <2> QED
      BY <1>6, <1>7, <2>1, Induction
  <1>9. w[N] = Upto(s, N)
    BY <1>1, <1>8
  <1> QED
    BY <1>2, <1>3, <1>9

-----------------------------------------------------------------------------
(* What an operation on another list leaves alone stays a queue. *)
LEMMA QueueFramed ==
  ASSUME NEW s, NEW t, NEW h, NEW nxt, NEW prv, IsQueue(s, t, h, nxt, prv),
         NEW nxt2, NEW prv2,
         \A m \in Members(s) : nxt2[m] = nxt[m] /\ prv2[m] = prv[m]
  PROVE  IsQueue(s, t, h, nxt2, prv2)
  BY DEF IsQueue, Members

(* A message is linked behind the head. *)
LEMMA QueueAppend ==
  ASSUME NEW s, NEW t, NEW h, NEW nxt, NEW prv, IsQueue(s, t, h, nxt, prv),
         NEW m \in Msg \ Members(s), NEW t2, NEW nxt2, NEW prv2,
         t2 = IF h = NULL THEN m ELSE t,
         nxt2[m] = h, prv2[m] = NULL, h # NULL => prv2[h] = m,
         \A x \in Members(s) : /\ nxt2[x] = nxt[x]
                               /\ x # h => prv2[x] = prv[x]
  PROVE  /\ IsQueue(Append(s, m), t2, m, nxt2, prv2)
         /\ Members(Append(s, m)) = Members(s) \cup {m}
  <1> DEFINE n == Len(s)
             a == Append(s, m)
  <1>1. s \in Seq(Msg) /\ n \in Nat /\ NULL \notin Msg
    BY MqueueAssumption DEF IsQueue
  <1>2. /\ a \in Seq(Msg) /\ Len(a) = n + 1 /\ a[n + 1] = m /\ a # <<>>
        /\ \A i \in 1..n : a[i] = s[i] /\ s[i] \in Members(s) /\ s[i] \in Msg
    BY <1>1 DEF Members
  <1>3. /\ h = NULL <=> n = 0
        /\ n # 0 => h = s[n]
        /\ n = 0 <=> s = <<>>
    BY <1>1 DEF IsQueue
  <1>4. \A i, j \in 1..n + 1 : a[i] = a[j] => i = j
    <2>1. \A i, j \in 1..n : s[i] = s[j] => i = j
      BY DEF IsQueue
    <2>2. \A i \in 1..n + 1 : i \in 1..n \/ i = n + 1
      BY <1>1
    <2> HIDE DEF n, a
    <2> QED
      BY <1>2, <2>1, <2>2
  <1>5. t2 = a[1]
    <2>1. n # 0 => t = s[1] /\ 1 \in 1..n
      BY <1>1 DEF IsQueue
    <2> HIDE DEF n, a
    <2> QED
      BY <1>1, <1>2, <1>3, <2>1
  <1>6. ASSUME NEW i \in 1..n + 1
        PROVE  /\ prv2[a[i]] = IF i = n + 1 THEN NULL ELSE a[i + 1]
               /\ nxt2[a[i]] = IF i = 1 THEN NULL ELSE a[i - 1]
    <2>1. \A j \in 1..n : /\ prv[s[j]] = IF j = n THEN NULL ELSE s[j + 1]
                          /\ nxt[s[j]] = IF j = 1 THEN NULL ELSE s[j - 1]
      BY DEF IsQueue
    <2>2. \A j \in 1..n : s[j] = h <=> j = n
      BY <1>1, <1>3 DEF IsQueue
    <2> HIDE DEF n, a
    <2>3. CASE i = n + 1
      <3>1. CASE n = 0
        BY <1>1, <1>2, <1>3, <2>3, <3>1
      <3>2. CASE n # 0
        <4>1. n \in 1..n /\ (n + 1) - 1 = n /\ n + 1 # 1
          BY <1>1, <3>2
        <4> QED
          BY <1>2, <1>3, <2>3, <3>2, <4>1
      <3> QED
        BY <3>1, <3>2
    <2>4. CASE i = n
      <3>1. i \in 1..n /\ n # 0 /\ n + 1 # n
        BY <1>1, <2>4
      <3>2. prv2[a[i]] = a[i + 1]
        BY <1>2, <1>3, <2>4, <3>1
      <3>3. nxt2[a[i]] = IF i = 1 THEN NULL ELSE s[i - 1]
        BY <1>2, <2>1, <3>1
      <3>4. i # 1 => i - 1 \in 1..n
        BY <1>1, <3>1
      <3> QED
        BY <1>2, <2>4, <3>1, <3>2, <3>3, <3>4
    <2>5. CASE i # n /\ i # n + 1
      <3>1. i \in 1..n /\ i + 1 \in 1..n /\ (i # 1 => i - 1 \in 1..n)
        BY <1>1, <2>5
      <3> QED
        BY <1>2, <2>1, <2>2, <2>5, <3>1
    <2> QED
      BY <2>3, <2>4, <2>5
  <1>7. Members(a) = Members(s) \cup {m}
    <2>1. 1..n + 1 = (1..n) \cup {n + 1}
      BY <1>1
    <2>2. Members(s) = {s[i] : i \in 1..n} /\ Members(a) = {a[i] : i \in 1..n + 1}
      BY <1>2 DEF Members
    <2> HIDE DEF n, a
    <2> QED
      BY <1>2, <2>1, <2>2
  <1>8. IsQueue(a, t2, m, nxt2, prv2)
    <2> HIDE DEF n, a
    <2> QED
      BY <1>2, <1>4, <1>5, <1>6 DEF IsQueue
  <1> QED
    BY <1>7, <1>8

(* The queue without its k-th message. *)
Without(s, k) == [i \in 1..Len(s) - 1 |-> IF i < k THEN s[i] ELSE s[i + 1]]

(* Without keeps the other messages, in their order. *)
LEMMA WithoutShape ==
  ASSUME NEW S, NEW s \in Seq(S), NEW k \in 1..Len(s),
         \A i, j \in 1..Len(s) : s[i] = s[j] => i = j
  PROVE  /\ Without(s, k) \in Seq(S) /\ Len(Without(s, k)) = Len(s) - 1
         /\ Len(s) - 1 \in Nat
         /\ \A i, j \in 1..Len(s) - 1 : Without(s, k)[i] = Without(s, k)[j] => i = j
         /\ Members(Without(s, k)) = Members(s) \ {s[k]}
  <1> DEFINE n == Len(s)
             w == Without(s, k)
             At(i) == IF i < k THEN i ELSE i + 1
  <1>1. n \in Nat /\ n # 0 /\ n - 1 \in Nat /\ k \in 1..n
    OBVIOUS
  <1>2. \A i \in 1..n - 1 : w[i] = s[At(i)]
    BY DEF Without
  <1>3. w \in Seq(S) /\ Len(w) = n - 1
    BY <1>1 DEF Without
  <1>4. \A i, j \in 1..n : s[i] = s[j] => i = j
    OBVIOUS
  <1>5. Members(w) = {w[i] : i \in 1..n - 1} /\ Members(s) = {s[i] : i \in 1..n}
    BY <1>3 DEF Members
  <1> HIDE DEF n, w
  <1>6. /\ \A i \in 1..n - 1 : At(i) \in 1..n /\ At(i) # k
        /\ \A i, j \in 1..n - 1 : At(i) = At(j) => i = j
        /\ \A j \in 1..n : j # k => \E i \in 1..n - 1 : At(i) = j
    <2>1. \A i \in 1..n - 1 : At(i) \in 1..n /\ At(i) # k
      BY <1>1
    <2>2. \A i, j \in 1..n - 1 : At(i) = At(j) => i = j
      BY <1>1
    <2>3. ASSUME NEW j \in 1..n, j # k PROVE \E i \in 1..n - 1 : At(i) = j
      <3>1. CASE j < k
        <4>1. j \in 1..n - 1 /\ At(j) = j
          BY <1>1, <3>1
        <4> QED
          BY <4>1
      <3>2. CASE ~(j < k)
        <4>1. j - 1 \in 1..n - 1 /\ At(j - 1) = j
          BY <1>1, <2>3, <3>2
        <4> QED
          BY <4>1
      <3> QED
        BY <3>1, <3>2
    <2> QED
      BY <2>1, <2>2, <2>3
  <1> HIDE DEF At
  <1>7. \A i, j \in 1..n - 1 : w[i] = w[j] => i = j
    BY <1>2, <1>4, <1>6
  <1>8. Members(w) = Members(s) \ {s[k]}
    <2>1. ASSUME NEW x \in Members(w) PROVE x \in Members(s) \ {s[k]}
      <3>1. PICK i \in 1..n - 1 : x = w[i]
        BY <1>5, <2>1
      <3>2. x = s[At(i)] /\ At(i) \in 1..n /\ At(i) # k
        BY <1>2, <1>6, <3>1
      <3>3. s[At(i)] # s[k]
        BY <1>1, <1>4, <3>2
      <3> QED
        BY <1>5, <3>2, <3>3
    <2>2. ASSUME NEW x \in Members(s) \ {s[k]} PROVE x \in Members(w)
      <3>1. PICK j \in 1..n : x = s[j] /\ j # k
        BY <1>5, <2>2
      <3> QED
        BY <1>2, <1>5, <1>6, <3>1
    <2> QED
      BY <2>1, <2>2
  <1> QED
    BY <1>1, <1>3, <1>7, <1>8 DEF n, w

(* nxt2 and prv2 go past the k-th message, and are else nxt and prv. *)
GoPast(s, k, nxt, prv, nxt2, prv2) ==
  \A i \in 1..Len(s) : i # k =>
    /\ nxt2[s[i]] = IF i = k + 1 THEN nxt[s[k]] ELSE nxt[s[i]]
    /\ prv2[s[i]] = IF i = k - 1 THEN prv[s[k]] ELSE prv[s[i]]

(* Unlinking the k-th message leaves a queue of the others. *)
LEMMA QueueUnlink ==
  ASSUME NEW s, NEW t, NEW h, NEW nxt, NEW prv, IsQueue(s, t, h, nxt, prv),
         NEW k \in 1..Len(s), NEW t2, NEW h2, NEW nxt2, NEW prv2,
         t2 = IF k = 1 THEN prv[s[k]] ELSE t,
         h2 = IF k = Len(s) THEN nxt[s[k]] ELSE h,
         GoPast(s, k, nxt, prv, nxt2, prv2)
  PROVE  IsQueue(Without(s, k), t2, h2, nxt2, prv2)
  <1> DEFINE n == Len(s)
             w == Without(s, k)
  <1>1. s \in Seq(Msg) /\ n \in Nat /\ n # 0 /\ n - 1 \in Nat /\ k \in 1..n
    BY DEF IsQueue
  <1>2. \A i, j \in 1..n : s[i] = s[j] => i = j
    BY DEF IsQueue
  <1>3. /\ w \in Seq(Msg) /\ Len(w) = n - 1
        /\ \A i, j \in 1..n - 1 : w[i] = w[j] => i = j
    BY <1>1, <1>2, WithoutShape
  <1>4. \A i \in 1..n - 1 : w[i] = IF i < k THEN s[i] ELSE s[i + 1]
    BY DEF Without
  <1>5. \A i \in 1..n : /\ prv[s[i]] = IF i = n THEN NULL ELSE s[i + 1]
                        /\ nxt[s[i]] = IF i = 1 THEN NULL ELSE s[i - 1]
    BY DEF IsQueue
  <1>6. t = s[1] /\ h = s[n]
    BY <1>1 DEF IsQueue
  <1>7. w = <<>> <=> n = 1
    BY <1>1, <1>3
  <1>8. h2 = IF k = n THEN nxt[s[k]] ELSE h
    OBVIOUS
  <1>9. \A i \in 1..n : i # k =>
           /\ nxt2[s[i]] = IF i = k + 1 THEN nxt[s[k]] ELSE nxt[s[i]]
           /\ prv2[s[i]] = IF i = k - 1 THEN prv[s[k]] ELSE prv[s[i]]
    BY DEF GoPast
  <1> HIDE DEF n, w
  <1>10. t2 = IF n = 1 THEN NULL ELSE w[1]
    BY <1>1, <1>4, <1>5, <1>6
  <1>11. h2 = IF n = 1 THEN NULL ELSE w[n - 1]
    BY <1>1, <1>4, <1>5, <1>6, <1>8
  <1>12. ASSUME NEW i \in 1..n - 1
         PROVE  /\ prv2[w[i]] = IF i = n - 1 THEN NULL ELSE w[i + 1]
                /\ nxt2[w[i]] = IF i = 1 THEN NULL ELSE w[i - 1]
    <2>1. CASE i < k - 1
      <3>1. /\ i \in 1..n /\ i # n /\ i # n - 1 /\ i # k /\ i # k + 1 /\ i # k - 1
            /\ i < k /\ i + 1 < k /\ i + 1 \in 1..n - 1
            /\ i # 1 => i - 1 \in 1..n - 1 /\ i - 1 < k
        BY <1>1, <2>1
      <3>2. w[i] = s[i] /\ w[i + 1] = s[i + 1] /\ (i # 1 => w[i - 1] = s[i - 1])
        BY <1>4, <3>1
      <3>3. nxt2[s[i]] = nxt[s[i]] /\ prv2[s[i]] = prv[s[i]]
        BY <1>9, <3>1
      <3>4. /\ prv[s[i]] = s[i + 1]
            /\ nxt[s[i]] = IF i = 1 THEN NULL ELSE s[i - 1]
        BY <1>5, <3>1
      <3> QED
        BY <3>1, <3>2, <3>3, <3>4
    <2>2. CASE i = k - 1
      <3>1. /\ i \in 1..n /\ i # n /\ i # k /\ i # k + 1 /\ k \in 1..n
            /\ k = n <=> i = n - 1
            /\ i < k /\ k = i + 1
            /\ i # n - 1 => i + 1 \in 1..n - 1 /\ ~(i + 1 < k)
            /\ i # 1 => i - 1 \in 1..n - 1 /\ i - 1 < k
        BY <1>1, <2>2
      <3>2. w[i] = s[i] /\ (i # 1 => w[i - 1] = s[i - 1])
        BY <1>4, <3>1
      <3>3. i # n - 1 => w[i + 1] = s[k + 1]
        BY <1>4, <3>1
      <3>4. nxt2[s[i]] = nxt[s[i]] /\ prv2[s[i]] = prv[s[k]]
        BY <1>9, <2>2, <3>1
      <3>5. /\ prv[s[k]] = IF k = n THEN NULL ELSE s[k + 1]
            /\ nxt[s[i]] = IF i = 1 THEN NULL ELSE s[i - 1]
        BY <1>5, <3>1
      <3> QED
        BY <3>1, <3>2, <3>3, <3>4, <3>5
    <2>3. CASE i = k
      <3>1. /\ i + 1 \in 1..n /\ i + 1 # k /\ i + 1 # k - 1 /\ i \in 1..n
            /\ i + 1 = n <=> i = n - 1
            /\ i # n - 1 => i + 1 \in 1..n - 1 /\ ~(i + 1 < k)
            /\ i # 1 => i - 1 \in 1..n - 1 /\ i - 1 < k
        BY <1>1, <2>3
      <3>2. w[i] = s[i + 1] /\ (i # 1 => w[i - 1] = s[i - 1])
        BY <1>1, <1>4, <2>3, <3>1
      <3>3. i # n - 1 => w[i + 1] = s[(i + 1) + 1]
        BY <1>4, <3>1
      <3>4. nxt2[s[i + 1]] = nxt[s[i]] /\ prv2[s[i + 1]] = prv[s[i + 1]]
        BY <1>9, <2>3, <3>1
      <3>5. /\ prv[s[i + 1]] = IF i + 1 = n THEN NULL ELSE s[(i + 1) + 1]
            /\ nxt[s[i]] = IF i = 1 THEN NULL ELSE s[i - 1]
        BY <1>5, <3>1
      <3> QED
        BY <3>1, <3>2, <3>3, <3>4, <3>5
    <2>4. CASE i > k
      <3>1. /\ i + 1 \in 1..n /\ i + 1 # k /\ i + 1 # k - 1 /\ i + 1 # k + 1
            /\ i + 1 = n <=> i = n - 1
            /\ i + 1 # 1 /\ (i + 1) - 1 = i /\ (i - 1) + 1 = i /\ i # 1
            /\ i # n - 1 => i + 1 \in 1..n - 1 /\ ~(i + 1 < k)
            /\ i - 1 \in 1..n - 1 /\ ~(i - 1 < k) /\ ~(i < k)
        BY <1>1, <2>4, SMTT(30)
      <3>2. w[i] = s[i + 1] /\ w[i - 1] = s[i]
        BY <1>4, <3>1
      <3>3. i # n - 1 => w[i + 1] = s[(i + 1) + 1]
        BY <1>4, <3>1
      <3>4. nxt2[s[i + 1]] = nxt[s[i + 1]] /\ prv2[s[i + 1]] = prv[s[i + 1]]
        BY <1>9, <3>1
      <3>5. /\ prv[s[i + 1]] = IF i + 1 = n THEN NULL ELSE s[(i + 1) + 1]
            /\ nxt[s[i + 1]] = s[i]
        BY <1>5, <3>1
      <3> QED
        BY <3>1, <3>2, <3>3, <3>4, <3>5
    <2> QED
      BY <1>1, <2>1, <2>2, <2>3, <2>4
  <1>13. IsQueue(w, t2, h2, nxt2, prv2)
    BY <1>3, <1>7, <1>10, <1>11, <1>12, SMTT(30) DEF IsQueue
  <1> QED
    BY <1>13 DEF w

-----------------------------------------------------------------------------
(* The queue of p holds the messages s, tail first, and none of them was   *)
(* freed.                                                                  *)
Queue(s, p) ==
  /\ IsQueue(s, tail[p], head[p], next, prev)
  /\ \A m \in Members(s) : heap[m] = "used"

LEMMA QueueIsRead ==
  ASSUME NEW p, NEW s
  PROVE  (Queue(s, p) => FromTail(p) = s) /\ (Queue(s, p)' => FromTail(p)' = s)
  BY WalkReadsQueue DEF Queue, FromTail

(* The queues of the other processes are left alone. *)
OtherQueuesKept(p, s) ==
  \A r \in Proc \ {p} : \A z :
    Queue(z, r) /\ Members(z) \cap Members(s) = {} => Queue(z, r)'

(* send_msg() adds one message, that no queue holds, at the head. *)
LEMMA SendAppends ==
  ASSUME QTypes, NEW q \in Proc, NEW d, NEW sz, send_msg(q, d, sz),
         NEW s, Queue(s, q)
  PROVE  \E m \in Msg :
           /\ heap[m] # "used"
           /\ data' = [data EXCEPT ![m] = d]
           /\ size' = [size EXCEPT ![m] = sz]
           /\ Queue(Append(s, m), q)'
           /\ Members(Append(s, m)) = Members(s) \cup {m}
           /\ OtherQueuesKept(q, s)
  <1>1. PICK m \in Msg :
          /\ heap[m] # "used"
          /\ data' = [data EXCEPT ![m] = d]
          /\ size' = [size EXCEPT ![m] = sz]
          /\ heap' = [heap EXCEPT ![m] = "used"]
          /\ next' = [next EXCEPT ![m] = head[q]]
          /\ prev' = IF head[q] = NULL THEN [prev EXCEPT ![m] = NULL]
                     ELSE [prev EXCEPT ![m] = NULL, ![head[q]] = m]
          /\ head' = [head EXCEPT ![q] = m]
          /\ tail' = IF head[q] = NULL THEN [tail EXCEPT ![q] = m] ELSE tail
    BY DEF send_msg, create_message
  <1>2. m \notin Members(s) /\ Members(s) \subseteq Msg
    BY <1>1 DEF Queue, Members, IsQueue
  <1>3. head[q] # NULL => head[q] \in Members(s)
    BY DEF Queue, IsQueue, Members
  <1>4. /\ tail'[q] = IF head[q] = NULL THEN m ELSE tail[q]
        /\ head'[q] = m
        /\ \A r \in Proc \ {q} : tail'[r] = tail[r] /\ head'[r] = head[r]
    BY <1>1 DEF QTypes
  <1>5. /\ next'[m] = head[q] /\ \A x \in Msg \ {m} : next'[x] = next[x]
        /\ \A x \in Msg \ {m} : x # head[q] => prev'[x] = prev[x]
        /\ head[q] # NULL => prev'[head[q]] = m
        /\ prev'[m] = NULL
    BY <1>1, <1>2, <1>3 DEF QTypes
  <1>6. /\ IsQueue(Append(s, m), tail'[q], head'[q], next', prev')
        /\ Members(Append(s, m)) = Members(s) \cup {m}
    BY <1>2, <1>4, <1>5, QueueAppend, SMTT(30) DEF Queue
  <1>7. \A x \in Members(Append(s, m)) : heap'[x] = "used"
    BY <1>1, <1>2, <1>6 DEF Queue, QTypes
  <1>8. OtherQueuesKept(q, s)
    <2> SUFFICES ASSUME NEW r \in Proc \ {q}, NEW z, Queue(z, r),
                        Members(z) \cap Members(s) = {}
                 PROVE  Queue(z, r)'
      BY DEF OtherQueuesKept
    <2>1. Members(z) \subseteq Msg /\ m \notin Members(z)
      BY <1>1 DEF Queue, Members, IsQueue
    <2>2. \A x \in Members(z) : next'[x] = next[x] /\ prev'[x] = prev[x]
                                /\ heap'[x] = "used"
      BY <1>1, <1>3, <1>5, <2>1, MqueueAssumption DEF Queue, QTypes
    <2>3. IsQueue(z, tail[r], head[r], next', prev')
      BY <2>2, QueueFramed, SMTT(30) DEF Queue
    <2> QED
      BY <1>4, <2>2, <2>3 DEF Queue
  <1> QED
    BY <1>1, <1>6, <1>7, <1>8 DEF Queue

(* consume_msg() removes the message that the receiver is at.  The pointer *)
(* ends at the message before it, at no message or, when the newest is     *)
(* consumed, at the removed one: that leads nowhere.                       *)
LEMMA ConsumeRemoves ==
  ASSUME QTypes, NEW p \in Proc, consume_msg(p), NEW s, Queue(s, p),
         NEW k \in 1..Len(s), current[p] = s[k]
  PROVE  /\ Queue(Without(s, k), p)'
         /\ Members(Without(s, k)) = Members(s) \ {s[k]}
         /\ OtherQueuesKept(p, s)
         /\ \A x \in Msg \ Members(s) : prev'[x] = prev[x]
         /\ data' = data /\ size' = size
         /\ \/ current'[p] = NULL
            \/ current'[p] = s[k] /\ prev'[s[k]] = NULL /\ k # 1
            \/ current'[p] \in Members(Without(s, k)) /\ k # 1
         /\ k = 1 => current'[p] = NULL
  <1> DEFINE n == Len(s)
             m == s[k]
  <1>1. /\ s \in Seq(Msg) /\ n \in Nat /\ n # 0 /\ k \in 1..n
        /\ \A i, j \in 1..n : s[i] = s[j] => i = j
        /\ \A i \in 1..n : s[i] \in Msg /\ s[i] \in Members(s) /\ s[i] # NULL
    BY MqueueAssumption DEF Queue, IsQueue, Members
  <1>2. /\ tail[p] = s[1] /\ head[p] = s[n]
        /\ \A i \in 1..n : /\ prev[s[i]] = IF i = n THEN NULL ELSE s[i + 1]
                           /\ next[s[i]] = IF i = 1 THEN NULL ELSE s[i - 1]
    BY <1>1 DEF Queue, IsQueue
  <1>3. /\ Members(Without(s, k)) = Members(s) \ {m}
        /\ Members(s) \subseteq Msg
    <2>1. Members(Without(s, k)) = Members(s) \ {m}
      BY <1>1, WithoutShape
    <2> QED
      BY <1>1, <2>1 DEF Members
  <1>4. IsQueue(s, tail[p], head[p], next, prev)
    BY DEF Queue
  <1>5. data' = data /\ size' = size
    BY DEF consume_msg, consume_tail, consume_head, consume_inner, lists
  <1>6. ASSUME \A r \in Proc \ {p} : tail'[r] = tail[r] /\ head'[r] = head[r],
               tail'[p] = IF k = 1 THEN prev[m] ELSE tail[p],
               head'[p] = IF k = n THEN next[m] ELSE head[p],
               GoPast(s, k, next, prev, next', prev'),
               \A x \in Msg \ Members(s) : next'[x] = next[x] /\ prev'[x] = prev[x],
               \A x \in Msg \ {m} : heap'[x] = heap[x]
        PROVE  Queue(Without(s, k), p)' /\ OtherQueuesKept(p, s)
    <2>1. IsQueue(Without(s, k), tail'[p], head'[p], next', prev')
      BY <1>4, <1>6, QueueUnlink, SMTT(30)
    <2>2. \A x \in Members(Without(s, k)) : heap'[x] = "used"
      BY <1>3, <1>6 DEF Queue
    <2>3. ASSUME NEW r \in Proc \ {p}, NEW z, Queue(z, r),
                 Members(z) \cap Members(s) = {}
          PROVE  Queue(z, r)'
      <3>1. Members(z) \subseteq Msg
        BY <2>3 DEF Queue, Members, IsQueue
      <3>2. \A x \in Members(z) : next'[x] = next[x] /\ prev'[x] = prev[x]
                                  /\ heap'[x] = "used"
        BY <1>1, <1>6, <2>3, <3>1 DEF Queue
      <3>3. IsQueue(z, tail[r], head[r], next', prev')
        BY <2>3, <3>2, QueueFramed, SMTT(30) DEF Queue
      <3> QED
        BY <1>6, <3>2, <3>3 DEF Queue
    <2> QED
      BY <2>1, <2>2, <2>3 DEF Queue, OtherQueuesKept
  <1> HIDE DEF n, m
  <1>7. m = s[k] /\ m \in Members(s) /\ m \in Msg /\ current[p] = m /\ m # NULL
    BY <1>1 DEF m
  <1>8. CASE consume_tail(p, m)
    <2>1. k = 1
      <3>1. m = tail[p] /\ 1 \in 1..n
        BY <1>1, <1>8 DEF consume_tail
      <3> QED
        BY <1>1, <1>2, <1>7, <3>1
    <2>2. /\ tail' = [tail EXCEPT ![p] = prev[m]]
          /\ next' = IF prev[m] = NULL THEN next ELSE [next EXCEPT ![prev[m]] = NULL]
          /\ head' = IF m = head[p] THEN [head EXCEPT ![p] = NULL] ELSE head
          /\ current' = [current EXCEPT ![p] = NULL]
          /\ UNCHANGED <<prev, heap>>
      BY <1>8 DEF consume_tail
    <2>3. /\ prev[m] = IF n = 1 THEN NULL ELSE s[2]
          /\ next[m] = NULL /\ (m = head[p] <=> n = 1)
          /\ n # 1 => 2 \in 1..n
      BY <1>1, <1>2, <1>7, <2>1, SMTT(30)
    <2>4. /\ tail'[p] = prev[m]
          /\ head'[p] = IF k = n THEN next[m] ELSE head[p]
          /\ \A r \in Proc \ {p} : tail'[r] = tail[r] /\ head'[r] = head[r]
          /\ current'[p] = NULL
      BY <2>1, <2>2, <2>3 DEF QTypes
    <2>5. GoPast(s, k, next, prev, next', prev')
      <3>1. n # 1 => next' = [next EXCEPT ![s[2]] = NULL] /\ s[2] \in Msg
        BY <1>1, <2>2, <2>3
      <3>2. ASSUME NEW i \in 1..n, i # k
            PROVE  /\ next'[s[i]] = IF i = k + 1 THEN next[m] ELSE next[s[i]]
                   /\ prev'[s[i]] = IF i = k - 1 THEN prev[m] ELSE prev[s[i]]
        <4>1. n # 1 /\ i # 1 /\ i # k - 1 /\ (s[i] = s[2] <=> i = 2)
          BY <1>1, <2>1, <2>3, <3>2, SMTT(30)
        <4> QED
          BY <1>1, <2>1, <2>2, <2>3, <3>1, <4>1 DEF QTypes
      <3> QED
        BY <3>2 DEF GoPast, n, m
    <2>6. \A x \in Msg \ Members(s) : next'[x] = next[x] /\ prev'[x] = prev[x]
      BY <1>1, <2>2, <2>3 DEF QTypes
    <2> QED
      BY <1>3, <1>5, <1>6, <2>1, <2>2, <2>4, <2>5, <2>6 DEF m
  <1>9. CASE consume_head(p, m)
    <2>1. k = n /\ k # 1 /\ k - 1 \in 1..n
      <3>1. m = head[p] /\ m # tail[p] /\ n \in 1..n
        BY <1>1, <1>9, SMTT(30) DEF consume_head
      <3>2. s[k] = s[n]
        BY <1>2, <1>7, <3>1
      <3>3. k = n
        BY <1>1, <3>1, <3>2
      <3>4. k # 1
        BY <1>2, <1>7, <3>1
      <3> QED
        BY <1>1, <3>3, <3>4
    <2>2. /\ head' = [head EXCEPT ![p] = next[m]]
          /\ prev' = [prev EXCEPT ![next[m]] = NULL]
          /\ heap' = [heap EXCEPT ![m] = "freed"]
          /\ UNCHANGED <<tail, next, current>>
      BY <1>9 DEF consume_head
    <2>3. next[m] = s[k - 1] /\ prev[m] = NULL /\ s[k - 1] # m
      BY <1>1, <1>2, <1>7, <2>1, SMTT(30)
    <2>4. /\ tail'[p] = tail[p] /\ head'[p] = next[m]
          /\ \A r \in Proc \ {p} : tail'[r] = tail[r] /\ head'[r] = head[r]
          /\ current'[p] = m /\ prev'[m] = NULL
          /\ \A x \in Msg \ {m} : heap'[x] = heap[x]
      BY <1>7, <2>2, <2>3 DEF QTypes
    <2>5. GoPast(s, k, next, prev, next', prev')
      <3>1. ASSUME NEW i \in 1..n, i # k
            PROVE  /\ next'[s[i]] = IF i = k + 1 THEN next[m] ELSE next[s[i]]
                   /\ prev'[s[i]] = IF i = k - 1 THEN prev[m] ELSE prev[s[i]]
        <4>1. i # k + 1 /\ (s[i] = s[k - 1] <=> i = k - 1) /\ s[i] \in Msg
          BY <1>1, <2>1, <3>1
        <4> QED
          BY <2>2, <2>3, <4>1 DEF QTypes
      <3> QED
        BY <3>1 DEF GoPast, n, m
    <2>6. \A x \in Msg \ Members(s) : next'[x] = next[x] /\ prev'[x] = prev[x]
      BY <1>1, <2>1, <2>2, <2>3 DEF QTypes
    <2> QED
      BY <1>3, <1>5, <1>6, <1>7, <2>1, <2>4, <2>5, <2>6
  <1>10. CASE consume_inner(p, m)
    <2>1. k # 1 /\ k # n /\ k - 1 \in 1..n /\ k + 1 \in 1..n
      BY <1>1, <1>2, <1>7, <1>10 DEF consume_inner
    <2>2. next[m] = s[k - 1] /\ prev[m] = s[k + 1] /\ s[k - 1] # NULL /\ s[k + 1] # NULL
      BY <1>1, <1>2, <1>7, <2>1
    <2>3. /\ next' = [next EXCEPT ![s[k + 1]] = s[k - 1]]
          /\ prev' = [prev EXCEPT ![s[k - 1]] = s[k + 1]]
          /\ current' = [current EXCEPT ![p] = s[k - 1]]
          /\ heap' = [heap EXCEPT ![m] = "freed"]
          /\ UNCHANGED <<head, tail>>
      BY <1>10, <2>2 DEF consume_inner
    <2>4. /\ current'[p] = s[k - 1] /\ s[k - 1] # m /\ s[k - 1] \in Members(s)
          /\ \A x \in Msg \ {m} : heap'[x] = heap[x]
      BY <1>1, <1>7, <2>1, <2>3 DEF QTypes
    <2>5. GoPast(s, k, next, prev, next', prev')
      <3>1. ASSUME NEW i \in 1..n, i # k
            PROVE  /\ next'[s[i]] = IF i = k + 1 THEN next[m] ELSE next[s[i]]
                   /\ prev'[s[i]] = IF i = k - 1 THEN prev[m] ELSE prev[s[i]]
        <4>1. /\ s[i] = s[k - 1] <=> i = k - 1
              /\ s[i] = s[k + 1] <=> i = k + 1
              /\ s[i] \in Msg
          BY <1>1, <2>1
        <4> QED
          BY <2>2, <2>3, <4>1 DEF QTypes
      <3> QED
        BY <3>1 DEF GoPast, n, m
    <2>6. \A x \in Msg \ Members(s) : next'[x] = next[x] /\ prev'[x] = prev[x]
      BY <1>1, <2>1, <2>3 DEF QTypes
    <2> QED
      BY <1>3, <1>5, <1>6, <1>7, <2>1, <2>3, <2>4, <2>5, <2>6
  <1> QED
    BY <1>7, <1>8, <1>9, <1>10 DEF consume_msg

(* An operation that leaves the lists alone leaves the queues alone. *)
LEMMA ListsKept ==
  ASSUME UNCHANGED lists, NEW s, NEW p, Queue(s, p)
  PROVE  Queue(s, p)'
  BY DEF Queue, lists
=============================================================================
