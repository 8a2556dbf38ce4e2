------------------------------ MODULE Ps2Proofs ------------------------------
(***************************************************************************)
(* Proofs about Ps2.tla, for buffers of any size and any number of keys.   *)
(*                                                                         *)
(* That a read stays in the buffer rests on where the head is: the keys in *)
(* the buffer fill it from its start, because start always reads all of    *)
(* them, and nothing is put there between its fs_size and its fs_read,     *)
(* because it holds the lock.                                              *)
(*                                                                         *)
(* A key goes from the handler into the buffer, or through the list and    *)
(* the helper into the buffer, and on to start.  So what start has, then   *)
(* the buffer, the list, the helper and a spinning handler together hold   *)
(* every key once (Placed), and the two ways each keep their order         *)
(* (Ordered): a key of the list is still behind every key that went        *)
(* through the list before it.                                             *)
(***************************************************************************)
EXTENDS Ps2, TLAPS

Types ==
  /\ kb_buffer_head \in -1..KB_BUFFER_SIZE - 1
  /\ file_size \in Nat
  /\ size \in Nat
  /\ file_lock \in {"UNLOCKED", "LOCKED"}

(* The keys fill the buffer from its start. *)
FromStart ==
  /\ file_size = 0 => kb_buffer_head \in {-1, KB_BUFFER_SIZE - 1}
  /\ 0 < file_size /\ file_size <= KB_BUFFER_SIZE
       => kb_buffer_head = file_size - 1

ReadsAll == start = "read" => size = file_size /\ size < BufSize /\ 0 < size

IInv == Types /\ OneHoldsTheFile /\ FromStart /\ ReadsAll

LEMMA Wraps ==
  ASSUME NEW n \in Nat, 0 < n, NEW h \in -1..n - 1
  PROVE  (h + 1) % n = IF h + 1 = n THEN 0 ELSE h + 1
  <1>1. CASE h + 1 = n
    BY <1>1
  <1>2. CASE h + 1 # n
    <2>1. h + 1 \in 0..n - 1
      BY <1>2
    <2> QED
      BY <1>2, <2>1
  <1> QED
    BY <1>1, <1>2

LEMMA InitIInv == Init => IInv
  BY Ps2Assumption
  DEF Init, IInv, Types, OneHoldsTheFile, FromStart, ReadsAll

(* Putting a key keeps the buffer filled from its start. *)
LEMMA PutFromStart ==
  ASSUME Types, FromStart, NEW k, Put(k)
  PROVE  /\ kb_buffer_head' \in -1..KB_BUFFER_SIZE - 1
         /\ file_size' \in Nat
         /\ FromStart'
  <1>1. kb_buffer_head' = IF kb_buffer_head + 1 = KB_BUFFER_SIZE THEN 0
                          ELSE kb_buffer_head + 1
    BY Wraps, Ps2Assumption DEF Put, Types
  <1>2. file_size' = file_size + 1
    BY DEF Put
  <1> QED
    BY <1>1, <1>2, Ps2Assumption DEF Types, FromStart

LEMMA KbPutIInv == ASSUME IInv, kb_put PROVE IInv'
  <1>1. CASE kb_put_now(typed + 1)
    BY <1>1, PutFromStart
    DEF kb_put, kb_put_now, lsvars, IInv, Types, OneHoldsTheFile, ReadsAll
  <1>2. CASE kb_put_later(typed + 1)
    BY <1>2
    DEF kb_put, kb_put_later, bufvars, IInv, Types, OneHoldsTheFile, FromStart,
        ReadsAll
  <1>3. CASE kb_put_spin(typed + 1)
    BY <1>3
    DEF kb_put, kb_put_spin, bufvars, lsvars, IInv, Types, OneHoldsTheFile,
        FromStart, ReadsAll
  <1> QED
    BY <1>1, <1>2, <1>3 DEF kb_put

LEMMA HelperIInv == ASSUME IInv, Helper PROVE IInv'
  <1> USE DEF IInv, HelperAt, lsvars, bufvars, OneHoldsTheFile, ReadsAll
  <1>1. CASE delayed_test \/ delayed_getlock \/ delayed_take \/ delayed_unlock
    BY <1>1
    DEF delayed_test, delayed_getlock, delayed_take, delayed_unlock, Types,
        FromStart
  <1>2. CASE delayed_trylock
    BY <1>2 DEF delayed_trylock, Types, FromStart
  <1>3. CASE delayed_put
    BY <1>3, PutFromStart DEF delayed_put, Types
  <1>4. CASE delayed_release
    BY <1>4 DEF delayed_release, Types, FromStart
  <1> QED
    BY <1>1, <1>2, <1>3, <1>4 DEF Helper

LEMMA StartIInv == ASSUME IInv, Start PROVE IInv'
  <1> USE DEF IInv, StartAt, lsvars, bufvars, OneHoldsTheFile, ReadsAll, Types
  <1>1. CASE pub_fs_acquire
    BY <1>1 DEF pub_fs_acquire, FromStart
  <1>2. CASE start_size
    BY <1>2, Ps2Assumption DEF start_size, FromStart
  <1>3. CASE kb_fs_read
    <2>1. /\ size = file_size /\ 0 < size /\ size < BufSize
          /\ kb_buffer_head = file_size - 1
      BY <1>3, Ps2Assumption DEF kb_fs_read, FromStart
    <2>2. kb_buffer_head' = -1 /\ file_size' = 0
      BY <1>3, <2>1 DEF kb_fs_read, HeadAfterRead
    <2> QED
      BY <1>3, <2>2, Ps2Assumption DEF kb_fs_read, FromStart
  <1>4. CASE pub_fs_release
    BY <1>4 DEF pub_fs_release, FromStart
  <1> QED
    BY <1>1, <1>2, <1>3, <1>4 DEF Start

LEMMA Invariance == Spec => []IInv
  <1>1. ASSUME IInv, [Next]_vars PROVE IInv'
    <2>1. CASE UNCHANGED vars
      BY <1>1, <2>1
      DEF vars, bufvars, IInv, Types, OneHoldsTheFile, FromStart, ReadsAll
    <2> QED
      BY <1>1, <2>1, KbPutIInv, HelperIInv, StartIInv DEF Next
  <1> QED
    BY <1>1, InitIInv, PTL DEF Spec

(* The lock of /dev/kb excludes the helper's kb_put_actual() and start's   *)
(* fs_size and fs_read from each other, and is free otherwise.             *)
THEOREM FileIsExclusive == Spec => []OneHoldsTheFile
  BY Invariance, PTL DEF IInv

(* kb_fs_read() takes as many keys as there are, and never runs below the  *)
(* start of kb_buffer.                                                     *)
THEOREM ReadsInBounds == Spec => []ReadsStayInBuffer
  <1>1. IInv => ReadsStayInBuffer
    BY Ps2Assumption DEF IInv, Types, FromStart, ReadsAll, ReadsStayInBuffer
  <1> QED
    BY <1>1, Invariance, PTL

-----------------------------------------------------------------------------
(* Where the keys are.  Until the buffer overflows, they went through the  *)
(* buffer (processed or still there, Q), or are in the list l, in the      *)
(* hands of the helper (h, 0 for none) or in those of the spinning handler *)
(* (w is 1); ty were typed.                                                *)

In(x, s) == \E i \in 1..Len(s) : s[i] = x

Placed(Q, l, h, w, ty) ==
  /\ Len(Q) + Len(l) + (IF h = 0 THEN 0 ELSE 1) + w = ty
  /\ \A k \in 1..ty : In(k, Q) \/ In(k, l) \/ h = k \/ (w = 1 /\ k = ty)

(* The list is in order; the keys of de, that went through the list, are   *)
(* taken from it in order, and only they are overtaken.                    *)
Overtaken(Q, de) ==
  \A i, j \in 1..Len(Q) :
    i < j /\ Q[i] > Q[j] => Q[j] \in de /\ Q[i] \notin de

Ordered(Q, l, h, de, ty) ==
  /\ Overtaken(Q, de)
  /\ \A i \in 1..Len(Q) :
       /\ Q[i] <= ty
       /\ Q[i] \in de => (h # 0 => Q[i] < h) /\ \A j \in 1..Len(l) : Q[i] < l[j]
  /\ h # 0 => h \in de /\ h <= ty /\ \A j \in 1..Len(l) : h < l[j]
  /\ \A j \in 1..Len(l) : l[j] \in de /\ l[j] <= ty
  /\ \A i, j \in 1..Len(l) : i < j => l[i] < l[j]

LEMMA InAppend ==
  ASSUME NEW S, NEW s \in Seq(S), NEW y \in S, NEW x
  PROVE  In(x, Append(s, y)) <=> In(x, s) \/ x = y
  <1> DEFINE a == Append(s, y)
             n == Len(s)
  <1>1. /\ Len(a) = n + 1 /\ a[n + 1] = y /\ n \in Nat
        /\ \A i \in 1..n : a[i] = s[i]
    OBVIOUS
  <1>2. (\E i \in 1..n + 1 : a[i] = x) <=> (\E i \in 1..n : s[i] = x) \/ x = y
    <2> HIDE DEF a, n
    <2>1. \A i \in 1..n + 1 : i \in 1..n \/ i = n + 1
      BY <1>1
    <2>2. n + 1 \in 1..n + 1 /\ \A i \in 1..n : i \in 1..n + 1
      BY <1>1
    <2> QED
      BY <1>1, <2>1, <2>2
  <1> QED
    BY <1>1, <1>2 DEF In

LEMMA InTail ==
  ASSUME NEW S, NEW s \in Seq(S), s # <<>>, NEW x
  PROVE  In(x, s) <=> x = Head(s) \/ In(x, Tail(s))
  <1> DEFINE t == Tail(s)
             n == Len(s)
  <1>1. /\ Len(t) = n - 1 /\ n \in Nat /\ n # 0 /\ Head(s) = s[1]
        /\ \A i \in 1..n - 1 : t[i] = s[i + 1]
    OBVIOUS
  <1>2. (\E i \in 1..n : s[i] = x) <=> x = s[1] \/ (\E i \in 1..n - 1 : t[i] = x)
    <2> HIDE DEF t, n
    <2>1. ASSUME NEW i \in 1..n, s[i] = x
          PROVE  x = s[1] \/ \E j \in 1..n - 1 : t[j] = x
      <3>1. CASE i = 1
        BY <2>1, <3>1
      <3>2. CASE i # 1
        <4>1. i - 1 \in 1..n - 1 /\ (i - 1) + 1 = i
          BY <1>1, <3>2
        <4> QED
          BY <1>1, <2>1, <4>1
      <3> QED
        BY <3>1, <3>2
    <2>2. 1 \in 1..n /\ \A i \in 1..n - 1 : i + 1 \in 1..n
      BY <1>1
    <2> QED
      BY <1>1, <2>1, <2>2
  <1> QED
    BY <1>1, <1>2 DEF In

LEMMA InConcat ==
  ASSUME NEW S, NEW s \in Seq(S), NEW t \in Seq(S), NEW x
  PROVE  In(x, s \o t) <=> In(x, s) \/ In(x, t)
  <1> DEFINE c == s \o t
             m == Len(s)
             n == Len(t)
  <1>1. /\ Len(c) = m + n /\ m \in Nat /\ n \in Nat
        /\ \A i \in 1..m + n : c[i] = IF i <= m THEN s[i] ELSE t[i - m]
    OBVIOUS
  <1>2. (\E i \in 1..m + n : c[i] = x)
          <=> (\E i \in 1..m : s[i] = x) \/ (\E i \in 1..n : t[i] = x)
    <2> HIDE DEF c, m, n
    <2>1. ASSUME NEW i \in 1..m + n, c[i] = x
          PROVE  (\E j \in 1..m : s[j] = x) \/ (\E j \in 1..n : t[j] = x)
      <3>1. CASE i <= m
        BY <1>1, <2>1, <3>1
      <3>2. CASE ~(i <= m)
        <4>1. i - m \in 1..n
          BY <1>1, <3>2
        <4> QED
          BY <1>1, <2>1, <3>2, <4>1
      <3> QED
        BY <3>1, <3>2
    <2>2. ASSUME NEW i \in 1..m PROVE i \in 1..m + n /\ c[i] = s[i]
      <3>1. i \in 1..m + n /\ i <= m
        BY <1>1
      <3> QED
        BY <1>1, <3>1
    <2>3. ASSUME NEW i \in 1..n PROVE i + m \in 1..m + n /\ c[i + m] = t[i]
      <3>1. i + m \in 1..m + n /\ ~(i + m <= m) /\ (i + m) - m = i
        BY <1>1
      <3> QED
        BY <1>1, <3>1
    <2> QED
      BY <2>1, <2>2, <2>3
  <1> QED
    BY <1>1, <1>2 DEF In

Keys == Nat \ {0}

(* A typed key goes to the buffer. *)
LEMMA PlacedNow ==
  ASSUME NEW Q \in Seq(Nat), NEW l \in Seq(Keys), NEW h \in Nat, NEW ty \in Nat,
         Placed(Q, l, h, 0, ty)
  PROVE  Placed(Append(Q, ty + 1), l, h, 0, ty + 1)
  <1>1. Len(Append(Q, ty + 1)) = Len(Q) + 1 /\ Len(Q) \in Nat /\ Len(l) \in Nat
    OBVIOUS
  <1>2. \A x : In(x, Append(Q, ty + 1)) <=> In(x, Q) \/ x = ty + 1
    BY InAppend
  <1>3. \A k \in 1..ty + 1 : k \in 1..ty \/ k = ty + 1
    OBVIOUS
  <1> QED
    BY <1>1, <1>2, <1>3 DEF Placed

(* ... or to the list. *)
LEMMA PlacedLater ==
  ASSUME NEW Q \in Seq(Nat), NEW l \in Seq(Keys), NEW h \in Nat, NEW ty \in Nat,
         Placed(Q, l, h, 0, ty)
  PROVE  Placed(Q, Append(l, ty + 1), h, 0, ty + 1)
  <1>1. Len(Append(l, ty + 1)) = Len(l) + 1 /\ Len(Q) \in Nat /\ Len(l) \in Nat
    OBVIOUS
  <1>2. \A x : In(x, Append(l, ty + 1)) <=> In(x, l) \/ x = ty + 1
    BY InAppend DEF Keys
  <1>3. \A k \in 1..ty + 1 : k \in 1..ty \/ k = ty + 1
    OBVIOUS
  <1> QED
    BY <1>1, <1>2, <1>3 DEF Placed

(* ... or stays with the handler. *)
LEMMA PlacedSpin ==
  ASSUME NEW Q \in Seq(Nat), NEW l \in Seq(Keys), NEW h \in Nat, NEW ty \in Nat,
         Placed(Q, l, h, 0, ty)
  PROVE  Placed(Q, l, h, 1, ty + 1)
  <1>1. Len(Q) \in Nat /\ Len(l) \in Nat
    OBVIOUS
  <1>2. \A k \in 1..ty + 1 : k \in 1..ty \/ k = ty + 1
    OBVIOUS
  <1> QED
    BY <1>1, <1>2 DEF Placed

(* The helper takes the first key of the list. *)
LEMMA PlacedTake ==
  ASSUME NEW Q \in Seq(Nat), NEW l \in Seq(Keys), l # <<>>, NEW ty \in Nat,
         Placed(Q, l, 0, 0, ty)
  PROVE  Placed(Q, Tail(l), Head(l), 0, ty)
  <1>1. /\ Len(Q) \in Nat /\ Len(l) \in Nat /\ Len(Tail(l)) = Len(l) - 1
        /\ Len(l) # 0 /\ Head(l) # 0
    BY DEF Keys
  <1>2. \A x : In(x, l) <=> x = Head(l) \/ In(x, Tail(l))
    BY InTail
  <1>3. Len(Q) + Len(Tail(l)) + 1 + 0 = ty
    BY <1>1 DEF Placed
  <1> QED
    BY <1>1, <1>2, <1>3 DEF Placed

(* The helper puts its key into the buffer. *)
LEMMA PlacedPut ==
  ASSUME NEW Q \in Seq(Nat), NEW l \in Seq(Keys), NEW h \in Keys, NEW ty \in Nat,
         Placed(Q, l, h, 0, ty)
  PROVE  Placed(Append(Q, h), l, 0, 0, ty)
  <1>1. /\ Len(Append(Q, h)) = Len(Q) + 1 /\ Len(Q) \in Nat /\ Len(l) \in Nat
        /\ h # 0
    BY DEF Keys
  <1>2. \A x : In(x, Append(Q, h)) <=> In(x, Q) \/ x = h
    BY InAppend DEF Keys
  <1>3. Len(Append(Q, h)) + Len(l) + 0 + 0 = ty
    BY <1>1 DEF Placed
  <1> QED
    BY <1>1, <1>2, <1>3 DEF Placed

LEMMA OrderedNow ==
  ASSUME NEW Q \in Seq(Nat), NEW l \in Seq(Keys), NEW h \in Nat, NEW ty \in Nat,
         NEW de \in SUBSET (1..ty), Ordered(Q, l, h, de, ty)
  PROVE  Ordered(Append(Q, ty + 1), l, h, de, ty + 1)
  <1> DEFINE a == Append(Q, ty + 1)
             n == Len(Q)
  <1>1. /\ Len(a) = n + 1 /\ a[n + 1] = ty + 1 /\ n \in Nat
        /\ \A i \in 1..n : a[i] = Q[i] /\ Q[i] \in Nat /\ Q[i] <= ty
    BY DEF Ordered
  <1>2. ty + 1 \notin de
    OBVIOUS
  <1>3. \A i \in 1..n + 1 : i \in 1..n \/ i = n + 1
    BY <1>1
  <1>4. \A i, j \in 1..n : i < j /\ Q[i] > Q[j] => Q[j] \in de /\ Q[i] \notin de
    BY DEF Ordered, Overtaken
  <1>5. \A i \in 1..n : Q[i] \in de => (h # 0 => Q[i] < h)
                                       /\ \A j \in 1..Len(l) : Q[i] < l[j]
    BY DEF Ordered
  <1>6. /\ \A j \in 1..Len(l) : l[j] \in de /\ l[j] <= ty /\ l[j] \in Nat
        /\ h # 0 => h \in de /\ h <= ty /\ \A j \in 1..Len(l) : h < l[j]
        /\ \A i, j \in 1..Len(l) : i < j => l[i] < l[j]
    BY DEF Ordered, Keys
  <1> HIDE DEF a, n
  <1>7. Overtaken(a, de)
    <2> SUFFICES ASSUME NEW i \in 1..n + 1, NEW j \in 1..n + 1, i < j, a[i] > a[j]
                 PROVE  a[j] \in de /\ a[i] \notin de
      BY <1>1 DEF Overtaken
    <2>1. i \in 1..n /\ (j \in 1..n \/ j = n + 1)
      BY <1>1, <1>3
    <2>2. j # n + 1
      BY <1>1, <2>1
    <2> QED
      BY <1>1, <1>4, <2>1, <2>2
  <1>8. \A i \in 1..n + 1 :
          /\ a[i] <= ty + 1
          /\ a[i] \in de => (h # 0 => a[i] < h) /\ \A j \in 1..Len(l) : a[i] < l[j]
    <2>1. ASSUME NEW i \in 1..n
          PROVE  /\ a[i] <= ty + 1
                 /\ a[i] \in de => (h # 0 => a[i] < h)
                                    /\ \A j \in 1..Len(l) : a[i] < l[j]
      <3>1. a[i] = Q[i] /\ Q[i] <= ty + 1
        BY <1>1
      <3> QED
        BY <1>5, <3>1
    <2>2. a[n + 1] <= ty + 1 /\ a[n + 1] \notin de
      BY <1>1, <1>2
    <2> QED
      BY <1>3, <2>1, <2>2
  <1>9. /\ h # 0 => h \in de /\ h <= ty + 1 /\ \A j \in 1..Len(l) : h < l[j]
        /\ \A j \in 1..Len(l) : l[j] \in de /\ l[j] <= ty + 1
    BY <1>6
  <1>10. Ordered(a, l, h, de, ty + 1)
    BY <1>1, <1>6, <1>7, <1>8, <1>9 DEF Ordered
  <1> QED
    BY <1>10 DEF a

LEMMA OrderedLater ==
  ASSUME NEW Q \in Seq(Nat), NEW l \in Seq(Keys), NEW h \in Nat, NEW ty \in Nat,
         NEW de \in SUBSET (1..ty), Ordered(Q, l, h, de, ty)
  PROVE  Ordered(Q, Append(l, ty + 1), h, de \cup {ty + 1}, ty + 1)
  <1> DEFINE z == ty + 1
             a == Append(l, z)
             n == Len(l)
             d == de \cup {z}
  <1>1. /\ Len(a) = n + 1 /\ a[n + 1] = z /\ n \in Nat
        /\ \A i \in 1..n : a[i] = l[i] /\ l[i] <= ty /\ l[i] \in de
    BY DEF Ordered, Keys
  <1>2. \A x \in Nat : x <= ty => x < z /\ x <= z /\ x # z
    OBVIOUS
  <1>3. \A i \in 1..n : l[i] < z /\ l[i] <= z
    BY <1>1, <1>2 DEF Keys
  <1>4. \A i \in 1..n + 1 : i \in 1..n \/ i = n + 1
    BY <1>1
  <1>5. \A i \in 1..Len(Q) : /\ Q[i] < z /\ Q[i] <= z
                             /\ Q[i] \in d <=> Q[i] \in de
                             /\ Q[i] \in de => (h # 0 => Q[i] < h)
                                               /\ \A j \in 1..n : Q[i] < l[j]
    BY <1>2 DEF Ordered
  <1>6. /\ h # 0 => h \in de /\ h < z /\ h <= z /\ \A j \in 1..n : h < l[j]
        /\ \A i, j \in 1..n : i < j => l[i] < l[j]
        /\ Overtaken(Q, de)
    BY <1>2 DEF Ordered
  <1>7. z \in d /\ de \subseteq d /\ z <= z
    OBVIOUS
  <1> HIDE DEF a, n, d, z
  <1>8. Overtaken(Q, d)
    BY <1>5, <1>6 DEF Overtaken
  <1>9. ASSUME NEW i \in 1..Len(Q), Q[i] \in d
        PROVE  (h # 0 => Q[i] < h) /\ \A j \in 1..n + 1 : Q[i] < a[j]
    BY <1>1, <1>4, <1>5, <1>9
  <1>10. ASSUME h # 0 PROVE h \in d /\ h <= z /\ \A j \in 1..n + 1 : h < a[j]
    BY <1>1, <1>4, <1>6, <1>7, <1>10
  <1>11. \A j \in 1..n + 1 : a[j] \in d /\ a[j] <= z
    BY <1>1, <1>3, <1>4, <1>7
  <1>12. ASSUME NEW i \in 1..n + 1, NEW j \in 1..n + 1, i < j PROVE a[i] < a[j]
    <2>1. i \in 1..n /\ (j \in 1..n \/ j = n + 1)
      BY <1>1, <1>4, <1>12
    <2>2. CASE j \in 1..n
      <3>1. a[i] = l[i] /\ a[j] = l[j]
        BY <1>1, <2>1, <2>2
      <3> QED
        BY <1>6, <1>12, <2>1, <2>2, <3>1
    <2>3. CASE j = n + 1
      BY <1>1, <1>3, <2>1, <2>3
    <2> QED
      BY <2>1, <2>2, <2>3
  <1>13. Ordered(Q, a, h, d, z)
    BY <1>1, <1>5, <1>8, <1>9, <1>10, <1>11, <1>12 DEF Ordered
  <1> QED
    BY <1>13 DEF a, d, z

LEMMA OrderedSpin ==
  ASSUME NEW Q \in Seq(Nat), NEW l \in Seq(Keys), NEW h \in Nat, NEW ty \in Nat,
         NEW de \in SUBSET (1..ty), Ordered(Q, l, h, de, ty)
  PROVE  Ordered(Q, l, h, de, ty + 1)
  <1>1. /\ \A i \in 1..Len(Q) : Q[i] \in Nat
        /\ \A i \in 1..Len(l) : l[i] \in Nat
    BY DEF Keys
  <1> QED
    BY <1>1 DEF Ordered

LEMMA OrderedTake ==
  ASSUME NEW Q \in Seq(Nat), NEW l \in Seq(Keys), l # <<>>, NEW ty \in Nat,
         NEW de \in SUBSET (1..ty), Ordered(Q, l, 0, de, ty)
  PROVE  Ordered(Q, Tail(l), Head(l), de, ty)
  <1> DEFINE t == Tail(l)
             n == Len(l)
  <1>1. /\ Len(t) = n - 1 /\ n \in Nat /\ n # 0 /\ Head(l) = l[1]
        /\ \A i \in 1..n - 1 : t[i] = l[i + 1]
    OBVIOUS
  <1>2. /\ \A i \in 1..Len(Q) :
             /\ Q[i] <= ty
             /\ Q[i] \in de => \A j \in 1..n : Q[i] < l[j]
        /\ \A j \in 1..n : l[j] \in de /\ l[j] <= ty
        /\ \A i, j \in 1..n : i < j => l[i] < l[j]
        /\ Overtaken(Q, de)
    BY DEF Ordered
  <1> HIDE DEF t, n
  <1>3. 1 \in 1..n /\ \A j \in 1..n - 1 : j + 1 \in 1..n /\ 1 < j + 1
    BY <1>1
  <1>4. \A i, j \in 1..n - 1 : i < j => i + 1 < j + 1
    BY <1>1
  <1>5. Ordered(Q, t, l[1], de, ty)
    BY <1>1, <1>2, <1>3, <1>4 DEF Ordered
  <1> QED
    BY <1>1, <1>5 DEF t

LEMMA OrderedPut ==
  ASSUME NEW Q \in Seq(Nat), NEW l \in Seq(Keys), NEW h \in Keys, NEW ty \in Nat,
         NEW de \in SUBSET (1..ty), Ordered(Q, l, h, de, ty)
  PROVE  Ordered(Append(Q, h), l, 0, de, ty)
  <1> DEFINE a == Append(Q, h)
             n == Len(Q)
  <1>1. /\ Len(a) = n + 1 /\ a[n + 1] = h /\ n \in Nat
        /\ \A i \in 1..n : a[i] = Q[i] /\ Q[i] \in Nat
        /\ h \in Nat /\ h # 0
    BY DEF Keys
  <1>2. \A i \in 1..n + 1 : i \in 1..n \/ i = n + 1
    BY <1>1
  <1>3. /\ \A i \in 1..n : /\ Q[i] <= ty
                           /\ Q[i] \in de => Q[i] < h /\ \A j \in 1..Len(l) : Q[i] < l[j]
        /\ \A i, j \in 1..n : i < j /\ Q[i] > Q[j] => Q[j] \in de /\ Q[i] \notin de
        /\ h \in de /\ h <= ty /\ \A j \in 1..Len(l) : h < l[j]
    BY <1>1 DEF Ordered, Overtaken
  <1>4. /\ \A j \in 1..Len(l) : l[j] \in de /\ l[j] <= ty
        /\ \A i, j \in 1..Len(l) : i < j => l[i] < l[j]
    BY DEF Ordered
  <1> HIDE DEF a, n
  <1>5. Overtaken(a, de)
    <2> SUFFICES ASSUME NEW i \in 1..n + 1, NEW j \in 1..n + 1, i < j, a[i] > a[j]
                 PROVE  a[j] \in de /\ a[i] \notin de
      BY <1>1 DEF Overtaken
    <2>1. i \in 1..n /\ (j \in 1..n \/ j = n + 1)
      BY <1>1, <1>2
    <2>2. CASE j \in 1..n
      BY <1>1, <1>3, <2>1, <2>2
    <2>3. CASE j = n + 1
      BY <1>1, <1>3, <2>1, <2>3
    <2> QED
      BY <2>1, <2>2, <2>3
  <1>6. \A i \in 1..n + 1 :
          /\ a[i] <= ty
          /\ a[i] \in de => \A j \in 1..Len(l) : a[i] < l[j]
    BY <1>1, <1>2, <1>3
  <1>7. Ordered(a, l, 0, de, ty)
    BY <1>1, <1>4, <1>5, <1>6 DEF Ordered
  <1> QED
    BY <1>7 DEF a

-----------------------------------------------------------------------------
(* The helper has a key exactly from taking it to putting it, and goes for *)
(* one only when the list has one.                                         *)
KeyTypes ==
  /\ got \in Seq(Nat) /\ ls \in Seq(Keys) /\ held \in Nat /\ typed \in Nat
  /\ delayed \in SUBSET (1..typed)
  /\ kb_buffer \in [Slot -> Nat]
  /\ held # 0 <=> helper \in {"unlock", "trylock", "put"}
  /\ helper \in {"getlock", "take"} => ls # <<>>

Through == got \o KeysInBuffer
Wait == IF spinning THEN 1 ELSE 0

(* What was processed stays in its order also when the buffer overflows.   *)
GotOK ==
  /\ Overtaken(got, delayed)
  /\ \A i \in 1..Len(got) : got[i] <= typed

KeysOK ==
  /\ Placed(Through, ls, held, Wait, typed)
  /\ Ordered(Through, ls, held, delayed, typed)

KeyInv ==
  /\ IInv /\ KeyTypes /\ GotOK
  /\ file_size <= KB_BUFFER_SIZE => KeysOK

LEMMA ThroughIs ==
  ASSUME IInv, KeyTypes, file_size <= KB_BUFFER_SIZE
  PROVE  /\ KeysInBuffer \in Seq(Nat) /\ Len(KeysInBuffer) = file_size
         /\ Through \in Seq(Nat)
  <1>1. file_size \in Nat /\ KB_BUFFER_SIZE \in Nat
    BY Ps2Assumption DEF IInv, Types
  <1>2. ASSUME NEW i \in 1..file_size PROVE kb_buffer[i - 1] \in Nat
    <2>1. i - 1 \in Slot
      BY <1>1 DEF Slot
    <2> QED
      BY <2>1 DEF KeyTypes
  <1>3. KeysInBuffer \in Seq(Nat) /\ Len(KeysInBuffer) = file_size
    BY <1>1, <1>2 DEF KeysInBuffer
  <1> QED
    BY <1>3 DEF Through, KeyTypes

(* Putting a key appends it to what goes through the buffer. *)
LEMMA PutThrough ==
  ASSUME IInv, KeyTypes, NEW k \in Nat, Put(k), got' = got
  PROVE  /\ kb_buffer' \in [Slot -> Nat]
         /\ file_size' = file_size + 1 /\ file_size \in Nat
         /\ file_size' <= KB_BUFFER_SIZE => Through' = Append(Through, k)
  <1>1. /\ file_size \in Nat /\ KB_BUFFER_SIZE \in Nat /\ 0 < KB_BUFFER_SIZE
        /\ kb_buffer_head \in -1..KB_BUFFER_SIZE - 1
    BY Ps2Assumption DEF IInv, Types
  <1> DEFINE h == IF kb_buffer_head + 1 = KB_BUFFER_SIZE THEN 0 ELSE kb_buffer_head + 1
  <1>2. (kb_buffer_head + 1) % KB_BUFFER_SIZE = h
    BY <1>1, Wraps
  <1>3. h \in Slot
    BY <1>1 DEF Slot
  <1>4. kb_buffer' = [kb_buffer EXCEPT ![h] = k] /\ file_size' = file_size + 1
    BY <1>2 DEF Put
  <1>5. ASSUME file_size' <= KB_BUFFER_SIZE PROVE Through' = Append(Through, k)
    <2>1. file_size <= KB_BUFFER_SIZE /\ file_size + 1 <= KB_BUFFER_SIZE
      BY <1>1, <1>4, <1>5
    <2>2. h = file_size
      BY <1>1, <2>1 DEF IInv, FromStart
    <2> HIDE DEF h
    <2>3. /\ KeysInBuffer \in Seq(Nat) /\ Len(KeysInBuffer) = file_size
      BY <2>1, ThroughIs
    <2>4. ASSUME NEW i \in 1..file_size + 1
          PROVE  kb_buffer'[i - 1] = IF i = file_size + 1 THEN k ELSE KeysInBuffer[i]
      <3>1. i - 1 \in Slot
        BY <1>1, <2>1 DEF Slot
      <3>2. CASE i = file_size + 1
        <4>1. i - 1 = h
          BY <1>1, <2>2, <3>2
        <4> QED
          BY <1>3, <1>4, <3>2, <4>1 DEF KeyTypes
      <3>3. CASE i # file_size + 1
        <4>1. i - 1 # h /\ i \in 1..file_size
          BY <1>1, <2>2, <3>3
        <4> QED
          BY <1>4, <3>1, <3>3, <4>1 DEF KeysInBuffer, KeyTypes
      <3> QED
        BY <3>2, <3>3
    <2>5. KeysInBuffer' = [i \in 1..file_size + 1 |-> kb_buffer'[i - 1]]
      BY <1>4 DEF KeysInBuffer
    <2>6. Append(KeysInBuffer, k)
            = [i \in 1..file_size + 1 |-> IF i = file_size + 1 THEN k ELSE KeysInBuffer[i]]
      <3> DEFINE a == Append(KeysInBuffer, k)
      <3>1. /\ a \in Seq(Nat) /\ Len(a) = file_size + 1
            /\ \A i \in 1..file_size + 1 :
                 a[i] = IF i = file_size + 1 THEN k ELSE KeysInBuffer[i]
        BY <1>1, <2>3
      <3> HIDE DEF a
      <3>2. a = [i \in 1..Len(a) |-> a[i]]
        BY <3>1
      <3>3. a = [i \in 1..file_size + 1 |->
                   IF i = file_size + 1 THEN k ELSE KeysInBuffer[i]]
        BY <3>1, <3>2, Zenon
      <3> QED
        BY <3>3 DEF a
    <2>7. KeysInBuffer' = Append(KeysInBuffer, k)
      BY <2>4, <2>5, <2>6
    <2>8. got \in Seq(Nat)
      BY DEF KeyTypes
    <2>9. \A s \in Seq(Nat) : got \o Append(s, k) = Append(got \o s, k)
      BY <2>8
    <2> QED
      BY <2>3, <2>7, <2>9 DEF Through
  <1>6. kb_buffer' \in [Slot -> Nat]
    <2> HIDE DEF h
    <2> QED
      BY <1>4 DEF KeyTypes
  <1> QED
    BY <1>1, <1>4, <1>5, <1>6

(* Processing the keys of the buffer leaves them in their order. *)
LEMMA ReadThrough ==
  ASSUME IInv, KeyTypes, kb_fs_read
  PROVE  /\ file_size <= KB_BUFFER_SIZE
         /\ Through' = Through /\ got' = Through /\ file_size' = 0
  <1>1. /\ size = file_size /\ 0 < size /\ size < BufSize
        /\ kb_buffer_head = file_size - 1
        /\ file_size \in Nat /\ file_size <= KB_BUFFER_SIZE
        /\ KB_BUFFER_SIZE \in Nat
    BY Ps2Assumption DEF kb_fs_read, StartAt, IInv, Types, FromStart, ReadsAll
  <1>2. /\ file_size' = 0 /\ kb_buffer' = kb_buffer
        /\ got' = got \o InOrder(file_size)
    BY <1>1 DEF kb_fs_read
  <1>3. ASSUME NEW i \in 1..file_size
        PROVE  KeyAt(kb_buffer_head - (file_size - i)) = kb_buffer[i - 1]
    <2>1. kb_buffer_head - (file_size - i) = i - 1 /\ i - 1 \in Slot
      BY <1>1 DEF Slot
    <2> QED
      BY <2>1 DEF KeyAt
  <1>4. InOrder(file_size) = KeysInBuffer
    BY <1>3 DEF InOrder, KeysInBuffer
  <1>5. KeysInBuffer' = <<>>
    BY <1>2 DEF KeysInBuffer
  <1>6. got' = Through /\ Through \in Seq(Nat)
    BY <1>1, <1>2, <1>4, ThroughIs DEF Through
  <1>7. \A s \in Seq(Nat) : s \o <<>> = s
    OBVIOUS
  <1>8. Through' = Through
    BY <1>5, <1>6, <1>7 DEF Through
  <1> QED
    BY <1>1, <1>2, <1>6, <1>8

LEMMA GotKept ==
  ASSUME KeyTypes, GotOK, got' = got, typed' \in {typed, typed + 1},
         delayed' \in {delayed, delayed \cup {typed + 1}}
  PROVE  GotOK'
  <1>1. /\ typed \in Nat
        /\ \A i \in 1..Len(got) : got[i] \in Nat /\ got[i] <= typed
    BY DEF KeyTypes, GotOK
  <1>2. \A i \in 1..Len(got) : got[i] <= typed' /\ got[i] # typed + 1
    BY <1>1
  <1>3. \A i \in 1..Len(got) : got[i] \in delayed' <=> got[i] \in delayed
    BY <1>2
  <1>4. Overtaken(got, delayed')
    BY <1>3 DEF GotOK, Overtaken
  <1> QED
    BY <1>2, <1>4 DEF GotOK

LEMMA KbPutKeyInv == ASSUME KeyInv, kb_put PROVE KeyInv'
  <1>1. IInv' /\ IInv /\ KeyTypes /\ GotOK
    BY KbPutIInv DEF KeyInv
  <1>2. /\ ~spinning /\ typed' = typed + 1 /\ typed \in Nat
        /\ UNCHANGED <<held, got>> /\ typed + 1 \in Keys
        /\ got \in Seq(Nat) /\ ls \in Seq(Keys) /\ held \in Nat
        /\ delayed \in SUBSET (1..typed) /\ delayed \in SUBSET (1..typed')
    BY <1>1 DEF kb_put, KeyTypes, Keys
  <1>3. Wait = 0
    BY <1>2 DEF Wait
  <1>4. CASE kb_put_now(typed + 1)
    <2>1. /\ Put(typed + 1) /\ UNCHANGED <<ls, helper, spinning, delayed>>
      BY <1>4 DEF kb_put_now, lsvars
    <2>2. /\ kb_buffer' \in [Slot -> Nat]
          /\ file_size' = file_size + 1 /\ file_size \in Nat
          /\ file_size' <= KB_BUFFER_SIZE => Through' = Append(Through, typed + 1)
      BY <1>1, <1>2, <2>1, PutThrough
    <2>3. KeyTypes'
      BY <1>1, <1>2, <2>1, <2>2 DEF KeyTypes
    <2>4. GotOK'
      BY <1>1, <1>2, <2>1, GotKept
    <2>5. ASSUME file_size' <= KB_BUFFER_SIZE PROVE KeysOK'
      <3>1. file_size <= KB_BUFFER_SIZE
        BY <2>2, <2>5, Ps2Assumption
      <3>2. KeysOK /\ Through \in Seq(Nat)
        BY <1>1, <3>1, ThroughIs DEF KeyInv
      <3>3. Placed(Append(Through, typed + 1), ls, held, 0, typed + 1)
        BY <1>2, <1>3, <3>2, PlacedNow DEF KeysOK
      <3>4. Ordered(Append(Through, typed + 1), ls, held, delayed, typed + 1)
        BY <1>2, <3>2, OrderedNow DEF KeysOK
      <3>5. Wait' = 0
        BY <1>2, <2>1 DEF Wait
      <3> QED
        BY <1>2, <2>1, <2>2, <2>5, <3>3, <3>4, <3>5 DEF KeysOK
    <2> QED
      BY <1>1, <2>3, <2>4, <2>5 DEF KeyInv
  <1>5. CASE kb_put_later(typed + 1)
    <2>1. /\ UNCHANGED <<bufvars, spinning>>
          /\ ls' = Append(ls, typed + 1)
          /\ delayed' = delayed \cup {typed + 1}
          /\ helper' = IF helper = "none" THEN "test" ELSE helper
      BY <1>5 DEF kb_put_later
    <2>2. ls' \in Seq(Keys) /\ ls' # <<>>
      BY <1>2, <2>1
    <2>3. delayed' \in SUBSET (1..typed')
      BY <1>2, <2>1
    <2>4. KeyTypes'
      BY <1>1, <1>2, <2>1, <2>2, <2>3 DEF KeyTypes, bufvars
    <2>5. GotOK'
      BY <1>1, <1>2, <2>1, GotKept
    <2>6. ASSUME file_size' <= KB_BUFFER_SIZE PROVE KeysOK'
      <3>1. KeysOK /\ Through \in Seq(Nat)
        BY <1>1, <2>1, <2>6, ThroughIs DEF KeyInv, bufvars
      <3>2. Placed(Through, Append(ls, typed + 1), held, 0, typed + 1)
        BY <1>2, <1>3, <3>1, PlacedLater DEF KeysOK
      <3>3. Ordered(Through, Append(ls, typed + 1), held, delayed \cup {typed + 1},
                    typed + 1)
        BY <1>2, <3>1, OrderedLater DEF KeysOK
      <3>4. Wait' = 0 /\ Through' = Through
        BY <1>2, <2>1 DEF Wait, Through, KeysInBuffer, bufvars
      <3> QED
        BY <1>2, <2>1, <3>2, <3>3, <3>4 DEF KeysOK
    <2> QED
      BY <1>1, <2>4, <2>5, <2>6 DEF KeyInv
  <1>6. CASE kb_put_spin(typed + 1)
    <2>1. UNCHANGED <<bufvars, ls, helper, delayed>> /\ spinning' = TRUE
      BY <1>6 DEF kb_put_spin, lsvars
    <2>2. KeyTypes'
      BY <1>1, <1>2, <2>1 DEF KeyTypes, bufvars
    <2>3. GotOK'
      BY <1>1, <1>2, <2>1, GotKept
    <2>4. ASSUME file_size' <= KB_BUFFER_SIZE PROVE KeysOK'
      <3>1. KeysOK /\ Through \in Seq(Nat)
        BY <1>1, <2>1, <2>4, ThroughIs DEF KeyInv, bufvars
      <3>2. Placed(Through, ls, held, 1, typed + 1)
        BY <1>2, <1>3, <3>1, PlacedSpin DEF KeysOK
      <3>3. Ordered(Through, ls, held, delayed, typed + 1)
        BY <1>2, <3>1, OrderedSpin DEF KeysOK
      <3>4. Wait' = 1 /\ Through' = Through
        BY <1>2, <2>1 DEF Wait, Through, KeysInBuffer, bufvars
      <3> QED
        BY <1>2, <2>1, <3>2, <3>3, <3>4 DEF KeysOK
    <2> QED
      BY <1>1, <2>2, <2>3, <2>4 DEF KeyInv
  <1> QED
    BY <1>4, <1>5, <1>6 DEF kb_put

(* A step that moves no key. *)
LEMMA KeysStay ==
  ASSUME KeyInv, IInv',
         UNCHANGED <<bufvars, ls, held, spinning, typed, delayed, got>>,
         held' # 0 <=> helper' \in {"unlock", "trylock", "put"},
         helper' \in {"getlock", "take"} => ls' # <<>>
  PROVE  KeyInv'
  <1>1. KeyTypes'
    BY DEF KeyInv, KeyTypes, bufvars
  <1>2. GotOK'
    BY DEF KeyInv, GotOK
  <1>3. Wait' = Wait /\ Through' = Through
    BY DEF Wait, Through, KeysInBuffer, bufvars
  <1>4. KeysOK => KeysOK'
    BY <1>3 DEF KeysOK
  <1> QED
    BY <1>1, <1>2, <1>4 DEF KeyInv, bufvars

LEMMA HelperKeyInv == ASSUME KeyInv, Helper PROVE KeyInv'
  <1>1. IInv' /\ IInv /\ KeyTypes /\ GotOK
    BY HelperIInv DEF KeyInv
  <1>2. /\ got \in Seq(Nat) /\ ls \in Seq(Keys) /\ held \in Nat /\ typed \in Nat
        /\ delayed \in SUBSET (1..typed)
        /\ held # 0 <=> helper \in {"unlock", "trylock", "put"}
        /\ helper \in {"getlock", "take"} => ls # <<>>
    BY <1>1 DEF KeyTypes
  <1>3. ~spinning /\ UNCHANGED <<spinning, typed, delayed, got>>
    BY DEF Helper, delayed_test, delayed_getlock, delayed_take, delayed_unlock,
           delayed_trylock, delayed_put, delayed_release, HelperAt
  <1>4. Wait = 0 /\ Wait' = 0
    BY <1>3 DEF Wait
  <1>5. GotOK'
    BY <1>1, <1>3, GotKept
  <1>6. CASE delayed_test
    <2>1. UNCHANGED <<bufvars, ls, held>> /\ helper = "test" /\ helper' = "getlock"
          /\ ls # <<>>
      BY <1>6 DEF delayed_test, HelperAt, lsvars
    <2> QED
      BY <1>1, <1>2, <1>3, <2>1, KeysStay
  <1>7. CASE delayed_getlock
    <2>1. UNCHANGED <<bufvars, ls, held>> /\ helper = "getlock" /\ helper' = "take"
      BY <1>7 DEF delayed_getlock, HelperAt
    <2> QED
      BY <1>1, <1>2, <1>3, <2>1, KeysStay
  <1>8. CASE delayed_take
    <2>1. /\ helper = "take" /\ helper' = "unlock" /\ ls # <<>> /\ held = 0
          /\ held' = Head(ls) /\ ls' = Tail(ls) /\ UNCHANGED bufvars
      BY <1>2, <1>8 DEF delayed_take, HelperAt
    <2>2. held' \in Keys /\ ls' \in Seq(Keys)
      BY <1>2, <2>1
    <2>3. KeyTypes'
      BY <1>1, <1>2, <1>3, <2>1, <2>2 DEF KeyTypes, bufvars, Keys
    <2>4. ASSUME file_size' <= KB_BUFFER_SIZE PROVE KeysOK'
      <3>1. KeysOK /\ Through \in Seq(Nat) /\ Through' = Through
        BY <1>1, <1>3, <2>1, <2>4, ThroughIs
        DEF KeyInv, bufvars, Through, KeysInBuffer
      <3>2. Placed(Through, Tail(ls), Head(ls), 0, typed)
        BY <1>2, <1>4, <2>1, <3>1, PlacedTake DEF KeysOK
      <3>3. Ordered(Through, Tail(ls), Head(ls), delayed, typed)
        BY <1>2, <2>1, <3>1, OrderedTake DEF KeysOK
      <3> QED
        BY <1>3, <1>4, <2>1, <3>1, <3>2, <3>3 DEF KeysOK
    <2> QED
      BY <1>1, <1>5, <2>3, <2>4 DEF KeyInv
  <1>9. CASE delayed_unlock
    <2>1. UNCHANGED <<bufvars, ls, held>> /\ helper = "unlock" /\ helper' = "trylock"
      BY <1>9 DEF delayed_unlock, HelperAt
    <2> QED
      BY <1>1, <1>2, <1>3, <2>1, KeysStay
  <1>10. CASE delayed_trylock
    <2>1. UNCHANGED <<bufvars, ls, held>> /\ helper = "trylock" /\ helper' = "put"
      BY <1>10 DEF delayed_trylock, HelperAt, lsvars
    <2> QED
      BY <1>1, <1>2, <1>3, <2>1, KeysStay
  <1>11. CASE delayed_put
    <2>1. /\ helper = "put" /\ helper' = "release" /\ held # 0
          /\ Put(held) /\ held' = 0 /\ UNCHANGED ls
      BY <1>2, <1>11 DEF delayed_put, HelperAt, lsvars
    <2>2. /\ kb_buffer' \in [Slot -> Nat]
          /\ file_size' = file_size + 1 /\ file_size \in Nat
          /\ file_size' <= KB_BUFFER_SIZE => Through' = Append(Through, held)
      BY <1>1, <1>2, <1>3, <2>1, PutThrough
    <2>3. KeyTypes'
      BY <1>1, <1>2, <1>3, <2>1, <2>2 DEF KeyTypes
    <2>4. ASSUME file_size' <= KB_BUFFER_SIZE PROVE KeysOK'
      <3>1. file_size <= KB_BUFFER_SIZE /\ held \in Keys
        BY <1>2, <2>1, <2>2, <2>4, Ps2Assumption DEF Keys
      <3>2. KeysOK /\ Through \in Seq(Nat)
        BY <1>1, <3>1, ThroughIs DEF KeyInv
      <3>3. Placed(Append(Through, held), ls, 0, 0, typed)
        BY <1>2, <1>4, <3>1, <3>2, PlacedPut DEF KeysOK
      <3>4. Ordered(Append(Through, held), ls, 0, delayed, typed)
        BY <1>2, <3>1, <3>2, OrderedPut DEF KeysOK
      <3> QED
        BY <1>3, <1>4, <2>1, <2>2, <2>4, <3>3, <3>4 DEF KeysOK
    <2> QED
      BY <1>1, <1>5, <2>3, <2>4 DEF KeyInv
  <1>12. CASE delayed_release
    <2>1. UNCHANGED <<bufvars, ls, held>> /\ helper = "release" /\ helper' = "test"
      BY <1>12 DEF delayed_release, HelperAt, lsvars
    <2> QED
      BY <1>1, <1>2, <1>3, <2>1, KeysStay
  <1> QED
    BY <1>6, <1>7, <1>8, <1>9, <1>10, <1>11, <1>12 DEF Helper

LEMMA StartKeyInv == ASSUME KeyInv, Start PROVE KeyInv'
  <1>1. IInv' /\ IInv /\ KeyTypes /\ GotOK
    BY StartIInv DEF KeyInv
  <1>2. UNCHANGED <<ls, helper, held, spinning, typed, delayed>>
    BY DEF Start, pub_fs_acquire, start_size, kb_fs_read, pub_fs_release, StartAt,
           lsvars
  <1>3. CASE pub_fs_acquire \/ start_size \/ pub_fs_release
    <2>1. UNCHANGED <<bufvars, got>>
      BY <1>3 DEF pub_fs_acquire, start_size, pub_fs_release
    <2> QED
      BY <1>1, <1>2, <2>1, KeysStay DEF KeyTypes
  <1>4. CASE kb_fs_read
    <2>1. /\ file_size <= KB_BUFFER_SIZE /\ file_size' = 0
          /\ Through' = Through /\ got' = Through /\ kb_buffer' = kb_buffer
      BY <1>1, <1>4, ReadThrough DEF kb_fs_read
    <2>2. KeysOK /\ Through \in Seq(Nat)
      BY <1>1, <2>1, ThroughIs DEF KeyInv
    <2>3. KeyTypes'
      BY <1>1, <1>2, <2>1, <2>2 DEF KeyTypes
    <2>4. GotOK'
      BY <1>2, <2>1, <2>2 DEF KeysOK, Ordered, GotOK
    <2>5. KeysOK'
      BY <1>2, <2>1, <2>2 DEF KeysOK, Wait
    <2> QED
      BY <1>1, <2>3, <2>4, <2>5 DEF KeyInv
  <1> QED
    BY <1>3, <1>4 DEF Start

LEMMA KeyInvariance == Spec => []KeyInv
  <1>1. Init => KeyInv
    <2> SUFFICES ASSUME Init PROVE KeyInv
      OBVIOUS
    <2>1. IInv
      BY InitIInv
    <2>2. KeyTypes
      BY DEF Init, KeyTypes, Keys
    <2>3. /\ got = <<>> /\ KeysInBuffer = <<>> /\ Wait = 0 /\ ls = <<>> /\ held = 0
          /\ typed = 0
      BY DEF Init, KeysInBuffer, Wait
    <2>4. Through = <<>>
      BY <2>3 DEF Through
    <2>5. GotOK
      BY <2>3 DEF GotOK, Overtaken
    <2>6. KeysOK
      BY <2>3, <2>4 DEF KeysOK, Placed, Ordered, Overtaken
    <2> QED
      BY <2>1, <2>2, <2>5, <2>6 DEF KeyInv
  <1>2. ASSUME KeyInv, [Next]_vars PROVE KeyInv'
    <2>1. CASE UNCHANGED vars
      <3>1. IInv'
        BY <1>2, <2>1
        DEF vars, bufvars, KeyInv, IInv, Types, OneHoldsTheFile, FromStart, ReadsAll
      <3> QED
        BY <1>2, <2>1, <3>1, KeysStay DEF vars, lsvars, KeyInv, KeyTypes
    <2> QED
      BY <1>2, <2>1, KbPutKeyInv, HelperKeyInv, StartKeyInv DEF Next
  <1> QED
    BY <1>1, <1>2, PTL DEF Spec

(* However the interrupt handler, the helper thread and start interleave,  *)
(* every key typed is in exactly one place, processed, in kb_buffer, in    *)
(* the list, with the helper or with a spinning handler, until more keys   *)
(* are put into kb_buffer than it holds.                                   *)
THEOREM NoKeyIsLost == Spec => []EveryKeyOnce
  <1>1. KeyInv => EveryKeyOnce
    <2> SUFFICES ASSUME KeyInv, file_size <= KB_BUFFER_SIZE
                 PROVE  LET places == got \o KeysInBuffer \o ls
                                        \o (IF held = 0 THEN <<>> ELSE <<held>>)
                                        \o (IF spinning THEN <<typed>> ELSE <<>>)
                        IN  /\ Len(places) = typed
                            /\ \A k \in 1..typed : \E i \in 1..typed : places[i] = k
      BY DEF EveryKeyOnce
    <2> DEFINE h == IF held = 0 THEN <<>> ELSE <<held>>
               w == IF spinning THEN <<typed>> ELSE <<>>
    <2>1. /\ Through \in Seq(Nat) /\ ls \in Seq(Nat) /\ held \in Nat /\ typed \in Nat
          /\ KeysOK
      BY ThroughIs DEF KeyInv, KeyTypes, Keys
    <2>2. /\ h \in Seq(Nat) /\ Len(h) = (IF held = 0 THEN 0 ELSE 1)
          /\ held # 0 => In(held, h)
      BY <2>1 DEF In
    <2>3. w \in Seq(Nat) /\ Len(w) = Wait /\ (Wait = 1 => In(typed, w))
      BY <2>1 DEF Wait, In
    <2> HIDE DEF h, w
    <2> DEFINE P1 == Through \o ls
               P2 == P1 \o h
               P3 == P2 \o w
    <2>4. P1 \in Seq(Nat) /\ Len(P1) = Len(Through) + Len(ls)
          /\ \A x : In(x, P1) <=> In(x, Through) \/ In(x, ls)
      BY <2>1, InConcat
    <2> HIDE DEF P1
    <2>5. P2 \in Seq(Nat) /\ Len(P2) = Len(P1) + Len(h)
          /\ \A x : In(x, P2) <=> In(x, P1) \/ In(x, h)
      <3>1. P1 \in Seq(Nat) /\ h \in Seq(Nat)
        BY <2>2, <2>4
      <3> QED
        BY <3>1, InConcat
    <2> HIDE DEF P2
    <2>6. P3 \in Seq(Nat) /\ Len(P3) = Len(P2) + Len(w)
          /\ \A x : In(x, P3) <=> In(x, P2) \/ In(x, w)
      <3>1. P2 \in Seq(Nat) /\ w \in Seq(Nat)
        BY <2>3, <2>5
      <3> QED
        BY <3>1, InConcat
    <2> HIDE DEF P3
    <2>7. Len(P3) = typed
      <3>1. Len(Through) + Len(ls) + (IF held = 0 THEN 0 ELSE 1) + Wait = typed
        BY <2>1 DEF KeysOK, Placed
      <3> QED
        BY <2>2, <2>3, <2>4, <2>5, <2>6, <3>1
    <2>8. ASSUME NEW k \in 1..typed PROVE In(k, P3)
      <3>1. \/ In(k, Through) \/ In(k, ls) \/ held = k \/ (Wait = 1 /\ k = typed)
        BY <2>1 DEF KeysOK, Placed
      <3>2. k # 0
        OBVIOUS
      <3> QED
        BY <2>2, <2>3, <2>4, <2>5, <2>6, <3>1, <3>2
    <2>9. \A k \in 1..typed : \E i \in 1..typed : P3[i] = k
      BY <2>7, <2>8 DEF In
    <2> QED
      BY <2>7, <2>9 DEF P3, P2, P1, h, w, Through
  <1> QED
    BY <1>1, KeyInvariance, PTL

(* start processes the keys in the order typed, except that keys which     *)
(* went through the list of kb_put() may be overtaken by keys that did not *)
(* and never by each other; also when the buffer overflows.                *)
THEOREM OnlyTheListIsOvertaken == Spec => []OvertakenOnlyInList
  <1>1. KeyInv => OvertakenOnlyInList
    BY DEF KeyInv, GotOK, Overtaken, OvertakenOnlyInList
  <1> QED
    BY <1>1, KeyInvariance, PTL
=============================================================================
