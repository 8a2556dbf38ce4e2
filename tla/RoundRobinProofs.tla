-------------------------- MODULE RoundRobinProofs --------------------------
(***************************************************************************)
(* Proofs about RoundRobin.tla.  The invariant is that no thread is linked *)
(* twice.  A switch skips the running thread only, so every thread that    *)
(* keeps waiting stands behind the chosen one and the rotation moves it    *)
(* towards the head.                                                       *)
(***************************************************************************)
EXTENDS RoundRobin, TLAPS

RRInv == RRTypeOK /\ RingOK

(* The list r is s with t linked behind its head. *)
IsInserted(s, t, r) ==
  /\ r \in Seq(Thread)
  /\ Len(r) = Len(s) + 1
  /\ s # <<>> => /\ r[1] = s[1]
                 /\ r[2] = t
                 /\ \A j \in 3..Len(s) + 1 : r[j] = s[j - 1]

LEMMA InsertShape ==
  ASSUME NEW s \in Seq(Thread), NEW t \in Thread
  PROVE  IsInserted(s, t, InsertBehindHead(s, t))
  <1>1. CASE s = <<>>
    BY <1>1 DEF InsertBehindHead, IsInserted
  <1>2. CASE s # <<>>
    <2>1. /\ Tail(s) \in Seq(Thread) /\ Len(Tail(s)) = Len(s) - 1
          /\ Head(s) = s[1] /\ s[1] \in Thread /\ Len(s) \in Nat \ {0}
          /\ \A j \in 1..Len(s) - 1 : Tail(s)[j] = s[j + 1]
      BY <1>2
    <2>2. /\ <<Head(s), t>> \in Seq(Thread) /\ Len(<<Head(s), t>>) = 2
          /\ <<Head(s), t>>[1] = s[1] /\ <<Head(s), t>>[2] = t
      BY <2>1
    <2>3. InsertBehindHead(s, t) = <<Head(s), t>> \o Tail(s)
      BY <1>2 DEF InsertBehindHead
    <2>4. QED
      BY <1>2, <2>1, <2>2, <2>3 DEF IsInserted
  <1>3. QED
    BY <1>1, <1>2

LEMMA RotateShape ==
  ASSUME NEW s \in Seq(Thread), NEW i \in 1..Len(s)
  PROVE  /\ Rotate(s, i) \in Seq(Thread)
         /\ Len(Rotate(s, i)) = Len(s)
  BY DEF Rotate

LEMMA RRInitInv == RRInit => RRInv
  BY DEF RRInit, RRInv, RRTypeOK, RingOK, InRing

LEMMA InsertInv ==
  ASSUME RRInv, NEW t \in Thread, Insert(t)
  PROVE  RRInv'
  <1>1. /\ ring \in Seq(Thread)  /\ ring' = InsertBehindHead(ring, t)
        /\ cur' = cur /\ \A i \in 1..Len(ring) : ring[i] # t
    BY DEF Insert, RRInv, RRTypeOK, InRing
  <1>2. IsInserted(ring, t, ring')
    BY <1>1, InsertShape
  <1>3. RRTypeOK'
    BY <1>1, <1>2 DEF RRInv, RRTypeOK, IsInserted
  <1>4. /\ Len(ring') = Len(ring) + 1
        /\ ring # <<>> => /\ ring'[1] = ring[1]
                          /\ ring'[2] = t
                          /\ \A j \in 3..Len(ring) + 1 : ring'[j] = ring[j - 1]
    BY <1>2 DEF IsInserted
  <1>5. /\ Len(ring) \in Nat
        /\ ring = <<>> <=> Len(ring) = 0
    BY <1>1
  <1>6. CASE ring = <<>>
    <2>1. Len(ring') = 1 /\ cur = NULL
      BY <1>6, <1>4, <1>5 DEF RRInv, RingOK, InRing
    <2>2. QED
      BY <1>1, <1>3, <2>1 DEF RRInv, RingOK, InRing
  <1>7. CASE ring # <<>>
    <2>1. /\ Len(ring') = Len(ring) + 1
          /\ ring'[1] = ring[1] /\ ring'[2] = t
          /\ \A j \in 3..Len(ring) + 1 : ring'[j] = ring[j - 1]
          /\ Len(ring) \in Nat \ {0}
      BY <1>7, <1>4, <1>5
    <2>2. ASSUME NEW i \in 1..Len(ring'), NEW j \in 1..Len(ring'),
                 ring'[i] = ring'[j]
          PROVE  i = j
      <3> DEFINE Was(k) == IF k = 1 THEN 1 ELSE k - 1
      <3>1. ASSUME NEW k \in 1..Len(ring'), k # 2
            PROVE  Was(k) \in 1..Len(ring) /\ ring'[k] = ring[Was(k)]
        <4>1. CASE k = 1
          BY <2>1, <4>1
        <4>2. CASE k \in 3..Len(ring) + 1
          BY <2>1, <4>2
        <4> QED
          BY <2>1, <3>1, <4>1, <4>2
      <3>2. \A k \in 1..Len(ring') : k # 2 => ring'[k] # t
        BY <1>1, <3>1
      <3>3. CASE i = 2 \/ j = 2
        BY <2>1, <2>2, <3>2, <3>3
      <3>4. CASE i # 2 /\ j # 2
        <4>1. /\ Was(i) \in 1..Len(ring) /\ Was(j) \in 1..Len(ring)
              /\ ring[Was(i)] = ring[Was(j)]
          BY <2>2, <3>1, <3>4
        <4>2. Was(i) = Was(j)
          BY <4>1 DEF RRInv, RingOK
        <4> QED
          BY <2>1, <2>2, <3>4, <4>2
      <3> QED
        BY <3>3, <3>4
    <2>3. ASSUME cur' # NULL PROVE InRing(cur)'
      <3>1. PICK i \in 1..Len(ring) : ring[i] = cur
        BY <1>1, <2>3 DEF RRInv, RingOK, InRing
      <3>2. CASE i = 1
        BY <1>1, <2>1, <3>1, <3>2 DEF InRing
      <3>3. CASE i # 1
        <4>1. i + 1 \in 3..Len(ring) + 1 /\ (i + 1) - 1 = i
          BY <2>1, <3>3
        <4>2. ring'[i + 1] = cur /\ i + 1 \in 1..Len(ring')
          BY <2>1, <3>1, <4>1
        <4>3. QED
          BY <1>1, <4>2 DEF InRing
      <3>4. QED
        BY <3>2, <3>3
    <2>4. QED
      BY <1>3, <2>2, <2>3 DEF RRInv, RingOK
  <1>8. QED
    BY <1>6, <1>7

(* Where the switch takes the thread at place k of the list. *)
LEMMA RotatePlace ==
  ASSUME NEW s \in Seq(Thread), NEW i \in 1..Len(s), NEW k \in 1..Len(s)
  PROVE  /\ k > i => Rotate(s, i)[k - i] = s[k]
         /\ k <= i => Rotate(s, i)[k - i + Len(s)] = s[k]
  BY DEF Rotate

LEMMA SwitchInv ==
  ASSUME RRInv, NEW i \in 1..Len(ring), Switch(i)
  PROVE  RRInv'
  <1>1. ring \in Seq(Thread) /\ ring' = Rotate(ring, i) /\ cur' = ring[i]
    BY DEF Switch, RRInv, RRTypeOK
  <1>2. ring' \in Seq(Thread) /\ Len(ring') = Len(ring) /\ Len(ring) \in Nat
    BY <1>1, RotateShape
  <1>3. RRTypeOK'
    BY <1>1, <1>2 DEF RRTypeOK
  <1>4. \A j, k \in 1..Len(ring) : ring'[j] = ring'[k] => j = k
    <2>1. \A j \in 1..Len(ring) :
            ring'[j] = ring[IF j + i <= Len(ring) THEN j + i ELSE j + i - Len(ring)]
      BY <1>1 DEF Rotate
    <2>2. SUFFICES ASSUME NEW j \in 1..Len(ring), NEW k \in 1..Len(ring),
                          ring'[j] = ring'[k]
                   PROVE  j = k
      OBVIOUS
    <2> DEFINE From(l) == IF l + i <= Len(ring) THEN l + i ELSE l + i - Len(ring)
    <2>3. From(j) \in 1..Len(ring) /\ From(k) \in 1..Len(ring)
      BY <1>2
    <2>4. ring[From(j)] = ring[From(k)]
      BY <2>1, <2>2
    <2>5. From(j) = From(k)
      BY <2>3, <2>4 DEF RRInv, RingOK
    <2>6. QED
      BY <1>2, <2>5
  <1>5. InRing(cur)'
    <2>1. i - i + Len(ring) \in 1..Len(ring') /\ i <= i
      BY <1>2
    <2>2. ring'[i - i + Len(ring)] = ring[i]
      BY Zenon, <1>1, <2>1, RotatePlace
    <2>3. QED
      BY Zenon, <1>1, <2>1, <2>2 DEF InRing
  <1>6. QED
    BY <1>2, <1>3, <1>4, <1>5 DEF RRInv, RingOK

LEMMA RRNextInv == ASSUME RRInv, [RRNext]_rrvars PROVE RRInv'
  <1>1. CASE UNCHANGED rrvars
    BY <1>1 DEF rrvars, RRInv, RRTypeOK, RingOK, InRing
  <1>2. QED
    BY <1>1, InsertInv, SwitchInv DEF RRNext

LEMMA RRInvariance == RRSpec => []RRInv
  BY RRInitInv, RRNextInv, PTL DEF RRSpec

(* In the round robin no thread is ever linked twice and the running       *)
(* thread stays linked, for any number of threads.                         *)
THEOREM RingStaysOK == RRSpec => []RingOK
  BY RRInvariance, PTL DEF RRInv

LEMMA SwitchCloser ==
  ASSUME RRInv, NEW i \in 1..Len(ring), Switch(i)
  PROVE  CloserStep
  <1>1. ring \in Seq(Thread) /\ ring' = Rotate(ring, i) /\ cur' = ring[i]
    BY DEF Switch, RRInv, RRTypeOK
  <1>2. SUFFICES ASSUME NEW k \in 1..Len(ring), ring[k] \notin {cur, cur'}
                 PROVE  \E j \in 1..k - 1 : ring'[j] = ring[k]
    BY DEF CloserStep
  <1>3. k > i
    <2>1. \A j \in 1..i - 1 : ring[j] = cur
      BY DEF Switch
    <2>2. k # i /\ k \notin 1..i - 1
      BY <1>1, <1>2, <2>1
    <2>3. QED
      BY <1>1, <2>2
  <1>4. Rotate(ring, i)[k - i] = ring[k]
    BY Zenon, <1>1, <1>3, RotatePlace
  <1>5. k - i \in 1..k - 1
    BY <1>1, <1>3
  <1>6. QED
    BY <1>1, <1>4, <1>5

(* The wait for the processor is bounded: every switch brings every thread *)
(* that keeps waiting closer to the head of the list.                      *)
THEOREM WaitIsBounded == RRSpec => BoundedWait
  <1>1. ASSUME RRInv, RRNext PROVE CloserStep
    <2>1. CASE \E t \in Thread : Insert(t)
      BY <2>1 DEF Insert, CloserStep
    <2>2. QED
      BY <1>1, <2>1, SwitchCloser DEF RRNext
  <1>2. RRInv /\ [RRNext]_rrvars => [CloserStep]_rrvars
    BY <1>1
  <1>3. QED
    BY <1>2, RRInvariance, PTL DEF RRSpec, BoundedWait
=============================================================================
