---------------------------- MODULE MallocProofs ----------------------------
(***************************************************************************)
(* Proofs about Malloc.tla, for heaps, sizes and numbers of blocks of any  *)
(* size.                                                                   *)
(*                                                                         *)
(* The invariant is about headers: one that the program has not written    *)
(* over claims all memory up to the top (Intact).  Then the first chunk of *)
(* the list, when intact, serves every request that fits the heap, and     *)
(* free() finds no chunk where another ends.  The list itself may be in    *)
(* any shape, so a walk is only known to exist (Chunks); it is defined by  *)
(* recursion, which takes an induction over its length.                    *)
(*                                                                         *)
(* Blocks are apart as long as the heap is used as a stack (Stacked).      *)
(***************************************************************************)
EXTENDS Malloc, FiniteSetTheorems, TLAPS

(* Induction over the naturals: a set of them has a least element. *)
LEMMA Least ==
  ASSUME NEW T \in SUBSET Nat, T # {}
  PROVE  \E n \in T : \A m \in T : n <= m
  <1> DEFINE R == OpToRel(<, Nat)
  <1>1. IsWellFoundedOn(R, Nat)
    BY Zenon, NatLessThanWellFounded
  <1>2. PICK n \in T : \A m \in T : ~(<<m, n>> \in R)
    <2> HIDE DEF R
    <2> QED
      BY <1>1, WFMin
  <1>3. ASSUME NEW m \in T PROVE n <= m
    <2>1. ~(m < n)
      BY <1>2 DEF OpToRel
    <2> HIDE DEF R
    <2> QED
      BY <2>1
  <1> HIDE DEF R
  <1> QED
    BY <1>3

LEMMA Induction ==
  ASSUME NEW T \in SUBSET Nat, 0 \in T, \A n \in T : n + 1 \in T
  PROVE  T = Nat
  <1> DEFINE U == Nat \ T
  <1>1. SUFFICES ASSUME U # {} PROVE FALSE
    OBVIOUS
  <1>2. PICK n \in U : \A m \in U : n <= m
    BY <1>1, Least
  <1>3. n # 0 /\ n \in Nat /\ n - 1 \in T
    BY <1>2
  <1> QED
    BY <1>2, <1>3

-----------------------------------------------------------------------------
(* The step of a list walk; the walk exists for every closed step. *)
Closed(nxt, S) == \A x \in S : nxt[x] \in S
IsWalk(w, nxt, h) == w = [i \in Nat |-> IF i = 0 THEN h ELSE nxt[w[i - 1]]]

LEMMA WalkExists ==
  ASSUME NEW S, NEW nxt, NEW h \in S, Closed(nxt, S)
  PROVE  \E f \in [Nat -> S] : IsWalk(f, nxt, h)
  <1> DEFINE IsUpto(g, n) == /\ g \in [0..n -> S] /\ g[0] = h
                             /\ \A i \in 1..n : g[i] = nxt[g[i - 1]]
             T == {n \in Nat : \E g : IsUpto(g, n)}
  <1>1. 0 \in T
    <2>1. IsUpto([i \in 0..0 |-> h], 0)
      OBVIOUS
    <2> QED
      BY <2>1
  <1>2. ASSUME NEW n \in T PROVE n + 1 \in T
    <2>1. PICK g : IsUpto(g, n)
      OBVIOUS
    <2> DEFINE e == [i \in 0..n + 1 |-> IF i = n + 1 THEN nxt[g[n]] ELSE g[i]]
    <2>2. IsUpto(e, n + 1)
      BY <2>1 DEF Closed
    <2>3. n + 1 \in Nat
      OBVIOUS
    <2> HIDE DEF e, IsUpto
    <2> QED
      BY <2>2, <2>3
  <1>3. T = Nat
    <2> HIDE DEF T
    <2> QED
      BY <1>1, <1>2, Induction, T \subseteq Nat DEF T
  <1>4. ASSUME NEW n \in Nat, NEW g, NEW e, IsUpto(g, n), IsUpto(e, n + 1)
        PROVE  g[n] = e[n]
    <2> DEFINE V == {i \in Nat : i \in 0..n => g[i] = e[i]}
    <2>1. 0 \in V
      BY <1>4
    <2>2. ASSUME NEW i \in V PROVE i + 1 \in V
      BY <1>4
    <2>3. V = Nat
      <3> HIDE DEF V
      <3> QED
        BY <2>1, <2>2, Induction, V \subseteq Nat DEF V
    <2> QED
      BY <2>3
  <1> DEFINE G(n) == CHOOSE g : IsUpto(g, n)
             f == [n \in Nat |-> G(n)[n]]
  <1>5. \A n \in Nat : IsUpto(G(n), n)
    BY <1>3
  <1> HIDE DEF G
  <1>6. f \in [Nat -> S]
    BY <1>5
  <1>7. ASSUME NEW i \in Nat PROVE f[i] = IF i = 0 THEN h ELSE nxt[f[i - 1]]
    <2>1. CASE i = 0
      BY <1>5, <2>1
    <2>2. CASE i # 0
      <3>1. i - 1 \in Nat /\ (i - 1) + 1 = i
        BY <2>2
      <3>2. IsUpto(G(i - 1), i - 1) /\ IsUpto(G(i), i)
        BY <1>5, <3>1
      <3>3. G(i)[i] = nxt[G(i)[i - 1]]
        BY <2>2, <3>2
      <3>4. G(i)[i - 1] = G(i - 1)[i - 1]
        <4>1. IsUpto(G(i - 1), i - 1) /\ IsUpto(G(i), (i - 1) + 1)
          BY <3>1, <3>2
        <4> HIDE DEF IsUpto
        <4> QED
          BY <1>4, <3>1, <4>1
      <3> QED
        BY <2>2, <3>1, <3>3, <3>4
    <2> QED
      BY <2>1, <2>2
  <1> HIDE DEF f
  <1>8. IsWalk(f, nxt, h)
    BY <1>6, <1>7 DEF IsWalk
  <1> QED
    BY <1>6, <1>8

-----------------------------------------------------------------------------
Heaps == [head : Addr \cup {NULL}, next : [Addr -> Addr \cup {NULL}],
          size : [Addr -> 0..HEAP_SIZE]]

LEMMA AddrIs ==
  /\ \A a : a \in Addr <=> a \in 0..HEAP_SIZE /\ a % 2 = 0
  /\ 0 \in Addr /\ NULL \notin Addr /\ HEAP_SIZE \in Nat
  <1>1. HEAP_SIZE \in Nat /\ HEAP_SIZE % 2 = 0 /\ NULL \notin Nat
    BY MallocAssumption
  <1>2. ASSUME NEW i \in 0..HEAP_SIZE \div 2 PROVE 2 * i \in 0..HEAP_SIZE /\ (2 * i) % 2 = 0
    BY <1>1
  <1>3. ASSUME NEW a \in 0..HEAP_SIZE, a % 2 = 0
        PROVE  a \div 2 \in 0..HEAP_SIZE \div 2 /\ a = 2 * (a \div 2)
    BY <1>1, <1>3
  <1>4. \A a : a \in Addr <=> a \in 0..HEAP_SIZE /\ a % 2 = 0
    BY <1>2, <1>3 DEF Addr
  <1> QED
    BY <1>1, <1>4

LEMMA AlignIs ==
  ASSUME NEW n \in Nat
  PROVE  align(n) \in Nat /\ align(n) % 2 = 0 /\ n <= align(n)
  BY DEF align, CHUNK

LEMMA ZeroIsStep == 0 \in Steps /\ Steps \subseteq Nat
  <1>1. 0 \in Int /\ HEAP_SIZE \in Int /\ Addr \subseteq 0..HEAP_SIZE
    BY AddrIs
  <1>2. IsFiniteSet(0..HEAP_SIZE)
    BY <1>1, FS_Interval
  <1>3. IsFiniteSet(Addr)
    BY <1>1, <1>2, FS_Subset
  <1>4. Cardinality(Addr) \in Nat
    BY <1>3, FS_CardinalityType
  <1> QED
    BY <1>4 DEF Steps

LEMMA Chunks ==
  ASSUME NEW h \in Heaps
  PROVE  /\ Chunk(h, 0) = h.head
         /\ \A k \in Nat : Chunk(h, k) \in Addr \cup {NULL}
  <1> DEFINE S == Addr \cup {NULL}
             nxt == [c \in S |-> IF c = NULL THEN NULL ELSE h.next[c]]
             Walks(w) == w = [i \in Nat |-> IF i = 0 THEN h.head
                                ELSE IF w[i - 1] = NULL THEN NULL ELSE h.next[w[i - 1]]]
             w == CHOOSE w : Walks(w)
  <1>1. h.head \in S /\ h.next \in [Addr -> S]
    BY DEF Heaps
  <1>2. Closed(nxt, S)
    BY <1>1 DEF Closed
  <1>3. PICK f \in [Nat -> S] : IsWalk(f, nxt, h.head)
    <2> HIDE DEF nxt, S
    <2> QED
      BY <1>1, <1>2, WalkExists
  <1>4. Walks(f)
    <2>1. ASSUME NEW i \in Nat
          PROVE  (IF i = 0 THEN h.head ELSE nxt[f[i - 1]])
                   = IF i = 0 THEN h.head
                     ELSE IF f[i - 1] = NULL THEN NULL ELSE h.next[f[i - 1]]
      <3>1. CASE i = 0
        BY <3>1
      <3>2. CASE i # 0
        <4>1. f[i - 1] \in S
          BY <3>2
        <4> QED
          BY <3>2, <4>1
      <3> QED
        BY <3>1, <3>2
    <2> HIDE DEF nxt, S
    <2> QED
      BY <1>3, <2>1 DEF IsWalk
  <1>5. Walks(w)
    <2> HIDE DEF Walks
    <2> QED
      BY <1>4
  <1>6. \A k \in Nat : Chunk(h, k) = w[k]
    BY DEF Chunk
  <1> HIDE DEF w
  <1>7. w[0] = h.head
    BY <1>5
  <1> DEFINE T == {k \in Nat : w[k] \in S}
  <1>8. 0 \in T
    BY <1>1, <1>7
  <1>9. ASSUME NEW k \in T PROVE k + 1 \in T
    <2>1. w[k + 1] = IF w[k] = NULL THEN NULL ELSE h.next[w[k]]
      BY <1>5
    <2> QED
      BY <1>1, <2>1
  <1>10. T = Nat
    <2> HIDE DEF T
    <2> QED
      BY <1>8, <1>9, Induction, T \subseteq Nat DEF T
  <1> QED
    BY <1>6, <1>7, <1>10

-----------------------------------------------------------------------------
(* Every header that is not overwritten claims the memory up to the top.   *)
Intact(h, bad) == \A a \in Addr \ bad : h.size[a] = HEAP_SIZE - a

HeapOK(h, bad) == h \in Heaps /\ bad \in SUBSET Addr /\ Intact(h, bad)

LEMMA HeapFields ==
  ASSUME NEW h \in Heaps
  PROVE  /\ h.head \in Addr \cup {NULL} /\ h.next \in [Addr -> Addr \cup {NULL}]
         /\ h.size \in [Addr -> 0..HEAP_SIZE]
  BY DEF Heaps

(* The first call makes one chunk of the whole heap. *)
LEMMA FirstCallOK ==
  ASSUME NEW h, NEW bad, HeapOK(h, bad)
  PROVE  LET g == FirstCall(h)
             b == IF h.head = NULL THEN bad \ {0} ELSE bad
         IN  /\ HeapOK(g, b) /\ g.head \in Addr
             /\ h.head = NULL => g.head = 0
             /\ h.head # NULL => g = h
  <1>1. /\ h.head \in Addr \cup {NULL} /\ h.next \in [Addr -> Addr \cup {NULL}]
        /\ h.size \in [Addr -> 0..HEAP_SIZE] /\ h \in Heaps
    BY HeapFields DEF HeapOK
  <1>2. CASE h.head # NULL
    BY <1>1, <1>2 DEF FirstCall
  <1>3. CASE h.head = NULL
    <2> DEFINE g == FirstCall(h)
    <2>1. /\ g = [head |-> 0, next |-> [h.next EXCEPT ![0] = NULL],
                  size |-> [h.size EXCEPT ![0] = HEAP_SIZE]]
      BY <1>3 DEF FirstCall
    <2>2. g \in Heaps /\ g.head = 0
      BY <1>1, <2>1, AddrIs DEF Heaps
    <2>3. Intact(g, bad \ {0})
      BY <1>1, <2>1, AddrIs DEF HeapOK, Intact
    <2> HIDE DEF g
    <2>4. HeapOK(g, bad \ {0})
      BY <2>2, <2>3 DEF HeapOK
    <2> QED
      BY <1>3, <2>2, <2>4, AddrIs DEF g
  <1> QED
    BY <1>2, <1>3

(* The first chunk of the list, when its header is intact, is large enough *)
(* for what does not use up the heap, and it is divided: what is broken    *)
(* off it starts the list.                                                 *)
LEMMA TakeOK ==
  ASSUME NEW h, NEW bad, HeapOK(h, bad), h.head \in Addr \ bad,
         NEW n \in Nat, n % 2 = 0, h.head + CHUNK + n + CHUNK <= HEAP_SIZE
  PROVE  /\ ~Whole(h, n, 0) /\ Broken(h.head, n) \in Addr
         /\ HeapOK(Take(h, n, 0), bad \ {Broken(h.head, n)})
         /\ Take(h, n, 0).head = h.head + CHUNK + n
         /\ Broken(h.head, n) = h.head + CHUNK + n
  <1>1. /\ h.next \in [Addr -> Addr \cup {NULL}]
        /\ h.size \in [Addr -> 0..HEAP_SIZE] /\ h \in Heaps
    BY HeapFields DEF HeapOK
  <1>2. h.size[h.head] = HEAP_SIZE - h.head /\ Chunk(h, 0) = h.head
    BY <1>1, Chunks DEF HeapOK, Intact
  <1> DEFINE c == h.head
             new == c + CHUNK + n
             s == h.size[c] - n - CHUNK
             t == Take(h, n, 0)
  <1>3. c \in 0..HEAP_SIZE /\ c % 2 = 0 /\ HEAP_SIZE \in Nat
    BY AddrIs
  <1>4. ~Whole(h, n, 0)
    BY <1>2, <1>3 DEF Whole, CHUNK
  <1>5. new \in 0..HEAP_SIZE /\ new % 2 = 0
    BY <1>3 DEF CHUNK
  <1>6. new \in Addr /\ Broken(c, n) = new
    BY <1>5, AddrIs DEF Broken
  <1>7. s = HEAP_SIZE - new /\ s \in 0..HEAP_SIZE
    BY <1>2, <1>3, <1>5 DEF CHUNK
  <1>8. t = [[h EXCEPT !.head = new] EXCEPT !.next[new] = h.next[c], !.size[new] = s]
    BY <1>2, <1>4, <1>6 DEF Take, SetLink
  <1> HIDE DEF c, new, s, t
  <1>9. h = [head |-> c, next |-> h.next, size |-> h.size]
    BY <1>1 DEF Heaps, c
  <1>10. t = [head |-> new, next |-> [h.next EXCEPT ![new] = h.next[c]],
              size |-> [h.size EXCEPT ![new] = s]]
    BY <1>8, <1>9
  <1>11. c \in Addr
    BY DEF c
  <1>12. t \in Heaps
    BY <1>1, <1>6, <1>7, <1>10, <1>11 DEF Heaps
  <1>13. Intact(t, bad \ {new})
    BY <1>1, <1>6, <1>7, <1>10 DEF HeapOK, Intact
  <1>14. HeapOK(t, bad \ {new})
    BY <1>12, <1>13 DEF HeapOK
  <1> QED
    BY <1>4, <1>6, <1>10, <1>14 DEF c, new, t

(* malloc() finds the header at the head of the list overwritten, or       *)
(* divides that chunk.                                                     *)
LEMMA AllocatedIs ==
  ASSUME HeapOK(heap, dirty), NEW n \in Sizes, Endless(n)
  PROVE  LET got == Allocated(n) IN
         \/ /\ got.status = "wild" /\ got.heap = heap /\ got.dirty = dirty
            /\ heap.head # NULL /\ heap.head \in dirty
         \/ /\ got.status = "ok"
            /\ HeapOK(got.heap, got.dirty) /\ got.dirty \subseteq dirty
            /\ got.chunk \in Addr \ got.dirty
            /\ got.chunk = FirstCall(heap).head
            /\ got.heap.head = got.chunk + CHUNK + align(n)
            /\ got.heap.head \in Addr \ got.dirty
  <1> DEFINE h == FirstCall(heap)
             bad == IF heap.head = NULL THEN dirty \ {0} ELSE dirty
             m == align(n)
             k == CHOOSE i \in Steps : FitsAt(h, bad, m, i)
             got == Allocated(n)
  <1>1. /\ HeapOK(h, bad) /\ h.head \in Addr
        /\ heap.head = NULL => h.head = 0
        /\ heap.head # NULL => h = heap
    BY FirstCallOK
  <1>2. m \in Nat /\ m % 2 = 0 /\ h.head + CHUNK + m + CHUNK <= HEAP_SIZE
    BY AlignIs, MallocAssumption DEF Endless
  <1>3. got = IF Walked(h, k) \cap bad # {}
              THEN [heap |-> heap, dirty |-> dirty, chunk |-> Chunk(h, k),
                    status |-> "wild"]
              ELSE [heap |-> Take(h, m, k), chunk |-> Chunk(h, k), status |-> "ok",
                    dirty |-> bad \ (IF Whole(h, m, k) THEN {}
                                     ELSE {Broken(Chunk(h, k), m)})]
    BY DEF Allocated
  <1>4. bad \subseteq dirty /\ (heap.head = NULL => 0 \notin bad)
    OBVIOUS
  <1> HIDE DEF h, bad, m, got
  <1>5. Chunk(h, 0) = h.head /\ h.head \in 0..HEAP_SIZE /\ h.head # NULL
    BY <1>1, Chunks, AddrIs DEF HeapOK
  <1>6. h.head \notin bad => m <= h.size[h.head]
    <2>1. h.head \notin bad => h.size[h.head] = HEAP_SIZE - h.head
      BY <1>1 DEF HeapOK, Intact
    <2> QED
      BY <1>2, <1>5, <2>1, AddrIs DEF CHUNK
  <1>7. FitsAt(h, bad, m, 0)
    BY <1>5, <1>6 DEF FitsAt
  <1>8. k \in Steps /\ FitsAt(h, bad, m, k)
    BY <1>7, ZeroIsStep
  <1> HIDE DEF k
  <1>9. k \in Nat
    BY <1>8, ZeroIsStep
  <1>10. h.head \in Walked(h, k)
    <2>1. 0 \in 0..k
      BY <1>9
    <2> QED
      BY <1>5, <2>1 DEF Walked
  <1>11. CASE h.head \in bad
    <2>1. got = [heap |-> heap, dirty |-> dirty, chunk |-> Chunk(h, k), status |-> "wild"]
      BY <1>3, <1>10, <1>11
    <2>2. heap.head # NULL /\ heap.head \in dirty
      BY <1>1, <1>4, <1>11
    <2> QED
      BY <2>1, <2>2 DEF got
  <1>12. CASE h.head \notin bad
    <2>1. k = 0
      <3>1. ASSUME k # 0 PROVE FALSE
        <4>1. 0 \in 0..k - 1
          BY <1>9, <3>1
        <4>2. h.size[h.head] < m
          BY <1>5, <1>8, <4>1 DEF FitsAt
        <4>3. h.size[h.head] \in Nat
          BY <1>1, HeapFields, AddrIs DEF HeapOK
        <4> QED
          BY <1>2, <1>6, <1>12, <4>2, <4>3
      <3> QED
        BY <3>1
    <2>2. Walked(h, 0) = {h.head}
      BY <1>5 DEF Walked
    <2>3. /\ ~Whole(h, m, 0) /\ Broken(h.head, m) \in Addr
          /\ HeapOK(Take(h, m, 0), bad \ {Broken(h.head, m)})
          /\ Take(h, m, 0).head = h.head + CHUNK + m
          /\ Broken(h.head, m) = h.head + CHUNK + m
      BY <1>1, <1>2, <1>12, TakeOK
    <2>4. got = [heap |-> Take(h, m, 0), chunk |-> h.head, status |-> "ok",
                 dirty |-> bad \ {Broken(h.head, m)}]
      BY <1>3, <1>5, <1>12, <2>1, <2>2, <2>3
    <2> QED
      BY <1>1, <1>4, <1>12, <2>3, <2>4 DEF got, h, m
  <1> QED
    BY <1>11, <1>12

(* Putting c into the list changes links only: an intact header reaches    *)
(* the top, where no chunk starts, so nothing is joined.                   *)
LEMMA TopIsNoChunk ==
  ASSUME NEW h, NEW bad, HeapOK(h, bad), NEW c \in Addr \ bad,
         NEW d \in Addr \cup {NULL}
  PROVE  CHUNK_TOP(h, c) # d
  <1>1. CHUNK_TOP(h, c) = HEAP_SIZE + 2
    BY AddrIs DEF HeapOK, Intact, CHUNK_TOP, CHUNK
  <1> QED
    BY <1>1, AddrIs, MallocAssumption

LEMMA LinkedOK ==
  ASSUME NEW h, NEW bad, HeapOK(h, bad), NEW d \in Addr, NEW nxt,
         nxt \in [Addr -> Addr \cup {NULL}]
  PROVE  LET g == [head |-> d, next |-> nxt, size |-> h.size]
         IN  HeapOK(g, bad) /\ g.head = d
  <1>1. h.size \in [Addr -> 0..HEAP_SIZE]
    BY HeapFields DEF HeapOK
  <1> QED
    BY <1>1 DEF HeapOK, Heaps, Intact

LEMMA HeapIs ==
  ASSUME NEW h \in Heaps
  PROVE  h = [head |-> h.head, next |-> h.next, size |-> h.size]
  BY DEF Heaps

LEMMA FreedOK ==
  ASSUME NEW h, NEW bad, HeapOK(h, bad), h.head # NULL, NEW c \in Addr
  PROVE  LET done == Freed(h, bad, c) IN
         /\ HeapOK(done.heap, bad) /\ done.heap.head # NULL
         /\ done.status \in {"ok", "wild", "hung"}
         /\ c \notin bad /\ c < h.head => done.status = "ok" /\ done.heap.head = c
  <1> DEFINE done == Freed(h, bad, c)
  <1>1. /\ h.head \in Addr /\ h.next \in [Addr -> Addr \cup {NULL}] /\ h \in Heaps
    BY HeapFields DEF HeapOK
  <1>2. NULL \notin Addr
    BY AddrIs
  <1>3. CASE c \in bad
    <2>1. done = [heap |-> h, status |-> "wild"]
      BY <1>3 DEF Freed
    <2> QED
      BY <1>3, <2>1
  <1>4. CASE c \notin bad /\ Earliest(h, c)
    <2>1. done = [heap |-> FreeEarliest(h, c), status |-> "ok"]
      BY <1>4 DEF Freed
    <2>2. CHUNK_TOP(h, c) # h.head
      BY <1>1, <1>4, TopIsNoChunk
    <2>3. FreeEarliest(h, c) = [head |-> c, next |-> [h.next EXCEPT ![c] = h.head],
                                size |-> h.size]
      <3>1. FreeEarliest(h, c) = [h EXCEPT !.next[c] = h.head, !.head = c]
        BY <2>2 DEF FreeEarliest
      <3> QED
        BY <1>1, <3>1, HeapIs
    <2>4. [h.next EXCEPT ![c] = h.head] \in [Addr -> Addr \cup {NULL}]
      BY <1>1
    <2>5. HeapOK(FreeEarliest(h, c), bad) /\ FreeEarliest(h, c).head = c
      BY <2>3, <2>4, LinkedOK
    <2> QED
      BY <1>2, <2>1, <2>5
  <1>5. CASE c \notin bad /\ ~Earliest(h, c)
    <2>1. ~(c < h.head)
      BY <1>5 DEF Earliest
    <2>2. CASE ~\E k \in Steps : PriorAt(h, c, k)
      <3>1. done = [heap |-> h, status |-> "hung"]
        BY <1>5, <2>2 DEF Freed
      <3> QED
        BY <2>1, <3>1
    <2>3. CASE \E k \in Steps : PriorAt(h, c, k)
      <3> DEFINE k == CHOOSE i \in Steps : PriorAt(h, c, i)
                 prior == Chunk(h, k)
                 after == h.next[prior]
      <3>1. done = IF Walked(h, k) \cap bad # {} THEN [heap |-> h, status |-> "wild"]
                   ELSE [heap |-> FreeBehind(h, c, prior), status |-> "ok"]
        BY <1>5, <2>3 DEF Freed
      <3>2. k \in Nat /\ PriorAt(h, c, k)
        BY <2>3, ZeroIsStep
      <3> HIDE DEF k
      <3>3. CASE Walked(h, k) \cap bad # {}
        <4>1. done = [heap |-> h, status |-> "wild"]
          BY <3>1, <3>3
        <4> QED
          BY <2>1, <4>1
      <3>4. CASE Walked(h, k) \cap bad = {}
        <4>1. prior # NULL
          <5>1. CASE k = 0
            BY <1>1, <1>2, <5>1, Chunks
          <5>2. CASE k # 0
            <6>1. k - 1 \in 0..k - 1 /\ (k - 1) + 1 = k
              BY <3>2, <5>2
            <6> QED
              BY <3>2, <6>1 DEF PriorAt, GoesOn
          <5> QED
            BY <5>1, <5>2
        <4>2. prior \in Addr
          BY <1>1, <3>2, <4>1, Chunks
        <4>3. k \in 0..k
          BY <3>2
        <4>4. prior \in Walked(h, k)
          BY <4>3 DEF Walked
        <4>5. prior \in Addr \ bad
          BY <3>4, <4>2, <4>4
        <4>6. done = [heap |-> FreeBehind(h, c, prior), status |-> "ok"]
          BY <3>1, <3>4
        <4> HIDE DEF prior
        <4>7. after \in Addr \cup {NULL}
          BY <1>1, <4>2
        <4>8. CHUNK_TOP(h, prior) # c /\ CHUNK_TOP(h, c) # after
          BY <1>5, <4>5, <4>7, TopIsNoChunk
        <4> DEFINE nxt == [h.next EXCEPT ![c] = after, ![prior] = c]
        <4>9. FreeBehind(h, c, prior) = [h EXCEPT !.next = nxt]
          BY <4>8 DEF FreeBehind
        <4>10. nxt \in [Addr -> Addr \cup {NULL}]
          BY <1>1, <4>2, <4>7
        <4> HIDE DEF nxt
        <4>11. FreeBehind(h, c, prior) = [head |-> h.head, next |-> nxt, size |-> h.size]
          BY <1>1, <4>9, HeapIs
        <4>12. HeapOK(FreeBehind(h, c, prior), bad)
               /\ FreeBehind(h, c, prior).head = h.head
          BY <1>1, <4>10, <4>11, LinkedOK
        <4> QED
          BY <2>1, <4>6, <4>12
      <3> QED
        BY <3>3, <3>4
    <2> QED
      BY <2>2, <2>3
  <1> QED
    BY <1>3, <1>4, <1>5

(* Writing into a block costs headers, and the rest stay intact. *)
LEMMA ScrubbedOK ==
  ASSUME NEW h, NEW bad, HeapOK(h, bad), NEW as \in SUBSET Addr
  PROVE  HeapOK(Scrubbed(h, as), bad \cup as) /\ Scrubbed(h, as).head = h.head
  <1>1. /\ h.head \in Addr \cup {NULL} /\ h.next \in [Addr -> Addr \cup {NULL}]
        /\ h.size \in [Addr -> 0..HEAP_SIZE] /\ h \in Heaps
    BY HeapFields DEF HeapOK
  <1> DEFINE g == Scrubbed(h, as)
             n == [a \in Addr |-> IF a \in as THEN NULL ELSE h.next[a]]
             s == [a \in Addr |-> IF a \in as THEN 0 ELSE h.size[a]]
  <1>2. n \in [Addr -> Addr \cup {NULL}]
    BY <1>1
  <1>3. s \in [Addr -> 0..HEAP_SIZE] /\ \A a \in Addr \ as : s[a] = h.size[a]
    BY <1>1, AddrIs
  <1>4. g = [h EXCEPT !.next = n, !.size = s]
    BY DEF Scrubbed
  <1> HIDE DEF n, s, g
  <1>5. g = [head |-> h.head, next |-> n, size |-> s]
    <2>1. h = [head |-> h.head, next |-> h.next, size |-> h.size]
      BY <1>1, HeapIs
    <2> QED
      BY <1>4, <2>1
  <1>6. g \in Heaps /\ g.head = h.head
    BY <1>1, <1>2, <1>3, <1>5 DEF Heaps
  <1>7. Intact(g, bad \cup as)
    BY <1>3, <1>5 DEF HeapOK, Intact
  <1>8. bad \cup as \in SUBSET Addr
    BY DEF HeapOK
  <1> QED
    BY <1>6, <1>7, <1>8 DEF HeapOK, g

-----------------------------------------------------------------------------
Block == [chunk : Addr, len : Sizes]

Types ==
  /\ HeapOK(heap, dirty) /\ blocks \in Seq(Block)
  /\ status \in {"ok", "wild", "hung"} /\ newestFirst \in BOOLEAN
  /\ heap.head = NULL => blocks = <<>>

LEMMA WithoutType ==
  ASSUME NEW i \in DOMAIN blocks, blocks \in Seq(Block)
  PROVE  Without(i) \in Seq(Block) /\ blocks[i] \in Block /\ i \in 1..Len(blocks)
  <1>1. i \in 1..Len(blocks) /\ Len(blocks) \in Nat
    OBVIOUS
  <1>2. SubSeq(blocks, 1, i - 1) \in Seq(Block)
    BY <1>1
  <1>3. SubSeq(blocks, i + 1, Len(blocks)) \in Seq(Block)
    BY <1>1
  <1> QED
    BY <1>1, <1>2, <1>3 DEF Without

LEMMA BlockFields ==
  ASSUME NEW b \in Block
  PROVE  b.chunk \in Addr /\ b.len \in Sizes /\ b.len \in Nat
  BY MallocAssumption DEF Block

LEMMA MallocTypes ==
  ASSUME Types, NEW n \in Sizes, malloc(n)
  PROVE  Types'
  <1> DEFINE got == Allocated(n)
  <1>1. /\ heap' = got.heap /\ dirty' = got.dirty /\ status' = got.status
        /\ newestFirst' = newestFirst
        /\ blocks' = IF got.status = "ok"
                     THEN Append(blocks, [chunk |-> got.chunk, len |-> n]) ELSE blocks
    BY DEF malloc
  <1>2. \/ /\ got.status = "wild" /\ got.heap = heap /\ got.dirty = dirty
        \/ /\ got.status = "ok" /\ HeapOK(got.heap, got.dirty) /\ got.chunk \in Addr
           /\ got.heap.head \in Addr
    BY AllocatedIs DEF malloc, Types
  <1> HIDE DEF got
  <1>3. CASE got.status = "wild" /\ got.heap = heap /\ got.dirty = dirty
    BY <1>1, <1>3 DEF Types
  <1>4. CASE /\ got.status = "ok" /\ HeapOK(got.heap, got.dirty) /\ got.chunk \in Addr
             /\ got.heap.head \in Addr
    <2>1. [chunk |-> got.chunk, len |-> n] \in Block
      BY <1>4 DEF Block
    <2>2. blocks' \in Seq(Block)
      BY <1>1, <1>4, <2>1 DEF Types
    <2>3. heap'.head # NULL
      BY <1>1, <1>4, AddrIs
    <2> QED
      BY <1>1, <1>4, <2>2, <2>3 DEF Types
  <1> QED
    BY <1>2, <1>3, <1>4

LEMMA FreeTypes ==
  ASSUME Types, NEW i \in DOMAIN blocks, free(i)
  PROVE  Types'
  <1> DEFINE done == Freed(heap, dirty, blocks[i].chunk)
  <1>1. /\ heap' = done.heap /\ dirty' = dirty /\ status' = done.status
        /\ blocks' = Without(i) /\ newestFirst' \in BOOLEAN
    BY DEF free
  <1>2. /\ blocks' \in Seq(Block) /\ blocks[i] \in Block /\ blocks # <<>>
    BY <1>1, WithoutType DEF Types
  <1>3. heap.head # NULL /\ blocks[i].chunk \in Addr /\ HeapOK(heap, dirty)
    BY <1>2, BlockFields DEF Types
  <1>4. /\ HeapOK(done.heap, dirty) /\ done.heap.head # NULL
        /\ done.status \in {"ok", "wild", "hung"}
    BY <1>3, FreedOK
  <1> HIDE DEF done
  <1> QED
    BY <1>1, <1>2, <1>4 DEF Types

LEMMA ReallocTypes ==
  ASSUME Types, NEW i \in DOMAIN blocks, NEW n \in Sizes, realloc(i, n)
  PROVE  Types'
  <1> DEFINE old == blocks[i].chunk
             got == Allocated(n)
             copy_size == IF heap.size[old] < n THEN heap.size[old] ELSE n
             over == Overwritten(got.chunk, copy_size)
             done == Freed(Scrubbed(got.heap, over), got.dirty \cup over, old)
  <1>1. newestFirst' = FALSE
    BY DEF realloc
  <1>2. \/ status' = "wild" /\ UNCHANGED <<heap, dirty, blocks>>
        \/ /\ got.status = "ok" /\ heap' = done.heap /\ dirty' = got.dirty \cup over
           /\ status' = done.status
           /\ blocks' = Append(Without(i), [chunk |-> got.chunk, len |-> n])
    BY DEF realloc
  <1>3. got.status = "ok" => /\ HeapOK(got.heap, got.dirty) /\ got.chunk \in Addr
                             /\ got.heap.head \in Addr
    BY AllocatedIs DEF realloc, Types
  <1>4. over \in SUBSET Addr
    BY DEF Overwritten
  <1>5. Without(i) \in Seq(Block) /\ old \in Addr
    BY WithoutType, BlockFields DEF Types
  <1>6. CASE status' = "wild" /\ UNCHANGED <<heap, dirty, blocks>>
    BY <1>1, <1>6 DEF Types
  <1>7. CASE /\ got.status = "ok" /\ heap' = done.heap /\ dirty' = got.dirty \cup over
             /\ status' = done.status
             /\ blocks' = Append(Without(i), [chunk |-> got.chunk, len |-> n])
    <2> HIDE DEF got, over, old
    <2>1. /\ HeapOK(Scrubbed(got.heap, over), got.dirty \cup over)
          /\ Scrubbed(got.heap, over).head = got.heap.head
      BY <1>3, <1>4, <1>7, ScrubbedOK
    <2>2. got.heap.head # NULL
      BY <1>3, <1>7, AddrIs
    <2>3. /\ HeapOK(done.heap, got.dirty \cup over) /\ done.heap.head # NULL
          /\ done.status \in {"ok", "wild", "hung"}
      BY <1>5, <2>1, <2>2, FreedOK
    <2> HIDE DEF done
    <2>4. [chunk |-> got.chunk, len |-> n] \in Block
      BY <1>3, <1>7 DEF Block
    <2>5. blocks' \in Seq(Block)
      BY <1>5, <1>7, <2>4
    <2> QED
      BY <1>1, <1>7, <2>3, <2>5 DEF Types
  <1> QED
    BY <1>2, <1>6, <1>7

LEMMA WriteTypes ==
  ASSUME Types, NEW i \in DOMAIN blocks, Write(i)
  PROVE  Types' /\ heap'.head = heap.head
  <1> DEFINE over == Overwritten(blocks[i].chunk, blocks[i].len)
  <1>1. /\ dirty' = dirty \cup over /\ heap' = Scrubbed(heap, over)
        /\ UNCHANGED <<blocks, status, newestFirst>>
    BY DEF Write
  <1>2. over \in SUBSET Addr
    BY DEF Overwritten
  <1> HIDE DEF over
  <1>3. /\ HeapOK(Scrubbed(heap, over), dirty \cup over)
        /\ Scrubbed(heap, over).head = heap.head
    BY <1>2, ScrubbedOK DEF Types
  <1> QED
    BY <1>1, <1>3 DEF Types

LEMMA InitTypes == Init => Types
  <1> SUFFICES ASSUME Init PROVE Types
    OBVIOUS
  <1>1. heap \in Heaps
    BY AddrIs DEF Init, Heaps
  <1>2. dirty = Addr /\ Intact(heap, dirty)
    BY DEF Init, Intact
  <1> QED
    BY <1>1, <1>2 DEF Init, Types, HeapOK

LEMMA TypesInvariance == Spec => []Types
  <1>1. ASSUME Types, [Next]_vars PROVE Types'
    <2>1. CASE UNCHANGED vars
      BY <1>1, <2>1 DEF vars, Types
    <2> QED
      BY <1>1, <2>1, MallocTypes, FreeTypes, ReallocTypes, WriteTypes DEF Next, Lost
  <1> QED
    BY <1>1, InitTypes, PTL DEF Spec

(* However a program allocates, reallocates, fills and frees, every header *)
(* that it has not overwritten claims the memory up to the top of the      *)
(* heap: what malloc() divides is never shrunk, so free() never finds a    *)
(* neighbour to join and the chunks it takes back stay as they were made.  *)
THEOREM FreeNeverJoins == Spec => []ChunksReachTheTop
  <1>1. Types => ChunksReachTheTop
    <2> SUFFICES ASSUME Types PROVE ChunksReachTheTop
      OBVIOUS
    <2>1. \A i \in DOMAIN blocks : blocks[i] \in Block
      BY DEF Types
    <2>2. TypeOK
      BY <2>1 DEF TypeOK, Types, HeapOK, Heaps, Block
    <2>3. \A a \in Addr \ dirty : CHUNK_TOP(heap, a) = HEAP_SIZE + CHUNK
      BY AddrIs DEF Types, HeapOK, Intact, CHUNK_TOP, CHUNK
    <2> QED
      BY <2>2, <2>3 DEF ChunksReachTheTop
  <1> QED
    BY <1>1, TypesInvariance, PTL

-----------------------------------------------------------------------------
(* A program that frees only its newest block uses the heap as a stack:    *)
(* its blocks lie one above the other, the head of the list above them     *)
(* all, and it never writes where a header is that is still needed.        *)
End(b) == b.chunk + CHUNK + b.len

Stacked ==
  /\ status = "ok"
  /\ heap.head # NULL => heap.head \notin dirty
  /\ \A i \in 1..Len(blocks) :
       /\ blocks[i].chunk \notin dirty
       /\ End(blocks[i]) <= heap.head
       /\ \A j \in 1..i - 1 : End(blocks[j]) <= blocks[i].chunk

StackInv == Types /\ (newestFirst => Stacked)

LEMMA BlockEnds ==
  ASSUME blocks \in Seq(Block), NEW i \in 1..Len(blocks)
  PROVE  /\ blocks[i].chunk \in Nat /\ End(blocks[i]) \in Nat /\ blocks[i].len \in Nat
         /\ blocks[i].chunk + CHUNK <= End(blocks[i]) /\ blocks[i].chunk \in Addr
         /\ Extent(blocks[i]) = blocks[i].chunk..End(blocks[i]) - 1
  <1>1. blocks[i] \in Block
    OBVIOUS
  <1>2. blocks[i].chunk \in Addr /\ blocks[i].len \in Nat
    BY <1>1, BlockFields
  <1>3. blocks[i].chunk \in Nat
    BY <1>2, AddrIs
  <1>4. \A c, l \in Nat : c + CHUNK + l - 1 = (c + CHUNK + l) - 1
    BY DEF CHUNK
  <1>5. Extent(blocks[i]) = blocks[i].chunk..End(blocks[i]) - 1
    BY <1>2, <1>3, <1>4 DEF Extent, End
  <1> QED
    BY <1>2, <1>3, <1>5 DEF End, CHUNK

LEMMA MallocStack ==
  ASSUME Types, Stacked, NEW n \in Sizes, malloc(n)
  PROVE  Stacked'
  <1> DEFINE got == Allocated(n)
             b == [chunk |-> got.chunk, len |-> n]
             L == Len(blocks)
  <1>1. /\ heap' = got.heap /\ dirty' = got.dirty /\ status' = got.status
        /\ got.status = "ok" => blocks' = Append(blocks, b)
    BY DEF malloc
  <1>2. /\ got.status = "ok" /\ got.dirty \subseteq dirty
        /\ got.chunk \in Addr \ got.dirty
        /\ got.chunk = FirstCall(heap).head
        /\ got.heap.head = got.chunk + CHUNK + align(n)
        /\ got.heap.head \in Addr \ got.dirty
    BY AllocatedIs DEF malloc, Types, Stacked
  <1>3. /\ blocks # <<>> => got.chunk = heap.head
        /\ L \in Nat /\ blocks \in Seq(Block)
    BY <1>2 DEF Types, FirstCall
  <1>4. b.chunk = got.chunk /\ b.len = n /\ b \in Block
    BY <1>2 DEF Block
  <1> HIDE DEF got, b, L
  <1>5. /\ Len(blocks') = L + 1 /\ blocks'[L + 1] = b
        /\ \A i \in 1..L : blocks'[i] = blocks[i]
    BY <1>1, <1>2, <1>3, <1>4 DEF L
  <1>6. /\ n \in Nat /\ align(n) \in Nat /\ n <= align(n) /\ got.chunk \in Nat
    BY <1>2, AlignIs, AddrIs, MallocAssumption
  <1>7. End(b) <= got.heap.head /\ got.chunk <= got.heap.head /\ got.heap.head \in Nat
    BY <1>2, <1>4, <1>6 DEF End, CHUNK
  <1>8. ASSUME NEW i \in 1..L
        PROVE  /\ blocks[i].chunk \notin got.dirty /\ End(blocks[i]) <= got.chunk
               /\ End(blocks[i]) <= got.heap.head
    <2>1. blocks # <<>> /\ i \in 1..Len(blocks)
      BY <1>3 DEF L
    <2>2. End(blocks[i]) <= got.chunk /\ blocks[i].chunk \notin dirty
      BY <1>3, <2>1 DEF Stacked
    <2>3. End(blocks[i]) \in Nat
      BY <1>3, <2>1, BlockEnds
    <2> QED
      BY <1>2, <1>6, <1>7, <2>2, <2>3
  <1>9. ASSUME NEW i \in 1..L + 1
        PROVE  /\ blocks'[i].chunk \notin dirty'
               /\ End(blocks'[i]) <= heap'.head
               /\ \A j \in 1..i - 1 : End(blocks'[j]) <= blocks'[i].chunk
    <2>1. i \in 1..L \/ i = L + 1
      BY <1>3
    <2>2. CASE i \in 1..L
      <3>1. \A j \in 1..i - 1 : End(blocks[j]) <= blocks[i].chunk
        BY <2>2 DEF Stacked, L
      <3>2. \A j \in 1..i - 1 : blocks'[j] = blocks[j]
        BY <1>3, <1>5, <2>2
      <3>3. blocks'[i] = blocks[i]
        BY <1>5, <2>2
      <3> QED
        BY <1>1, <1>8, <2>2, <3>1, <3>2, <3>3
    <2>3. CASE i = L + 1
      <3>1. \A j \in 1..i - 1 : j \in 1..L
        BY <1>3, <2>3
      <3>2. \A j \in 1..i - 1 : End(blocks'[j]) <= got.chunk
        BY <1>5, <1>8, <3>1
      <3> QED
        BY <1>1, <1>2, <1>4, <1>5, <1>7, <2>3, <3>2
    <2> QED
      BY <2>1, <2>2, <2>3
  <1>10. (\A i \in 1..Len(blocks) :
            /\ blocks[i].chunk \notin dirty
            /\ End(blocks[i]) <= heap.head
            /\ \A j \in 1..i - 1 : End(blocks[j]) <= blocks[i].chunk)'
    BY <1>5, <1>9 DEF End
  <1> QED
    BY <1>1, <1>2, <1>10 DEF Stacked

LEMMA FreeStack ==
  ASSUME Types, Stacked, NEW i \in DOMAIN blocks, free(i), i = Len(blocks)
  PROVE  Stacked'
  <1> DEFINE c == blocks[i].chunk
             done == Freed(heap, dirty, c)
             L == Len(blocks)
  <1>1. /\ heap' = done.heap /\ dirty' = dirty /\ status' = done.status
        /\ blocks' = Without(i)
    BY DEF free
  <1>2. /\ blocks \in Seq(Block) /\ blocks # <<>> /\ i \in 1..L /\ L \in Nat
        /\ i = L /\ HeapOK(heap, dirty)
    BY WithoutType DEF Types
  <1>3. heap.head # NULL /\ c \in Addr /\ c \in Nat /\ heap.head \in Nat
    <2>1. heap.head # NULL
      BY <1>2 DEF Types
    <2>2. heap.head \in Addr
      BY <1>2, <2>1, HeapFields DEF HeapOK
    <2> QED
      BY <1>2, <2>1, <2>2, BlockEnds, AddrIs
  <1>4. c \notin dirty /\ c < heap.head
    <2>1. /\ End(blocks[i]) <= heap.head /\ c \notin dirty
      BY <1>2 DEF Stacked
    <2>2. End(blocks[i]) \in Nat /\ c + CHUNK <= End(blocks[i])
      BY <1>2, BlockEnds
    <2> HIDE DEF c
    <2> QED
      BY <1>3, <2>1, <2>2 DEF CHUNK
  <1> HIDE DEF done
  <1>5. done.status = "ok" /\ done.heap.head = c
    BY <1>2, <1>3, <1>4, FreedOK DEF done
  <1>6. Without(i) = SubSeq(blocks, 1, L - 1)
    <2>1. SubSeq(blocks, i + 1, Len(blocks)) = <<>>
      BY <1>2
    <2>2. SubSeq(blocks, 1, i - 1) \in Seq(Block)
      BY <1>2
    <2> QED
      BY <1>2, <2>1, <2>2 DEF Without
  <1>7. /\ Len(blocks') = L - 1 /\ L - 1 \in Nat
        /\ \A j \in 1..L - 1 : blocks'[j] = blocks[j]
    BY <1>1, <1>2, <1>6
  <1>8. ASSUME NEW k \in 1..L - 1
        PROVE  /\ blocks'[k].chunk \notin dirty'
               /\ End(blocks'[k]) <= heap'.head
               /\ \A j \in 1..k - 1 : End(blocks'[j]) <= blocks'[k].chunk
    <2>1. k \in 1..Len(blocks) /\ k \in 1..i - 1
      BY <1>2
    <2>2. /\ blocks[k].chunk \notin dirty
          /\ \A j \in 1..k - 1 : End(blocks[j]) <= blocks[k].chunk
      BY <2>1 DEF Stacked
    <2>3. End(blocks[k]) <= c
      BY <1>2, <2>1 DEF Stacked
    <2>4. blocks'[k] = blocks[k] /\ \A j \in 1..k - 1 : blocks'[j] = blocks[j]
      BY <1>7
    <2> HIDE DEF c
    <2> QED
      BY <1>1, <1>5, <2>2, <2>3, <2>4
  <1>9. (\A k \in 1..Len(blocks) :
           /\ blocks[k].chunk \notin dirty
           /\ End(blocks[k]) <= heap.head
           /\ \A j \in 1..k - 1 : End(blocks[j]) <= blocks[k].chunk)'
    <2> HIDE DEF c, L
    <2> QED
      BY <1>7, <1>8 DEF End
  <1> QED
    BY <1>1, <1>4, <1>5, <1>9 DEF Stacked

LEMMA WriteStack ==
  ASSUME Types, Stacked, NEW i \in DOMAIN blocks, Write(i)
  PROVE  Stacked'
  <1> DEFINE over == Overwritten(blocks[i].chunk, blocks[i].len)
  <1>1. /\ dirty' = dirty \cup over
        /\ blocks' = blocks /\ status' = status
    BY DEF Write
  <1>2. heap'.head = heap.head
    BY WriteTypes
  <1>3. /\ blocks \in Seq(Block) /\ i \in 1..Len(blocks) /\ Len(blocks) \in Nat
    BY WithoutType DEF Types
  <1>4. \A a \in over : a >= blocks[i].chunk + CHUNK /\ a < End(blocks[i]) /\ a \in Nat
    BY AddrIs DEF Overwritten, End
  <1>5. heap.head # NULL => heap.head \in Nat
    BY AddrIs, HeapFields DEF Types, HeapOK
  <1> HIDE DEF over
  <1>6. heap.head # NULL => heap.head \notin over
    <2>1. End(blocks[i]) <= heap.head /\ End(blocks[i]) \in Nat
      BY <1>3, BlockEnds DEF Stacked
    <2> QED
      BY <1>4, <1>5, <2>1
  <1>7. ASSUME NEW j \in 1..Len(blocks) PROVE blocks[j].chunk \notin over
    <2>1. /\ blocks[i].chunk \in Nat /\ blocks[j].chunk \in Nat
          /\ End(blocks[i]) \in Nat /\ End(blocks[j]) \in Nat
          /\ blocks[j].chunk + CHUNK <= End(blocks[j])
      BY <1>3, BlockEnds
    <2>2. CASE j = i
      BY <1>4, <2>1, <2>2 DEF CHUNK
    <2>3. CASE j < i
      <3>1. j \in 1..i - 1
        BY <1>3, <2>3
      <3>2. End(blocks[j]) <= blocks[i].chunk
        BY <1>3, <3>1 DEF Stacked
      <3> QED
        BY <1>4, <2>1, <3>2 DEF CHUNK
    <2>4. CASE i < j
      <3>1. i \in 1..j - 1
        BY <1>3, <2>4
      <3>2. End(blocks[i]) <= blocks[j].chunk
        BY <3>1 DEF Stacked
      <3> QED
        BY <1>4, <2>1, <3>2
    <2> QED
      BY <1>3, <2>2, <2>3, <2>4
  <1>8. \A j \in 1..Len(blocks) : blocks[j].chunk \notin dirty'
    BY <1>1, <1>7 DEF Stacked
  <1> QED
    BY <1>1, <1>2, <1>6, <1>8 DEF Stacked, End

LEMMA StackInvariance == Spec => []StackInv
  <1>1. Init => StackInv
    <2> SUFFICES ASSUME Init PROVE StackInv
      OBVIOUS
    <2>1. Stacked
      BY DEF Init, Stacked
    <2> QED
      BY <2>1, InitTypes DEF StackInv
  <1>2. ASSUME StackInv, [Next]_vars PROVE StackInv'
    <2>1. Types'
      BY <1>2, MallocTypes, FreeTypes, ReallocTypes, WriteTypes
      DEF Next, Lost, StackInv, vars, Types
    <2>2. CASE UNCHANGED vars
      BY <1>2, <2>1, <2>2 DEF vars, StackInv, Stacked, End
    <2>3. ASSUME NEW n \in Sizes, malloc(n) PROVE newestFirst' => Stacked'
      BY <1>2, <2>3, MallocStack DEF StackInv, malloc
    <2>4. ASSUME NEW i \in DOMAIN blocks, free(i) PROVE newestFirst' => Stacked'
      <3>1. newestFirst' => newestFirst /\ i = Len(blocks)
        BY <2>4, Zenon DEF free
      <3> QED
        BY <1>2, <2>4, <3>1, FreeStack DEF StackInv
    <2>5. ASSUME NEW i \in DOMAIN blocks, Write(i) PROVE newestFirst' => Stacked'
      BY <1>2, <2>5, WriteStack DEF StackInv, Write
    <2>6. ASSUME NEW i \in DOMAIN blocks, NEW n \in Sizes, realloc(i, n)
          PROVE  newestFirst' => Stacked'
      BY <2>6 DEF realloc
    <2> QED
      BY <1>2, <2>1, <2>2, <2>3, <2>4, <2>5, <2>6 DEF Next, Lost, StackInv
  <1> QED
    BY <1>1, <1>2, PTL DEF Spec

(* As long as a program frees only its newest block, and never calls       *)
(* realloc(), malloc() gives it memory that no other block in use has,     *)
(* nothing it writes into a block reaches a header that malloc() or free() *)
(* reads, and every search of the list ends.                               *)
THEOREM StackUseIsSafe == Spec => []BlocksDisjoint
  <1>1. StackInv => BlocksDisjoint
    <2> SUFFICES ASSUME StackInv, newestFirst
                 PROVE  /\ status = "ok"
                        /\ \A i \in DOMAIN blocks :
                             /\ heap.head \notin Extent(blocks[i])
                             /\ \A j \in DOMAIN blocks \ {i} :
                                  Extent(blocks[i]) \cap Extent(blocks[j]) = {}
      BY DEF BlocksDisjoint
    <2>1. Types /\ Stacked /\ blocks \in Seq(Block) /\ Len(blocks) \in Nat
          /\ DOMAIN blocks = 1..Len(blocks)
      BY DEF StackInv, Types
    <2>2. ASSUME NEW i \in 1..Len(blocks) PROVE heap.head \notin Extent(blocks[i])
      <3>1. heap.head \in Nat
        BY <2>1, AddrIs, HeapFields DEF Types, HeapOK
      <3>2. End(blocks[i]) <= heap.head /\ End(blocks[i]) \in Nat
        BY <2>1, BlockEnds DEF Stacked
      <3>3. blocks[i].chunk \in Nat
        BY <2>1, BlockEnds
      <3>4. Extent(blocks[i]) = blocks[i].chunk..End(blocks[i]) - 1
        BY <2>1, BlockEnds
      <3> QED
        BY <3>1, <3>2, <3>3, <3>4
    <2>3. ASSUME NEW i \in 1..Len(blocks), NEW j \in 1..i - 1
          PROVE  Extent(blocks[i]) \cap Extent(blocks[j]) = {}
      <3>1. j \in 1..Len(blocks)
        BY <2>1
      <3>2. /\ blocks[i].chunk \in Nat /\ blocks[j].chunk \in Nat
            /\ End(blocks[i]) \in Nat /\ End(blocks[j]) \in Nat
        BY <2>1, <3>1, BlockEnds
      <3>3. End(blocks[j]) <= blocks[i].chunk
        BY <2>1 DEF Stacked
      <3>4. /\ Extent(blocks[i]) = blocks[i].chunk..End(blocks[i]) - 1
            /\ Extent(blocks[j]) = blocks[j].chunk..End(blocks[j]) - 1
        BY <2>1, <3>1, BlockEnds
      <3> QED
        BY <3>2, <3>3, <3>4
    <2>4. ASSUME NEW i \in 1..Len(blocks), NEW j \in 1..Len(blocks), i # j
          PROVE  Extent(blocks[i]) \cap Extent(blocks[j]) = {}
      <3>1. j \in 1..i - 1 \/ i \in 1..j - 1
        BY <2>1, <2>4
      <3> QED
        BY <2>3, <3>1
    <2> QED
      BY <2>1, <2>2, <2>4 DEF Stacked
  <1> QED
    BY <1>1, StackInvariance, PTL
=============================================================================
