------------------------------- MODULE Malloc -------------------------------
(***************************************************************************)
(* The heap of a frosk program (lib/cstd/src/malloc.c): the list of free   *)
(* chunks, and a program that allocates, fills and frees blocks.           *)
(*                                                                         *)
(* Addresses and sizes count 8 bytes, from the (aligned) heap bottom.  A   *)
(* chunk is named by the address of its header, a chunk_t of two such      *)
(* units.  What the program writes into a block overwrites the headers     *)
(* that lie in it: dirty holds them, and their fields, which are then      *)
(* anything, are kept as NULL and 0 because a use of them ends the run.    *)
(***************************************************************************)
EXTENDS Integers, Sequences, FiniteSets

CONSTANTS
  HEAP_SIZE,    \* bound: the real heap, 64 TiB, outlasts the memory
  Sizes,        \* the sizes asked for
  MaxBlocks,    \* bound: blocks in use at a time
  NULL

ASSUME MallocAssumption ==
  /\ HEAP_SIZE \in Nat /\ HEAP_SIZE % 2 = 0
  /\ Sizes \subseteq Nat /\ MaxBlocks \in Nat
  /\ NULL \notin Nat

CHUNK == 2                       \* sizeof(chunk_t)
POINTER == 1                     \* sizeof(chunk), a pointer
Addr == {2 * i : i \in 0..HEAP_SIZE \div 2}

VARIABLES
  heap,      \* [head, next, size]: the list and the fields of the headers
  dirty,
  blocks,    \* the blocks in use, oldest first: [chunk, len]
  status,    \* "ok", "wild" (a dirty header was read) or "hung"
  newestFirst    \* history: only the newest block was ever freed

vars == <<heap, dirty, blocks, status, newestFirst>>

Init ==
  /\ heap = [head |-> NULL, next |-> [a \in Addr |-> NULL],
             size |-> [a \in Addr |-> 0]]
  /\ dirty = Addr
  /\ blocks = <<>>
  /\ status = "ok"
  /\ newestFirst = TRUE

align(n) == n + (n % CHUNK)

CHUNK_TOP(h, c) == c + CHUNK + h.size[c]

(* The k-th chunk of the list, NULL behind its end. *)
Chunk(h, k) ==
  LET walk[i \in Nat] ==
        IF i = 0 THEN h.head
        ELSE LET c == walk[i - 1] IN IF c = NULL THEN NULL ELSE h.next[c]
  IN  walk[k]

Steps == 0..Cardinality(Addr)    \* a walk that takes more goes in circles
Walked(h, k) == {Chunk(h, j) : j \in 0..k}

-----------------------------------------------------------------------------
(* malloc() *)

FirstCall(h) ==
  IF h.head # NULL THEN h
  ELSE [head |-> 0, next |-> [h.next EXCEPT ![0] = NULL],
        size |-> [h.size EXCEPT ![0] = HEAP_SIZE]]

(* The loop of malloc() gets as far as the k-th chunk: the first that is   *)
(* large enough, or whose header is overwritten.                           *)
FitsAt(h, bad, n, k) ==
  /\ \A j \in 0..k : Chunk(h, j) # NULL
  /\ \A j \in 0..k - 1 : h.size[Chunk(h, j)] < n
  /\ Chunk(h, k) \in bad \/ n <= h.size[Chunk(h, k)]

(* *pnext = c, where pnext is that of the k-th chunk *)
SetLink(h, k, c) ==
  IF k = 0 THEN [h EXCEPT !.head = c] ELSE [h EXCEPT !.next[Chunk(h, k - 1)] = c]

(* Fault: the header of the chunk in use is not counted. *)
Broken_short(c, n) == c + n

(* The chunk that is broken off c when n of it are used. *)
Broken(c, n) == c + CHUNK + n

Whole(h, n, k) == h.size[Chunk(h, k)] <= n + CHUNK

(* Fault: the size of the chunk broken off includes its header. *)
Take_size_off(h, n, k) ==
  LET c == Chunk(h, k)
      new == Broken(c, n)
      linked == SetLink(h, k, new)
  IN  IF Whole(h, n, k) THEN SetLink(h, k, h.next[c])
      ELSE [linked EXCEPT !.next[new] = h.next[c], !.size[new] = h.size[c] - n]

(* The k-th chunk is taken, whole or divided.  Its size field stays.       *)
Take(h, n, k) ==
  LET c == Chunk(h, k)
      new == Broken(c, n)
      linked == SetLink(h, k, new)
  IN  IF Whole(h, n, k) THEN SetLink(h, k, h.next[c])
      ELSE [linked EXCEPT !.next[new] = h.next[c],
                          !.size[new] = h.size[c] - n - CHUNK]

-----------------------------------------------------------------------------
(* free() *)

Earliest(h, c) == c < h.head

FreeEarliest(h, c) ==
  IF CHUNK_TOP(h, c) = h.head
  THEN [h EXCEPT !.size[c] = @ + h.size[h.head] + POINTER,
                 !.next[c] = h.next[h.head], !.head = c]
  ELSE [h EXCEPT !.next[c] = h.head, !.head = c]

(* The while loop goes on from the k-th chunk. *)
GoesOn(h, c, k) == Chunk(h, k + 1) # NULL /\ Chunk(h, k + 1) < c

(* The loop stops at the k-th chunk, which becomes the prior one. *)
PriorAt(h, c, k) == (\A j \in 0..k - 1 : GoesOn(h, c, j)) /\ ~GoesOn(h, c, k)

FreeBehind(h, c, prior) ==
  LET after == h.next[prior]
      joined == [h EXCEPT !.size[prior] = @ + POINTER + h.size[c]]
  IN  CASE CHUNK_TOP(h, prior) = c /\ CHUNK_TOP(joined, prior) = after ->
             [joined EXCEPT !.size[prior] = @ + joined.size[after] + CHUNK,
                            !.next[prior] = h.next[after]]
        [] CHUNK_TOP(h, prior) = c /\ CHUNK_TOP(joined, prior) # after -> joined
        [] CHUNK_TOP(h, prior) # c /\ CHUNK_TOP(h, c) = after ->
             [h EXCEPT !.size[c] = @ + h.size[after] + POINTER,
                       !.next = [@ EXCEPT ![c] = h.next[after], ![prior] = c]]
        [] OTHER -> [h EXCEPT !.next = [@ EXCEPT ![c] = after, ![prior] = c]]

(* What free() of chunk c makes of the heap, and how it ends. *)
Freed(h, bad, c) ==
  IF c \in bad THEN [heap |-> h, status |-> "wild"]
  ELSE IF Earliest(h, c) THEN [heap |-> FreeEarliest(h, c), status |-> "ok"]
  ELSE IF \E k \in Steps : PriorAt(h, c, k)
  THEN LET k == CHOOSE i \in Steps : PriorAt(h, c, i) IN
       IF Walked(h, k) \cap bad # {} THEN [heap |-> h, status |-> "wild"]
       ELSE [heap |-> FreeBehind(h, c, Chunk(h, k)), status |-> "ok"]
  ELSE [heap |-> h, status |-> "hung"]
-----------------------------------------------------------------------------
(* The program *)

(* Bound: what is asked for never uses up the heap. *)
Endless(n) == FirstCall(heap).head + CHUNK + align(n) + CHUNK <= HEAP_SIZE

(* What malloc(n) makes of the heap, the chunk it returns, how it ends. *)
Allocated(n) ==
  LET h == FirstCall(heap)
      bad == IF heap.head = NULL THEN dirty \ {0} ELSE dirty
      k == CHOOSE i \in Steps : FitsAt(h, bad, align(n), i)
      c == Chunk(h, k)
  IN  IF Walked(h, k) \cap bad # {}
      THEN [heap |-> heap, dirty |-> dirty, chunk |-> c, status |-> "wild"]
      ELSE [heap |-> Take(h, align(n), k), chunk |-> c, status |-> "ok",
            dirty |-> bad \ (IF Whole(h, align(n), k) THEN {} ELSE {Broken(c, align(n))})]

(* The headers that a write of the first n of the block at c overwrites. *)
Overwritten(c, n) == {a \in Addr : a >= c + CHUNK /\ a < c + CHUNK + n}

Scrubbed(h, as) ==
  [h EXCEPT !.next = [a \in Addr |-> IF a \in as THEN NULL ELSE h.next[a]],
            !.size = [a \in Addr |-> IF a \in as THEN 0 ELSE h.size[a]]]

Without(i) == SubSeq(blocks, 1, i - 1) \o SubSeq(blocks, i + 1, Len(blocks))

malloc(n) ==
  LET got == Allocated(n) IN
  /\ status = "ok"
  /\ Len(blocks) < MaxBlocks /\ Endless(n)
  /\ heap' = got.heap
  /\ dirty' = got.dirty
  /\ status' = got.status
  /\ blocks' = IF got.status = "ok"
               THEN Append(blocks, [chunk |-> got.chunk, len |-> n]) ELSE blocks
  /\ UNCHANGED newestFirst

(* The program frees the i-th block. *)
free(i) ==
  LET done == Freed(heap, dirty, blocks[i].chunk) IN
  /\ status = "ok"
  /\ heap' = done.heap
  /\ status' = done.status
  /\ blocks' = Without(i)
  /\ newestFirst' = (newestFirst /\ i = Len(blocks))
  /\ UNCHANGED dirty

(* The new block is filled from the old one before that is freed. *)
realloc(i, n) ==
  LET old == blocks[i].chunk
      got == Allocated(n)
      copy_size == IF heap.size[old] < n THEN heap.size[old] ELSE n
      over == Overwritten(got.chunk, copy_size)
      done == Freed(Scrubbed(got.heap, over), got.dirty \cup over, old)
  IN
  /\ status = "ok"
  /\ Endless(n)
  /\ newestFirst' = FALSE
  /\ \/ /\ old \in dirty \/ got.status = "wild"
        /\ status' = "wild"
        /\ UNCHANGED <<heap, dirty, blocks>>
     \/ /\ old \notin dirty /\ got.status = "ok"
        /\ heap' = done.heap
        /\ dirty' = got.dirty \cup over
        /\ status' = done.status
        /\ blocks' = Append(Without(i), [chunk |-> got.chunk, len |-> n])

(* The program fills the i-th block. *)
Write(i) ==
  /\ status = "ok"
  /\ LET over == Overwritten(blocks[i].chunk, blocks[i].len) IN
     dirty' = dirty \cup over /\ heap' = Scrubbed(heap, over)
  /\ UNCHANGED <<blocks, status, newestFirst>>

(* After a wild read or an endless loop nothing more is said. *)
Lost == status # "ok" /\ UNCHANGED vars

Next ==
  \/ \E n \in Sizes : malloc(n)
  \/ \E i \in DOMAIN blocks : free(i) \/ Write(i)
  \/ \E i \in DOMAIN blocks, n \in Sizes : realloc(i, n)
  \/ Lost

Spec == Init /\ [][Next]_vars

-----------------------------------------------------------------------------
(* Every chunk that malloc() makes lies at an aligned address of the heap. *)
TypeOK ==
  /\ heap \in [head : Addr \cup {NULL}, next : [Addr -> Addr \cup {NULL}],
               size : [Addr -> 0..HEAP_SIZE]]
  /\ dirty \subseteq Addr
  /\ \A i \in DOMAIN blocks : blocks[i] \in [chunk : Addr, len : Sizes]
  /\ status \in {"ok", "wild", "hung"}
  /\ newestFirst \in BOOLEAN

Extent(b) == b.chunk..b.chunk + CHUNK + b.len - 1

(* In a program that frees only its newest block, blocks in use share no   *)
(* memory, headers included, and the header that malloc() looks at first   *)
(* lies in none of them; so neither malloc() nor free() ever follows a     *)
(* header that the program has overwritten, and every search ends.         *)
BlocksDisjoint ==
  newestFirst =>
    /\ status = "ok"
    /\ \A i \in DOMAIN blocks :
         /\ heap.head \notin Extent(blocks[i])
         /\ \A j \in DOMAIN blocks \ {i} :
              Extent(blocks[i]) \cap Extent(blocks[j]) = {}

(* malloc() does not shrink the chunk it divides, so every header that is  *)
(* intact claims all memory up to the top of the heap: no chunk is ever    *)
(* joined with its neighbour by free().                                    *)
ChunksReachTheTop ==
  TypeOK /\ \A a \in Addr \ dirty : CHUNK_TOP(heap, a) = HEAP_SIZE + CHUNK
=============================================================================
