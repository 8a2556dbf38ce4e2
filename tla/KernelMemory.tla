---------------------------- MODULE KernelMemory ----------------------------
(***************************************************************************)
(* The kernel heap (kernel/src/memory/kernel.c) together with the page     *)
(* allocator (kernel/src/memory/pages.c).  The two call each other: kalloc *)
(* replaces its staged page with alloc_pgs, alloc_pgs gives the descriptor *)
(* of an exhausted range back with kfree, and free_pgs gets a new one with *)
(* kalloc.  Every call runs to its end before the next one starts.         *)
(*                                                                         *)
(* Sizes and addresses count units of sizeof(chunk_t), 16 bytes.  A chunk  *)
(* or a block is named by the address of its header; 0 is NULL.  Both      *)
(* allocators are the record mem:                                          *)
(*   head, staged   the pointers of kernel.c, and prev, kalloc's local     *)
(*   hdr            the chunk headers in memory, [size, next]              *)
(*   heads          the two list heads of pages.c                          *)
(*   ent            the pages_t descriptors, [addr, size, next]            *)
(*   own            the physical pages of the heap and of page tables      *)
(*   ret            what the last call returned                            *)
(*   top            what became of the descriptor heads[] points to:       *)
(*                  "kept", "freed" or "overwritten"                       *)
(*   st             "up"; "halted", an assertion failed; "astray", a value *)
(*                  that is no pointer was used as one; "hung", a search   *)
(*                  never ends; "merged", a chunk that kfree had merged    *)
(*                  into another was written as if it were on the list;    *)
(*                  "freed", the heads[] descriptor was used after it was  *)
(*                  freed.  The model ends in all but the first.           *)
(*                                                                         *)
(* kfree may merge the chunk head points to into another, and alloc_pgs    *)
(* may free the descriptor heads[] points to.  Neither pointer is moved:   *)
(* both allocators run on with what is left in that memory.                *)
(***************************************************************************)
EXTENDS Integers, SequencesExt, FiniteSetsExt

CONSTANTS
  PAGE_SIZE, KMEM_START, DEF_STACK_LOC, HIGH_HALF_BOT, HALF_SIZE,
  MemoryMaps,    \* what the boot loader may find: sequences of [base, size, type]
  Slot, Holder,  \* users of kalloc, and users of physical pages
  KSizes,        \* the sizes passed to kalloc
  FrameSizes,    \* the sizes of regions, whole pages
  LoadSizes,     \* the sizes of programs that are loaded
  MaxCalls,      \* bound: calls made by those users
  VirtReserve    \* bound: kernel address space that stays free

NULL == 0
INVALID_PAGE == -1
ADJ_PAGE_SIZE == PAGE_SIZE - 1
DescriptorSize == 2   \* sizeof(pages_t) is 24 bytes, which kalloc rounds up

floor(x) == (x \div PAGE_SIZE) * PAGE_SIZE
align(x) == floor(x + PAGE_SIZE - 1)

\* How much of a region of the memory map is given up at its start.
diff(r) == (IF r.base < DEF_STACK_LOC THEN DEF_STACK_LOC ELSE 0)
           + (IF r.base % PAGE_SIZE # 0 THEN PAGE_SIZE - (r.base % PAGE_SIZE) ELSE 0)

Usable(mm) == SelectSeq(mm, LAMBDA r : r.type = 1 /\ r.size > diff(r))

\* The descriptors of the memory map fit in the first page of the heap.
ASSUME MemoryAssumption ==
  /\ KMEM_START > 0 /\ HIGH_HALF_BOT > KMEM_START + 2 * PAGE_SIZE
  /\ \A x \in {KMEM_START, DEF_STACK_LOC, HIGH_HALF_BOT, HALF_SIZE} : floor(x) = x
  /\ \A mm \in MemoryMaps : (Len(Usable(mm)) + 1) * (DescriptorSize + 1) <= PAGE_SIZE

VARIABLES
  map,     \* the memory map of this machine
  mem,     \* both allocators
  block,   \* block[s]: the block slot s got from kalloc, or NULL
  frames,  \* frames[s]: the physical range s got from alloc_pgs, or <<>>
  temp,    \* the virtual range in use while a program is loaded, or <<>>
  calls,   \* how many calls were made, up to MaxCalls
  paged    \* history: a request of a whole page or more was made of kalloc

vars == <<map, mem, block, frames, temp, calls, paged>>

-----------------------------------------------------------------------------
(* Every operator takes the allocators before a call to what they are after *)
(* it.  The lists are circular: a loop visits them in the order of Walk.    *)

RECURSIVE Walk(_, _, _)
Walk(f, a, path) ==
  IF a \notin DOMAIN f \/ a \in Range(path) THEN path
  ELSE Walk(f, f[a].next, Append(path, a))

\* The place in path of the first node that fits, or 0.
First(path, Fits(_)) ==
  LET S == {i \in DOMAIN path : Fits(path[i])} IN IF S = {} THEN 0 ELSE Min(S)

\* prev at the i-th node of a search, which starts behind start.
Before(start, path, i) == IF i = 1 THEN start ELSE path[i - 1]

Stop(m, why) == [m EXCEPT !.st = why, !.ret = NULL]

\* The free list of the heap, in the order of a search.  A chunk that head points
\* to and that was merged into another is not on it.
FreeList(m) == IF m.head = NULL THEN <<>> ELSE Walk(m.hdr, m.hdr[m.head].next, <<>>)

OnList(m, ck) == ck \in Range(FreeList(m))

\* Fault: the header between the two is not counted.
Merged_short(a, b) == a + b

\* Two neighbours become one chunk; the header between them is free memory too.
Merged(a, b) == a + b + 1

kfree(m, ck) ==
  LET path == FreeList(m)
      after(it)  == it = ck + 1 + m.hdr[ck].size
      before(it) == ck = it + 1 + m.hdr[it].size
      i == First(path, LAMBDA it : after(it) \/ before(it))
      it == path[i]
      prev == Before(m.head, path, i)
      linked == [m.hdr EXCEPT ![prev].next = ck]
  IN  IF m.head = NULL THEN [m EXCEPT !.head = ck, !.hdr[ck].next = ck]
      ELSE IF i = 0 THEN
        IF OnList(m, m.head)
        THEN [m EXCEPT !.hdr[ck].next = m.hdr[m.head].next, !.hdr[m.head].next = ck]
        ELSE Stop(m, "hung")
      ELSE IF after(it) THEN
        [m EXCEPT !.hdr = [linked EXCEPT ![ck] =
                             [size |-> Merged(@.size, m.hdr[it].size), next |-> linked[it].next]],
                  !.st = IF OnList(m, prev) THEN @ ELSE "merged"]
      ELSE [m EXCEPT !.hdr[it].size = Merged(@, m.hdr[ck].size)]

LargeEnough(pg, size) == pg.size >= size

\* Fault: pages are taken from the start of the range.
TakenFrom_start(pg, size) == pg.addr

\* Pages are taken from the end of a range, which keeps its address.
TakenFrom(pg, size) == pg.addr + pg.size - size

\* Lines 73 to 76; the descriptor heads[] points to is freed like any other.
TakeRange(m, type, prev, pg) ==
  LET k == kfree([m EXCEPT !.ent[prev].next = m.ent[pg].next,
                           !.top[type] = IF pg = m.heads[type] THEN "freed" ELSE @], pg)
  IN  IF k.st = "up" THEN [k EXCEPT !.ret = m.ent[pg].addr] ELSE k

alloc_pgs(m, wanted, type) ==
  LET size == align(wanted)
      hd == m.heads[type]
      path == Walk(m.ent, m.ent[hd].next, <<>>)
      i == First(path, LAMBDA p : LargeEnough(m.ent[p], size))
      pg == path[i]
      prev == Before(hd, path, i)
      exact == m.ent[pg].size = size
  IN  IF m.st # "up" THEN m
      ELSE IF m.top[type] = "overwritten" THEN Stop(m, "freed")
      ELSE IF i = 0 THEN
        IF hd \in Range(path) THEN [m EXCEPT !.ret = INVALID_PAGE] ELSE Stop(m, "hung")
      ELSE IF m.top[type] = "freed" /\ (pg = hd \/ (exact /\ prev = hd)) THEN
        [m EXCEPT !.ret = TakenFrom(m.ent[pg], size), !.st = "freed"]
      ELSE IF exact THEN TakeRange(m, type, prev, pg)
      ELSE [m EXCEPT !.ent[pg].size = @ - size, !.ret = TakenFrom(m.ent[pg], size)]

Owns(m, size, use) == [m EXCEPT !.own = Append(@, <<m.ret, size, use>>)]

\* Pages for the heap: a virtual range, a physical one and the mapping, for
\* which a page table may be missing.
WithTable(m, virt) ==
  IF m.st = "up" /\ m.ret = INVALID_PAGE THEN Stop(m, "astray")
  ELSE [Owns(m, PAGE_SIZE, "table") EXCEPT !.ret = virt]

Backed(m, virt, size, missing) ==
  CASE m.st # "up" -> m
    [] m.st = "up" /\ m.ret = INVALID_PAGE -> Stop(m, "halted")
    [] m.st = "up" /\ m.ret # INVALID_PAGE /\ ~missing ->
         [Owns(m, size, "heap") EXCEPT !.ret = virt]
    [] OTHER -> WithTable(alloc_pgs(Owns(m, size, "heap"), PAGE_SIZE, "phys"), virt)

MapPages(m, size, missing) ==
  LET v == alloc_pgs(m, size, "virt")
  IN  Backed(alloc_pgs(v, size, "phys"), v.ret, size, missing)

Staged(m) ==
  IF m.st # "up" THEN m
  ELSE [m EXCEPT !.staged = m.ret,
                 !.hdr = (m.ret :> [size |-> ADJ_PAGE_SIZE, next |-> NULL]) @@ @]

stage_new_page(m, missing) == Staged(MapPages(m, PAGE_SIZE, missing))

\* Fault: the header of what is left is not counted.
CutAt_low(h, left) == h + left

\* The block handed out is the upper end of the chunk, header first.
CutAt(h, left) == h + 1 + left

\* Lines 127 to 150: the chunk at head is handed out, as a whole or in part.
Take(m, size) ==
  LET h == m.head
      left == m.hdr[h].size - size - 1
  IN  CASE m.st # "up" -> m
        [] m.st = "up" /\ left = -1 ->
             IF m.prev = h THEN [m EXCEPT !.head = NULL, !.ret = h]
             ELSE [m EXCEPT !.head = m.hdr[h].next, !.hdr[m.prev].next = m.hdr[h].next, !.ret = h]
        [] m.st = "up" /\ left < -1 -> Stop(m, "halted")
        [] OTHER -> [m EXCEPT !.hdr = (CutAt(h, left) :> [size |-> size, next |-> NULL])
                                      @@ [@ EXCEPT ![h].size = left],
                              !.ret = CutAt(h, left)]

\* Lines 79 to 95: whole pages of their own.  prev has no value on this path,
\* and head is taken to point to a chunk.
TakeNew(m, adj, size) ==
  CASE m.st # "up" -> m
    [] m.st = "up" /\ (m.head = NULL \/ adj - 1 = size) -> Stop(m, "astray")
    [] OTHER ->
         Take([m EXCEPT !.hdr = (m.ret :> [size |-> adj - 1, next |-> @[@[m.head].next].next])
                                @@ [@ EXCEPT ![m.head].next = m.ret],
                        !.head = m.ret], size)

\* The staged page may have been merged into another chunk while its successor
\* was fetched, and so may the chunk prev points to, or head before the search.
UsesMerged(m, size) ==
  \/ ~OnList(m, m.head)
  \/ m.hdr[m.head].size = size /\ ~OnList(m, m.prev)

\* A freed descriptor keeps its contents until its memory is handed out again.
\* From then on heads stands for what is left of the list, to count it.
Overwrite(m, a) ==
  LET over == {t \in DOMAIN m.top : /\ m.top[t] = "freed"
                                    /\ a <= m.heads[t] + DescriptorSize
                                    /\ m.heads[t] < a + 1 + m.hdr[a].size}
      rest(d) == IF m.ent[d].next = d THEN NULL ELSE m.ent[d].next
  IN  [m EXCEPT !.top = [t \in DOMAIN @ |-> IF t \in over THEN "overwritten" ELSE @[t]],
                !.heads = [t \in DOMAIN @ |-> IF t \in over THEN rest(@[t]) ELSE @[t]]]

TakeListed(m, size) ==
  LET t == Take(m, size)
  IN  IF t.st # "up" THEN t
      ELSE [Overwrite(t, t.ret) EXCEPT !.st = IF UsesMerged(m, size) THEN "merged" ELSE @]

BigAlloc(m, size, missing) ==
  LET adj == align(size + 1) IN TakeNew(MapPages(m, adj, missing), adj, size)

\* Fault: the staged page does not join the list.
AddStaged_unused(m, first, last) == [m EXCEPT !.head = first, !.prev = last]

\* Lines 107 to 112: no chunk is large enough, the staged page joins the list.
AddStaged(m, first, last) ==
  [m EXCEPT !.head = m.staged, !.prev = last,
            !.hdr[m.staged].next = m.hdr[first].next, !.hdr[first].next = m.staged]

kalloc(m, size, missing) ==
  LET path == FreeList(m)
      i == First(path, LAMBDA c : m.hdr[c].size >= size)
  IN  IF size > ADJ_PAGE_SIZE THEN BigAlloc(m, size, missing)
      ELSE IF m.head = NULL THEN
        TakeListed(stage_new_page([m EXCEPT !.head = m.staged, !.prev = m.staged,
                                            !.hdr[m.staged].next = m.staged], missing), size)
      ELSE IF i = 0 THEN
        TakeListed(stage_new_page(AddStaged(m, path[1], Last(path)), missing), size)
      ELSE TakeListed([m EXCEPT !.head = path[i], !.prev = Before(m.head, path, i)], size)

\* A new descriptor behind the head of its list.
Describe(m, type, addr, size) ==
  LET hd == m.heads[type]
      pg(next) == m.ret :> [addr |-> addr, size |-> size, next |-> next]
  IN  CASE m.st # "up" -> m
        [] m.st = "up" /\ hd = NULL -> [m EXCEPT !.heads[type] = m.ret, !.ent = pg(m.ret) @@ @]
        [] OTHER -> [m EXCEPT !.ent = pg(m.ent[hd].next) @@ [@ EXCEPT ![hd].next = m.ret]]

AddRange(m, type, addr, size, missing) ==
  Describe(kalloc(m, DescriptorSize, missing), type, addr, size)

\* Called for virtual ranges only (scheduler.c): the one call that would give
\* physical pages back is in destroy of region.c, which nothing calls.
free_pgs(m, addr, wanted, type, missing) ==
  LET size == floor(wanted)
      path == Walk(m.ent, m.ent[m.heads[type]].next, <<>>)
      end(pg) == m.ent[pg].addr + m.ent[pg].size
      i == First(path, LAMBDA pg : end(pg) = addr \/ addr + size = m.ent[pg].addr)
  IN  IF i = 0 THEN AddRange(m, type, addr, size, missing)
      ELSE [m EXCEPT !.ent[path[i]] = [@ EXCEPT !.size = @ + size,
                                                !.addr = IF end(path[i]) = addr THEN @ ELSE addr]]

setup_kernel_memory ==
  [head |-> KMEM_START, staged |-> KMEM_START + PAGE_SIZE, prev |-> NULL,
   hdr |-> (KMEM_START :> [size |-> ADJ_PAGE_SIZE, next |-> KMEM_START])
           @@ (KMEM_START + PAGE_SIZE :> [size |-> ADJ_PAGE_SIZE, next |-> NULL]),
   heads |-> [t \in {"phys", "virt"} |-> NULL], ent |-> <<>>, 
   top |-> [t \in {"phys", "virt"} |-> "kept"],
   own |-> <<>>, ret |-> NULL, st |-> "up"]

setup_pages(mm) ==
  AddRange(FoldLeft(LAMBDA m, r : AddRange(m, "phys", r.base + diff(r), floor(r.size - diff(r)), FALSE),
                    setup_kernel_memory, Usable(mm)),
           "virt", HIGH_HALF_BOT, HALF_SIZE, FALSE)

-----------------------------------------------------------------------------
(* The rest of the kernel uses the two allocators in any order. *)

Live == {block[s] : s \in Slot} \ {NULL}

\* The descriptors on a list.  One that heads[] points to and that was freed is
\* none, though it may still point to itself.
Lists(m, t) ==
  IF m.heads[t] = NULL THEN {}
  ELSE Range(Walk(m.ent, m.ent[m.heads[t]].next, <<>>))
         \ (IF m.top[t] = "freed" THEN {m.heads[t]} ELSE {})
Descriptors(m) == Lists(m, "phys") \cup Lists(m, "virt")

\* What no pointer leads to any more is forgotten.
Settled(m, live) ==
  LET ring == Range(FreeList(m)) \cup ({m.head} \ {NULL})
      kept == ring \cup Descriptors(m) \cup live \cup {m.staged}
  IN  [m EXCEPT !.hdr = [a \in DOMAIN @ \cap kept |->
                           IF a \in ring THEN @[a] ELSE [@[a] EXCEPT !.next = NULL]],
                !.ent = [a \in Descriptors(m) \cup (Range(m.heads) \ {NULL}) |-> @[a]],
                !.ret = NULL, !.prev = NULL]

Init ==
  /\ map \in MemoryMaps
  /\ mem = Settled(setup_pages(map), {})
  /\ block = [s \in Slot |-> NULL]
  /\ frames = [s \in Holder |-> <<>>]
  /\ temp = <<>>
  /\ calls = 0
  /\ paged = FALSE

Kalloc(s, n) ==
  /\ block[s] = NULL
  /\ \E m \in {kalloc(mem, n, missing) : missing \in BOOLEAN} :
       /\ block' = [block EXCEPT ![s] = IF m.st \in {"up", "merged"} THEN m.ret ELSE NULL]
       /\ mem' = Settled(m, Live \cup ({block'[s]} \ {NULL}))
  /\ paged' = (paged \/ n >= ADJ_PAGE_SIZE)
  /\ UNCHANGED <<frames, temp>>

Kfree(s) ==
  /\ block[s] # NULL
  /\ block' = [block EXCEPT ![s] = NULL]
  /\ mem' = Settled(kfree(mem, block[s]), Live \ {block[s]})
  /\ UNCHANGED <<frames, temp, paged>>

\* alloc_block in region.c.
AllocFrames(s, n) ==
  /\ frames[s] = <<>>
  /\ \E m \in {alloc_pgs(mem, n, "phys")} :
       /\ frames' = [frames EXCEPT ![s] = IF m.st \in {"up", "freed"} /\ m.ret \notin {INVALID_PAGE, NULL}
                                          THEN <<m.ret, n>> ELSE <<>>]
       /\ mem' = Settled(m, Live)
  /\ UNCHANGED <<block, temp, paged>>

\* uspawn borrows a virtual range of a size that is not rounded, allocates
\* from the heap, and gives the range back with that same size.
BorrowVirtual(n) ==
  /\ temp = <<>>
  /\ \E m \in {alloc_pgs(mem, n, "virt")} :
       temp' = <<m.ret, n>> /\ mem' = Settled(m, Live)
  /\ UNCHANGED <<block, frames, paged>>

ReturnVirtual ==
  /\ temp # <<>>
  /\ \E m \in {free_pgs(mem, temp[1], temp[2], "virt", missing) : missing \in BOOLEAN} :
       mem' = Settled(m, Live)
  /\ temp' = <<>>
  /\ UNCHANGED <<block, frames, paged>>

\* The kernel half of the address space is never used up.
Next ==
  /\ mem.st = "up"
  /\ calls < MaxCalls /\ calls' = calls + 1
  /\ \/ \E s \in Slot, n \in KSizes : Kalloc(s, n)
     \/ \E s \in Slot : Kfree(s)
     \/ \E s \in Holder, n \in FrameSizes : AllocFrames(s, n)
     \/ \E n \in LoadSizes : BorrowVirtual(n)
     \/ ReturnVirtual
  /\ mem'.ent[mem'.heads["virt"]].size >= VirtReserve
  /\ UNCHANGED map

Spec == Init /\ [][Next]_vars

-----------------------------------------------------------------------------
FreeChunks == Range(FreeList(mem))
Pieces == FreeChunks \cup Live \cup Descriptors(mem) \cup {mem.staged}

\* Type invariant.
TypeOK ==
  /\ mem.st \in {"up", "halted", "astray", "hung", "merged", "freed"}
  /\ \A a \in DOMAIN mem.hdr : mem.hdr[a].size \in Nat /\ mem.hdr[a].next \in Nat
  /\ \A a \in DOMAIN mem.ent : mem.ent[a].addr \in Nat /\ mem.ent[a].size \in Nat
  /\ block \in [Slot -> Nat]

\* No two owners of heap memory overlap: the free chunks, the blocks kalloc has
\* handed out, the descriptors of the page lists and the staged page are apart,
\* and no block is handed out twice (kernel.c 69-189, pages.c 76 and 117).  This
\* goes on after kfree has merged the chunk head points to into another (lines
\* 168-173), until that chunk is written as if it were on the list ("merged":
\* an exact fit right behind head leaves the block it hands out on the list,
\* lines 127-135) or a descriptor of pages is used after it was freed ("freed").
BlocksApart ==
  /\ TypeOK
  /\ mem.st = "up" =>
       /\ \A a, b \in Pieces : a < b => a + mem.hdr[a].size < b
       /\ FreeChunks \cap (Live \cup Descriptors(mem) \cup {mem.staged}) = {}
       /\ Live \cap (Descriptors(mem) \cup {mem.staged}) = {}
       /\ \A s, t \in Slot : s # t /\ block[s] # NULL => block[s] # block[t]

\* Requests of less than a page lose no memory: splitting, merging, staging and
\* the calls the two allocators make of each other keep every unit of every page
\* the heap was given in a piece (kernel.c 96-146, 160-188), up to the same uses
\* of a merged chunk or a freed descriptor.
NothingLost ==
  mem.st = "up" /\ ~paged =>
    FoldSet(LAMBDA a, n : n + 1 + mem.hdr[a].size, 0, Pieces)
      = 2 * PAGE_SIZE + FoldLeft(LAMBDA n, o : n + (IF o[3] = "heap" THEN o[2] ELSE 0), 0, mem.own)

Pages(addr, size) == addr .. addr + size - 1

\* Physical memory has one owner: the free ranges, the pages of the heap and of
\* the page tables and the pages of the regions are apart, and all of them are
\* usable memory of the map above the boot stack (pages.c 19-122).  An exact fit
\* of the descriptor heads[] points to breaks nothing yet; using that descriptor
\* afterwards does ("freed": pages.c 73-76 hands the same range out again).
FramesApart ==
  LET free == {Pages(mem.ent[d].addr, mem.ent[d].size) : d \in Lists(mem, "phys")}
      held == {Pages(frames[s][1], frames[s][2]) : s \in {s \in Holder : frames[s] # <<>>}}
      own  == {Pages(mem.own[i][1], mem.own[i][2]) : i \in DOMAIN mem.own}
      all  == UNION (free \cup held \cup own)
      Total(S) == FoldSet(LAMBDA R, n : n + Cardinality(R), 0, S)
  IN  mem.st = "up" =>
        /\ all \subseteq UNION {Pages(r.base, r.size) : r \in {r \in Range(map) : r.type = 1}}
                           \ (0 .. DEF_STACK_LOC - 1)
        /\ Cardinality(all) = Total(free) + Total(held) + FoldLeft(LAMBDA n, o : n + o[2], 0, mem.own)

\* No assertion fails (kernel.c 61-62, 85-86, 139) and no value that is not a
\* pointer is used as one as long as a range of the size asked for is left; only
\* a request of more than a page that meets an empty list or fits its pages
\* exactly goes astray all the same (kernel.c 79-95).  The uses of a merged chunk
\* or of a freed descriptor, and the searches that never end after them, are
\* not counted here: they are the states "merged", "freed" and "hung".
StopsOnlyWithoutMemory ==
  mem.st \in {"halted", "astray"} =>
    \/ \A d \in Lists(mem, "phys") :
         mem.ent[d].size < IF paged THEN align(Max(KSizes) + 1) ELSE PAGE_SIZE
    \/ mem.st = "astray" /\ paged
=============================================================================
