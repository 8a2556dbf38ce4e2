---------------------------- MODULE AddressSpace ----------------------------
(***************************************************************************)
(* The user half of the address space of the frosk kernel: the code and    *)
(* stack regions of kernel/src/memory/region.c, the page faults that grow  *)
(* them (kernel/src/paging.c), and the swapflops by which yield() replaces *)
(* those of one thread by those of another.                                *)
(*                                                                         *)
(* Addresses are counted in pages.  The pages from Bot (USPACE_BOT) to Top *)
(* (LOW_HALF_TOP) belong to user space; those below Bot are mapped for the *)
(* kernel once and for all.  A block list is the function from the pages   *)
(* of its blocks to their frames; code regions grow up, stacks grow down.  *)
(*                                                                         *)
(* Frames are numbered in pages too.  phys is what alloc_pgs works on: the *)
(* ranges of free physical pages in the order of its search, the one that  *)
(* heads[] points to last, and what became of that last descriptor: "kept",*)
(* "freed" by an exact fit, or "used" again after that.  Frames for the    *)
(* kernel's heap and for page tables are the subject of KernelMemory.tla.  *)
(***************************************************************************)
EXTENDS Integers, Sequences

CONSTANTS
  Thread,      \* the threads kalloc can hand out
  Memory,      \* what setup_pages may find: sequences of [addr, size]
  Bot, Top,    \* USPACE_BOT and LOW_HALF_TOP
  CodeSizes,   \* the sizes of programs
  NULL, INVALID_PAGE

Half == Top \div 2
Page == Bot..Top - 1

Region == {"code", "stack"} \X Thread

ASSUME SpaceAssumption ==
  /\ Bot \in Nat /\ Top \in Nat /\ Bot < Half /\ Half + 2 <= Top
  /\ CodeSizes \subseteq 1..Half - Bot
  /\ NULL \notin Thread /\ NULL \notin Nat /\ INVALID_PAGE \notin Nat
  /\ NULL # INVALID_PAGE /\ NULL \notin Region

PageRange == [addr : Nat, size : Nat]
Frames(pg) == pg.addr .. pg.addr + pg.size - 1
Available(list) == UNION {Frames(list[i]) : i \in DOMAIN list}

ASSUME MemoryAssumption ==
  \A l \in Memory :
    /\ l \in Seq(PageRange) /\ l # <<>>
    /\ \A i, j \in DOMAIN l : i # j => Frames(l[i]) \cap Frames(l[j]) = {}

Code(t)  == <<"code", t>>
Stack(t) == <<"stack", t>>

VARIABLES
  made,      \* the threads there are
  kthrd,     \* those made by kspawn, which have no code region
  size,      \* per region
  block,     \* per region: page -> frame, or NULL outside its blocks
  phys,      \* the physical pages: [list, top]
  in,        \* the regions that are swapped in
  page,      \* the page table: page -> frame, or NULL if not present
  cur_thrd,
  resumed,   \* history: the page whose fault was handled last, or NULL
  st         \* "up"; "failed", an assertion; "looping", page_fault never returns

vars == <<made, kthrd, size, block, phys, in, page, cur_thrd, resumed, st>>

(* A page that may have been handed out before is written to by two owners *)
(* from the next step on, which may be the kernel's heap or a page table:  *)
(* the model ends.                                                         *)
Running == st = "up" /\ phys.top # "used"

growup(r) == r[1] = "code"
virt(r) == IF growup(r) THEN Bot ELSE Top

region_lower(r) == IF growup(r) THEN virt(r) ELSE virt(r) - size[r]
region_upper(r) == IF growup(r) THEN virt(r) + size[r] ELSE virt(r)

in_region(r, p) == region_lower(r) <= p /\ p < region_upper(r)

(* Fault: the range keeps its size. *)
Shrunk_none(pg, n) == pg

(* Pages are taken from the end of a range.  A descriptor that is used up  *)
(* and freed is one of size 0 here, which never fits again.                *)
Shrunk(pg, n) == [pg EXCEPT !.size = @ - n]

(* The ranges large enough for n pages, and the first of them.             *)
Fits(list, n) == {i \in DOMAIN list : list[i].size >= n}
FirstFit(list, n) == {i \in Fits(list, n) : \A j \in Fits(list, n) : i <= j}

Taken(ph, n, i) ==
  [first |-> ph.list[i].addr + ph.list[i].size - n,
   phys  |-> [list |-> [ph.list EXCEPT ![i] = Shrunk(@, n)],
              top  |-> IF i = Len(ph.list) /\ ph.list[i].size = n THEN "freed" ELSE ph.top]]

(* What alloc_pgs may do when it is asked for n pages in a row.  heads[]   *)
(* still points to its descriptor after that was used up and freed: the    *)
(* range is handed out once more, or what the heap put there since is      *)
(* taken for one.                                                          *)
alloc_pgs(ph, n) ==
  IF ph.top # "kept"
  THEN {[first |-> x, phys |-> [ph EXCEPT !.top = "used"]] :
          x \in (UNION {Available(l) : l \in Memory}) \cup {INVALID_PAGE}}
  ELSE IF Fits(ph.list, n) = {} THEN {[first |-> INVALID_PAGE, phys |-> ph]}
  ELSE {Taken(ph, n, i) : i \in FirstFit(ph.list, n)}

-----------------------------------------------------------------------------
(* Processes are made by uspawn and kspawn.  While they are filled, their  *)
(* regions are at pages of the kernel's half; in the end they are swapped  *)
(* out and at their places here.                                           *)

(* One block of n pages from page lo on, at frame first. *)
Blocks(lo, n, first) ==
  [p \in Page |-> IF lo <= p /\ p < lo + n THEN first + (p - lo) ELSE NULL]

(* The pages of a block are mapped and written to at once.  With no frame  *)
(* to map, that write is a fault of the kernel's own, and page_fault loops.*)
NoFrame(a) == a.first = INVALID_PAGE

kspawn(t) ==
  /\ Running
  /\ t \notin made
  /\ \E g \in alloc_pgs(phys, 2) :
       /\ phys' = g.phys
       /\ \/ /\ NoFrame(g)
             /\ st' = "looping"
             /\ UNCHANGED <<made, kthrd, size, block>>
          \/ /\ ~NoFrame(g)
             /\ size' = [size EXCEPT ![Stack(t)] = 2]
             /\ block' = [block EXCEPT ![Stack(t)] = Blocks(Top - 2, 2, g.first)]
             /\ made' = made \cup {t}
             /\ kthrd' = kthrd \cup {t}
             /\ UNCHANGED st
  /\ UNCHANGED <<in, page, cur_thrd, resumed>>

uspawn(t) ==
  /\ Running
  /\ t \notin made
  /\ \E n \in CodeSizes : \E f \in alloc_pgs(phys, n) :
       \/ /\ NoFrame(f)
          /\ phys' = f.phys /\ st' = "looping"
          /\ UNCHANGED <<made, size, block>>
       \/ /\ ~NoFrame(f)
          /\ \E g \in alloc_pgs(f.phys, 2) :
               /\ phys' = g.phys
               /\ \/ /\ NoFrame(g)
                     /\ st' = "looping"
                     /\ UNCHANGED <<made, size, block>>
                  \/ /\ ~NoFrame(g)
                     /\ size' = [size EXCEPT ![Code(t)] = n, ![Stack(t)] = 2]
                     /\ block' = [block EXCEPT ![Code(t)] = Blocks(Bot, n, f.first),
                                               ![Stack(t)] = Blocks(Top - 2, 2, g.first)]
                     /\ made' = made \cup {t}
                     /\ UNCHANGED st
  /\ UNCHANGED <<kthrd, in, page, cur_thrd, resumed>>

-----------------------------------------------------------------------------
(* Task switches.  A mapping is the pair of the list in and the page table.*)

overlap(x, y) ==
  /\ region_lower(x) < region_lower(y)
  /\ region_upper(x) > region_lower(y)

swapin(m, r) ==
  IF \E s \in m.in : overlap(r, s) THEN m
  ELSE [in |-> m.in \cup {r},
        page |-> [p \in Page |-> IF block[r][p] # NULL THEN block[r][p]
                                 ELSE m.page[p]]]

(* Fault: the pages stay mapped. *)
swapout_mapped(m, r) == [in |-> m.in \ {r}, page |-> m.page]

swapout(m, r) ==
  [in |-> m.in \ {r},
   page |-> [p \in Page |-> IF block[r][p] # NULL THEN NULL ELSE m.page[p]]]

swapflop(m, old, new) ==
  LET between == IF old = NULL THEN m ELSE swapout(m, old)
  IN  IF new = NULL THEN between ELSE swapin(between, new)

CodeOf(t)  == IF t = NULL \/ t \in kthrd THEN NULL ELSE Code(t)
StackOf(t) == IF t = NULL THEN NULL ELSE Stack(t)

(* What yield() does to the address space when it switches to thread t.    *)
(* swapout asserts that its region is in the list.                         *)
yield(t) ==
  LET old == {CodeOf(cur_thrd), StackOf(cur_thrd)} \ {NULL}
      flop1 == swapflop([in |-> in, page |-> page],
                        CodeOf(cur_thrd), CodeOf(t))
      flop2 == swapflop(flop1, StackOf(cur_thrd), StackOf(t))
  IN  /\ Running
      /\ t \in made /\ t # cur_thrd
      /\ st' = IF old \subseteq in THEN "up" ELSE "failed"
      /\ in' = flop2.in
      /\ page' = flop2.page
      /\ cur_thrd' = t
      /\ resumed' = NULL
      /\ UNCHANGED <<made, kthrd, size, block, phys>>

-----------------------------------------------------------------------------
(* Page faults.                                                            *)

(* The size that grow() gives region r, and its assertions: the region     *)
(* grows in its own direction, and never shrinks.                          *)
GrownTo(r, to) == IF growup(r) THEN to - virt(r) ELSE virt(r) - to
grow_asserts(r, to) == GrownTo(r, to) >= 0 /\ size[r] < GrownTo(r, to)

(* Fault: whatever is not on the stack is presumed heap. *)
Owner_heap(p) == IF in_region(Stack(cur_thrd), p) THEN Stack(cur_thrd)
                 ELSE Code(cur_thrd)

(* Fault: the heap is grown to the start of the page. *)
GrowEnd_short(p) == p

(* The region page_fault() puts page p into, and the end it grows it to.   *)
Owner(p) == IF in_region(Stack(cur_thrd), p) THEN Stack(cur_thrd)
            ELSE IF in_region(Code(cur_thrd), p) \/ p < Half
            THEN Code(cur_thrd) ELSE Stack(cur_thrd)
GrowEnd(p) == IF p < Half THEN p + 1 ELSE p

(* Fault: the block is added but not mapped. *)
assure_unmapped(r, p) ==
  IF block[r][p] # NULL
  THEN UNCHANGED <<block, page, phys>>
  ELSE \E f \in alloc_pgs(phys, 1) :
         /\ block' = [block EXCEPT ![r][p] = f.first]
         /\ phys' = f.phys
         /\ UNCHANGED page

(* assure() of page p of region r, once p is in r.  What alloc_pgs returns *)
(* is mapped unseen, INVALID_PAGE too.                                     *)
assure(r, p) ==
  IF block[r][p] # NULL
  THEN UNCHANGED <<block, page, phys>>
  ELSE \E f \in alloc_pgs(phys, 1) :
         /\ block' = [block EXCEPT ![r][p] = f.first]
         /\ page' = [page EXCEPT ![p] = f.first]
         /\ phys' = f.phys

(* A user thread writes to a page that is not present. *)
page_fault(p) ==
  LET r == Owner(p) to == GrowEnd(p) IN
  /\ Running
  /\ cur_thrd # NULL /\ cur_thrd \notin kthrd
  /\ page[p] = NULL
  /\ \/ /\ in_region(r, p)
        /\ assure(r, p)
        /\ UNCHANGED <<size, st>>
     \/ /\ ~in_region(r, p)
        /\ st' = IF grow_asserts(r, to) THEN "up" ELSE "failed"
        /\ size' = [size EXCEPT ![r] = GrownTo(r, to)]
        /\ assure(r, p)
  /\ resumed' = p
  /\ UNCHANGED <<made, kthrd, in, cur_thrd>>

(* The entry made of INVALID_PAGE is present and has reserved bits set: a  *)
(* user thread that touches the page faults with another error, for which  *)
(* page_fault loops with the interrupts off.                               *)
unhandlable_fault(p) ==
  /\ Running
  /\ cur_thrd # NULL /\ cur_thrd \notin kthrd
  /\ page[p] = INVALID_PAGE
  /\ st' = "looping"
  /\ UNCHANGED <<made, kthrd, size, block, phys, in, page, cur_thrd, resumed>>

-----------------------------------------------------------------------------
Init ==
  /\ made = {} /\ kthrd = {}
  /\ size = [r \in Region |-> 0]
  /\ block = [r \in Region |-> [p \in Page |-> NULL]]
  /\ phys \in [list : Memory, top : {"kept"}]
  /\ in = {}
  /\ page = [p \in Page |-> NULL]
  /\ cur_thrd = NULL
  /\ resumed = NULL
  /\ st = "up"

Next ==
  \/ \E t \in Thread : kspawn(t) \/ uspawn(t) \/ yield(t)
  \/ \E p \in Page : page_fault(p) \/ unhandlable_fault(p)

Spec == Init /\ [][Next]_vars

-----------------------------------------------------------------------------
Present == Nat \cup {INVALID_PAGE}

PhysType == [list : Seq(PageRange), top : {"kept", "freed", "used"}]

(* The frames alloc_pgs has not handed out. *)
Free == Available(phys.list)

TypeOK ==
  /\ made \subseteq Thread /\ kthrd \subseteq made
  /\ size \in [Region -> Nat]
  /\ block \in [Region -> [Page -> Present \cup {NULL}]]
  /\ phys \in PhysType
  /\ in \subseteq Region
  /\ page \in [Page -> Present \cup {NULL}]
  /\ cur_thrd \in made \cup {NULL}
  /\ resumed \in Page \cup {NULL}
  /\ st \in {"up", "failed", "looping"}

(* No assertion of region.c fails, in whatever order threads are made,     *)
(* switched and grown by their faults: grow() is never asked to shrink a   *)
(* region or to grow it the wrong way, and swapout() always finds its      *)
(* region in the list.                                                     *)
AssertionsHold == st # "failed"

(* Heaps stay in the lower and stacks in the upper half of user space, so  *)
(* swapin() never finds an overlap and refuses.                            *)
HeapBelowStack ==
  \A t \in Thread : /\ region_upper(Code(t)) <= Half
                    /\ Half <= region_lower(Stack(t))

(* The page table is the one of the running thread: every page of its two  *)
(* regions that has a frame, each with its own frame, and no page of any   *)
(* other thread, also for the pages added by faults since it last ran.     *)
MappedExactly ==
  \A p \in Page :
    page[p] = IF cur_thrd = NULL THEN NULL
              ELSE IF p < Half THEN block[Code(cur_thrd)][p]
              ELSE block[Stack(cur_thrd)][p]

(* As long as alloc_pgs does not use the descriptor that heads[] points to *)
(* after it freed it (pages.c 73-76: from then on it may hand out any page *)
(* again), no frame backs two pages, of one thread or of two, and no frame *)
(* in use can be handed out again; the exact fit that frees the descriptor *)
(* and the requests that find nothing are included.                        *)
FramesPrivate ==
  phys.top # "used" =>
    \A r \in Region, p \in Page :
      block[r][p] \in Nat =>
        /\ block[r][p] \notin Free
        /\ \A s \in Region, q \in Page :
             block[s][q] = block[r][p] => s = r /\ q = p

(* A write that faulted finds a frame when it is resumed (paging.c 120-140)*)
(* unless no page of memory is left, or the freed descriptor was used: then*)
(* INVALID_PAGE is mapped, and the write ends in the loop of page_fault.   *)
FaultResolved ==
  resumed # NULL =>
    \/ page[resumed] \in Nat
    \/ page[resumed] = INVALID_PAGE /\ (Free = {} \/ phys.top = "used")
=============================================================================
