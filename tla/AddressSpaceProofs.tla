------------------------- MODULE AddressSpaceProofs -------------------------
(***************************************************************************)
(* Proofs of the invariants of AddressSpace.tla, for any number of threads,*)
(* any memory and any layout of user space.  They are inductive together   *)
(* with four facts: the free ranges do not overlap, blocks lie inside      *)
(* their regions, a region that was not made is empty, and the list in     *)
(* holds the running thread's regions.                                     *)
(***************************************************************************)
EXTENDS AddressSpace, TLAPS

(* The ranges of free pages do not overlap. *)
PhysOK(ph) ==
  /\ ph \in PhysType
  /\ \A i, j \in DOMAIN ph.list : i # j => Frames(ph.list[i]) \cap Frames(ph.list[j]) = {}

BlocksInside ==
  \A r \in Region, p \in Page : block[r][p] # NULL => in_region(r, p)

(* A kernel thread has no code region either. *)
EmptyIfUnmade ==
  \A t \in Thread :
    /\ t \notin made \ kthrd =>
         size[Code(t)] = 0 /\ \A p \in Page : block[Code(t)][p] = NULL
    /\ t \notin made =>
         size[Stack(t)] = 0 /\ \A p \in Page : block[Stack(t)][p] = NULL

InIsCurrent == in = {CodeOf(cur_thrd), StackOf(cur_thrd)} \ {NULL}

IInv ==
  /\ TypeOK
  /\ AssertionsHold
  /\ HeapBelowStack
  /\ MappedExactly
  /\ FramesPrivate
  /\ FaultResolved
  /\ PhysOK(phys)
  /\ BlocksInside
  /\ EmptyIfUnmade
  /\ InIsCurrent

(* n pages from frame first on were taken out of old, which left new: they *)
(* were free and are free no more, unless a freed descriptor was used.     *)
Got(old, n, first, new) ==
  /\ PhysOK(new) /\ first \in Nat
  /\ Available(new.list) \subseteq Available(old.list)
  /\ old.top = "used" => new.top = "used"
  /\ new.top # "used" =>
       \A k \in 0..n - 1 : /\ first + k \in Available(old.list)
                           /\ first + k \notin Available(new.list)

LEMMA Element ==
  ASSUME NEW S, NEW s \in Seq(S), NEW i \in DOMAIN s
  PROVE  s[i] \in S
OBVIOUS

LEMMA Replaced ==
  ASSUME NEW S, NEW s \in Seq(S), NEW i \in DOMAIN s, NEW x \in S
  PROVE  /\ [s EXCEPT ![i] = x] \in Seq(S)
         /\ DOMAIN [s EXCEPT ![i] = x] = DOMAIN s
         /\ [s EXCEPT ![i] = x][i] = x
         /\ \A j \in DOMAIN s : j # i => [s EXCEPT ![i] = x][j] = s[j]
OBVIOUS

LEMMA ShrunkOK ==
  ASSUME NEW pg \in PageRange, NEW n \in Nat, n <= pg.size
  PROVE  /\ Shrunk(pg, n) \in PageRange
         /\ Shrunk(pg, n).addr = pg.addr
         /\ Shrunk(pg, n).size = pg.size - n
         /\ pg.addr \in Nat /\ pg.size \in Nat
BY DEF PageRange, Shrunk

(* Taking pages from the end of one range.                                 *)
LEMMA TakenOK ==
  ASSUME NEW ph, PhysOK(ph), ph.top = "kept", NEW n \in Nat \ {0},
         NEW i \in Fits(ph.list, n)
  PROVE  Got(ph, n, Taken(ph, n, i).first, Taken(ph, n, i).phys)
<1> DEFINE a == Taken(ph, n, i)
<1>a. PICK l : l = ph.list
  OBVIOUS
<1>b. PICK m : m = [l EXCEPT ![i] = Shrunk(l[i], n)]
  OBVIOUS
<1>1. /\ l \in Seq(PageRange) /\ i \in DOMAIN l /\ n <= l[i].size
      /\ ph.top \in {"kept", "freed", "used"}
  BY <1>a DEF PhysOK, PhysType, Fits
<1>2. /\ a.first = l[i].addr + l[i].size - n
      /\ a.phys.list = m
      /\ a.phys.top = IF i = Len(l) /\ l[i].size = n THEN "freed" ELSE ph.top
      /\ a.phys = [list |-> m, top |-> a.phys.top]
  BY <1>a, <1>b DEF Taken
<1> HIDE DEF a
<1>3. /\ Shrunk(l[i], n) \in PageRange
      /\ Shrunk(l[i], n).addr = l[i].addr
      /\ Shrunk(l[i], n).size = l[i].size - n
      /\ l[i].addr \in Nat /\ l[i].size \in Nat
  <2>1. l[i] \in PageRange /\ n \in Nat
    BY <1>1, Element
  <2> QED
    BY <2>1, <1>1, ShrunkOK
<1>4. /\ m \in Seq(PageRange) /\ DOMAIN m = DOMAIN l
      /\ m[i] = Shrunk(l[i], n)
      /\ \A j \in DOMAIN l : j # i => m[j] = l[j]
  BY <1>b, <1>1, <1>3, Replaced
<1>5. /\ Frames(l[i]) = l[i].addr .. l[i].addr + l[i].size - 1
      /\ Frames(m[i]) = l[i].addr .. l[i].addr + l[i].size - n - 1
      /\ Frames(m[i]) \subseteq Frames(l[i])
      /\ \A j \in DOMAIN l : Frames(m[j]) \subseteq Frames(l[j])
  <2>1. /\ Frames(l[i]) = l[i].addr .. l[i].addr + l[i].size - 1
        /\ Frames(m[i]) = l[i].addr .. l[i].addr + (l[i].size - n) - 1
    BY <1>3, <1>4 DEF Frames
  <2>2. /\ Frames(m[i]) = l[i].addr .. l[i].addr + l[i].size - n - 1
        /\ Frames(m[i]) \subseteq Frames(l[i])
    BY <2>1, <1>3
  <2> QED
    BY <2>1, <2>2, <1>4
<1>6. \A j, k \in DOMAIN l : j # k => Frames(l[j]) \cap Frames(l[k]) = {}
  BY <1>a DEF PhysOK
<1>7. PhysOK(a.phys)
  <2>1. a.phys \in PhysType
    BY <1>1, <1>2, <1>4 DEF PhysType
  <2>2. \A j, k \in DOMAIN m : j # k => Frames(m[j]) \cap Frames(m[k]) = {}
    BY <1>4, <1>5, <1>6
  <2> QED
    BY <2>1, <2>2, <1>2 DEF PhysOK
<1>8. Available(m) \subseteq Available(l)
  BY <1>4, <1>5 DEF Available
<1>9. ASSUME NEW k \in 0..n - 1
      PROVE  a.first + k \in Available(l) /\ a.first + k \notin Available(m)
  <2>1. a.first + k \in Frames(l[i]) /\ a.first + k \notin Frames(m[i])
    <3>1. PICK x, y : x = l[i].addr /\ y = l[i].size
      OBVIOUS
    <3>2. x \in Nat /\ y \in Nat /\ n <= y /\ a.first + k = x + y - n + k
      BY <3>1, <1>1, <1>2, <1>3
    <3>3. x + y - n + k \in x .. x + y - 1 /\ x + y - n + k \notin x .. x + y - n - 1
      BY <3>2
    <3> QED
      BY <3>1, <3>2, <3>3, <1>5
  <2>2. \A j \in DOMAIN m : a.first + k \notin Frames(m[j])
    BY <2>1, <1>1, <1>4, <1>5, <1>6
  <2> QED
    BY <2>1, <2>2, <1>1 DEF Available
<1>10. a.first \in Nat
  BY <1>1, <1>2, <1>3
<1> QED
  BY <1>a, <1>2, <1>7, <1>8, <1>9, <1>10 DEF Got, a

(* What alloc_pgs returns, for any number of pages: pages of its own, or   *)
(* INVALID_PAGE, for a single page only when no page is left.              *)
LEMMA AllocOK ==
  ASSUME NEW ph, PhysOK(ph), NEW n \in Nat \ {0}, NEW a \in alloc_pgs(ph, n)
  PROVE  /\ a.first \in Present /\ PhysOK(a.phys)
         /\ Available(a.phys.list) \subseteq Available(ph.list)
         /\ ph.top = "used" => a.phys.top = "used"
         /\ a.first \in Nat => Got(ph, n, a.first, a.phys)
         /\ n = 1 /\ a.first \notin Nat => Available(a.phys.list) = {} \/ a.phys.top = "used"
<1>1. CASE ph.top # "kept"
  <2>1. PICK x \in (UNION {Available(l) : l \in Memory}) \cup {INVALID_PAGE} :
          a = [first |-> x, phys |-> [ph EXCEPT !.top = "used"]]
    BY <1>1 DEF alloc_pgs
  <2>2. \A l \in Memory : Available(l) \subseteq Nat
    <3> SUFFICES ASSUME NEW l \in Memory, NEW i \in DOMAIN l PROVE Frames(l[i]) \subseteq Nat
      BY DEF Available
    <3>1. l \in Seq(PageRange)
      BY MemoryAssumption
    <3>2. l[i] \in PageRange
      BY <3>1, Element
    <3> QED
      BY <3>2 DEF Frames, PageRange
  <2>3. x \in Present
    BY <2>1, <2>2 DEF Present
  <2>4. /\ a.first = x /\ a.phys.list = ph.list /\ a.phys.top = "used"
        /\ a.phys \in PhysType
    BY <2>1 DEF PhysOK, PhysType
  <2> QED
    BY <2>3, <2>4 DEF PhysOK, Got
<1>2. CASE ph.top = "kept" /\ Fits(ph.list, n) = {}
  <2>1. a.first = INVALID_PAGE /\ a.phys = ph
    BY <1>2 DEF alloc_pgs
  <2>2. INVALID_PAGE \notin Nat
    BY SpaceAssumption
  <2>3. n = 1 => Available(ph.list) = {}
    <3> SUFFICES ASSUME n = 1, NEW i \in DOMAIN ph.list PROVE Frames(ph.list[i]) = {}
      BY DEF Available
    <3>1. ph.list \in Seq(PageRange)
      BY DEF PhysOK, PhysType
    <3>2. ph.list[i] \in PageRange
      BY <3>1, Element
    <3>3. ~(ph.list[i].size >= 1)
      BY <1>2 DEF Fits
    <3> QED
      BY <3>2, <3>3 DEF Frames, PageRange
  <2> QED
    BY <2>1, <2>2, <2>3 DEF Present
<1>3. CASE ph.top = "kept" /\ Fits(ph.list, n) # {}
  <2>1. PICK i \in Fits(ph.list, n) : a = Taken(ph, n, i)
    BY <1>3 DEF alloc_pgs, FirstFit
  <2>2. Got(ph, n, a.first, a.phys)
    BY <2>1, <1>3, TakenOK
  <2> QED
    BY <2>2 DEF Got, Present
<1> QED
  BY <1>1, <1>2, <1>3

LEMMA TwoPages == 2 \in Nat \ {0}
  OBVIOUS

LEMMA HalfFacts ==
  /\ Half \in Nat /\ Bot < Half /\ Half + 2 <= Top
  /\ Bot \in Nat /\ Top \in Nat
  BY SpaceAssumption DEF Half

LEMMA RegionFacts ==
  /\ \A t \in Thread : /\ Code(t) \in Region /\ Stack(t) \in Region
                       /\ growup(Code(t)) /\ ~growup(Stack(t))
                       /\ Code(t) # NULL /\ Stack(t) # NULL
  /\ \A r \in Region : \E t \in Thread : r = Code(t) \/ r = Stack(t)
  /\ \A t, u \in Thread : /\ Code(t) # Stack(u)
                          /\ Code(t) = Code(u) => t = u
                          /\ Stack(t) = Stack(u) => t = u
  BY SpaceAssumption DEF Region, Code, Stack, growup

(* Where the regions of a thread begin and end.                            *)
LEMMA Ends ==
  ASSUME NEW t \in Thread
  PROVE  /\ region_lower(Code(t)) = Bot
         /\ region_upper(Code(t)) = Bot + size[Code(t)]
         /\ region_lower(Stack(t)) = Top - size[Stack(t)]
         /\ region_upper(Stack(t)) = Top
<1>1. growup(Code(t)) /\ ~growup(Stack(t))
  BY RegionFacts
<1> QED
  BY <1>1 DEF region_upper, region_lower, virt

LEMMA InitIInv == Init => IInv
<1> SUFFICES ASSUME Init PROVE IInv
  OBVIOUS
<1> USE HalfFacts, RegionFacts, SpaceAssumption DEF Init
<1>0. PhysOK(phys) /\ phys \in PhysType
  BY MemoryAssumption DEF PhysOK, PhysType
<1>1. TypeOK /\ AssertionsHold /\ FaultResolved
  BY Zenon, <1>0 DEF TypeOK, AssertionsHold, FaultResolved, Present
<1>2. HeapBelowStack
  <2>1. \A r \in Region : size[r] = 0
    BY Zenon
  <2> HIDE DEF Init
  <2> SUFFICES ASSUME NEW t \in Thread
               PROVE  region_upper(Code(t)) <= Half /\ Half <= region_lower(Stack(t))
    BY DEF HeapBelowStack
  <2>2. region_upper(Code(t)) = Bot + 0 /\ region_lower(Stack(t)) = Top - 0
    BY <2>1, Ends
  <2> QED
    BY <2>2, HalfFacts
<1>3. MappedExactly /\ FramesPrivate /\ BlocksInside
  BY DEF MappedExactly, FramesPrivate, BlocksInside
<1>4. EmptyIfUnmade
  BY DEF EmptyIfUnmade
<1>5. InIsCurrent
  BY DEF InIsCurrent, CodeOf, StackOf
<1> QED
  BY <1>0, <1>1, <1>2, <1>3, <1>4, <1>5 DEF IInv

(* Only the free ranges change, and the kernel loops.                      *)
LEMMA LoopIInv ==
  ASSUME IInv, PhysOK(phys'), Available(phys'.list) \subseteq Available(phys.list),
         phys.top = "used" => phys'.top = "used",
         st' = "looping",
         UNCHANGED <<made, kthrd, size, block, in, page, cur_thrd, resumed>>
  PROVE  IInv'
<1>1. TypeOK' /\ AssertionsHold'
  BY Zenon DEF IInv, TypeOK, AssertionsHold, PhysOK
<1>2. HeapBelowStack' /\ MappedExactly'
  BY Zenon DEF IInv, HeapBelowStack, MappedExactly, region_lower, region_upper
<1>3. FramesPrivate'
  <2>1. FramesPrivate /\ block' = block
    BY DEF IInv
  <2> QED
    BY <2>1 DEF FramesPrivate, Free
<1>4. FaultResolved'
  <2>1. FaultResolved /\ page' = page /\ resumed' = resumed
    BY DEF IInv
  <2> QED
    BY <2>1 DEF FaultResolved, Free
<1>5. BlocksInside' /\ EmptyIfUnmade' /\ InIsCurrent'
  BY Zenon DEF IInv, BlocksInside, EmptyIfUnmade, InIsCurrent, CodeOf, StackOf,
     in_region, region_lower, region_upper
<1> QED
  BY <1>1, <1>2, <1>3, <1>4, <1>5 DEF IInv

(* What a spawn does to the frames: those of the code region come from the *)
(* free ones, those of the stack from what the code region left, and no    *)
(* other region has a free frame.                                          *)
NewFrames(t, left) ==
  /\ left \subseteq Free /\ Free' \subseteq left
  /\ \A q \in Page : block'[Code(t)][q] \in Nat =>
       block'[Code(t)][q] \in Free /\ block'[Code(t)][q] \notin left
  /\ \A q \in Page : block'[Stack(t)][q] \in Nat =>
       block'[Stack(t)][q] \in left /\ block'[Stack(t)][q] \notin Free'
  /\ \A s \in Region, q \in Page :
       s \notin {Code(t), Stack(t)} /\ block'[s][q] \in Nat =>
         block'[s][q] \notin Free
  /\ \A s, r \in Region, q, p \in Page :
       /\ s \notin {Code(t), Stack(t)} /\ r \notin {Code(t), Stack(t)}
       /\ block'[s][q] = block'[r][p] /\ block'[r][p] \in Nat
       => s = r /\ q = p
  /\ \A q, p \in Page : block'[Code(t)][q] = block'[Code(t)][p]
       /\ block'[Code(t)][q] \in Nat => q = p
  /\ \A q, p \in Page : block'[Stack(t)][q] = block'[Stack(t)][p]
       /\ block'[Stack(t)][q] \in Nat => q = p

LEMMA SpawnPrivate ==
  ASSUME NEW t \in Thread, NEW left, NewFrames(t, left)
  PROVE  FramesPrivate'
<1> SUFFICES ASSUME NEW r \in Region, NEW p \in Page, block'[r][p] \in Nat
             PROVE  /\ block'[r][p] \notin Free'
                    /\ \A s \in Region, q \in Page :
                         block'[s][q] = block'[r][p] => s = r /\ q = p
  BY DEF FramesPrivate
<1> USE DEF NewFrames
<1>1. block'[r][p] \notin Free'
  OBVIOUS
<1>2. ASSUME NEW s \in Region, NEW q \in Page, block'[s][q] = block'[r][p]
      PROVE  s = r /\ q = p
  <2>1. CASE r = Code(t)
    BY <1>2, <2>1
  <2>2. CASE r = Stack(t)
    BY <1>2, <2>2
  <2>3. CASE r \notin {Code(t), Stack(t)}
    BY <1>2, <2>3
  <2> QED
    BY <2>1, <2>2, <2>3
<1> QED
  BY <1>1, <1>2

(* A spawn fills the regions of a thread that was not there: the code      *)
(* region with n pages, none for a kernel thread, and the stack.           *)
LEMMA SpawnIInv ==
  ASSUME IInv, NEW t \in Thread, t \notin made, NEW n \in 0..Half - Bot,
         NEW f, NEW left, Got(phys, n, f, left),
         NEW g, Got(left, 2, g, phys'),
         made' = made \cup {t},
         kthrd' = IF n = 0 THEN kthrd \cup {t} ELSE kthrd,
         size' = [size EXCEPT ![Code(t)] = n, ![Stack(t)] = 2],
         block' = [block EXCEPT ![Code(t)] = Blocks(Bot, n, f),
                                ![Stack(t)] = Blocks(Top - 2, 2, g)],
         UNCHANGED <<in, page, cur_thrd, resumed, st>>
  PROVE  IInv'
<1> USE HalfFacts, RegionFacts, SpaceAssumption
<1>a. TypeOK /\ cur_thrd # t
  BY DEF IInv, TypeOK
<1>b. /\ f \in Nat /\ g \in Nat /\ PhysOK(phys')
      /\ Available(left.list) \subseteq Free /\ Free' \subseteq Available(left.list)
      /\ phys'.top # "used" =>
           /\ phys.top # "used"
           /\ \A k \in 0..n - 1 : f + k \in Free /\ f + k \notin Available(left.list)
           /\ \A k \in 0..1 : g + k \in Available(left.list) /\ g + k \notin Free'
  BY DEF Got, Free
<1>d. /\ \A p \in Page : p \in Nat /\ Bot <= p /\ p < Top
      /\ \A p \in Page : Blocks(Bot, n, f)[p] =
           IF p < Bot + n THEN f + (p - Bot) ELSE NULL
      /\ \A p \in Page : Blocks(Top - 2, 2, g)[p] =
           IF Top - 2 <= p THEN g + (p - (Top - 2)) ELSE NULL
  BY DEF Blocks, Page
<1>f. /\ Blocks(Bot, n, f) \in [Page -> Present \cup {NULL}]
      /\ Blocks(Top - 2, 2, g) \in [Page -> Present \cup {NULL}]
  BY <1>b, <1>d DEF Blocks, Present
<1>g. \A r \in Region : r # Code(t) /\ r # Stack(t) =>
        size'[r] = size[r] /\ block'[r] = block[r]
  BY <1>a DEF TypeOK
<1>h. /\ size'[Code(t)] = n /\ size'[Stack(t)] = 2
      /\ block'[Code(t)] = Blocks(Bot, n, f)
      /\ block'[Stack(t)] = Blocks(Top - 2, 2, g)
  BY <1>a DEF TypeOK
<1>1. TypeOK'
  <2>1. size' \in [Region -> Nat]
    BY <1>a DEF TypeOK
  <2>2. block' \in [Region -> [Page -> Present \cup {NULL}]]
    BY <1>a, <1>f DEF TypeOK
  <2>3. made' \subseteq Thread /\ kthrd' \subseteq made'
    BY <1>a DEF TypeOK
  <2>4. phys' \in PhysType /\ cur_thrd' \in made' \cup {NULL}
    BY <1>a, <1>b DEF TypeOK, PhysOK
  <2> QED
    BY Zenon, <1>a, <2>1, <2>2, <2>3, <2>4 DEF TypeOK
<1>2. AssertionsHold' /\ FaultResolved'
  <2>1. phys.top = "used" => phys'.top = "used"
    BY <1>b
  <2> QED
    BY <2>1, <1>b DEF IInv, AssertionsHold, FaultResolved
<1>3. HeapBelowStack'
  <2> SUFFICES ASSUME NEW u \in Thread
               PROVE  /\ region_upper(Code(u))' <= Half
                      /\ Half <= region_lower(Stack(u))'
    BY DEF HeapBelowStack
  <2>1. CASE u = t
    BY <2>1, <1>h DEF region_upper, region_lower, virt
  <2>2. CASE u # t
    BY Zenon, <2>2, <1>g DEF IInv, HeapBelowStack, region_upper, region_lower, virt
  <2> QED
    BY <2>1, <2>2
<1>4. MappedExactly'
  <2>1. cur_thrd # NULL => /\ block'[Code(cur_thrd)] = block[Code(cur_thrd)]
                           /\ block'[Stack(cur_thrd)] = block[Stack(cur_thrd)]
    BY <1>a, <1>g DEF TypeOK
  <2> QED
    BY <2>1 DEF IInv, MappedExactly
<1>5. FramesPrivate'
  <2> SUFFICES ASSUME phys'.top # "used" PROVE FramesPrivate'
    BY DEF FramesPrivate
  <2> DEFINE rest == Available(left.list)
  <2>0. FramesPrivate /\ phys.top # "used"
    BY <1>b DEF IInv
  <2>1. \A q \in Page : block'[Code(t)][q] \in Nat =>
          /\ q - Bot \in 0..n - 1 /\ block'[Code(t)][q] = f + (q - Bot)
          /\ block'[Code(t)][q] \in Free /\ block'[Code(t)][q] \notin rest
    BY <1>b, <1>d, <1>h
  <2>2. \A q \in Page : block'[Stack(t)][q] \in Nat =>
          /\ q - (Top - 2) \in 0..1 /\ block'[Stack(t)][q] = g + (q - (Top - 2))
          /\ block'[Stack(t)][q] \in rest /\ block'[Stack(t)][q] \notin Free'
    BY <1>b, <1>d, <1>h
  <2>3. \A s \in Region, q \in Page :
          s \notin {Code(t), Stack(t)} /\ block'[s][q] \in Nat =>
            block'[s][q] \notin Free
    BY Zenon, <2>0, <1>g DEF FramesPrivate
  <2>4. \A s, r \in Region, q, p \in Page :
          /\ s \notin {Code(t), Stack(t)} /\ r \notin {Code(t), Stack(t)}
          /\ block'[s][q] = block'[r][p] /\ block'[r][p] \in Nat
          => s = r /\ q = p
    BY <2>0, <1>g DEF FramesPrivate
  <2>5. \A q, p \in Page : block'[Code(t)][q] = block'[Code(t)][p]
          /\ block'[Code(t)][q] \in Nat => q = p
    BY <2>1, <1>b, <1>d
  <2>6. \A q, p \in Page : block'[Stack(t)][q] = block'[Stack(t)][p]
          /\ block'[Stack(t)][q] \in Nat => q = p
    BY <2>2, <1>b, <1>d
  <2>7. /\ \A q \in Page : block'[Code(t)][q] \in Nat =>
            block'[Code(t)][q] \in Free /\ block'[Code(t)][q] \notin rest
        /\ \A q \in Page : block'[Stack(t)][q] \in Nat =>
            block'[Stack(t)][q] \in rest /\ block'[Stack(t)][q] \notin Free'
    BY Zenon, <2>1, <2>2
  <2>8. NewFrames(t, rest)
    BY <2>3, <2>4, <2>5, <2>6, <2>7, <1>b, Zenon DEF NewFrames
  <2> QED
    BY <2>8, SpawnPrivate
<1>6. BlocksInside'
  <2> SUFFICES ASSUME NEW r \in Region, NEW p \in Page, block'[r][p] # NULL
               PROVE  in_region(r, p)'
    BY DEF BlocksInside
  <2>0. Bot <= p /\ p < Top /\ p \in Nat
    BY DEF Page
  <2>1. CASE r = Code(t)
    BY <2>0, <2>1, <1>d, <1>h
    DEF in_region, region_lower, region_upper, virt
  <2>2. CASE r = Stack(t)
    BY <2>0, <2>2, <1>d, <1>h
    DEF in_region, region_lower, region_upper, virt
  <2>3. CASE r # Code(t) /\ r # Stack(t)
    BY Zenon, <2>3, <1>g DEF IInv, BlocksInside, in_region, region_lower, region_upper
  <2> QED
    BY <2>1, <2>2, <2>3
<1>7. EmptyIfUnmade'
  <2> SUFFICES ASSUME NEW u \in Thread
               PROVE  /\ u \notin made' \ kthrd' =>
                           /\ size'[Code(u)] = 0
                           /\ \A p \in Page : block'[Code(u)][p] = NULL
                      /\ u \notin made' =>
                           /\ size'[Stack(u)] = 0
                           /\ \A p \in Page : block'[Stack(u)][p] = NULL
    BY Zenon DEF EmptyIfUnmade
  <2>1. CASE u = t
    <3>1. n = 0 => \A p \in Page : Blocks(Bot, n, f)[p] = NULL
      BY <1>d
    <3>2. t \notin kthrd
      BY <1>a DEF TypeOK
    <3>3. t \in made' /\ (t \in kthrd' <=> n = 0)
      BY <3>2
    <3>4. t \notin made' \ kthrd' =>
            size'[Code(t)] = 0 /\ \A p \in Page : block'[Code(t)][p] = NULL
      BY <3>1, <3>3, <1>h
    <3> QED
      BY Zenon, <2>1, <3>3, <3>4
  <2>2. CASE u # t
    <3>1. Code(u) \notin {Code(t), Stack(t)} /\ Stack(u) \notin {Code(t), Stack(t)}
      BY <2>2
    <3>2. /\ size'[Code(u)] = size[Code(u)] /\ block'[Code(u)] = block[Code(u)]
          /\ size'[Stack(u)] = size[Stack(u)] /\ block'[Stack(u)] = block[Stack(u)]
      BY Zenon, <3>1, <1>g
    <3>3. /\ u \notin made' \ kthrd' <=> u \notin made \ kthrd
          /\ u \notin made' <=> u \notin made
      BY <2>2
    <3>4. EmptyIfUnmade
      BY DEF IInv
    <3> HIDE HalfFacts, RegionFacts, SpaceAssumption
    <3> QED
      BY <3>2, <3>3, <3>4, Zenon DEF EmptyIfUnmade
  <2> QED
    BY Zenon, <2>1, <2>2
<1>8. InIsCurrent'
  BY <1>a DEF IInv, InIsCurrent, CodeOf, StackOf
<1> QED
  BY <1>b, <1>1, <1>2, <1>3, <1>4, <1>5, <1>6, <1>7, <1>8 DEF IInv

-----------------------------------------------------------------------------
(* Code and stack regions never overlap, and each has blocks only in its   *)
(* own half.                                                               *)
LEMMA Halves ==
  ASSUME IInv
  PROVE  /\ \A t, u \in Thread : /\ ~overlap(Code(t), Stack(u))
                                 /\ ~overlap(Stack(t), Code(u))
         /\ \A t \in Thread, p \in Page :
              /\ p < Half => block[Stack(t)][p] = NULL
              /\ ~(p < Half) => block[Code(t)][p] = NULL
<1> USE HalfFacts, RegionFacts
<1>1. (\A r \in Region : size[r] \in Nat) /\ HeapBelowStack
  BY DEF IInv, TypeOK
<1>2. \A t \in Thread : /\ region_upper(Code(t)) <= Half
                        /\ Half <= region_lower(Stack(t))
                        /\ region_upper(Code(t)) \in Int
                        /\ region_lower(Stack(t)) \in Int
                        /\ region_lower(Code(t)) = Bot
  <2> SUFFICES ASSUME NEW t \in Thread
               PROVE  /\ region_upper(Code(t)) <= Half
                      /\ Half <= region_lower(Stack(t))
                      /\ region_upper(Code(t)) \in Int
                      /\ region_lower(Stack(t)) \in Int
                      /\ region_lower(Code(t)) = Bot
    OBVIOUS
  <2>1. size[Code(t)] \in Nat /\ size[Stack(t)] \in Nat
    BY <1>1
  <2>2. Bot + size[Code(t)] \in Int /\ Top - size[Stack(t)] \in Int
    BY <2>1
  <2> QED
    BY <1>1, <2>2, Ends, Zenon DEF HeapBelowStack
<1>3. ASSUME NEW t \in Thread, NEW u \in Thread
      PROVE  ~overlap(Code(t), Stack(u)) /\ ~overlap(Stack(t), Code(u))
  BY <1>2 DEF overlap
<1>4. ASSUME NEW t \in Thread, NEW p \in Page
      PROVE  /\ p < Half => block[Stack(t)][p] = NULL
             /\ ~(p < Half) => block[Code(t)][p] = NULL
  <2>1. p \in Int
    BY DEF Page
  <2> QED
    BY <1>2, <2>1 DEF IInv, BlocksInside, in_region
<1> QED
  BY <1>3, <1>4

(* The two swapflops of yield() replace the regions and the pages of the   *)
(* old thread by those of the new one.                                     *)
LEMMA YieldIInv ==
  ASSUME IInv, NEW t \in Thread, yield(t)
  PROVE  IInv'
<1> DEFINE m0 == [in |-> in, page |-> page]
           m1 == swapflop(m0, CodeOf(cur_thrd), CodeOf(t))
           m2 == swapflop(m1, StackOf(cur_thrd), StackOf(t))
<1>a. /\ TypeOK /\ MappedExactly /\ EmptyIfUnmade /\ InIsCurrent
      /\ t \in made /\ t # cur_thrd /\ t # NULL
      /\ in' = m2.in /\ page' = m2.page /\ cur_thrd' = t /\ resumed' = NULL
      /\ st' = IF {CodeOf(cur_thrd), StackOf(cur_thrd)} \ {NULL} \subseteq in
               THEN "up" ELSE "failed"
      /\ UNCHANGED <<made, kthrd, size, block, phys>>
  BY SpaceAssumption DEF yield, IInv
<1>b. cur_thrd = NULL \/ cur_thrd \in Thread
  BY <1>a DEF TypeOK
<1>c. StackOf(t) = Stack(t) /\ Stack(t) # NULL /\ CodeOf(t) \in {NULL, Code(t)}
  BY <1>a, RegionFacts DEF StackOf, CodeOf
<1>1. m1.in = {CodeOf(t), StackOf(cur_thrd)} \ {NULL}
  <2> DEFINE b == IF CodeOf(cur_thrd) = NULL THEN m0
                  ELSE swapout(m0, CodeOf(cur_thrd))
  <2>1. b.in = {StackOf(cur_thrd)} \ {NULL}
    BY <1>a, <1>b, RegionFacts DEF InIsCurrent, CodeOf, StackOf, swapout
  <2>2. CASE CodeOf(t) = NULL
    BY <2>1, <2>2 DEF swapflop
  <2>3. CASE CodeOf(t) = Code(t) /\ Code(t) # NULL
    <3>1. ~\E s \in b.in : overlap(Code(t), s)
      BY <2>1, <1>b, Halves DEF StackOf
    <3> QED
      BY <2>1, <2>3, <3>1 DEF swapflop, swapin
  <2> QED
    BY <1>c, <2>2, <2>3, RegionFacts
<1>2. m2.in = {CodeOf(t), StackOf(t)} \ {NULL}
  <2> HIDE DEF m1
  <2> DEFINE b == IF StackOf(cur_thrd) = NULL THEN m1
                  ELSE swapout(m1, StackOf(cur_thrd))
  <2>1. b.in = {CodeOf(t)} \ {NULL}
    BY <1>1, <1>b, <1>c, RegionFacts DEF StackOf, swapout
  <2>2. ~\E s \in b.in : overlap(Stack(t), s)
    BY <2>1, <1>c, Halves
  <2> QED
    BY <2>1, <2>2, <1>c DEF swapflop, swapin
<1>3. \A p \in Page : m1.page[p] = IF p < Half THEN block[Code(t)][p] ELSE page[p]
  <2> SUFFICES ASSUME NEW p \in Page
               PROVE  m1.page[p] = IF p < Half THEN block[Code(t)][p] ELSE page[p]
    OBVIOUS
  <2> DEFINE b == IF CodeOf(cur_thrd) = NULL THEN m0
                  ELSE swapout(m0, CodeOf(cur_thrd))
  <2>1. b.in = {StackOf(cur_thrd)} \ {NULL}
    BY <1>a, <1>b, RegionFacts DEF InIsCurrent, CodeOf, StackOf, swapout
  <2>2. b.page[p] = IF p < Half THEN NULL ELSE page[p]
    <3>1. CASE cur_thrd = NULL
      BY <3>1, <1>a DEF CodeOf, MappedExactly
    <3>2. CASE cur_thrd \in kthrd
      BY <3>2, <1>a, <1>b DEF CodeOf, MappedExactly, EmptyIfUnmade, TypeOK
    <3>3. CASE cur_thrd \in Thread /\ cur_thrd # NULL /\ cur_thrd \notin kthrd
      <4>1. b.page = swapout(m0, Code(cur_thrd)).page
        BY <3>3, RegionFacts DEF CodeOf
      <4>2. b.page[p] = IF block[Code(cur_thrd)][p] # NULL THEN NULL ELSE page[p]
        BY <4>1 DEF swapout
      <4> QED
        BY <4>2, <3>3, <1>a, Halves DEF MappedExactly
    <3> QED
      BY <3>1, <3>2, <3>3, <1>b
  <2>3. CASE CodeOf(t) = NULL
    <3>1. m1 = b
      BY <2>3 DEF swapflop
    <3>2. block[Code(t)][p] = NULL
      BY <2>3, <1>a, RegionFacts DEF CodeOf, EmptyIfUnmade
    <3> QED
      BY <2>2, <3>1, <3>2
  <2>4. CASE CodeOf(t) = Code(t) /\ Code(t) # NULL
    <3>1. ~\E s \in b.in : overlap(Code(t), s)
      <4>1. b.in \subseteq {Stack(cur_thrd)} /\ (cur_thrd = NULL => b.in = {})
        BY <2>1 DEF StackOf
      <4> QED
        BY <4>1, <1>b, Halves
    <3>2. m1.page[p] = IF block[Code(t)][p] # NULL THEN block[Code(t)][p]
                       ELSE b.page[p]
      BY <2>4, <3>1 DEF swapflop, swapin
    <3> QED
      BY <2>2, <3>2, Halves
  <2> QED
    BY <1>c, <2>3, <2>4, RegionFacts
<1>4. \A p \in Page : m2.page[p] = IF p < Half THEN block[Code(t)][p]
                                   ELSE block[Stack(t)][p]
  <2> SUFFICES ASSUME NEW p \in Page
               PROVE  m2.page[p] = IF p < Half THEN block[Code(t)][p]
                                   ELSE block[Stack(t)][p]
    OBVIOUS
  <2> HIDE DEF m1
  <2> DEFINE b == IF StackOf(cur_thrd) = NULL THEN m1
                  ELSE swapout(m1, StackOf(cur_thrd))
  <2>1. b.in = {CodeOf(t)} \ {NULL}
    BY <1>1, <1>b, <1>c, RegionFacts DEF StackOf, swapout
  <2>2. b.page[p] = IF p < Half THEN block[Code(t)][p] ELSE NULL
    <3>1. CASE cur_thrd = NULL
      BY <3>1, <1>a, <1>3 DEF StackOf, MappedExactly
    <3>2. CASE cur_thrd \in Thread /\ cur_thrd # NULL
      <4>1. b.page[p] = IF block[Stack(cur_thrd)][p] # NULL THEN NULL
                        ELSE m1.page[p]
        BY <3>2, RegionFacts DEF StackOf, swapout
      <4> QED
        BY <4>1, <3>2, <1>a, <1>3, Halves DEF MappedExactly
    <3> QED
      BY <3>1, <3>2, <1>b
  <2>3. ~\E s \in b.in : overlap(Stack(t), s)
    BY <2>1, <1>c, Halves
  <2>4. m2.page[p] = IF block[Stack(t)][p] # NULL THEN block[Stack(t)][p]
                     ELSE b.page[p]
    BY <2>3, <1>c DEF swapflop, swapin
  <2> QED
    BY <2>2, <2>4, Halves
<1>5. \E b : m2.page = [p \in Page |-> IF block[Stack(t)][p] # NULL
                                       THEN block[Stack(t)][p] ELSE b[p]]
  <2> HIDE DEF m1
  <2> DEFINE b == IF StackOf(cur_thrd) = NULL THEN m1
                  ELSE swapout(m1, StackOf(cur_thrd))
  <2>1. b.in = {CodeOf(t)} \ {NULL}
    BY <1>1, <1>b, <1>c, RegionFacts DEF StackOf, swapout
  <2>2. ~\E s \in b.in : overlap(Stack(t), s)
    BY <2>1, <1>c, Halves
  <2>3. m2.page = [p \in Page |-> IF block[Stack(t)][p] # NULL
                                  THEN block[Stack(t)][p] ELSE b.page[p]]
    BY <2>2, <1>c DEF swapflop, swapin
  <2> QED
    BY <2>3
<1> HIDE DEF m1, m2
<1>6. page' \in [Page -> Present \cup {NULL}]
  <2>1. \A p \in Page : page'[p] \in Present \cup {NULL}
    <3> SUFFICES ASSUME NEW p \in Page PROVE page'[p] \in Present \cup {NULL}
      OBVIOUS
    <3>1. \A r \in Region : block[r][p] \in Present \cup {NULL}
      BY <1>a DEF TypeOK
    <3>2. page'[p] = block[Code(t)][p] \/ page'[p] = block[Stack(t)][p]
      BY Zenon, <1>a, <1>4
    <3> QED
      BY Zenon, <3>1, <3>2, RegionFacts
  <2> QED
    BY <2>1, <1>5, <1>a
<1>7. in' \subseteq Region
  <2>1. in' = {CodeOf(t), StackOf(t)} \ {NULL}
    BY Zenon, <1>2, <1>a
  <2>2. Code(t) \in Region /\ Stack(t) \in Region
    BY Zenon, RegionFacts
  <2> QED
    BY Zenon, <1>c, <2>1, <2>2
<1>8. TypeOK' /\ AssertionsHold' /\ FaultResolved'
  BY Zenon, <1>6, <1>7, <1>a
  DEF TypeOK, AssertionsHold, FaultResolved, InIsCurrent
<1>9. MappedExactly'
  BY <1>4, <1>a DEF MappedExactly
<1>10. /\ HeapBelowStack' /\ FramesPrivate' /\ BlocksInside' /\ EmptyIfUnmade'
  <2>1. /\ HeapBelowStack /\ FramesPrivate /\ BlocksInside /\ EmptyIfUnmade
        /\ made' = made /\ kthrd' = kthrd /\ size' = size /\ block' = block /\ phys' = phys
    BY <1>a DEF IInv
  <2>2. HeapBelowStack' /\ BlocksInside'
    BY Zenon, <2>1 DEF HeapBelowStack, BlocksInside, in_region, region_lower, region_upper
  <2>3. FramesPrivate'
    BY <2>1 DEF FramesPrivate, Free
  <2>4. EmptyIfUnmade'
    BY Zenon, <2>1 DEF EmptyIfUnmade
  <2> QED
    BY <2>2, <2>3, <2>4
<1>11. InIsCurrent' /\ PhysOK(phys)'
  BY <1>2, <1>a DEF IInv, InIsCurrent, CodeOf, StackOf
<1> QED
  BY <1>8, <1>9, <1>10, <1>11 DEF IInv

-----------------------------------------------------------------------------
(* A handled fault gives its page what alloc_pgs returned, in the heap     *)
(* below the middle of user space and in the stack above it.               *)
LEMMA FaultIInv ==
  ASSUME IInv, NEW p \in Page, page_fault(p)
  PROVE  IInv'
<1> DEFINE t == cur_thrd
           r == Owner(p)
<1> USE HalfFacts, RegionFacts
<1>a. /\ TypeOK /\ HeapBelowStack /\ MappedExactly /\ FramesPrivate
      /\ BlocksInside /\ EmptyIfUnmade /\ InIsCurrent /\ PhysOK(phys)
  BY DEF IInv
<1>b. t \in made /\ t \in Thread /\ t \notin kthrd /\ t # NULL /\ page[p] = NULL
  BY <1>a DEF page_fault, TypeOK
<1>c. p \in Int /\ Bot <= p /\ p < Top
  BY DEF Page
<1>d. /\ size[Code(t)] \in Nat /\ size[Stack(t)] \in Nat
      /\ Bot + size[Code(t)] <= Half /\ Half <= Top - size[Stack(t)]
  BY <1>a, <1>b DEF TypeOK, HeapBelowStack, region_upper, region_lower, virt
<1>e. r = IF p < Half THEN Code(t) ELSE Stack(t)
  BY <1>b, <1>c, <1>d DEF Owner, in_region, region_upper, region_lower, virt
<1>f. r \in Region /\ block[r][p] = NULL
  BY <1>a, <1>b, <1>e DEF MappedExactly
<1>g. PICK f \in alloc_pgs(phys, 1) :
        /\ block' = [block EXCEPT ![r][p] = f.first]
        /\ page' = [page EXCEPT ![p] = f.first]
        /\ phys' = f.phys
  BY Zenon, <1>f DEF page_fault, assure
<1>h. /\ f.first \in Present /\ f.first # NULL /\ PhysOK(phys')
      /\ Free' \subseteq Free /\ phys.top # "used"
      /\ f.first \in Nat /\ phys'.top # "used" => f.first \in Free /\ f.first \notin Free'
      /\ f.first \notin Nat => Free' = {} \/ phys'.top = "used"
  <2>1. /\ f.first \in Present /\ PhysOK(phys')
        /\ Free' \subseteq Free
        /\ f.first \in Nat => Got(phys, 1, f.first, phys')
        /\ f.first \notin Nat => Free' = {} \/ phys'.top = "used"
    <3>1. 1 \in Nat \ {0} /\ phys' = f.phys
      BY <1>g
    <3>2. /\ f.first \in Present /\ PhysOK(f.phys)
          /\ Available(f.phys.list) \subseteq Available(phys.list)
          /\ f.first \in Nat => Got(phys, 1, f.first, f.phys)
          /\ f.first \notin Nat => Available(f.phys.list) = {} \/ f.phys.top = "used"
      BY <1>a, <3>1, AllocOK
    <3> QED
      BY <3>1, <3>2 DEF Free
  <2>2. Present \subseteq Nat \cup {INVALID_PAGE} /\ NULL \notin Present
    BY SpaceAssumption DEF Present
  <2>3. Got(phys, 1, f.first, phys') /\ phys'.top # "used" /\ f.first \in Nat =>
          f.first \in Free /\ f.first \notin Free'
    <3>1. f.first \in Nat => f.first + 0 = f.first
      OBVIOUS
    <3> QED
      BY <3>1 DEF Got, Free
  <2> QED
    BY <2>1, <2>2, <2>3 DEF page_fault, Running
<1>i. /\ resumed' = p /\ UNCHANGED <<made, kthrd, in, cur_thrd>>
      /\ \/ in_region(r, p) /\ UNCHANGED <<size, st>>
         \/ /\ ~in_region(r, p)
            /\ st' = IF grow_asserts(r, GrowEnd(p)) THEN "up" ELSE "failed"
            /\ size' = [size EXCEPT ![r] = GrownTo(r, GrowEnd(p))]
      /\ st = "up"
  BY DEF page_fault, Running
<1> HIDE DEF t, r
<1>1. /\ st' = "up"
      /\ size' \in [Region -> Nat]
      /\ size[r] <= size'[r]
      /\ \A s \in Region : s # r => size'[s] = size[s]
      /\ p < Half => p < Bot + size'[r] /\ Bot + size'[r] <= Half
      /\ ~(p < Half) => Top - size'[r] <= p /\ Half <= Top - size'[r]
  <2>1. CASE in_region(r, p) /\ UNCHANGED <<size, st>>
    BY <2>1, <1>a, <1>b, <1>c, <1>d, <1>e, <1>f, <1>i
    DEF TypeOK, in_region, region_upper, region_lower, virt
  <2>2. CASE /\ ~in_region(r, p)
             /\ st' = IF grow_asserts(r, GrowEnd(p)) THEN "up" ELSE "failed"
             /\ size' = [size EXCEPT ![r] = GrownTo(r, GrowEnd(p))]
    <3>1. CASE p < Half
      <4>1. r = Code(t) /\ GrownTo(r, GrowEnd(p)) = p + 1 - Bot
        BY <3>1, <1>b, <1>c, <1>e DEF GrownTo, GrowEnd, virt
      <4>2. size[r] < p + 1 - Bot
        <5>1. region_lower(r) = Bot /\ region_upper(r) = Bot + size[r]
          BY <4>1, <1>b, Ends
        <5>2. size[r] \in Nat /\ ~(region_lower(r) <= p /\ p < region_upper(r))
          BY <2>2, <4>1, <1>d DEF in_region
        <5> QED
          BY <5>1, <5>2, <1>c
      <4> QED
        BY <2>2, <3>1, <4>1, <4>2, <1>a, <1>c, <1>d, <1>f DEF TypeOK, grow_asserts
    <3>2. CASE ~(p < Half)
      <4>1. r = Stack(t) /\ GrownTo(r, GrowEnd(p)) = Top - p
        BY <3>2, <1>b, <1>e DEF GrownTo, GrowEnd, virt
      <4>2. size[r] < Top - p
        <5>1. region_lower(r) = Top - size[r] /\ region_upper(r) = Top
          BY <4>1, <1>b, Ends
        <5>2. size[r] \in Nat /\ ~(region_lower(r) <= p /\ p < region_upper(r))
          BY <2>2, <4>1, <1>d DEF in_region
        <5> QED
          BY <5>1, <5>2, <1>c
      <4> QED
        BY <2>2, <3>2, <4>1, <4>2, <1>a, <1>c, <1>d, <1>f DEF TypeOK, grow_asserts
    <3> QED
      BY Zenon, <3>1, <3>2
  <2> QED
    BY Zenon, <1>i, <2>1, <2>2
<1>2. /\ block' \in [Region -> [Page -> Present \cup {NULL}]]
      /\ page' \in [Page -> Present \cup {NULL}]
      /\ block'[r][p] = f.first /\ page'[p] = f.first
      /\ \A s \in Region, q \in Page : s # r \/ q # p => block'[s][q] = block[s][q]
      /\ \A q \in Page : q # p => page'[q] = page[q]
  BY <1>a, <1>f, <1>g, <1>h DEF TypeOK
<1>3. TypeOK'
  BY Zenon, <1>1, <1>2, <1>a, <1>h, <1>i DEF TypeOK, PhysOK
<1>4. AssertionsHold' /\ FaultResolved'
  <2>1. page'[p] \in Nat \/ (page'[p] = INVALID_PAGE /\ (Free' = {} \/ phys'.top = "used"))
    BY <1>2, <1>h DEF Present
  <2> QED
    BY <2>1, <1>1, <1>i DEF AssertionsHold, FaultResolved
<1>5. HeapBelowStack'
  <2> SUFFICES ASSUME NEW u \in Thread
               PROVE  Bot + size'[Code(u)] <= Half /\ Half <= Top - size'[Stack(u)]
    BY DEF HeapBelowStack, region_upper, region_lower, virt
  <2>1. Bot + size[Code(u)] <= Half /\ Half <= Top - size[Stack(u)]
    BY <1>a DEF HeapBelowStack, region_upper, region_lower, virt
  <2> QED
    BY <2>1, <1>1, <1>b, <1>c, <1>e
<1>6. MappedExactly'
  <2>1. cur_thrd' = t /\ t # NULL
    BY <1>b, <1>i DEF t
  <2>2. \A q \in Page : page[q] = IF q < Half THEN block[Code(t)][q]
                                  ELSE block[Stack(t)][q]
    BY <1>a, <1>b DEF MappedExactly, t
  <2>3. \A q \in Page : page'[q] = IF q < Half THEN block'[Code(t)][q]
                                   ELSE block'[Stack(t)][q]
    BY <2>2, <1>2, <1>b, <1>e
  <2> QED
    BY <2>1, <2>3 DEF MappedExactly
<1>7. FramesPrivate'
  <2> SUFFICES ASSUME phys'.top # "used",
                      NEW s \in Region, NEW q \in Page, block'[s][q] \in Nat
               PROVE  /\ block'[s][q] \notin Free'
                      /\ \A s2 \in Region, q2 \in Page :
                           block'[s2][q2] = block'[s][q] => s2 = s /\ q2 = q
    BY DEF FramesPrivate
  <2>1. CASE s = r /\ q = p
    <3>1. block'[s][q] = f.first /\ f.first \in Free /\ f.first \in Nat
      BY <2>1, <1>2, <1>h
    <3>2. ASSUME NEW s2 \in Region, NEW q2 \in Page, ~(s2 = r /\ q2 = p)
          PROVE  block'[s2][q2] # f.first
      <4>1. block'[s2][q2] = block[s2][q2]
        BY <3>2, <1>2
      <4> QED
        BY <3>1, <4>1, <1>a, <1>h DEF FramesPrivate
    <3> QED
      BY <2>1, <3>1, <3>2, <1>h
  <2>2. CASE ~(s = r /\ q = p)
    <3>1. block'[s][q] = block[s][q] /\ block[s][q] \notin Free
      <4>1. block'[s][q] = block[s][q]
        BY Zenon, <2>2, <1>2
      <4>2. phys.top # "used" /\ FramesPrivate
        BY Zenon, <1>a, <1>h
      <4> QED
        BY Zenon, <4>1, <4>2 DEF FramesPrivate
    <3>2. block'[s][q] # block'[r][p]
      BY <3>1, <1>2, <1>h
    <3>3. ASSUME NEW s2 \in Region, NEW q2 \in Page, block'[s2][q2] = block'[s][q]
          PROVE  s2 = s /\ q2 = q
      <4>1. ~(s2 = r /\ q2 = p)
        BY <3>2, <3>3
      <4>2. block[s2][q2] = block[s][q] /\ block[s][q] \in Nat
        BY <3>1, <3>3, <4>1, <1>2
      <4> QED
        BY <4>2, <1>a, <1>h DEF FramesPrivate
    <3> QED
      BY <3>1, <3>3, <1>h
  <2> QED
    BY <2>1, <2>2
<1>8. BlocksInside'
  <2> SUFFICES ASSUME NEW s \in Region, NEW q \in Page, block'[s][q] # NULL
               PROVE  in_region(s, q)'
    BY DEF BlocksInside
  <2>0. q \in Int /\ Bot <= q /\ q < Top /\ size[s] \in Nat /\ size'[s] \in Nat
    <3>1. size \in [Region -> Nat] /\ size' \in [Region -> Nat]
      BY Zenon, <1>1, <1>a DEF TypeOK
    <3> QED
      BY <3>1 DEF Page
  <2>1. size[s] <= size'[s]
    <3>1. CASE s = r
      BY Zenon, <3>1, <1>1
    <3>2. CASE s # r
      <4>1. size'[s] = size[s]
        BY Zenon, <3>2, <1>1
      <4> QED
        BY <4>1, <2>0
    <3> QED
      BY <3>1, <3>2
  <2>2. CASE s = r /\ q = p
    BY <2>0, <2>2, <1>1, <1>b, <1>c, <1>e
    DEF in_region, region_upper, region_lower, virt
  <2>3. CASE ~(s = r /\ q = p)
    <3>1. in_region(s, q)
      BY <2>3, <1>2, <1>a DEF BlocksInside
    <3> QED
      BY <2>0, <2>1, <3>1 DEF in_region, region_upper, region_lower, virt
  <2> QED
    BY <2>2, <2>3
<1>9. EmptyIfUnmade'
  <2> SUFFICES ASSUME NEW u \in Thread
               PROVE  /\ u \notin made \ kthrd =>
                           /\ size'[Code(u)] = 0
                           /\ \A q \in Page : block'[Code(u)][q] = NULL
                      /\ u \notin made =>
                           /\ size'[Stack(u)] = 0
                           /\ \A q \in Page : block'[Stack(u)][q] = NULL
    BY <1>i DEF EmptyIfUnmade
  <2>1. /\ u \notin made \ kthrd => Code(u) # r
        /\ u \notin made => Stack(u) # r
    BY <1>b, <1>e
  <2>2. /\ Code(u) # r => /\ size'[Code(u)] = size[Code(u)]
                          /\ \A q \in Page : block'[Code(u)][q] = block[Code(u)][q]
        /\ Stack(u) # r => /\ size'[Stack(u)] = size[Stack(u)]
                           /\ \A q \in Page : block'[Stack(u)][q] = block[Stack(u)][q]
    BY <1>1, <1>2
  <2>3. EmptyIfUnmade
    BY <1>a
  <2> HIDE HalfFacts, RegionFacts
  <2> QED
    BY <2>1, <2>2, <2>3, Zenon DEF EmptyIfUnmade
<1>10. InIsCurrent'
  BY <1>a, <1>i DEF InIsCurrent, CodeOf, StackOf
<1> QED
  BY <1>h, <1>3, <1>4, <1>5, <1>6, <1>7, <1>8, <1>9, <1>10 DEF IInv

LEMMA NextIInv == IInv /\ [Next]_vars => IInv'
<1> SUFFICES ASSUME IInv, [Next]_vars PROVE IInv'
  OBVIOUS
<1>0. PhysOK(phys)
  BY DEF IInv
<1>1. ASSUME NEW t \in Thread, kspawn(t) PROVE IInv'
  <2>1. PICK g \in alloc_pgs(phys, 2) :
          /\ phys' = g.phys
          /\ \/ /\ NoFrame(g)
                /\ st' = "looping"
                /\ UNCHANGED <<made, kthrd, size, block>>
             \/ /\ ~NoFrame(g)
                /\ size' = [size EXCEPT ![Stack(t)] = 2]
                /\ block' = [block EXCEPT ![Stack(t)] = Blocks(Top - 2, 2, g.first)]
                /\ made' = made \cup {t}
                /\ kthrd' = kthrd \cup {t}
                /\ UNCHANGED st
    BY Zenon, <1>1 DEF kspawn
  <2>2. UNCHANGED <<in, page, cur_thrd, resumed>> /\ t \notin made
    BY <1>1 DEF kspawn
  <2>3. /\ g.first \in Present /\ PhysOK(phys')
        /\ Available(phys'.list) \subseteq Available(phys.list)
        /\ phys.top = "used" => phys'.top = "used"
        /\ g.first \in Nat => Got(phys, 2, g.first, phys')
    <3>1. 2 \in Nat \ {0} /\ phys' = g.phys
      BY Zenon, <2>1, TwoPages
    <3>2. /\ g.first \in Present /\ PhysOK(g.phys)
          /\ Available(g.phys.list) \subseteq Available(phys.list)
          /\ phys.top = "used" => g.phys.top = "used"
          /\ g.first \in Nat => Got(phys, 2, g.first, g.phys)
      BY <1>0, <3>1, AllocOK, Zenon
    <3> QED
      BY <3>1, <3>2, Zenon
  <2>4. CASE NoFrame(g)
    <3>1. st' = "looping" /\ UNCHANGED <<made, kthrd, size, block>>
      BY Zenon, <2>1, <2>4
    <3> QED
      BY Zenon, <2>2, <2>3, <3>1, LoopIInv
  <2>5. CASE ~NoFrame(g)
    <3>1. Got(phys, 2, g.first, phys')
      BY <2>3, <2>5 DEF NoFrame, Present
    <3>2. Got(phys, 0, 0, phys)
      BY <1>0 DEF Got
    <3>3. 0 \in 0..Half - Bot
      BY HalfFacts
    <3>4. block[Code(t)] = Blocks(Bot, 0, 0) /\ size[Code(t)] = 0
      <4>1. \A p \in Page : p \in Nat /\ ~(p < Bot + 0)
        BY HalfFacts DEF Page
      <4>2. Blocks(Bot, 0, 0) = [p \in Page |-> NULL]
        BY <4>1, HalfFacts DEF Blocks
      <4> QED
        <5>1. /\ TypeOK /\ EmptyIfUnmade /\ t \notin made \ kthrd
          BY Zenon, <2>2 DEF IInv
        <5>2. /\ size[Code(t)] = 0 /\ \A p \in Page : block[Code(t)][p] = NULL
          BY Zenon, <5>1 DEF EmptyIfUnmade
        <5>3. block[Code(t)] \in [Page -> Present \cup {NULL}]
          BY Zenon, <5>1, RegionFacts DEF TypeOK
        <5> QED
          BY <4>2, <5>2, <5>3
    <3>5. /\ size' = [size EXCEPT ![Code(t)] = 0, ![Stack(t)] = 2]
          /\ block' = [block EXCEPT ![Code(t)] = Blocks(Bot, 0, 0),
                                    ![Stack(t)] = Blocks(Top - 2, 2, g.first)]
      BY Zenon, <2>1, <2>5, <3>4, RegionFacts DEF IInv, TypeOK
    <3>6. made' = made \cup {t} /\ kthrd' = kthrd \cup {t} /\ UNCHANGED st
      BY Zenon, <2>1, <2>5
    <3> QED
      BY Zenon, <2>2, <3>1, <3>2, <3>3, <3>5, <3>6, SpawnIInv
  <2> QED
    BY <2>4, <2>5
<1>2. ASSUME NEW t \in Thread, uspawn(t) PROVE IInv'
  <2>1. PICK n \in CodeSizes : \E f \in alloc_pgs(phys, n) :
          \/ /\ NoFrame(f)
             /\ phys' = f.phys /\ st' = "looping"
             /\ UNCHANGED <<made, size, block>>
          \/ /\ ~NoFrame(f)
             /\ \E g \in alloc_pgs(f.phys, 2) :
                  /\ phys' = g.phys
                  /\ \/ /\ NoFrame(g)
                        /\ st' = "looping"
                        /\ UNCHANGED <<made, size, block>>
                     \/ /\ ~NoFrame(g)
                        /\ size' = [size EXCEPT ![Code(t)] = n, ![Stack(t)] = 2]
                        /\ block' = [block EXCEPT ![Code(t)] = Blocks(Bot, n, f.first),
                                                  ![Stack(t)] = Blocks(Top - 2, 2, g.first)]
                        /\ made' = made \cup {t}
                        /\ UNCHANGED st
    BY Zenon, <1>2 DEF uspawn
  <2>2. PICK f \in alloc_pgs(phys, n) :
          \/ /\ NoFrame(f)
             /\ phys' = f.phys /\ st' = "looping"
             /\ UNCHANGED <<made, size, block>>
          \/ /\ ~NoFrame(f)
             /\ \E g \in alloc_pgs(f.phys, 2) :
                  /\ phys' = g.phys
                  /\ \/ /\ NoFrame(g)
                        /\ st' = "looping"
                        /\ UNCHANGED <<made, size, block>>
                     \/ /\ ~NoFrame(g)
                        /\ size' = [size EXCEPT ![Code(t)] = n, ![Stack(t)] = 2]
                        /\ block' = [block EXCEPT ![Code(t)] = Blocks(Bot, n, f.first),
                                                  ![Stack(t)] = Blocks(Top - 2, 2, g.first)]
                        /\ made' = made \cup {t}
                        /\ UNCHANGED st
    BY Zenon, <2>1
  <2>3. /\ UNCHANGED <<kthrd, in, page, cur_thrd, resumed>> /\ t \notin made
        /\ n \in 0..Half - Bot /\ n # 0 /\ n \in Nat \ {0}
    <3>1. UNCHANGED <<kthrd, in, page, cur_thrd, resumed>> /\ t \notin made
      BY Zenon, <1>2 DEF uspawn
    <3>2. n \in 1..Half - Bot
      BY Zenon, SpaceAssumption
    <3>3. n \in 0..Half - Bot /\ n # 0 /\ n \in Nat \ {0}
      BY <3>2, HalfFacts
    <3> QED
      BY <3>1, <3>3
  <2>4. /\ f.first \in Present /\ PhysOK(f.phys)
        /\ Available(f.phys.list) \subseteq Available(phys.list)
        /\ phys.top = "used" => f.phys.top = "used"
        /\ f.first \in Nat => Got(phys, n, f.first, f.phys)
    BY <1>0, <2>2, <2>3, AllocOK
  <2>5. CASE NoFrame(f)
    <3>1. phys' = f.phys /\ st' = "looping" /\ UNCHANGED <<made, size, block>>
      BY Zenon, <2>2, <2>5
    <3> QED
      BY Zenon, <2>3, <2>4, <3>1, LoopIInv
  <2>6. CASE ~NoFrame(f)
    <3>1. PICK g \in alloc_pgs(f.phys, 2) :
            /\ phys' = g.phys
            /\ \/ /\ NoFrame(g)
                  /\ st' = "looping"
                  /\ UNCHANGED <<made, size, block>>
               \/ /\ ~NoFrame(g)
                  /\ size' = [size EXCEPT ![Code(t)] = n, ![Stack(t)] = 2]
                  /\ block' = [block EXCEPT ![Code(t)] = Blocks(Bot, n, f.first),
                                            ![Stack(t)] = Blocks(Top - 2, 2, g.first)]
                  /\ made' = made \cup {t}
                  /\ UNCHANGED st
      BY Zenon, <2>2, <2>6
    <3>2. /\ g.first \in Present /\ PhysOK(phys')
          /\ Available(phys'.list) \subseteq Available(f.phys.list)
          /\ f.phys.top = "used" => phys'.top = "used"
          /\ g.first \in Nat => Got(f.phys, 2, g.first, phys')
      <4>1. 2 \in Nat \ {0} /\ phys' = g.phys
        BY Zenon, <3>1, TwoPages
      <4>2. /\ g.first \in Present /\ PhysOK(g.phys)
            /\ Available(g.phys.list) \subseteq Available(f.phys.list)
            /\ f.phys.top = "used" => g.phys.top = "used"
            /\ g.first \in Nat => Got(f.phys, 2, g.first, g.phys)
        BY <2>4, <4>1, AllocOK, Zenon
      <4> QED
        BY <4>1, <4>2, Zenon
    <3>3. CASE NoFrame(g)
      <4>1. st' = "looping" /\ UNCHANGED <<made, size, block>>
        BY Zenon, <3>1, <3>3
      <4>2. /\ Available(phys'.list) \subseteq Available(phys.list)
            /\ phys.top = "used" => phys'.top = "used"
        BY <2>4, <3>2
      <4> QED
        BY Zenon, <2>3, <3>2, <4>1, <4>2, LoopIInv
    <3>4. CASE ~NoFrame(g)
      <4>1. Got(phys, n, f.first, f.phys) /\ Got(f.phys, 2, g.first, phys')
        BY <2>4, <2>6, <3>2, <3>4 DEF NoFrame, Present
      <4>2. /\ size' = [size EXCEPT ![Code(t)] = n, ![Stack(t)] = 2]
            /\ block' = [block EXCEPT ![Code(t)] = Blocks(Bot, n, f.first),
                                      ![Stack(t)] = Blocks(Top - 2, 2, g.first)]
            /\ made' = made \cup {t}
            /\ UNCHANGED st
        BY Zenon, <3>1, <3>4
      <4> QED
        BY Zenon, <2>3, <4>1, <4>2, SpawnIInv
    <3> QED
      BY <3>3, <3>4
  <2> QED
    BY <2>5, <2>6
<1>3. ASSUME NEW t \in Thread, yield(t) PROVE IInv'
  BY <1>3, YieldIInv
<1>4. ASSUME NEW p \in Page, page_fault(p) PROVE IInv'
  BY <1>4, FaultIInv
<1>6. ASSUME NEW p \in Page, unhandlable_fault(p) PROVE IInv'
  <2>1. st' = "looping" /\ UNCHANGED <<made, kthrd, size, block, phys, in, page, cur_thrd, resumed>>
    BY <1>6 DEF unhandlable_fault
  <2> QED
    BY <1>0, <2>1, LoopIInv
<1>5. CASE UNCHANGED vars
  <2> USE <1>5 DEF vars, IInv
  <2>1. TypeOK' /\ AssertionsHold' /\ MappedExactly'
    BY Zenon DEF TypeOK, AssertionsHold, MappedExactly
  <2>2. HeapBelowStack'
    BY Zenon DEF HeapBelowStack, region_lower, region_upper
  <2>3. FramesPrivate'
    <3>1. FramesPrivate /\ block' = block /\ phys' = phys
      BY Zenon
    <3> HIDE <1>5 DEF vars, IInv
    <3> QED
      BY <3>1 DEF FramesPrivate, Free
  <2>4. FaultResolved' /\ EmptyIfUnmade'
    BY Zenon DEF FaultResolved, Free, EmptyIfUnmade
  <2>5. BlocksInside'
    BY Zenon DEF BlocksInside, in_region, region_lower, region_upper
  <2>6. InIsCurrent'
    BY Zenon DEF InIsCurrent, CodeOf, StackOf
  <2> QED
    BY Zenon, <1>0, <2>1, <2>2, <2>3, <2>4, <2>5, <2>6
<1> QED
  BY <1>1, <1>2, <1>3, <1>4, <1>5, <1>6 DEF Next

LEMMA Invariance == Spec => []IInv
<1>1. Init => IInv
  BY InitIInv
<1>2. IInv /\ [Next]_vars => IInv'
  BY NextIInv
<1> QED
  BY <1>1, <1>2, PTL DEF Spec

-----------------------------------------------------------------------------
(* No assertion of region.c fails (grow 92, 93 and 104, swapout 200).      *)
THEOREM RegionAssertions == Spec => []AssertionsHold
<1>1. IInv => AssertionsHold
  BY DEF IInv
<1> QED
  BY <1>1, Invariance, PTL

(* Heaps and stacks stay apart, so swapin() never refuses a region.        *)
THEOREM RegionsApart == Spec => []HeapBelowStack
<1>1. IInv => HeapBelowStack
  BY DEF IInv
<1> QED
  BY <1>1, Invariance, PTL

(* The page table is exactly that of the running thread, through all       *)
(* faults and switches.                                                    *)
THEOREM MappedIsOwned == Spec => []MappedExactly
<1>1. IInv => MappedExactly
  BY DEF IInv
<1> QED
  BY <1>1, Invariance, PTL

(* No two pages, of one thread or of two, share a frame, and none that is  *)
(* in use is still free, until alloc_pgs uses the heads[] descriptor that  *)
(* it freed itself (pages.c 73-76): neither the exact fit that frees it    *)
(* nor running out of memory breaks this, for any memory map.              *)
THEOREM MemoryIsolated == Spec => []FramesPrivate
<1>1. IInv => FramesPrivate
  BY DEF IInv
<1> QED
  BY <1>1, Invariance, PTL

(* A write whose fault page_fault() handled finds a frame when it is       *)
(* resumed, unless no page of memory was left, or a freed descriptor was   *)
(* used: only then INVALID_PAGE is what was mapped.                        *)
THEOREM FaultsAreResolved == Spec => []FaultResolved
<1>1. IInv => FaultResolved
  BY DEF IInv
<1> QED
  BY <1>1, Invariance, PTL
=============================================================================
