------------------------------- MODULE Image -------------------------------
(***************************************************************************)
(* The file system builder (util/fsb) and the boot loader's reading of     *)
(* what it builds.  A description is a sequence of directives; each makes  *)
(* nodes in the metadata block and, for a file, reserves blocks of data.   *)
(* A name is a number, ordered as strcmp orders the strings.  A node is    *)
(* named by its fptr (its entry in the metadata block), 0 being NULL.      *)
(* Permissions and owners are left out.                                    *)
(***************************************************************************)
EXTENDS Integers, Sequences, FiniteSets, FiniteSetsExt, SequencesExt, TLC

CONSTANTS
  Name,            \* the names a description may use
  NameLength,      \* their strlen
  KernelNames,     \* the names that begin with "kernel.bin"
  FileSizes,       \* the sizes that the host's file may have, by name
  ENTRY_SIZE,      \* bytes of one entry of the metadata block
  ENTRIES,         \* entries of the metadata block
  block_size,      \* bytes of a data block
  SECTOR_SIZE,     \* bytes of a sector of the disk
  start_block,     \* the first block of the file system
  COUNT_BITS,      \* of the sector count in the loader's address packet
  LBA_BITS,        \* of the half of the sector's number the loader shifts
  Targets,         \* what an indirection may name
  MaxDirectives

ASSUME ImageAssumption ==
  /\ Name \subseteq Nat \ {0} /\ KernelNames \cup Targets \subseteq Name
  /\ NameLength \in [Name -> Nat] /\ FileSizes \in [Name -> SUBSET Nat]
  /\ {ENTRY_SIZE, ENTRIES, block_size, SECTOR_SIZE, start_block} \subseteq Nat \ {0}
  /\ COUNT_BITS \in Nat /\ LBA_BITS \in Nat
  /\ block_size % SECTOR_SIZE = 0

NULL == 0
FNODE_ADD_SIZE == 2
sizeof == [header |-> 32, common |-> 18, string |-> 14, block |-> 22, branch |-> 30]

VARIABLES
  fs,     \* the builder: next_lba, free, node, strtbl, root; st, and ret
  want    \* the directives executed, each with the node it made

Node == [type |-> "free", name |-> NULL, next |-> NULL, data |-> NULL,
         left |-> NULL, right |-> NULL, lba |-> 0, size |-> 0, entries |-> 0]

\* The macro rounds up to the next multiple, also when addr is one.
align(addr, to) == (addr - (addr % to)) + to

Entries(bytes) == align(bytes, ENTRY_SIZE) \div ENTRY_SIZE

-----------------------------------------------------------------------------
(* A binary tree of strings, as the builder and the kernel both keep it.   *)

RECURSIVE Search(_, _, _, _)
Search(tab, x, par, name) ==
  IF x = NULL \/ tab[x].name = name THEN [at |-> x, lpar |-> par]
  ELSE Search(tab, IF name < tab[x].name THEN tab[x].left ELSE tab[x].right, x, name)

Hang(tab, lpar, name, new) ==
  IF name < tab[lpar].name THEN [tab EXCEPT ![lpar].left = new]
                           ELSE [tab EXCEPT ![lpar].right = new]

-----------------------------------------------------------------------------
(* Nodes are cut off the low end of the block's free node.  The code past  *)
(* the end of the first block ("warning (I am not sure if this works)")    *)
(* cuts the node out of the branch node it has just made, or asserts: the  *)
(* model stops there with st "overflow" or "aborted".                      *)

new_node_past_end(f, n) ==
  IF f.st # "up" THEN f
  ELSE [f EXCEPT !.ret = NULL, !.st =
          IF f.free.size >= Entries(sizeof.branch + FNODE_ADD_SIZE)
          THEN "overflow" ELSE "aborted"]

Cut(free, n) == [ptr |-> free.ptr + n, size |-> free.size - n]

new_node(f, bytes) ==
  LET n == Entries(bytes + FNODE_ADD_SIZE) IN
  IF f.st # "up" \/ f.free.size < n THEN new_node_past_end(f, n)
  ELSE [f EXCEPT !.ret = f.free.ptr, !.free = Cut(f.free, n),
                 !.node = (f.free.ptr :> [Node EXCEPT !.entries = n]) @@ @]

Put(f, p, record) == [f EXCEPT !.node = (p :> record) @@ @]

get_string(f, str) ==
  LET s == Search(f.node, f.strtbl, NULL, str)
      g == new_node(f, sizeof.string + NameLength[str] + 1)
      h == Put(g, g.ret, [g.node[g.ret] EXCEPT !.type = "string", !.name = str])
  IN  CASE f.st # "up"      -> f
        [] s.at # NULL      -> [f EXCEPT !.ret = s.at]
        [] g.st # "up"      -> g
        [] s.lpar = NULL    -> [h EXCEPT !.strtbl = g.ret]
        [] OTHER            -> [h EXCEPT !.node = Hang(h.node, s.lpar, str, g.ret)]

\* The new node goes to the front of its parent's chain.
new_common(f, type, name, parent) ==
  LET g == new_node(f, sizeof.common)
      new == [g.node[g.ret] EXCEPT !.type = type, !.next = f.node[parent].data]
      h == get_string([Put(g, g.ret, new) EXCEPT !.node[parent].data = g.ret], name)
  IN  IF g.st # "up" THEN g
      ELSE [h EXCEPT !.node[g.ret].name = h.ret, !.ret = g.ret]

\* Fault: the last, partly filled block is not counted.
Blocks_floor(size) == size \div block_size

Blocks(size) == align(size, block_size) \div block_size

\* block.name stands for block.filename: the directive whose file it holds.
new_file(f, name, size, actual, parent) ==
  LET g == new_common(f, "file", name, parent)
      h == new_node(g, sizeof.block)
      b == [h.node[h.ret] EXCEPT !.type = "block", !.lba = h.next_lba,
                                 !.size = size, !.name = actual]
  IN  IF h.st # "up" THEN h
      ELSE [Put(h, h.ret, b) EXCEPT !.node[g.ret].data = h.ret, !.ret = g.ret,
                                    !.next_lba = @ + Blocks(size)]

new_dir(f, name, parent) == new_common(f, "directory", name, parent)

new_indir(f, name, to, parent) ==
  LET g == new_common(f, "indirect", name, parent)
      h == get_string(g, to)
  IN  IF h.st # "up" THEN h ELSE [h EXCEPT !.node[g.ret].data = h.ret, !.ret = g.ret]

\* new_meta(NULL): two copies of the block, a header, one free node.
new_meta ==
  LET hdr == Entries(sizeof.header)
  IN  [next_lba |-> start_block + 2, free |-> [ptr |-> hdr, size |-> ENTRIES - hdr],
       node |-> <<>>, strtbl |-> NULL, root |-> NULL, ret |-> NULL, st |-> "up"]

\* parse_fsd: the root directory has no name and no parent.
parse_fsd ==
  LET f == new_node(new_meta, sizeof.common)
  IN  [f EXCEPT !.node[f.ret].type = "directory", !.root = f.ret]

-----------------------------------------------------------------------------
(* The directives.  A "contents" string ends at the first '}', so a        *)
(* directory inside a directory may be declared but not given contents:    *)
(* parsing the cut string never ends, st "hung".                           *)

Parent(i) == IF i = 0 THEN fs.root ELSE want[i].node

Depth(i) == CASE i = 0 -> 0 [] want[i].par = 0 -> 1 [] OTHER -> 2

Done(kind, name, par, size, f) ==
  LET g == IF Depth(par) > 1 /\ f.st = "up" THEN [f EXCEPT !.st = "hung"] ELSE f
  IN  /\ fs' = [g EXCEPT !.ret = NULL]
      /\ want' = Append(want, [kind |-> kind, name |-> name, par |-> par,
                               size |-> size, node |-> g.ret])

Dirs == {0} \cup {i \in DOMAIN want : want[i].kind = "directory"}

fconfirm(name, size, par) ==
  Done("file", name, par, size, new_file(fs, name, size, Len(want) + 1, Parent(par)))

dconfirm(name, par) == Done("directory", name, par, 0, new_dir(fs, name, Parent(par)))

iconfirm(name, to, par) == Done("indirect", name, par, 0, new_indir(fs, name, to, Parent(par)))

Directive ==
  /\ fs.st = "up" /\ Len(want) < MaxDirectives
  /\ \E name \in Name, par \in Dirs :
       \/ \E size \in FileSizes[name] : fconfirm(name, size, par)
       \/ dconfirm(name, par)
       \/ \E to \in Targets : iconfirm(name, to, par)

\* write_fs: no later directive changes what is on the disk.
write_fs == fs.st = "up" /\ fs' = [fs EXCEPT !.st = "written"] /\ UNCHANGED want

ImageInit == fs = parse_fsd /\ want = <<>>

-----------------------------------------------------------------------------
(* The disk that write_fs leaves: byte i of the file that directive d      *)
(* names is <<d, i>>; zeros fill its last block.  Nodes are written in the *)
(* order of their place in the block, so of two that overlap the last one  *)
(* wins.                                                                   *)

BlockNodes == {p \in DOMAIN fs.node : fs.node[p].type = "block"}

Zero == <<0, 0>>

Byte(addr) ==
  LET Holds(p) == addr >= fs.node[p].lba * block_size
                  /\ addr < fs.node[p].lba * block_size + fs.node[p].size
      on == {p \in BlockNodes : Holds(p)}
  IN  IF on = {} THEN Zero
      ELSE LET p == Max(on) IN <<fs.node[p].name, addr - fs.node[p].lba * block_size>>

Content(d) == [i \in 1..want[d].size |-> <<d, i - 1>>]

-----------------------------------------------------------------------------
(* The boot loader: it follows the root's chain until a name begins with   *)
(* "kernel.bin", whatever the node's type, and reads whole sectors.        *)

RECURSIVE search_loop(_)
search_loop(n) ==
  IF n = NULL \/ fs.node[fs.node[n].name].name \in KernelNames THEN n
  ELSE search_loop(fs.node[n].next)

\* Fault: a partly filled last sector is not read.
Sectors_floor(size) == (size \div SECTOR_SIZE) % 2^COUNT_BITS

\* The count goes into a word.
Sectors(size) ==
  ((size \div SECTOR_SIZE) + (IF size % SECTOR_SIZE = 0 THEN 0 ELSE 1)) % 2^COUNT_BITS

\* From a block's number to a sector's: the low half is shifted, what it
\* loses does not reach the high half, and that is not shifted.
FirstSector(lba) ==
  LET half == 2^LBA_BITS
  IN  (((lba % half) * (block_size \div SECTOR_SIZE)) % half) + (lba \div half) * half

load_kernel ==
  LET b == fs.node[fs.node[search_loop(fs.node[fs.root].data)].data]
  IN  [i \in 1..(Sectors(b.size) * SECTOR_SIZE) |->
         Byte(FirstSector(b.lba) * SECTOR_SIZE + i - 1)]

-----------------------------------------------------------------------------
\* No two nodes of the metadata block share an entry and none lies in the
\* header or the free node; no two files share a block, and none has a block
\* of the metadata's two copies (new_node, new_file).  A string has one node,
\* found again in whatever order names and targets are asked for (get_string).
NodesApart ==
  fs.st \in {"up", "written"} =>
    /\ \A p, q \in DOMAIN fs.node : p < q => p + fs.node[p].entries <= q
    /\ \A p \in DOMAIN fs.node : /\ p >= Entries(sizeof.header)
                                 /\ p + fs.node[p].entries <= fs.free.ptr
    /\ \A p \in BlockNodes :
         /\ fs.node[p].lba >= start_block + 2
         /\ \A q \in BlockNodes \ {p} : fs.node[p].lba <= fs.node[q].lba =>
              fs.node[p].lba * block_size + fs.node[p].size <= fs.node[q].lba * block_size
    /\ \A p \in DOMAIN fs.node : fs.node[p].type = "string" =>
         Search(fs.node, fs.strtbl, NULL, fs.node[p].name).at = p

\* The sectors of the file of directive i have numbers, and are as many, as the
\* loader's halves and words hold.
InReach(i) ==
  LET b == fs.node[fs.node[want[i].node].data]
  IN  /\ b.size <= (2^COUNT_BITS - 1) * SECTOR_SIZE
      /\ b.lba * (block_size \div SECTOR_SIZE) < 2^LBA_BITS

\* Where exactly one entry of the root directory begins with "kernel.bin" and
\* it is a file, the boot loader reads that file, all of it, followed by at
\* most the rest of its last sector (load_kernel), unless the file is so large
\* or so far that "some lba/size data is lost" (fs.inc 37).
BootsTheKernel ==
  LET named == {i \in DOMAIN want : want[i].par = 0 /\ want[i].name \in KernelNames}
  IN  fs.st = "written" /\ Cardinality(named) = 1 =>
        \A i \in named : want[i].kind = "file" /\ InReach(i) =>
          /\ Len(load_kernel) \in want[i].size .. (want[i].size + SECTOR_SIZE - 1)
          /\ SubSeq(load_kernel, 1, want[i].size) = Content(i)
=============================================================================
