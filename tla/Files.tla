------------------------------- MODULE Files -------------------------------
(***************************************************************************)
(* The kernel's file system (kernel/src/fs), the disk below it (dev.c,     *)
(* ata.c) and the streams above it (lib/cstd stdio.c), on an image that    *)
(* module Image builds.  An entry is named by its index in ent, the order  *)
(* of creation; 0 is NULL and 1 is root_dir.  System calls are atomic.     *)
(* Where the code hangs, asserts or frees an entry that a stream still     *)
(* uses, the model stops: st says why.                                     *)
(***************************************************************************)
EXTENDS Image

CONSTANTS
  Dev, Devices,    \* "dev", and the names of the devices entered below it
  DeviceSize,      \* the size of a device's virtual file
  SECTOR_COUNT,    \* sectors one ATA command transfers (8 bits: 256)
  Stream,          \* FILE objects of the programs
  Paths,           \* the paths they open, each a sequence of names
  Chunks,          \* n * sz of fread and fwrite
  Offsets,         \* offsets of fseek
  MaxBooted,       \* directives of the longest description that is booted
  MaxEntries, MaxCalls

VARIABLES
  ent,      \* the entries
  stream,   \* stream[s]: the entry it has open (or NULL) and its cursor
  calls,    \* calls made, for the bound
  st        \* "off", "up", or why the model stopped

fvars == <<fs, want, ent, stream, calls, st>>

UNKNOWN == -1   \* FS_SIZE_UNKNOWN, the largest ulong

Noise == <<0, 1>>     \* a byte the disk did not send
Written == <<0, 3>>   \* a byte a program wrote
Hung == <<<<0, 2>>>>  \* what a read that never returns returns

Least(a, b) == IF a < b THEN a ELSE b

-----------------------------------------------------------------------------
(* The disk.                                                               *)

\* The device transfers n % 256 sectors, 256 for 0; the rest is noise.
ata_pio_read(lba, n) ==
  [i \in 1..(n * SECTOR_SIZE) |->
     IF i <= (((n - 1) % SECTOR_COUNT) + 1) * SECTOR_SIZE
     THEN Byte(lba * SECTOR_SIZE + i - 1) ELSE Noise]

\* Fault: the bytes before addr in its sector are not skipped.
Unaligned_start(addr, size) ==
  LET t == addr % SECTOR_SIZE
  IN  IF t = 0 THEN <<>> ELSE
      SubSeq(ata_pio_read(addr \div SECTOR_SIZE, 1), 1, Least(SECTOR_SIZE - t, size))

Unaligned(addr, size) ==
  LET t == addr % SECTOR_SIZE
  IN  IF t = 0 THEN <<>> ELSE
      SubSeq(ata_pio_read(addr \div SECTOR_SIZE, 1), t + 1, Least(SECTOR_SIZE, t + size))

dev_read(addr, size) ==
  LET head == Unaligned(addr, size)
      a == addr + Len(head)
      s == (size - Len(head)) \div SECTOR_SIZE
      rest == size - Len(head) - (s * SECTOR_SIZE)
  IN  head \o ata_pio_read(a \div SECTOR_SIZE, s)
           \o SubSeq(ata_pio_read((a \div SECTOR_SIZE) + s, 1), 1, rest)

-----------------------------------------------------------------------------
(* The tree of entries.  home is not in the code: the directory an entry   *)
(* was made in.                                                            *)

create_entry(T, name, lpar, type, home) ==
  Append(T, [name |-> name, left |-> NULL, right |-> NULL, parent |-> lpar,
             type |-> type, root |-> NULL, node |-> NULL, present |-> FALSE,
             virtual |-> FALSE, size |-> 0, data |-> <<>>, locked |-> FALSE,
             freed |-> FALSE, home |-> home])

RECURSIVE Below(_, _)
Below(T, x) ==   \* what destroy(x) frees
  IF x = NULL THEN {}
  ELSE {x} \cup Below(T, T[x].left) \cup Below(T, T[x].right) \cup Below(T, T[x].root)

decimate(T, x) ==
  IF x = NULL \/ T[x].type # "directory" THEN T
  ELSE LET gone == Below(T, T[x].root)
       IN  [e \in DOMAIN T |-> IF e \in gone THEN [T[e] EXCEPT !.freed = TRUE] ELSE T[e]]

\* insert_entry once the directory is present: an entry of that name is
\* replaced, with neither its left nor its right.
Insert(T, name, par, type) ==
  LET f == Search(T, T[par].root, NULL, name)
      U == create_entry(decimate(T, f.at), name, f.lpar, type, par)
  IN  IF f.lpar = NULL THEN [U EXCEPT ![par].root = Len(U)]
                       ELSE Hang(U, f.lpar, name, Len(U))

RECURSIVE Load(_, _, _)
Load(T, dir, n) ==   \* the loop of assure_dir
  IF n = NULL THEN T
  ELSE LET U == Insert(T, fs.node[fs.node[n].name].name, dir, fs.node[n].type)
           V == [U EXCEPT ![Len(U)].node = n,
                          ![Len(U)].size = IF fs.node[n].type = "file" THEN UNKNOWN ELSE 0]
       IN  Load(V, dir, fs.node[n].next)

assure_dir(T, dir) ==
  IF T[dir].present THEN T
  ELSE Load([T EXCEPT ![dir].present = TRUE], dir, fs.node[T[dir].node].data)

find(T, name, par) ==
  LET U == assure_dir(T, par)
  IN  [tab |-> U, at |-> Search(U, U[par].root, NULL, name).at]

fs_mkdir(T, name, par) ==
  LET U == Insert(assure_dir(T, par), name, par, "directory")
  IN  [U EXCEPT ![Len(U)].present = TRUE]

fs_mkvdir(T, name, par) ==
  LET U == fs_mkdir(T, name, par) IN [U EXCEPT ![Len(U)].virtual = TRUE]

fs_enter(T, name, par) ==
  LET U == Insert(assure_dir(T, par), name, par, "file")
  IN  [U EXCEPT ![Len(U)].virtual = TRUE, ![Len(U)].size = DeviceSize,
                ![Len(U)].data = [i \in 1..DeviceSize |-> Zero]]

\* setup_fs and init_devs: until root_dev is set, assure_dir does nothing,
\* which the present bit stands for here.
setup_fs ==
  LET R == create_entry(<<>>, NULL, NULL, "directory", NULL)
      D == fs_mkvdir([R EXCEPT ![1].node = fs.root, ![1].present = TRUE], Dev, 1)
      E == FoldLeft(LAMBDA T, name : fs_enter(T, name, 2), D, Devices)
  IN  [E EXCEPT ![1].present = FALSE]

-----------------------------------------------------------------------------
(* Paths and listings.                                                     *)

\* fs_retrieve of an absolute path; "assert" where a component that is not
\* a directory, or is not there, has a successor.
RECURSIVE fs_retrieve(_, _, _)
fs_retrieve(T, path, x) ==
  IF path = <<>> THEN [tab |-> T, at |-> x, ok |-> TRUE]
  ELSE IF x = NULL \/ T[x].type # "directory" THEN [tab |-> T, at |-> NULL, ok |-> FALSE]
  ELSE LET f == find(T, path[1], x) IN fs_retrieve(f.tab, Tail(path), f.at)

RECURSIVE leftmost(_, _)
leftmost(T, x) == IF x = NULL \/ T[x].left = NULL THEN x ELSE leftmost(T, T[x].left)

RECURSIVE Climb(_, _)
Climb(T, x) ==
  IF T[x].parent # NULL /\ T[T[x].parent].right = x THEN Climb(T, T[x].parent)
  ELSE T[x].parent

\* Fault: the climb stops at the parent, whichever side x is on.
fs_next_parent(T, x) ==
  IF T[x].right # NULL THEN leftmost(T, T[x].right) ELSE T[x].parent

fs_next(T, x) == IF T[x].right # NULL THEN leftmost(T, T[x].right) ELSE Climb(T, x)

RECURSIVE From(_, _, _)
From(T, x, n) == IF x = NULL \/ n = 0 THEN <<>> ELSE <<x>> \o From(T, fs_next(T, x), n - 1)

\* fs_first, then fs_next until NULL.
Listing(T, dir) == From(T, leftmost(T, T[dir].root), Len(T) + 1)

-----------------------------------------------------------------------------
(* Reading and writing.                                                    *)

RECURSIVE Total(_)
Total(b) == IF b = NULL THEN 0 ELSE fs.node[b].size + Total(fs.node[b].next)

fs_size(T, e) == IF T[e].size = UNKNOWN THEN Total(fs.node[T[e].node].data) ELSE T[e].size

Sized(T, e) == [T EXCEPT ![e].size = fs_size(T, e)]

\* A file is one block node.  The loop takes the block's size off addr until
\* addr is inside the block: for ever when the block is empty.
ReadBlock(b, addr, size) ==
  IF fs.node[b].size = 0 THEN Hung
  ELSE dev_read(fs.node[b].lba * block_size + (addr % fs.node[b].size),
                Least(fs.node[b].size, size))

\* The bytes fs_read stores.  While the size is unknown the first test lets
\* every addr pass, and past the end the subtraction wraps: size stands.
fs_read(T, e, addr, n) ==
  LET max == fs_size(T, e) - addr
      size == IF max < 0 THEN n ELSE Least(max, n)
  IN  IF T[e].type # "file" \/ (T[e].size # UNKNOWN /\ T[e].size <= addr) \/ size = 0
      THEN <<>>
      ELSE IF T[e].virtual THEN SubSeq(T[e].data, addr + 1, addr + size)
      ELSE ReadBlock(fs.node[T[e].node].data, addr, size)

fs_write(T, e, addr, n) ==
  IF addr >= T[e].size THEN T
  ELSE LET size == Least(n, T[e].size - addr)
       IN  [T EXCEPT ![e].data = SubSeq(@, 1, addr) \o [i \in 1..size |-> Written]
                                  \o SubSeq(@, addr + size + 1, Len(@))]

-----------------------------------------------------------------------------
(* Actions.                                                                *)

Closed == [file |-> NULL, cursor |-> 0]

\* What a call does besides its effect on ent: a stream whose entry it
\* frees makes the model stop.
Call(T) ==
  /\ st = "up" /\ calls < MaxCalls /\ calls' = calls + 1
  /\ ent' = T
  /\ UNCHANGED <<fs, want>>

Stops(why) == st' = why /\ UNCHANGED stream

BuildStep == Directive /\ st = "off" /\ UNCHANGED <<ent, stream, calls, st>>

WriteImage == write_fs /\ UNCHANGED <<ent, stream, calls, st>>

Boot ==
  /\ st = "off" /\ fs.st = "written" /\ Len(want) <= MaxBooted
  /\ ent' = setup_fs /\ st' = "up"
  /\ UNCHANGED <<fs, want, stream, calls>>

\* Fault: fs_acquire does not ask for the lock.
CanLock_always(T, e) == e # NULL

CanLock(T, e) == e # NULL /\ ~T[e].locked

fopen(s, path) ==
  LET f == fs_retrieve(ent, path, 1)
      got == CanLock(f.tab, f.at)
  IN  /\ stream[s].file = NULL
      /\ Call(IF got THEN [f.tab EXCEPT ![f.at].locked = TRUE] ELSE f.tab)
      /\ IF f.ok
         THEN /\ stream' = IF got THEN [stream EXCEPT ![s] = [file |-> f.at, cursor |-> 0]]
                                  ELSE stream
              /\ UNCHANGED st
         ELSE Stops("asserted")

fclose(s) ==
  /\ stream[s].file # NULL
  /\ Call([ent EXCEPT ![stream[s].file].locked = FALSE])
  /\ stream' = [stream EXCEPT ![s] = Closed] /\ UNCHANGED st

\* Fault: the cursor may be moved past the end.
Clamp_low(offset, size) == IF offset < 0 THEN 0 ELSE offset

Clamp(offset, size) == IF offset < 0 THEN 0 ELSE Least(offset, size)

\* The system call, which a program may make with any addr.
read(e, addr, n) ==
  IF fs_read(ent, e, addr, n) = Hung THEN Call(ent) /\ Stops("hung")
  ELSE /\ Call(IF ent[e].size = UNKNOWN THEN Sized(ent, e) ELSE ent)
       /\ UNCHANGED <<stream, st>>

\* fseek moves the cursor, having asked the size, which asserts a file.
Seek(s, T, offset) ==
  LET e == stream[s].file
  IN  IF T[e].type # "file" THEN Call(T) /\ Stops("asserted")
      ELSE /\ Call(Sized(T, e))
           /\ stream' = [stream EXCEPT ![s].cursor = Clamp(offset, fs_size(T, e))]
           /\ UNCHANGED st

fseek(s, offset) ==
  /\ stream[s].file # NULL
  /\ \E base \in {0, stream[s].cursor, fs_size(ent, stream[s].file)} :
       Seek(s, ent, base + offset)

fread(s, n) ==
  /\ stream[s].file # NULL
  /\ IF fs_read(ent, stream[s].file, stream[s].cursor, n) = Hung
     THEN Call(ent) /\ Stops("hung")
     ELSE Seek(s, ent, stream[s].cursor + n)

fwrite(s, n) ==
  LET e == stream[s].file
  IN  /\ e # NULL
      /\ IF ent[e].type = "file" /\ ~ent[e].virtual
         THEN Call(ent) /\ Stops("asserted")
         ELSE Seek(s, IF ent[e].type = "file" THEN fs_write(ent, e, stream[s].cursor, n)
                                              ELSE ent,
                   stream[s].cursor + n)

\* The directories a path leads to.
RECURSIVE Found(_, _)
Found(T, e) ==
  e = 1 \/ /\ e # NULL /\ Found(T, T[e].home)
           /\ Search(T, T[T[e].home].root, NULL, T[e].name).at = e

Directories == {e \in DOMAIN ent : ent[e].type = "directory" /\ Found(ent, e)}

first(dir) == Call(assure_dir(ent, dir)) /\ UNCHANGED <<stream, st>>

\* mkvdir differs in a flag that nothing asks of a directory.
mkdir(name, dir) ==
  LET T == fs_mkdir(ent, name, dir)
  IN  /\ Len(T) <= MaxEntries
      /\ Call(T) /\ UNCHANGED stream
      /\ st' = IF \E s \in Stream : stream[s].file # NULL /\ T[stream[s].file].freed
               THEN "dangling" ELSE st

FInit ==
  /\ ImageInit
  /\ ent = <<>> /\ stream = [s \in Stream |-> Closed] /\ calls = 0 /\ st = "off"

StreamCall ==
  \E s \in Stream :
    \/ \E path \in Paths : fopen(s, path)
    \/ fclose(s)
    \/ \E n \in Chunks : fread(s, n) \/ fwrite(s, n)
    \/ \E n \in Chunks : stream[s].file # NULL /\ read(stream[s].file, 2 * n, n)
    \/ \E offset \in Offsets : fseek(s, offset)

DirectoryCall ==
  /\ st = "up"
  /\ \E dir \in Directories :
       \/ first(dir)
       \/ \E name \in Name : mkdir(name, dir)

FNext == BuildStep \/ WriteImage \/ Boot \/ StreamCall \/ DirectoryCall

FSpec == FInit /\ [][FNext]_fvars

-----------------------------------------------------------------------------
Running == st = "up"

\* Every link is to an entry; a virtual file's data is as long as its size,
\* whatever fwrite was asked to put there (fs_write).
TypeOK ==
  /\ fs.st \in {"up", "written", "hung", "overflow", "aborted"}
  /\ st \in {"off", "up", "asserted", "hung", "dangling"}
  /\ \A e \in DOMAIN ent :
       /\ {ent[e].left, ent[e].right, ent[e].parent, ent[e].root} \subseteq {NULL} \cup DOMAIN ent
       /\ ent[e].virtual /\ ent[e].type = "file" => Len(ent[e].data) = ent[e].size
  /\ stream \in [Stream -> [file : {NULL} \cup DOMAIN ent, cursor : Nat]]

\* fs_first and fs_next visit a directory's entries once each, in the order
\* of their names, exactly those fs_resolve finds; and while no name has been
\* made twice in it they are all that was ever made there: what the
\* description declares (assure_dir), the devices, and what programs made.
Listed ==
  /\ TypeOK
  /\ Running => \A dir \in {d \in Directories : ent[d].present} :
      LET list == Listing(ent, dir)
          made == {e \in DOMAIN ent : ent[e].home = dir}
          nodes == {ent[e].node : e \in made} \ {NULL}
          declared == {i \in DOMAIN want : Parent(want[i].par) = ent[dir].node}
      IN  /\ \A i \in 1..(Len(list) - 1) : ent[list[i]].name < ent[list[i + 1]].name
          /\ ToSet(list) = {e \in made : Found(ent, e)}
          /\ ent[dir].node # NULL => nodes = {want[i].node : i \in declared}
          /\ Cardinality({ent[e].name : e \in made}) = Cardinality(made)
               => ToSet(list) = made

\* The bytes of a file: what the description's host file holds.
Bytes(e) ==
  IF ent[e].virtual THEN ent[e].data
  ELSE Content(CHOOSE i \in DOMAIN want : want[i].node = ent[e].node)

OneCommand == SECTOR_COUNT * SECTOR_SIZE

\* fs_read returns the file's bytes from addr on, cut at its end, when it asks
\* for no more than one ATA command transfers and addr is inside the file or
\* the size has been asked before (fs_read, dev_read).
ReadExact ==
  Running => \A e \in {x \in DOMAIN ent : ent[x].type = "file" /\ ~ent[x].freed} :
    LET bytes == Bytes(e) IN
    \A addr \in 0..(Len(bytes) + 1), n \in 1..OneCommand :
      ent[e].size # UNKNOWN \/ addr <= Len(bytes) =>
        fs_read(ent, e, addr, n) = SubSeq(bytes, addr + 1, Least(addr + n, Len(bytes)))

\* Through a stream the condition on addr is met by itself: whatever sequence
\* of fread, fwrite and fseek moved the cursor, known size or not, the next
\* fread delivers the file's bytes there (fseek).
StreamReads ==
  Running => \A s \in Stream :
    LET e == stream[s].file IN
    e # NULL /\ ent[e].type = "file" =>
      /\ stream[s].cursor <= Len(Bytes(e))
      /\ \A n \in 1..OneCommand :
           fs_read(ent, e, stream[s].cursor, n)
             = SubSeq(Bytes(e), stream[s].cursor + 1,
                      Least(stream[s].cursor + n, Len(Bytes(e))))

\* An entry is locked exactly while a stream has it open, and one stream
\* only (pub_fs_acquire, fclose).
OneOpener ==
  Running =>
    /\ \A e \in DOMAIN ent : ent[e].locked <=> \E s \in Stream : stream[s].file = e
    /\ \A s, t \in Stream : s # t /\ stream[s].file # NULL => stream[s].file # stream[t].file
=============================================================================
