# A TLA+ verification of frosk

Frosk is a small operating system for x86-64: a boot loader, a kernel, a C
library and a few programs, with a host tool that builds its disk image. This
directory holds TLA+ models of the parts where several actors share state or
a long sequence of calls shapes it, TLC configurations that check them on
small instances, and TLAPS proofs of what matters most for instances of any size.
`PROJECT.json` maps every definition to the source lines it models.

## The system

There is one processor. Interrupts, faults and system calls enter the kernel
through interrupt gates, so kernel code runs with interrupts off and is never
preempted, with two exceptions: the kernel thread of the keyboard
(`kb_put_delayed`) and the tail of the Escape handler, which executes `sti`.
User code can be preempted at any instruction by the timer. The kernel is
built with `-DDEBUG`, so a failing `assert` stops the machine, and without
optimisation, so shared variables are read at every use.

| part | source | state | operations |
|---|---|---|---|
| scheduler | `kernel/src/scheduler.c`, `.asm`, end of `kmain.c` | circular lists of threads and processes, `cur_thrd`, one-shot timer, FPU save areas, `scheduler_lock` | `uspawn`, `kspawn`, `schedule`, `timer_irq`/`yield`, the Escape dumps |
| address spaces | `memory/region.c`, `paging.c` | regions and their blocks, the list `in`, the page table | `allocate`, `swapin`, `swapout`, `swapflop`, `grow`, `assure`, `page_fault` |
| message queues | `mqueue.c` | per process: doubly linked list, lock; per receiver: iteration pointer | `send_msg`, `recv_msg`, `consume_msg`, `stop_recv` |
| keyboard | `dev/ps2.c`, `.asm` | ring buffer behind `/dev/kb`, list of delayed keys, two locks | the interrupt handler, the helper thread, the read hook |
| console | `prgm/start`, `fgets`/`puts` of `lib/cstd/src/stdio.c` | iteration pointers, the stdin buffer | the main loop of start; `fgets`, `puts` |
| kernel heap, page allocator | `memory/kernel.c`, `pages.c` | circular lists of chunks and of page ranges, the staged page | `kalloc`, `kfree`, `alloc_pgs`, `free_pgs` |
| user heap | `lib/cstd/src/malloc.c` | sorted chunk list | `malloc`, `free`, `realloc` |
| file system, disk | `fs/`, `dev/dev.c`, `dev/block/ata.c` | tree of entries, loaded lazily; sectors | retrieve, list, mkdir, read, write; `dev_read`, ATA |
| file streams | `lib/cstd/src/stdio.c` | open entry, cursor | `fopen`, `fread`, `fwrite`, `fseek`, `fclose` |
| screen | `prgm/start`, `fcurses.c`, `dev/video/video.c` | text buffer, window cursor, shift keys | keys, output, scrolling |
| formatted output | `stdio.c`, `stubout.c`, `fcurses.c` | none | `vsnprintf`, `itoa`, `utoa`, `dputl`, `dputu`, `number_to_string` |
| image builder, boot loader | `util/fsb`, `boot/src/after/fs.inc` | metadata nodes, strings, data blocks | directives, `load_kernel` |
| tables | `interrupt.*`, `fault.*`, `tss.asm` | filled in once | |

They interact as follows. A timer tick makes the scheduler swap the regions of
two threads. Page faults grow the regions of the running one. A key goes from
the interrupt handler to the buffer behind `/dev/kb`, or by way of the helper
thread when the file is locked; start reads it and sends it as a message to
its child; the child's `fgets` takes it from its queue, and its `puts` sends a
message back that start shows. Heap and page allocator call each other:
`kalloc` replaces its staged page by `alloc_pgs`, whose lists have their
descriptors in the heap. What `fsb` lays out is read by the boot loader, which
knows one directory, and by the kernel, which loads directories as they are
looked into.

## The modules

**RoundRobin, Scheduler.** `RoundRobin` is what the scheduler promises: the
circular list as a sequence from `head_thrd` on, and a switch that takes the
first thread that is not running. `Scheduler` has the pointers
(`next_sched`, `next`, `head_thrd`, `head_proc`), the states, what lies at the
saved stack pointer of a thread (`frame`: the first frame made by `schedule()`,
or a saved context), which regions are mapped (`in`) and whose values the FPU
and the save areas hold. One action per handler: `timer_irq` is the whole of
timer interrupt and `yield()`, with its two ways to end. The timer is one-shot
and has to be programmed again by each `yield()`. The Escape key is two
actions since its handler enables interrupts before its end of interrupt.

**Mqueue, Mailbox, Console.** `Mqueue` has the operations of `mqueue.c` on
`head`, `tail`, `next`, `prev`, with the heap state of each message, so that a
freed message keeps its fields until it is handed out again. It has no
specification of its own: `Mailbox` puts it under any programs that keep to
the comments of `mqueue.c`, and `Console` under start's main loop and a child
that reads with `fgets` and writes with `puts`. A send that meets a locked
queue spins with interrupts off (`spinning`), after which nothing happens. In
`Console` the number of keys that wait is up to the keyboard: `start_size` goes
on to send them, or start says "Too much input!" and halts (`pc` "halted").

**AddressSpace.** Regions with base, size, direction and blocks, the page
table as a function from pages to frames, and the two swapflops of `yield()`.
`phys` is what `alloc_pgs` works on: the ranges of free physical pages in the
order of its search, and what became of the descriptor that `heads[]` points to.
The search takes the first range that is large enough, from its end, and returns
`INVALID_PAGE` if there is none. An exact fit frees the descriptor; `heads[]` is not
moved off its own one, so after that (`top` "freed") the next call may return any
page of memory, and the model ends behind it ("used"). `page_fault` is the whole
handler for a user write to a page that is not present. It maps `INVALID_PAGE`
unseen; a touch of such a page is `unhandlable_fault`, which loops for ever
(`st` "looping"), as the kernel's own write does in a spawn without memory. A
failed assertion of `region.c` is `st` "failed". The heap behind the descriptors
is in `KernelMemory`.

**Ps2.** The ring buffer with its integer head (which C's `%` lets become
-1), the list of delayed keys, and the two locks. The handler is one action;
the helper thread is one action per step that others can see.

**Malloc.** The list of free chunks (`head` and the fields of the headers),
the blocks in use, and the headers that the program has overwritten (`dirty`),
in units of 8 bytes. `Take`, `FreeEarliest` and `FreeBehind` are the list
operations, `malloc`, `free` and `realloc` the calls, `Write` a program that
fills its block (`calloc` is `malloc` and `Write`). A header that is used after
it was overwritten ends the behaviour as "wild", a search that goes in circles
as "hung". `newestFirst` remembers whether the program has so far freed only its
newest block and not used `realloc`. The heap of 64 TiB cannot be used
up (`Endless`), so malloc never returns NULL in the model.

**KernelMemory.** Both allocators in one record, in units of one chunk header
(16 bytes): the pointers `head` and `staged` and `kalloc`'s local `prev`, the
headers in memory, the two page lists with their descriptors, and the pages
that the heap and the page tables took. Calls are operators on this record, so
the ones they make of each other nest as in the code; an action is a whole call
by some user of the heap or of pages. `kfree` may merge the chunk that `head`
points to into another, and `alloc_pgs` may free the descriptor that `heads[]` points
to; neither moves the pointer. The model runs on with what is left in that memory:
a search starts behind the merged chunk and finds the list all the same, a freed
descriptor keeps its contents until its memory is handed out again (`Overwrite`).
It ends where the code leaves what its own data structures mean: "halted" (an
assertion), "astray" (a value that is no pointer is followed), "hung" (a search
for a chunk or descriptor that is not on its list), "merged" (a chunk that was
merged away is written as if it were on the list; the block it hands out then
stays on the list) and "freed" (the freed descriptor of `heads[]` is used; its
range is handed out twice). The properties say what holds until then, and
`StopsOnlyWithoutMemory` when the first two can happen. That the code never reaches
the others is not claimed: it does.

**Image, Files.** `Image` is the builder: a description is any sequence of
directives, each making nodes, strings and blocks; `load_kernel` is what the
boot loader reads back, with the bits that it loses: the sector count goes into a
word (`COUNT_BITS`), and of a block's number only the low half (`LBA_BITS`) is shifted
to a sector's. `Files` extends it with the running kernel on that
image: entries in binary trees by name, loaded on first use, devices entered at
boot, the disk with its sector arithmetic, and streams that open, read, seek,
write, make directories and list. A name is a number in `strcmp`'s order, a
byte of a file is known by file and position. The fields `home`, `want` and
`freed` are history.

**Printf, Screen.** `Printf` has the number conversions and `vsnprintf` as
operators on character codes, with integer widths as constants; `format_uint` takes
a radix and does not use it, as in the code. `Numeral` and `Meaning` say independently
what a number and a conversion should look like. `Screen` is
start's window over `/dev/tvb` and `/dev/cursor`, its key handling with the two
tables of scan codes, and a child whose `fprintf` sends what it formats. `main_output`
is start's loop over the queue: an empty message ends it early and stays queued. The
window is compared with an abstract terminal (`lines`: the last lines, wrapped).

The mutated operators (`..._twice`, `..._keep`, each under a comment "Fault:")
are not part of the models; they stand for plausible bugs and show that the
properties notice them.

## What TLC checks

| run | what it shows | bounds |
|---|---|---|
| `scheduler` | running thread = current thread = mapped memory = FPU owner; lists complete; lock free; `Scheduler` implements `RoundRobin` (of which the proofs show that threads are linked once and every switch brings waiting threads closer); every thread runs again and again; Escape unblocks the keyboard | 3 threads |
| `scheduler_boot` (violated) | `kmain` does get behind its `hlt` | 3 threads |
| `mailbox` | the list holds exactly the messages not consumed, in order, doubly linked, locked while iterated | 1 receiver, 4 messages |
| `mailbox_shared` (violated) | with two queues, `recv_msg` can walk into the other queue | 2 receivers, 3 messages |
| `console` | output is shown once, in order and in the end; nobody waits for its own lock; excepted are a spinning sender and a start that halts | 3 message structures, 2 keys, 2 outputs |
| `console_fgets` (violated) | `fgets` scans characters it never received | 4 keys |
| `address_space` | isolation of threads, no assertion fails, faults find a frame while there is one | 2 threads, 7 pages of user space, three machines with 5 to 9 frames in one or two ranges |
| `ps2` | no key lost or seen twice; reordering only through the list; index stays in the buffer; every key arrives | buffer of 4, 5 keys |
| `malloc` | blocks share no memory if only the newest is freed; in any order, every intact chunk reaches the top of the heap | heap of 10 units, 3 blocks, sizes 0 and 3 |
| `kernel_memory` | no heap memory and no page has two owners; small requests lose nothing; the allocators stop only without memory | pages of 9 units, machines with 5 and 3 free pages, 3 blocks, 2 regions, 6 calls |
| `files` | nodes, strings and data apart; the kernel image is loaded whole if the loader's bits suffice; directories list what was declared and made; reads are exact; one stream per entry | 3 directives (2 when booted), 3 calls, blocks of 2 sectors, 2 sectors per command, 2 bits of sector count, 4 bits of sector number |
| `screen` | the window is the abstract terminal; shift state; formatted text measured, cut and converted right | window of 3 x 2, 8-bit long, 4-bit int, 4 events |

Type invariants are conjuncts of `HoldsTheUnconsumed`, `ChunksReachTheTop`,
`BlocksApart` and `Listed`; those of `Scheduler`, `AddressSpace` and `Ps2` are
conjuncts of the invariants proved below.

The bounds let the interesting cases happen: three threads are a list with a
head, a running thread and a waiting one in each order, and the theorems cover
more; with four messages a receiver can skip, consume in the middle, at the
head and at the tail; the machines of `address_space` are exhausted by two
programs, exactly or with a rest too small, in their last range or the one before,
and one has a region without a whole page; five keys overflow a buffer of four, and start's limit of four is
passed as well; a block of size 3 covers the stale headers that three blocks of
size 0 leave behind, and odd and zero are the edges of the rounding. In
`kernel_memory` a page holds several small blocks, one size fills a page exactly and
one exceeds it, one memory map has a region off a page boundary and one too small,
the other two ranges of which `heads[]` points to the larger, and six calls exhaust
memory, merge the chunk at `head` and fit a range exactly. In `files` a file is empty,
ends inside its second block or has more sectors than the loader can count, the
third file may lie beyond the sectors it can number, one command transfers two of its sectors, three directives make a
directory with contents, two directories or a kernel beside others, and three
files with different names overflow the metadata block. In `screen` a window
of two lines scrolls, texts wrap, a message may be empty, and the extreme values
of both integer types are printed.

Three runs are expected to be violated; each states what a comment of the
source says:

* `KmainNeverReturns`: `kmain.c:67` says "We should never reach this", but any
  interrupt that returns to `kmain` ends its only `hlt`: a key before the
  first tick, or the timer when no program could be started.
* `UpdatesToTheNextInQueue`: `mqueue.c:84` says that `recv_msg` moves `current`
  to the next message in the queue. `consume_msg` of the head frees the
  message that `current` stays at; once it is handed out for another queue,
  `recv_msg` follows that one.
* `FilledFromQueue`: `stdio.c:448` says "Fill the buffer from the message
  queue". Every message is received at the start of the buffer, so that keys
  overwrite each other and uninitialised characters are scanned.

The user heap is right only for programs that free their newest block first.
`ChunksReachTheTop` gives the reason: under "Divide the chunk" (`malloc.c:45`)
the part handed out keeps the size of the whole, so once freed it claims
everything above it, blocks in use included. Without the condition `newestFirst`,
`BlocksDisjoint` fails after malloc, realloc and malloc. For the same reason the
list is not "sorted from lowest to highest by address" (`malloc.c:78`): after
malloc, free and malloc of the same size, the free chunk is its own successor.
`realloc` also copies by the undivided size, beyond the old block. These are
consequences seen while modelling; no run of this project states them.

Some hazards are real in the model and are exceptions named by the properties,
since nothing in the repository promises otherwise:

* a sender that meets a queue locked by a receiver in user mode hangs the machine,
  and start halts when more keys wait than its buffer holds (`OutputShown`);
* a key that arrives while the helper thread is in its critical section hangs the
  machine (`KeysArrive`, with start's halt as the other exception);
* the descriptor of `heads[]` is used after an exact fit has freed it
  (`FramesPrivate`, `FaultResolved`, `FramesApart`, `BlocksApart`), and without memory
  `INVALID_PAGE` is mapped (`FaultResolved`);
* a chunk that `kfree` merged under `head` is used as a free one (`BlocksApart`,
  `NothingLost`);
* the loader loses bits of a large or distant kernel (`BootsTheKernel`);
* a conversion behind `%c`, and the digits of `%x`, `%X` and `%o` (`FormatsInLength`).

Seen while modelling, without a line of the repository that says otherwise:

* Kernel heap. After a merge that takes `head`'s chunk off the list, the next `kfree`
  that merges nothing searches for ever for it, and an exact fit right behind it
  hands out a block that stays on the list. A request above a page takes a
  fresh range and joins it badly: it loses the chunk behind `head`, and goes
  astray if the list is empty or the size fits exactly. At exhaustion the last
  range of `heads[]` is handed out again. `uspawn` gives back its scratch
  window by a size that `free_pgs` rounds down and `alloc_pgs` had rounded up.
* Files. Reading beyond the end of a file whose size was never asked for wraps
  around; a stream cannot get there. More than 256 sectors in one read transfer
  the remainder only. Making a name again drops its siblings below it in the
  tree; `mkdir` over a directory frees entries that streams may hold. With two
  names that begin with `kernel.bin`, boot loader and kernel may choose different
  ones. A directory inside a directory cannot have contents in a description:
  parsing them does not end.
* Output. `%x`, `%X` and `%o` print decimal digits. `%c` does not take its argument
  in the measuring pass. The cursor is set to `x | y * width`.

Deadlock is checked for the scheduler and the user heap. The others may stop:
their bounds end the input, a spinning or looping handler is the end of
everything, and so is memory handed out twice.

### Fairness

`Scheduler` assumes that the boot code runs on, the timer counts and its
interrupt is served (weak fairness), and that a thread in the tail of the
Escape handler finishes it in one of its time slices (strong fairness: a slice
is 0x101 timer ticks, the tail a few instructions). `Console` and `Ps2` assume
that each thread takes steps, which is `EveryThreadRuns`. `Ps2` assumes
strong fairness for the two attempts at the lock of the file: each side holds
it briefly, and start waits an eighth of a second between rounds.

## What TLAPS proves

Theorems hold for every value of the constants; where a run checks the same
property, the run's instance is one of them.

* `RoundRobinProofs`: `RingStaysOK` and `WaitIsBounded`, from the type
  invariant and the fact that a rotation moves positions injectively.
* `SchedulerProofs`, first part: `OneThreadRuns`, `MemoryFollowsThread`,
  `FpuFollowsThread`, `SpawnNeverSpins`. The inductive invariant joins the type
  invariant and the four properties with `LinksCreated` (the links stay among
  created threads, and both lists are empty together: otherwise `head_thrd`
  could become NULL and the Escape dump keep the lock) and `UsedHaveRun` (a
  thread that used the FPU does not start again from its first frame, with
  which nothing would be restored).
* `SchedulerProofs`, second part: `ProcessesInCircle`, `SchedulerImplements` (the
  refinement: `Scheduler` implements `RoundRobin`) and `SchedulerWaitIsBounded`, which
  follows from it and `WaitIsBounded`. The inductive invariant (`Circles`) is that
  each of the two lists is a circle: there is a sequence without repetition of all
  that were created, in which the links lead from each to the next and from the
  last to the first (`CircleOf`). `CircleLink` shows that linking behind the head is
  `InsertBehindHead`, `CircleTurn` that moving the head is `Rotate`, and
  `CircleWalk` that a walk along the links reads the sequence, so that the search
  of `yield()` finds what `Switch` takes.
* `AddressSpaceProofs`: `RegionAssertions`, `RegionsApart`, `MappedIsOwned`,
  `MemoryIsolated`, `FaultsAreResolved`. The inductive invariant adds that blocks lie inside their
  regions (`BlocksInside`), that regions of threads not yet made are empty
  (`EmptyIfUnmade`), and that the list `in` holds exactly the regions of the
  running thread (`InIsCurrent`); the last is what makes `swapout` find its
  region and `swapin` never refuse. For the frames it adds that the ranges of free
  pages stay apart (`PhysOK`) and that nothing in them is in use, for physical memory
  of any number of ranges (`ShrunkOK`, `TakenOK`, `AllocOK` are the lemmas on a list of
  ranges). `MemoryIsolated` ends with the first use of the freed descriptor, and says
  nothing of the page that call returns; `FaultsAreResolved` says that a handled fault
  left a real frame, or `INVALID_PAGE` when no page was left or that descriptor was
  used. Both name what the code does then, and neither claims more.
* `Ps2Proofs`: `FileIsExclusive` and `ReadsInBounds`. The inductive invariant
  adds that keys fill the buffer from its start (`FromStart`) and that start
  reads all there are (`ReadsAll`), so the head is back at the start after
  each read and the index of `kb_fs_read`, which does not wrap, needs none.
  `NoKeyIsLost` and `OnlyTheListIsOvertaken` follow the keys. The invariant counts
  them (`Placed`: start's keys, the buffer's, the list's, the helper's and a
  spinning handler's are together as many as were typed, and each typed key is among
  them) and orders them (`Ordered`: what went straight to the buffer is in the
  order typed, what went through the list too, and a key still in the list or with
  the helper is behind every listed key ahead of it). Each way a key can move has its
  lemma on plain sequences; the two lemmas `PutThrough` and `ReadThrough` connect
  them with the ring buffer. After an overflow only the order of what start already
  got is kept, and that is all `OvertakenOnlyInList` says.
* `MqueueProofs` holds lemmas on the queue operations, used by the two below:
  each keeps the types and keeps pointers on messages that were made and are not
  empty (`QInv`), changes nothing of other queues (`OthersKept`), and keeps a
  queue's lock and its receiver's pointer together (`Paired`). For the contents
  of a queue: the list is a sequence, doubly linked (`IsQueue`), a walk from its
  tail reads it (`WalkReadsQueue`), `send_msg` appends (`SendAppends`) and `consume_msg`
  removes one element wherever it stands (`ConsumeRemoves`).
* `MailboxProofs`: `LockFollowsIteration`, for any number of queues. The lock
  alone is not inductive, since `recv_msg` and `consume_msg` decide by the pointer
  whether to lock or unlock; the invariant adds `Paired` for every receiver that
  has not called `stop_recv`, after which the pointer stays where it was.
  `QueueHoldsUnconsumed` and `IterationGoesToNewer` are proved for one receiver and
  any number of senders and messages. The hypothesis is needed: with two receivers
  `HoldsTheUnconsumed` is false, for the reason that `mailbox_shared` shows. The
  invariant is that each queue's sequence holds the messages sent and not consumed
  in the order sent, and that the receiver's pointer is in it, or on a message that
  was consumed as the head, behind which `recv_msg` finds the end.
* `ConsoleProofs`: `NeverWaitsForItself`. The invariant adds that both programs
  reach `stop_recv` only at the end of their queue (`AtEnd`), which needs that
  no message is empty: `recv_msg` returns 0 for an empty message as for none.
  `OutputArrivesInOrder`: the invariant says what start's queue holds, element by
  element, in terms of how much the child has written and start has shown, and
  where start's pointer is in it; the child's queue takes part because the two share
  the message structures, so a message of one must not be in the other.
* `MallocProofs`: `FreeNeverJoins` and `StackUseIsSafe`. The first has the invariant
  that an intact header claims the memory up to the top (`Intact`): then the first
  chunk of the list, if intact, is always large enough and always divided
  (`TakeOK`), and no intact chunk ends where another starts (`TopIsNoChunk`), whatever
  shape the list is in. The second adds that the blocks lie one above the other
  below the head of the list and that no header still needed is overwritten
  (`Stacked`).

Three of these need what a recursive definition computes (a walk along links). The
provers have no induction rule, so `Least` and `Induction` derive one for sets of
numbers from the library's theorem on well-founded relations, `WalkExists` uses
it to show that the function defined by recursion exists, and the value of a walk
follows step by step. The modules repeat those lemmas because each stands for itself.

Assumptions: NULL is none of the things it stands in for; threads and message
structures are finitely many; the ranges of physical memory do not overlap and there
is at least one; user space has room for two stack pages above its middle
and the program below; start reads no more than the buffer can hold; the heap of a
program ends at an aligned address.

Only model-checked:

* liveness (`EveryThreadRuns`, `KeyboardUnblocked`, `OutputShown`, `KeysArrive`): the
  provers have no rule for fairness;
* `KernelMemory`, `Image` with `Files`, `Screen` and `Printf`: their operators are
  RECURSIVE or bitwise, as the code they model nests calls, parses and converts, and
  the proof system does not reason about those.

## Not modelled

* An interrupt in the middle of the keyboard helper's `kfree`, the one call of
  the kernel heap that runs with interrupts on: `KernelMemory` takes all calls
  as atomic.
* What the kernel does once memory has two owners or a list is broken, the states in
  which `KernelMemory` and `AddressSpace` end, and page tables beyond one new table per mapping.
* Faults in kernel mode other than those of a spawn without memory. A system call
  may write to a user page that is not there yet: the handler does not handle that, and the system calls' copies are
  not in `AddressSpace`. The walk of the page table's levels is a function there.
* Of the builder: the `v` directive, permissions, owners, and a second metadata
  block, which the code warns it may not handle. Of the disk: writing, probing, and
  the registers of the controller. Hooked files are in `Ps2` and `Screen` only.
* Of formatted output: `%g`, the kernel's `vdprintf`, wide characters.
* Of program loading: the header's fields and the copying.
* Of the boot loader: A20, the switch to long mode, the BIOS's answers.
* Tables filled in once (IDT, GDT, TSS, system calls), port I/O of the
  controllers, the i386 variants, the programs other than start and echo.
