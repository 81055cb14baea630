# PeachOS: a verification project in TLA+

PeachOS (`src/src/`) is a 32-bit kernel for one processor: it boots, loads a
program from a FAT16 disk into a process with its own page directory, enters it
in user mode and serves its system calls (`int 0x80`) and the keyboard. The
modules here model the parts of the kernel that keep state and the way from a
path on the disk to a program in memory, check them with TLC on small instances,
and prove with TLAPS, for every value of the constants, most of their safety
properties.

## The system

| Component | State | Operations | Interacts with |
|---|---|---|---|
| Kernel heap (`memory/heap`) | one table byte per 4096-byte block | `kmalloc`, `kzalloc`, `kfree` | everything that allocates |
| Process memory (`task/process.c`, `isr80h/heap.c`) | allocation table of each process | commands 4 (malloc) and 5 (free) | heap |
| Keyboard (`keyboard/`, `isr80h/io.c`) | ring buffer per process, `current_process` | keyboard interrupt, command 2 (getkey) | interrupts, processes |
| Processes and tasks (`task/process.c`, `task/task.c`) | process table, task list, current process, current task | `process_load_switch`, `task_run_first_ever_task` | heap, files, paging |
| File descriptors (`fs/file.c`, `fs/fat/fat16.c`) | descriptor table, driver's private structures | `fopen`, `fstat`, `fseek`, `fread`, `fclose` | heap, disk |
| Terminal (`kernel.c`) | cursor, video memory | `terminal_writechar`, `print` | commands 1 and 3 |
| Kernel entry (`idt/`, `task/task.asm`) | page directory, segments, saved registers, interrupt flag | interrupt stubs, `interrupt_handler`, `isr80h_handler` | all commands |
| Paging (`memory/paging`) | directories and page tables | `paging_map_to`, `paging_set`, `paging_get` | tasks, ELF loader |
| FAT16 driver (`fs/fat/fat16.c`) | FAT header and root directory of the disk, the item and position of an open file | mount, lookup, cluster walk, reads | disk streams, path parser, files |
| Disk and streamer (`disk/`) | position of each stream | seek, read split at sectors, `disk_read_sector` polling the controller | driver |
| Path parser (`fs/pparser.c`) | none that outlives a call | drive and parts of a path | `fopen` |
| ELF loader (`loader/formats`) | the file and the range of addresses of a loaded program | validation, range of the loadable segments | files, paging, processes |
| GDT/TSS, boot, string and port helpers | none that outlives a call | | |

What is hard here:

* **Concurrency.** There is one processor and every gate is an interrupt gate
  (type 0xEE, `idt.c:45`), so a handler runs to its end with interrupts off.
  What interleaves is whole handlers: a keyboard interrupt may come between any
  two user instructions, hence between any two system calls. `kernel_main` runs
  with interrupts off until the first task is entered. This is why the models
  make one handler one action, and why `KernelEntry` alone looks inside a handler.
* **Untrusted inputs.** A program chooses the sizes it asks for and the pointers
  it frees; both are arbitrary in `ProcessMemory`.
* **Failure.** Every `kzalloc` may fail, every file may be missing, every table
  may be full. The load path and `fopen` are modelled with one action per way out.
* **Recursion over the disk.** One `fread` becomes a chain of chunks, each chunk a
  walk along the table and a read, each read one level of recursion per sector;
  the controller is polled without a limit.
* **Boundaries.** Block runs at the end of the pool, the last descriptor, the
  full keyboard buffer, 16- and 32-bit counters that wrap, reads that end at a
  sector or run over a cluster, names that fill their field.

`kernel_main` loads one program at this commit. The process table, the task list
and the keyboard are written for several, so the models load several; one
process is the special case.

## Modules

| Module | Models | Notes |
|---|---|---|
| `HeapTable` | `heap.c` as operators on a table value | no variables; used by `Heap` |
| `Heap` | `kheap.c` seen by callers that free only what they got | `live` is a ghost: the allocations in use |
| `HeapLoops` | the three loops of `heap.c`, entry by entry | extends `Heap`; compared with `HeapTable` on every table the calls lead to |
| `ProcessMemory` | `process_malloc`, `process_free` on the heap, with the kernel as another owner | extends `Heap`; `kernel`, `user` are ghosts: who holds what |
| `MemoryProofs` | | theorems about `Heap`, `HeapLoops` and `ProcessMemory` |
| `KeyFifo` | what the keyboard promises: a queue per process | abstract |
| `Keyboard` | interrupt handler, ring buffer, getkey | `overrun` is a ghost |
| `KeyboardProofs` | | theorems about `Keyboard`, its refinement of `KeyFifo` |
| `TaskProcess` | process table, task list, load path | `undefined` is a ghost |
| `TaskProcessProofs` | | theorems about `TaskProcess` |
| `OpenFiles` | what the descriptor layer promises: a map from numbers to open files | abstract |
| `FileTable` | `file.c` and the descriptors of the FAT16 driver | |
| `FileTableProofs` | | theorems about `FileTable`, its refinement of `OpenFiles` |
| `Terminal` | cursor and cells | `off_screen` is a ghost |
| `TerminalProofs` | | theorems about `Terminal` |
| `KernelEntry` | stubs, handlers, switches of directory and segments | one step is the code between two switches |
| `KernelEntryProofs` | | theorems about `KernelEntry` |
| `ElfLoader` | `elfloader.c` as operators on a file | no variables; used by `Paging` |
| `Paging` | page tables, loading and mapping of a program, temporary mapping of a string copy | extends `ElfLoader`; `owner`, `mapped` are ghosts |
| `PagingProofs` | | theorems about `Paging` |
| `DiskStreamer` | `streamer.c` and `disk.c`: seek, and reads sector by sector | one step is one level of the recursion |
| `PathParser` | `pparser.c` as operators on a path | no variables; used by `Fat16` |
| `Fat16` | mount, `fopen`, `fread` down to the disk | extends `DiskStreamer` and `PathParser` |
| `Fat16Proofs` | | theorems about `DiskStreamer` and `Fat16`, lemmas about `PathParser` |
| `MC*` | constants for TLC | |

Operators and actions have the names of the C functions they model; where a
function has several ways out, each is an action (`process_malloc`,
`process_malloc_untracked`, `process_malloc_fails`). `PROJECT.json` maps every
one to its lines. Definitions that start with `Fault_` are deliberate mistakes
next to the definition they distort; each property is violated when one of them
is put in its place.

### How state corresponds to the code

* **Heap.** A table entry is the set of its flags. The scan of
  `heap_get_start_block` is stated by its result: the lowest free run that is
  long enough, else the run that touches the end of the pool however short it is
  (the loop leaves `bs` set when it falls off the end), else `-ENOMEM`. The table
  value reaches past the table, because allocations are marked there.
  `heap_align_value_to_upper` wraps at 2^32 (`WORD`).
  `HeapLoops` has the loops themselves: `bs`, `bc` and the break of the scan; the
  entry that `heap_mark_blocks_taken` makes for the next block while it writes the
  current one; the entry that `heap_mark_blocks_free` reads before it clears it. A
  loop is a recursive function that gives its variables after each number of entries.
* **Process memory.** The steps allocate with `Heap`'s `kmalloc` and free a
  pointer with `heap_free`, which does not ask whether it is one in use. A free of a pointer below the pool (the null pointer passes for an unused slot)
  writes far in front of the table and leaves the table alone; the memory there
  is not modelled.
* **Keyboard.** Head and tail are free-running counters reduced modulo the
  buffer size; their width is a parameter. The scancode equal to the size of the
  table reads a padding byte, which is 0 in the build, and is ignored.
* **Tasks.** Structures are identities. `load_not_mapped` is the append of
  `task_new` followed by the removal of `task_free`, in the code's order of
  assignments. Where the code goes on with a null, error-coded or uninitialized
  pointer, the outcomes are to do nothing or to set `undefined`, after which the
  model stops.
* **Files.** Descriptor structures and private structures are identities that
  are reused after `kfree`; a path is a file or not found; a file is its size. A
  directory is a file of size 0 here, because the driver turns every item it finds
  into one of type FILE (fat16.c:572).
* **Terminal.** Cursor arithmetic is in 16 bits, in the order of the code: a
  backspace writes a blank, which advances the cursor, and then takes one from
  the column.
* **Kernel entry.** `frame` is what `pushad` and the processor pushed,
  `registers` what `task_save_state` copied, `entry` a ghost of the registers at
  entry. Registers are folded into `gpr`, `ebp` (which `task.asm` treats
  differently) and `eax` (which carries results).
* **Paging.** A directory is a value, two levels deep as in memory; an entry is a
  page number and a set of flags; address sums are reduced to 32 bits (`WORD`).
  `process_load` is the load path of `TaskProcess` seen from the pages: image and
  stack come from any free run of heap pages, `task_init` makes the identity map,
  `process_map_memory` maps each program header in the order of the file. The
  requests to `paging_map_to` are a sequence, and the directory they make is stated
  by its result: an entry is the one the last request that maps its page gives it,
  or the one that was there. The
  memory of directories and tables is not part of `owner`. There is no code that
  ends a process, so pages of a loaded program are never given back.
  `process_load_data` decides with `ElfLoader` whether the file is an ELF program;
  if not, it is read again as a raw image and the first copy stays allocated,
  owned by the kernel. `elf_file` is the range of addresses that
  `elf_process_pheaders` gathers header by header.
* **Disk streams.** The disk is a function from cells to numbers, in whole sectors.
  `call` is the read in progress: what was asked for, what is left, what was
  delivered. `read_sector` is one level of the recursion and has the code's test
  for overflow, by which a read that ends at the end of a sector goes on with the
  next sector for 0 bytes. A sector the disk does not have never answers.
* **Path parser.** A path is a sequence of characters; the parser cuts a part up to
  a slash, skips the slash, and stops at an empty part.
* **FAT16.** A cell holds one field of the header, one entry of a table, one
  directory item or one unit of data, so `sizeof` is 1 everywhere; sector, cluster
  and table keep their proportions. The header lies on the disk and the geometry
  is computed from it. `job` is the call that runs: `fopen` and `fread` run to
  their end in the kernel, so there is one at a time, and `pc` names the place
  between two reads of the disk. `fat16_get_fat_entry` seeks to the table's
  place *times* the cluster, as the code does, and
  `fat16_get_cluster_for_offset` compares with the marks of FAT12 the code lists.
  `fat16_find_item_in_directory` looks at as many entries as the count of items
  gave, takes the last match, and loads a subdirectory only to forget it. Where a
  full root directory was counted on into the data behind it, the entries go on
  past the array in memory (fat16.c:581): `fat16_find_item_behind_directory` lets
  each of them be taken for any item of `Stray`, or for none, in every search
  anew. The look at kind and cluster and the copy may see different items, since
  allocations lie between them and their blocks may be that memory. One file
  is open at a time; the table of descriptors is `FileTable`'s part, and so are
  the failures of `kzalloc`.

## Runs

Passing runs:

| Run | Instance | Checks |
|---|---|---|
| `heap` | 6 blocks, requests of 1, 2, 3 blocks | `NoOverlap`, `TableExact`, `ChainsExact`; on every table reached, for every request, run and start, that the loops compute `HeapTable`'s operators: `LoopsExact` |
| `process_memory` | 4 blocks, 2 processes with 2 slots, a kernel; pointers: null, every block, inside a block, past the pool | `HoldersDisjoint`, `SlotsMatchHoldings`, `FreesOnlyOwn`, `HeapUsedProperly` (its steps are steps of `Heap`) |
| `keyboard` | 2 processes, buffers of 3, counters modulo 6, 2 characters | `SlotsExact`, `ImplementsFifo` (refinement), `KeysAreRead` (liveness) |
| `task_process` | table of 3, memory for 4 processes and 4 tasks | `ListWellFormed`, `TasksMatchProcesses`, `FailedLoadRollsBack` |
| `file_table` | 3 descriptors, 4 private structures, a file of 3 bytes and an empty one, positions up to 3 | `NoDanglingDescriptor`, `ImplementsOpenFiles` (refinement) |
| `terminal` | 3 x 2 cells, counters modulo 8 | `BlankAhead` |
| `kernel_entry` | 2 tasks, registers over 2 values | `UserContext`, `KernelContext`, `SavedRegistersCurrent`, `RegistersPreserved`, `Acknowledged` (liveness) |
| `paging` | 16 pages of 2 bytes in 4 tables, a heap of 7 pages, 2 tasks, 8 programs | `WritesOwnOnly`, `CopyRestores`, `SegmentsInPlace`, `ElfRange` |
| `fat16` | sectors of 2 cells, clusters of 4, 7 disks, 132 paths, two items in memory behind the directory, reads of 1 or 2 members of 1, 4 or 5 cells | `FlatRead`, `PathParsed`, `OpensNamed`, `ReadsTheFile`, `CallsReturn` (liveness) |

Each also checks its module's `TypeOK`.

Why the bounds are enough. Six blocks hold fragments on both sides of an
allocation, a run that is too short in the middle and one at the end. Two slots
and two processes give a full allocation table while the other process and the
kernel still allocate. Buffers of three with counters modulo six wrap both the
buffer and the counters, at different times; 1024 divides 2^32 as 3 divides 6.
A table of three with memory for a fourth load reaches the full table, and
`EISTKN` is a slot of it as 8 is a slot of 12. `MaxPos` bounds positions, which
the code lets grow without end. The terminal's counters wrap beyond the screen.
The programs of `paging` have a segment that begins inside a page, one that
crosses a page table, one at addresses where the heap has its pages (so that a
copy buffer lies on a page the program mapped), the headers of `blank.elf`, a
`.bss` past the end of the file, a size that wraps, segments out of order between
headers of other types, no headers at all, and the header of a 64-bit file; two
tasks are enough for a page that was one's copy buffer to become the other's.
The disks of `fat16` have files of one and two clusters, a subdirectory longer
than a cluster, a deleted item before live ones, two items of one name, a full
root directory with a zero right behind it, one cell later, and none at all, a file
in the last cluster, and no signature. One disk has one entry behind the array,
which may be a subdirectory or what is left of an item when a new block is zeroed
over it. Reads of 1, 4 and 5 cells stay inside a sector, fill a cluster and
run over it, from every position of the file. The paths are all strings of up
to three characters over those the parser tells apart, with and without a drive.

`WritesOwnOnly` is stated for programs whose segments lie inside their file.
`process_map_elf` checks nothing of the kind: the pages after the image are mapped
as well, so a writable `.bss` longer than the file reaches the next allocation.

`SegmentsInPlace` is stated, as far as segments go, for programs that are laid out as
a linker does it (`LaidOut`, all programs of the run but the one whose size wraps):
of two overlapping headers `process_map_elf` lets the later one decide, and it rounds
an address and its place in the file down separately. What it says of the stack
holds for every program. `ElfRange` is stated for segments that do not begin at 0,
which the loader takes for "not set", nor run past the last address.

`ReadsTheFile` is stated for reads that stay in the first cluster of a file
(`InFirstCluster`): beyond it the walk is wrong, which `fat16_clusters` shows, and
a chunk that starts inside a cluster runs into its neighbour on the disk.
`OpensNamed` is stated for root directories with a blank item in them or right
behind them (`RootEnds`), as the search takes other memory for items otherwise, and
with names that are padded with blanks and ended by one (`RootReadable`): a name with
a blank in it is cut there, and a name or an extension that fills its field is copied
on into what follows it. There, what is opened bears the name, whatever was
deleted. That whatever is there is found needs besides that nothing was deleted and
nothing lies behind the blank item (`RootCompact`): a deleted item hides a live one.
`CallsReturn` is stated for mounts and reads that stay on the disk (`Served`):
anything else waits for a sector that never comes. The other disks are in the
run all the same and have their part in `FlatRead`, `PathParsed` and `TypeOK`.

The requests of `process_memory` are for at least one byte: with 0 bytes the
property fails, which is a run of its own.

`CHECK_DEADLOCK` is off only in `task_process`, whose model ends when the first
task is entered or after undefined behaviour, and in `paging`, where nothing
changes any more once the heap is full.

Violations. Each is a sentence of the repository that the code does not keep:

* `heap_bounds` (`InBounds`, heap.c:82): a request larger than the free run at
  the end of the pool is given that run, and blocks past the pool are marked.
* `process_memory_zero` (`FreesOnlyOwn`, process.c:81): `malloc(0)` returns a
  block that stays free; freeing the pointer later frees the block's new owner.
* `fat16_clusters` (`CorrectCluster`, fat16.c:390): "get correct cluster to use
  based on starting cluster and the offset". The position of a table entry is
  computed as a product (fat16.c:372), and the end marks are those of FAT12: the
  walk to the second cluster of a file ends in another cluster.

Other behaviour that the models keep and no run is about: memory that
`process_malloc` takes when the allocation table is full is lost (process.c:55);
memory it returns is not mapped writable for the program; a backspace at the
start of a row leaves the column at 65535; rows are not bounded and nothing
scrolls; a failed load leaves its process structure allocated (the comment
"free the process data" at process.c:286 has no code); `ebp` of the first task is
the kernel's (task.asm:54); a full process table makes the error exit read an
uninitialized pointer (process.c:232); the last descriptor number is refused by
every lookup, so that file cannot be read or closed (file.c:74); after an overrun
getkey may return 0 while keys wait behind an emptied slot (keyboard.c:69); `fread`
neither moves the position nor looks at the size of the file (fat16.c:699);
no path of two parts leads to a file (fat16.c:572); two slashes in a row end a path
(pparser.c:46), and parsed paths are never freed; a file that is not ELF leaves its
first copy allocated (process.c:141); `elf_is_executable` has no caller, so the type
and the entry point of a file are not checked (elfloader.c:26).

Read in the code and outside every property: results of allocations that are used
unchecked (paging.c:15, elfloader.c:161; `task_new` at process.c:263, where
`TaskProcess` ends in `undefined`); `SEEK_CURRENT` compares the offset alone with the
size (fat16.c:732, kept by `FileTable` up to `MaxPos`); the scancode equal to the size
of its table (classic.c:41); `print` prints an uninitialized buffer when the copy
failed (io.c:9), and zeroes when the string lies where its copy buffer is mapped
(task.c:127); a `.bss` is not cleared (process.c:168); a root directory that does
not fill its last sector shifts all clusters by one sector (fat16.c:241).

### Fairness

* `Keyboard`: weak fairness of getkey. The program that runs calls it in a loop
  (`programs/blank/blank.c`), and an interrupt always returns to it. No fairness
  is assumed of interrupts.
* `KernelEntry`: weak fairness of the steps of handlers and commands. Kernel
  code runs with interrupts off and has no waiting loops on these paths, so the
  processor takes its next step. No fairness is assumed of user code, interrupts
  or system calls.
* `Fat16`: weak fairness of the driver's steps. The driver runs in the kernel with
  interrupts off until its call returns; the only loop that waits is the poll of
  the disk, which the model keeps: for a sector that does not exist the driver has
  no step and polls for ever. No fairness is assumed of callers.

The other specifications state safety only.

## Proofs

Every theorem is about the specification without fairness and holds for every
value of the constants that satisfies the module's assumption. The assumptions say
what the sizes of the build satisfy: positive sizes, a pool of whole blocks, null
among no structures, 1024 dividing 2^32. Each inductive invariant was first
checked with TLC on the instance of its run.

**`MemoryProofs`**, for every pool size, block size and word size, every number of
processes and slots, every set of pointers passed to free, and every set of
request sizes none of which rounds to 0 blocks (`PositiveRequests`, a hypothesis
of each theorem but those of the loops; with a request of 0 blocks the statements are false, as
`process_memory_zero` shows).
*Heap*: `HeapTypeOK`, `HeapNoOverlap`, `HeapTableExact`, `HeapChainsExact`,
`HeapOthersUntouched`. The last is a property of the steps that no run checks:
`ChainsExact` before and after a step fixes the entries of what stays in use. The
invariant is the conjunction of the first four, none of which is inductive alone: that `kmalloc` gives fresh blocks needs `TableExact` (a free entry
is covered by nobody), that `kfree` clears exactly one chain needs `ChainsExact`,
that the others keep their entries needs `NoOverlap`. The argument has two parts:
the scan returns a start block whose run, as far as it lies in the table, is free;
and the walk of `kfree` from the first block of a chain visits the chain's blocks
and no other. The second part, and the fact that a free block belongs to a run
with a first block, rest on the least element of a nonempty set of naturals.
*Loops*: `HeapLoopsExact`, of three lemmas, `HeapScanFindsRun`, `HeapMarksRun` and
`HeapWalkFreesChain`, for any request sizes, also 0: the operators of `HeapTable`, on
which everything else rests, are what the loops of the code compute. Each follows from a loop invariant kept by one entry
(`ScanInv`, `MarkInv`, `WalkInv`) and carried to the end by `AllUpTo`. That of the
scan says that until a run is found none that fits ends in the entries seen, and that
`bs` and `bc` are the start and the length of the free run that ends there; that two
free runs that reach one block have the same start (`OneRunStart`) makes it inductive.
`LoopRuns` shows once that a recursive function whose step keeps a type exists.
*Process memory*: `MemoryTypeCorrect`, `MemoryHoldersDisjoint`,
`MemorySlotsMatchHoldings`, `MemoryFreesOnlyOwn`, `MemoryUsesHeapProperly`. The
invariant adds to the heap's that every holding is in use and has one holder
(`HoldingsLive`) and that the slots are the pointers a process may free. With them a
pointer found in a slot is the start of an allocation of that process, so a free is
a proper `kfree`; hence each step is a step of `Heap` and the heap's lemmas apply.

**`KeyboardProofs`**, for every buffer size, every counter width that is a multiple
of it, and any processes, scancodes and characters: `KeyboardTypeOK`,
`KeyboardSlotsExact` and `KeyboardImplementsFifo`, the refinement of `KeyFifo`. That a
slot is filled exactly when it is unread needs at most `BUFFER_SIZE` unread keys
in a process without overrun, which a push keeps because the slot it fills was
empty. The rest is arithmetic of counters that wrap: the distance from head to
tail, and that slots of two unread keys differ. The refinement maps a process to
the sequence of its unread keys; a push appends to it and a pop removes its head.

**`TaskProcessProofs`**, for every table size and any process and task structures:
`TaskProcessTypeOK`, `TaskListWellFormed`, `TasksAreOfProcesses`,
`FailedLoadsRollBack`. The invariant is the first three together: a new task is not
on the list because the list holds allocated tasks only, and the task a failed load
frees is nobody's because allocated tasks belong to registered processes. A load
that fails to map its program appends a task and removes it again: the links of
the old tail are as before, which is also what `FailedLoadsRollBack` needs.

**`FileTableProofs`**, for every table size, any files, descriptors and private
structures: `FileTableTypeOK`, `DescriptorsNeverDangle` and
`FileTableImplementsOpenFiles`, the refinement of `OpenFiles`. Structures are reused
after `kfree`; that a number leads to a structure of its own follows from
`NoDanglingDescriptor`, which is inductive with the types. Each way out of `fopen`
other than the last maps to a stutter.

**`TerminalProofs`**, for every screen and every counter width beyond the number of its
cells: `TerminalTypeOK` and `TerminalBlankAhead`. `BlankAhead` is not inductive: a
backspace at the start of a row leaves the column at 65535 and the cursor far
behind the screen, where the property says little, and a newline brings it back.
The invariant says that in such a state the screen is blank from the last cell of
the row on (`BlankFromThere`), and that there is no other column out of range.

**`PagingProofs`**, for every page size and number of entries, any heap that ends before
the last page of memory, any tasks and program files: `PagingTypeOK`,
`PagingCopyRestores`, `PagingWritesOwnOnly`, `PagingSegmentsInPlace` and
`PagingElfRange`. The assumption has addresses of `WORD` = pages times page size and a
stack that fits (`config.h` has the heap from 0x01000000 for 100 MB and the stack
below 0x400000); the hypotheses on a program are in the statements of the properties
(see above). The invariant says which entry a copy in progress keeps
(`CopyKeepsEntry`), that the directory of a load writes into pages of its task only
(`ImagesOwned`), and that all that is kept of a task is what its load computed
(`AsLoaded`). The rest is about one load.
*Own pages*: each writable request maps pages of the image or of the stack, rounding
and 32-bit sums included, and an entry of the finished directory comes from one
request or is the read-only identity map.
*Segments in place*: the request of a segment maps exactly the pages the segment
covers, each as far from its page as the segment lies from its place in the file
(`SegmentPages`); the last request that maps a page decides (`MapToLast`), and in a
laid out program all that do agree.
*Range*: `elf_process_pheaders` is a recursive function; `LoopRuns` shows that it
exists, by the least header at which it would not (`AllUpTo`, in the place of an
induction theorem), and `OneMoreSegment` that each loadable header keeps the range
that of the segments so far, whichever side of it the header lies on.

**`KernelEntryProofs`**, for every set of tasks and register values:
`KernelEntryTypeOK`, `KernelEntryUserContext`, `KernelEntryKernelContext`,
`KernelEntrySavedRegisters`, `KernelEntryRegistersPreserved`. The invariant adds
what holds between the points the properties mention: inside the kernel the frame
is the one pushed and interrupts are off (`InKernel`), both returns are made in
the user's context (`AtReturn`), and the copy buffer is mapped only between two
points of `copy_string_from_task` (`CopyMapping`).

**`Fat16Proofs`**, about the streams and the driver that reads through them.
*Streams*, for every sector size, every disk of whole sectors and every sequence of
seeks and reads: `StreamsReadFlat`, that a stream delivers the cells of the disk as
if there were no sectors. The invariant is `FlatRead` with the types: a position is
its sector times the size plus its offset, one level of the recursion takes no more
than the rest of the sector, and a sector that has its first cell on the disk has
all of them, so the cells it adds are the next ones.
*Driver*, for every set of disks, paths, modes and sizes of a read: `Fat16TypeOK`,
`Fat16FlatRead` (the same formula with the driver as the caller), `Fat16PathParsed`,
`Fat16OpensNamed` and `Fat16ReadsTheFile`. The assumption (`Formatted`) says of a disk with the
signature that it has clusters, that the data area begins two clusters behind the
start of the disk or later (the disk of `boot.asm` has 716 sectors before it and
clusters of 128; otherwise cluster 0 would lie at a negative position) and that
there are directory items where the header says the root directory is, of which
only the blank one begins with `'\0'`. A disk without the signature is arbitrary, and
so is the set `Stray` of items that memory behind the directory may be taken for.
The invariant has a part for each thing a call works on, since none of the four
properties says anything of the middle of a call: the header in memory is that of
the disk (`HeaderKnown`); which call may be at which place (`Phases`), and which read
of the disk it waits for there (`ReadOfJob`); the mount has passed no blank item and
counted at most the items it passed, without deleted ones exactly those
(`CountingRoot`), so that the directory in memory is the one on the disk, and the
search stays in it if the count ended with it, and covers all of it if nothing was
deleted (`RootKnown`); as long as the search stays in the array (`InArray`), it has a
namesake exactly if it passed one (`Searching`);
and a read has delivered whole members and the chunks of the current one, in the
first cluster the cells from the position on (`Reading`). `OpensNamed` needs besides
that the name the driver composes of two fields and what follows them is the name
without its padding (`FullName`). The recursive functions of the model are reached
without the library's induction theorems: `PartsExist` and `PartsTyped` show that the
parser's function exists and yields sequences of characters by the least place at
which they fail, `ParsedComponents` in the same way that from every place behind a cut
it yields the components that follow, and `ChainStart` that the chain of a file
starts with its first cluster. `PathParsed` says what the parts are by the places of
the cuts, with no recursion of its own.

Only model-checked are the liveness properties `KeysAreRead`, `Acknowledged` and
`CallsReturn`: fairness is outside what the prover can do. The three findings are
counterexamples, which TLC finds.

## Not modelled

* GDT and TSS: six constants are encoded once at boot, by straight-line code.
* The lists of file systems and of interrupt callbacks: filled once at boot, before
  anything reads them, with one file system and one or two callbacks.
* Failing allocations inside the FAT16 driver, other than the ways out of
  `FileTable`; 32-bit wrap of disk positions (the disk is 16 MB).
* The second interrupt controller: `idt.c:37` acknowledges the master alone, and
  `KernelEntry` has only that one.
* Processor exceptions. `idt_zero` returns with `ret` and the stubs leave error
  codes on the stack; `KernelEntry` assumes programs raise none.
* `keyboard_backspace` (no caller), the list of keyboards (one element, never
  walked), `task_get_next` outside `task_list_remove`.
* Boot code, port I/O, and the string and memory helpers that the parser and the
  driver do not use: straight-line code without state.
* Contents: bytes of memory and files, colours, text that is printed.

## Plan

1. Done: heap and its loops, process memory, keyboard, tasks, descriptors, terminal,
   kernel entry, paging with the ELF loader, the FAT16 driver on the disk streams with
   the path parser, and proofs about all of them.
2. Allocations that fail inside the FAT16 driver, in the order `fat16_resolve` and
   `fat16_open` make them.
