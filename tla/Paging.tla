------------------------------- MODULE Paging -------------------------------
(***************************************************************************)
(* Page directories (src/memory/paging/paging.c), the mapping of a program *)
(* into its task (process_map_memory of src/task/process.c) and the        *)
(* temporary mapping of copy_string_from_task (src/task/task.c).           *)
(*                                                                         *)
(* A directory is a value: directory index, table index, entry.  An entry  *)
(* is the number of a physical page and a set of flags.  The heap appears  *)
(* as the owner of each physical page; kzalloc gives any run of free pages *)
(* (module Heap), always aligned, since a heap block is a page.            *)
(***************************************************************************)
EXTENDS ElfLoader

CONSTANTS
  PAGING_PAGE_SIZE,
  ENTRIES,           \* PAGING_TOTAL_ENTRIES_PER_TABLE
  TABLES,            \* entries of a directory
  HeapPages,         \* the pages of the heap's pool
  Tasks,
  Programs,          \* the program files that can be loaded
  PROGRAM_VIRTUAL_ADDRESS,
  STACK_VIRTUAL_END, \* PEACHOS_PROGRAM_VIRTUAL_STACK_ADDRESS_END
  STACK_SIZE,        \* PEACHOS_USER_PROGRAM_STACK_SIZE
  None

PAGES == ENTRIES * TABLES

PageNumbers == 0 .. (PAGES - 1)
PageFlags == {"PRESENT", "ACCESS_FROM_ALL", "WRITABLE"}
Entry == [page : PageNumbers, flags : SUBSET PageFlags]
Directory == [0 .. (TABLES - 1) -> [0 .. (ENTRIES - 1) -> Entry]]

Addresses == {p * PAGING_PAGE_SIZE : p \in HeapPages}

(* What the loader reads of a program file.                                *)
Program ==
  [signature : BOOLEAN, class : Nat, data : Nat, e_phoff : Word, size : Word,
   headers : Seq([p_type : Word, p_vaddr : Word, p_offset : Word,
                  p_filesz : Word, p_memsz : Word, writable : BOOLEAN])]

(* A copy in progress: its task, its buffer, the entry it replaced.        *)
Copy == [task : Tasks, tmp : Addresses, old_entry : Entry]

Kernel == "kernel"
Free == "free"

ASSUME PagingAssumption ==
  /\ PAGING_PAGE_SIZE \in Nat \ {0} /\ ENTRIES \in Nat \ {0} /\ TABLES \in Nat \ {0}
  /\ WORD = PAGES * PAGING_PAGE_SIZE
  /\ HeapPages \subseteq 1 .. (PAGES - 2)   \* the last page is past the heap
  /\ {PROGRAM_VIRTUAL_ADDRESS, STACK_VIRTUAL_END} \subseteq Word
  /\ PROGRAM_VIRTUAL_ADDRESS % PAGING_PAGE_SIZE = 0
  /\ STACK_VIRTUAL_END % PAGING_PAGE_SIZE = 0
  /\ STACK_SIZE \in 1 .. (WORD - PAGING_PAGE_SIZE)
  /\ STACK_VIRTUAL_END + STACK_SIZE <= WORD
  /\ Programs \subseteq Program
  /\ {Kernel, Free} \cap Tasks = {}
  /\ None \notin Copy

VARIABLES
  directory,  \* task->page_directory
  program,    \* the program loaded into the task
  image,      \* process->ptr or elf_file->elf_memory
  elf_file,   \* the range of addresses in process->elf_file
  stack,      \* process->stack
  owner,      \* ghost: to whom each page of the heap was given
  copying,    \* the copy in progress
  mapped      \* ghost: the directory as the load left it

vars == <<directory, program, image, elf_file, stack, owner, copying, mapped>>

TypeOK ==
  /\ directory \in [Tasks -> Directory \cup {None}]
  /\ program \in [Tasks -> Programs \cup {None}]
  /\ image \in [Tasks -> Addresses \cup {0}]
  /\ elf_file \in [Tasks -> AddressRange]
  /\ stack \in [Tasks -> Addresses \cup {0}]
  /\ owner \in [HeapPages -> Tasks \cup {Kernel, Free}]
  /\ copying = None \/ copying \in Copy
  /\ mapped \in [Tasks -> Directory \cup {None}]

Init ==
  /\ directory = [t \in Tasks |-> None]
  /\ program = [t \in Tasks |-> None]
  /\ image = [t \in Tasks |-> 0]
  /\ elf_file = [t \in Tasks |-> NoRange]
  /\ stack = [t \in Tasks |-> 0]
  /\ owner = [p \in HeapPages |-> Free]
  /\ copying = None
  /\ mapped = [t \in Tasks |-> None]

-----------------------------------------------------------------------------
(* paging.c.  Addresses are 32-bit words.                                  *)

PageOf(addr) == (addr % WORD) \div PAGING_PAGE_SIZE

paging_is_aligned(addr) == addr % PAGING_PAGE_SIZE = 0

(* Fault: the offset is a page too far after each table.                   *)
Fault_OffsetOnePageFar(flags) ==
  [i \in 0 .. (TABLES - 1) |-> [b \in 0 .. (ENTRIES - 1) |->
     [page |-> i * (ENTRIES + 1) + b, flags |-> flags]]]

(* Every address mapped to itself.                                         *)
paging_new_4gb(flags) ==
  [i \in 0 .. (TABLES - 1) |-> [b \in 0 .. (ENTRIES - 1) |->
     [page |-> i * ENTRIES + b, flags |-> flags]]]

paging_get_indexes(virt) ==
  [directory |-> virt \div (ENTRIES * PAGING_PAGE_SIZE),
   table |-> (virt % (ENTRIES * PAGING_PAGE_SIZE)) \div PAGING_PAGE_SIZE]

paging_align_address(ptr) ==
  IF paging_is_aligned(ptr) THEN ptr
  ELSE (ptr + PAGING_PAGE_SIZE - (ptr % PAGING_PAGE_SIZE)) % WORD

paging_align_to_lower_page(addr) == addr - (addr % PAGING_PAGE_SIZE)

paging_set(dir, virt, entry) ==
  LET at == paging_get_indexes(virt)
  IN  [dir EXCEPT ![at.directory][at.table] = entry]

paging_get(dir, virt) ==
  LET at == paging_get_indexes(virt) IN dir[at.directory][at.table]

paging_map(dir, virt, phys, flags) ==
  paging_set(dir, virt, [page |-> PageOf(phys), flags |-> flags])

(* What paging_map_to is called with: virt, phys, phys_end and flags.      *)
Refused(r) ==
  \/ ~paging_is_aligned(r.virt)
  \/ ~paging_is_aligned(r.phys)
  \/ r.phys_end < r.phys
  \/ ~paging_is_aligned(r.phys_end)

(* Fault: the last page of the range is left out.                          *)
Fault_OnePageShort(r) == ((r.phys_end - r.phys) \div PAGING_PAGE_SIZE) - 1

(* Fault: a page too many is mapped.                                       *)
Fault_OnePageMore(r) == ((r.phys_end - r.phys) \div PAGING_PAGE_SIZE) + 1

total_pages(r) == (r.phys_end - r.phys) \div PAGING_PAGE_SIZE

(* Step i of the loop of paging_map_range maps virtual page v: both        *)
(* addresses go up a page each step and wrap at the end of memory.  They   *)
(* are aligned, so no page is refused.                                     *)
StepOf(r, v) == (v - PageOf(r.virt)) % PAGES

Maps(r, v) == ~Refused(r) /\ StepOf(r, v) < total_pages(r)

EntryFor(r, v) ==
  [page |-> (PageOf(r.phys) + StepOf(r, v)) % PAGES, flags |-> r.flags]

(* A directory after the calls of paging_map_to with these arguments, in   *)
(* this order: the last one that maps a page stands.                       *)
paging_map_to(dir, ranges) ==
  [i \in 0 .. (TABLES - 1) |-> [b \in 0 .. (ENTRIES - 1) |->
     LET v == i * ENTRIES + b
         mapping == {c \in DOMAIN ranges : Maps(ranges[c], v)}
     IN  IF mapping = {} THEN dir[i][b] ELSE EntryFor(ranges[Max(mapping)], v)]]

-----------------------------------------------------------------------------
(* process.c.                                                              *)

UserPage == {"PRESENT", "ACCESS_FROM_ALL"}

process_map_binary(prog, ptr) ==
  <<[virt |-> PROGRAM_VIRTUAL_ADDRESS,
     phys |-> ptr,
     phys_end |-> paging_align_address((ptr + prog.size) % WORD),
     flags |-> UserPage \cup {"WRITABLE"}]>>

(* Every program header is mapped, whatever its type, for its p_memsz      *)
(* bytes, which may be more than the file holds of it.                     *)
process_map_elf(prog, ptr) ==
  LET phys(phdr) == (ptr + phdr.p_offset) % WORD
      range(phdr) ==
        [virt |-> paging_align_to_lower_page(phdr.p_vaddr),
         phys |-> paging_align_to_lower_page(phys(phdr)),
         phys_end |-> paging_align_address((phys(phdr) + phdr.p_memsz) % WORD),
         flags |-> IF phdr.writable THEN UserPage \cup {"WRITABLE"} ELSE UserPage]
  IN  [k \in DOMAIN prog.headers |-> range(prog.headers[k])]

map_stack(stk) ==
  <<[virt |-> STACK_VIRTUAL_END,
     phys |-> stk,
     phys_end |-> paging_align_address((stk + STACK_SIZE) % WORD),
     flags |-> UserPage \cup {"WRITABLE"}]>>

(* The first header that is refused ends the mapping and the load; the     *)
(* results of mapping a raw image and the stack are not looked at.         *)
map_fails(prog, ptr) ==
  /\ elf_validate_loaded(prog)
  /\ \E k \in DOMAIN prog.headers : Refused(process_map_elf(prog, ptr)[k])

(* The directory that task_init made, when no mapping failed.              *)
process_map_memory(prog, ptr, stk) ==
  paging_map_to(paging_new_4gb(UserPage),
                (IF elf_validate_loaded(prog) THEN process_map_elf(prog, ptr)
                 ELSE process_map_binary(prog, ptr)) \o map_stack(stk))

(* The pages of an allocation of size bytes at address ptr.                *)
PagesFor(ptr, size) ==
  PageOf(ptr) .. (PageOf(ptr) + PageOf(paging_align_address(size)) - 1)

Unused(ptr, size) ==
  PagesFor(ptr, size) \subseteq {p \in HeapPages : owner[p] = Free}

(* The memory the file is read into: elf_load reads it once, and what it   *)
(* does not accept is read again as a raw image.  The first copy stays     *)
(* allocated for good.                                                     *)
process_load_data(prog, first, ptr) ==
  /\ Unused(first, prog.size) /\ Unused(ptr, prog.size)
  /\ IF elf_validate_loaded(prog) THEN first = ptr
     ELSE PagesFor(first, prog.size) \cap PagesFor(ptr, prog.size) = {}

(* process_load_for_slot from the reading of the file on; its earlier ways *)
(* out are those of module TaskProcess.  A load that fails frees the       *)
(* directory and keeps image and stack.                                    *)
process_load(t, prog, first, ptr, stk) ==
  LET dir == process_map_memory(prog, ptr, stk)
      loaded(ok, fail) == IF map_fails(prog, ptr) THEN fail ELSE ok
      file == PagesFor(first, prog.size)
      kept == PagesFor(ptr, prog.size) \cup PagesFor(stk, STACK_SIZE)
  IN  /\ copying = None
      /\ directory[t] = None
      /\ process_load_data(prog, first, ptr)
      /\ Unused(stk, STACK_SIZE)
      /\ PagesFor(stk, STACK_SIZE) \cap (file \cup PagesFor(ptr, prog.size)) = {}
      /\ owner' = [p \in HeapPages |-> IF p \in kept THEN loaded(t, Kernel)
                                       ELSE IF p \in file THEN Kernel ELSE owner[p]]
      /\ directory' = [directory EXCEPT ![t] = loaded(dir, None)]
      /\ mapped' = [mapped EXCEPT ![t] = loaded(dir, None)]
      /\ program' = [program EXCEPT ![t] = loaded(prog, None)]
      /\ image' = [image EXCEPT ![t] = loaded(ptr, 0)]
      /\ elf_file' = [elf_file EXCEPT ![t] =
                        IF elf_validate_loaded(prog)
                        THEN loaded(elf_process_pheaders(prog, ptr), NoRange) ELSE NoRange]
      /\ stack' = [stack EXCEPT ![t] = loaded(stk, 0)]
      /\ UNCHANGED copying

-----------------------------------------------------------------------------
(* task.c.                                                                 *)

(* The buffer is mapped into the task, at its own address and writable.    *)
copy_string_from_task(t, tmp) ==
  /\ copying = None
  /\ directory[t] # None
  /\ Unused(tmp, PAGING_PAGE_SIZE)
  /\ owner' = [owner EXCEPT ![PageOf(tmp)] = Kernel]
  /\ copying' = [task |-> t, tmp |-> tmp, old_entry |-> paging_get(directory[t], tmp)]
  /\ directory' = [directory EXCEPT ![t] =
                     paging_map(@, tmp, tmp, UserPage \cup {"WRITABLE"})]
  /\ UNCHANGED <<program, image, elf_file, stack, mapped>>

(* Fault: the entry put back is that of an identity mapping.               *)
Fault_RestoresIdentity ==
  /\ copying # None
  /\ directory' = [directory EXCEPT ![copying.task] =
                     paging_map(@, copying.tmp, copying.tmp, UserPage)]
  /\ owner' = [owner EXCEPT ![PageOf(copying.tmp)] = Free]
  /\ copying' = None
  /\ UNCHANGED <<program, image, elf_file, stack, mapped>>

(* The text is copied, the old entry put back and the buffer freed.        *)
copy_string_done ==
  /\ copying # None
  /\ directory' = [directory EXCEPT ![copying.task] =
                     paging_set(@, copying.tmp, copying.old_entry)]
  /\ owner' = [owner EXCEPT ![PageOf(copying.tmp)] = Free]
  /\ copying' = None
  /\ UNCHANGED <<program, image, elf_file, stack, mapped>>

Next ==
  \/ \E t \in Tasks, prog \in Programs, first, ptr, stk \in Addresses :
       process_load(t, prog, first, ptr, stk)
  \/ \E t \in Tasks, tmp \in Addresses : copy_string_from_task(t, tmp)
  \/ copy_string_done

Spec == Init /\ [][Next]_vars

-----------------------------------------------------------------------------

Loaded == {t \in Tasks : directory[t] # None}

Lookup(t, virt) == paging_get(directory[t], paging_align_to_lower_page(virt))

(* The physical address of a virtual one.                                  *)
Translate(t, virt) ==
  (Lookup(t, virt).page * PAGING_PAGE_SIZE) + (virt % PAGING_PAGE_SIZE)

(* What is mapped of a program: the segments of all program headers, or a  *)
(* raw image as one writable segment.                                      *)
Segments(prog) ==
  IF elf_validate_loaded(prog) THEN Range(prog.headers)
  ELSE {[p_vaddr |-> PROGRAM_VIRTUAL_ADDRESS, p_offset |-> 0,
         p_memsz |-> prog.size, writable |-> TRUE]}

(* A program whose segments stay inside the pages of its file.             *)
InsideImage(prog) ==
  \A seg \in Segments(prog) :
     seg.p_offset + seg.p_memsz <= paging_align_address(prog.size)

(* The page v holds a part of the size bytes at virt.                      *)
Covers(virt, size, v) ==
  virt < (v + 1) * PAGING_PAGE_SIZE /\ v * PAGING_PAGE_SIZE < virt + size

(* The layout a linker gives a program: each segment lies in the file as   *)
(* it does inside a page, is over before the end of memory in both address *)
(* spaces, shares no page with the stack, and a page with such a segment   *)
(* only as lies as far from its place in the file and is as writable.      *)
LaidOut(prog, ptr) ==
  \A seg \in Segments(prog) :
    /\ seg.p_vaddr % PAGING_PAGE_SIZE = seg.p_offset % PAGING_PAGE_SIZE
    /\ seg.p_vaddr + seg.p_memsz <= WORD
    /\ ptr + seg.p_offset + seg.p_memsz < WORD
    /\ \A v \in PageNumbers : Covers(seg.p_vaddr, seg.p_memsz, v) =>
         /\ ~Covers(STACK_VIRTUAL_END, STACK_SIZE, v)
         /\ \A other \in Segments(prog) : Covers(other.p_vaddr, other.p_memsz, v) =>
              /\ other.p_vaddr - other.p_offset = seg.p_vaddr - seg.p_offset
              /\ other.writable = seg.writable

(* A program can write to its own image and stack only: not to the other   *)
(* tasks, not to the kernel, and not to a page that was a copy buffer and  *)
(* has been given to somebody else since.  Everything else is the "read    *)
(* only address space" of task_init.  It holds for programs whose segments *)
(* lie inside their file: process_map_elf maps p_memsz bytes unchecked.    *)
WritesOwnOnly ==
  \A t \in Loaded : InsideImage(program[t]) =>
     \A v \in PageNumbers :
        LET entry == Lookup(t, v * PAGING_PAGE_SIZE)
        IN  "WRITABLE" \in entry.flags =>
              \/ entry.page \in HeapPages /\ owner[entry.page] = t
              \/ copying # None /\ copying.task = t /\ entry.page = PageOf(copying.tmp)

(* Through the page tables that process_map_memory makes, each byte of a   *)
(* segment is found at its place in the image, writable when the segment   *)
(* is, whatever lies inside a page, crosses a page or crosses a page table *)
(* (for programs that are laid out as linkers do, LaidOut); and, whatever  *)
(* the program, each byte of the stack in the stack, writable.             *)
SegmentsInPlace ==
  copying = None => \A t \in Loaded :
    /\ LaidOut(program[t], image[t]) =>
         \A seg \in Segments(program[t]), k \in Word : k < seg.p_memsz =>
           /\ Translate(t, seg.p_vaddr + k) = image[t] + seg.p_offset + k
           /\ seg.writable = ("WRITABLE" \in Lookup(t, seg.p_vaddr + k).flags)
    /\ \A k \in Word : k < STACK_SIZE =>
         /\ Translate(t, STACK_VIRTUAL_END + k) = stack[t] + k
         /\ "WRITABLE" \in Lookup(t, STACK_VIRTUAL_END + k).flags

(* copy_string_from_task leaves no trace: once no copy is in progress,     *)
(* each directory is again what the load made it, also where the buffer    *)
(* lay on a page the program itself had mapped.                            *)
CopyRestores == copying = None => directory = mapped

(* The range the ELF loader keeps of a program is that of its loadable     *)
(* segments, whatever their order: it begins where the lowest begins and   *)
(* ends where the highest ends in the file, and the physical addresses are *)
(* those of these two segments in the image.  Address 0 stands for "not    *)
(* set", so no segment may be there, and none may run past the last one.   *)
ElfRange ==
  \A t \in Loaded :
    LET segments == LoadHeaders(program[t])
        range == elf_file[t]
        end(seg) == seg.p_vaddr + seg.p_filesz
    IN  /\ elf_validate_loaded(program[t])
        /\ segments # {}
        /\ \A seg \in segments : seg.p_vaddr > 0 /\ end(seg) < WORD
        =>
        /\ \A seg \in segments : range.virtual_base <= seg.p_vaddr /\ end(seg) <= range.virtual_end
        /\ \E seg \in segments : /\ range.virtual_base = seg.p_vaddr
                                 /\ range.physical_base = elf_phdr_phys_address(seg, image[t])
        /\ \E seg \in segments : /\ range.virtual_end = end(seg)
                                 /\ range.physical_end = end_phys_address(seg, image[t])

=============================================================================
