--------------------------- MODULE ProcessMemory ---------------------------
(***************************************************************************)
(* The memory of user programs (process_malloc and process_free of         *)
(* src/task/process.c, reached through the isr80h commands 4 and 5) on top *)
(* of the kernel heap that the kernel's own allocations share.  A program  *)
(* chooses the size it asks for and the pointer it frees, so both are      *)
(* arbitrary; the kernel frees only what it was given.                     *)
(***************************************************************************)
EXTENDS Heap

CONSTANTS
  Processes,                \* the processes loaded
  MAX_PROGRAM_ALLOCATIONS,  \* PEACHOS_MAX_PROGRAM_ALLOCATIONS
  UserSizes,                \* sizes a program asks for
  KernelSizes,              \* sizes the kernel asks for
  Pointers                  \* pointers a program passes to free

ASSUME ProcessMemoryAssumption ==
  /\ "kernel" \notin Processes
  /\ MAX_PROGRAM_ALLOCATIONS \in Nat \ {0}
  /\ UserSizes \cup KernelSizes \subseteq Sizes
  /\ Pointers \subseteq 0 .. (WORD - 1)

VARIABLES
  allocations,  \* process->allocations of every process
  kernel,       \* ghost: what kernel code was given and has not freed
  user          \* ghost: what each program was given and has not freed

memory_vars == <<entries, live, allocations, kernel, user>>

Slots == 0 .. (MAX_PROGRAM_ALLOCATIONS - 1)

Addresses == {heap_block_to_address(b) : b \in Table}
Holdings == [ptr : Addresses, blocks : 0 .. MaxBlocks]

MemoryTypeOK ==
  /\ TypeOK
  /\ allocations \in [Processes -> [Slots -> Addresses \cup {NULL}]]
  /\ kernel \subseteq Holdings
  /\ user \in [Processes -> SUBSET Holdings]

MemoryInit ==
  /\ kheap_init
  /\ allocations = [p \in Processes |-> [i \in Slots |-> NULL]]
  /\ kernel = {}
  /\ user = [p \in Processes |-> {}]

-----------------------------------------------------------------------------
(* kmalloc and kfree, as the operations below call them.                   *)

(* What kmalloc hands out.                                                 *)
Given(size) ==
  LET n == blocks_for(size)
  IN  Allocation(heap_block_to_address(heap_get_start_block(entries, n)), n)

(* The pointer is whatever the caller passes.  A pointer below the pool    *)
(* gives a negative block: the null pointer, which a program with an       *)
(* unused slot can free, a block 4096 entries in front of the table.  The  *)
(* walk clears bytes there, outside the model, and ends at the first one   *)
(* without the HAS_NEXT bit, long before it comes to the table.            *)
heap_free(ptr) ==
  LET b == heap_address_to_block(ptr)
  IN  /\ entries' = IF b < 0 THEN entries ELSE heap_mark_blocks_free(entries, b)
      /\ live' = {a \in live : a.ptr # ptr}

(* Memory the kernel takes and gives back for its own use: process and     *)
(* task structures, page tables, file descriptors, program images.         *)
kernel_kmalloc(size) ==
  /\ kmalloc(size)
  /\ kernel' = kernel \cup {Given(size)}
  /\ UNCHANGED <<allocations, user>>

kernel_kfree(a) ==
  /\ heap_free(a.ptr)
  /\ kernel' = kernel \ {a}
  /\ UNCHANGED <<allocations, user>>

-----------------------------------------------------------------------------

process_find_free_allocation_index(p) ==
  LET free == {i \in Slots : allocations[p][i] = NULL}
  IN  IF free = {} THEN -ENOMEM ELSE Min(free)

(* kzalloc finds no memory: the program gets 0.                            *)
process_malloc_fails(p, size) ==
  /\ kmalloc_fails(size)
  /\ UNCHANGED <<allocations, kernel, user>>

(* The memory is there but the allocation table of the process is full:    *)
(* the program gets 0 and nobody has the pointer any more.                 *)
process_malloc_untracked(p, size) ==
  /\ process_find_free_allocation_index(p) < 0
  /\ kmalloc(size)
  /\ UNCHANGED <<allocations, kernel, user>>

process_malloc(p, size) ==
  LET index == process_find_free_allocation_index(p)
  IN  /\ index >= 0
      /\ kmalloc(size)
      /\ allocations' = [allocations EXCEPT ![p][index] = Given(size).ptr]
      /\ user' = [user EXCEPT ![p] = @ \cup {Given(size)}]
      /\ UNCHANGED kernel

(* Fault: any pointer of the pool is taken for the process' own.           *)
Fault_AnyPointerIsOurs(p, ptr) == ptr \in Addresses

process_is_process_pointer(p, ptr) ==
  \E i \in Slots : allocations[p][i] = ptr

(* Fault: the slot keeps the pointer that is being freed.                  *)
Fault_SlotKept(p, ptr) == allocations[p]

process_allocation_unjoin(p, ptr) ==
  [i \in Slots |-> IF allocations[p][i] = ptr THEN NULL ELSE allocations[p][i]]

process_free(p, ptr) ==
  /\ process_is_process_pointer(p, ptr)
  /\ allocations' = [allocations EXCEPT ![p] = process_allocation_unjoin(p, ptr)]
  /\ heap_free(ptr)
  /\ user' = [user EXCEPT ![p] = {a \in @ : a.ptr # ptr}]
  /\ UNCHANGED kernel

process_free_refused(p, ptr) ==
  /\ ~process_is_process_pointer(p, ptr)
  /\ UNCHANGED memory_vars

isr80h_command4_malloc(p) ==
  \E size \in UserSizes :
     \/ process_malloc(p, size)
     \/ process_malloc_untracked(p, size)
     \/ process_malloc_fails(p, size)

isr80h_command5_free(p) ==
  \E ptr \in Pointers : process_free(p, ptr) \/ process_free_refused(p, ptr)

MemoryNext ==
  \/ \E p \in Processes : isr80h_command4_malloc(p) \/ isr80h_command5_free(p)
  \/ \E size \in KernelSizes : kernel_kmalloc(size)
  \/ \E a \in kernel : kernel_kfree(a)

MemorySpec == MemoryInit /\ [][MemoryNext]_memory_vars

-----------------------------------------------------------------------------

(* All the memory in use, with its owner.                                  *)
Owners == Processes \cup {"kernel"}
HeldBy(o) == IF o = "kernel" THEN kernel ELSE user[o]

(* Memory of one owner is never at the same time memory of another owner,  *)
(* nor is it given twice to the same one: processes and kernel draw from   *)
(* one pool in any order.                                                  *)
HoldersDisjoint ==
  \A o, q \in Owners : \A a \in HeldBy(o), b \in HeldBy(q) :
     (o # q \/ a # b) => BlocksOf(a) \cap BlocksOf(b) = {}

(* The allocation table of a process holds each pointer the program may    *)
(* still use exactly once, so that a pointer it frees is freed once, and a *)
(* pointer it was never given, or freed already, is refused.               *)
SlotsMatchHoldings ==
  \A p \in Processes :
     /\ {allocations[p][i] : i \in Slots} \ {NULL} = {a.ptr : a \in user[p]}
     /\ \A i, j \in Slots : allocations[p][i] = allocations[p][j]
                              => i = j \/ allocations[p][i] = NULL

(* Whatever pointer a program passes to free, the memory of the others and *)
(* of the kernel keeps its table entries: "not allowing access to other    *)
(* process' memory" (process.c:81).                                        *)
FreesOnlyOwn ==
  [][\A o \in Owners : \A a \in HeldBy(o) : a \in HeldBy(o)' =>
        \A i \in BlocksOf(a) : entries'[i] = entries[i]]_memory_vars

(* Whatever the programs ask for and free, the heap is used as module Heap *)
(* says its callers use it: what is freed was allocated and is freed once, *)
(* so all that holds of the heap holds of it here.                         *)
HeapUsedProperly == Spec

=============================================================================
