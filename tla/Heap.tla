-------------------------------- MODULE Heap --------------------------------
(***************************************************************************)
(* The kernel heap (src/memory/heap/heap.c, kheap.c) seen by its callers:  *)
(* kmalloc and kfree as atomic operations, which they are, since every     *)
(* interrupt gate of the kernel clears the interrupt flag.  The callers    *)
(* ask for any size in Sizes and free only what they were given.           *)
(***************************************************************************)
EXTENDS HeapTable

CONSTANT Sizes  \* the byte sizes the callers ask for

ASSUME SizesAssumption == Sizes \subseteq 0 .. (WORD - 1)

(* No request rounds to 0 blocks: what the proofs ask of the callers.      *)
PositiveRequests == \A size \in Sizes : blocks_for(size) > 0

VARIABLES
  entries,  \* heap->table->entries, and the bytes that follow the table
  live      \* the allocations handed out and not yet freed: a ghost

vars == <<entries, live>>

(* An allocation: the pointer the caller holds and its number of blocks.   *)
Allocation(ptr, blocks) == [ptr |-> ptr, blocks |-> blocks]

StartOf(a) == heap_address_to_block(a.ptr)
BlocksOf(a) == StartOf(a) .. (StartOf(a) + a.blocks - 1)

TypeOK ==
  /\ entries \in [Region -> SUBSET Flags]
  /\ live \subseteq [ptr : {heap_block_to_address(b) : b \in Table},
                     blocks : 0 .. MaxBlocks]

kheap_init ==
  /\ entries = heap_create
  /\ live = {}

(* kmalloc that finds no start block returns 0 and changes nothing.        *)
kmalloc_fails(size) ==
  /\ heap_get_start_block(entries, blocks_for(size)) < 0
  /\ UNCHANGED vars

kmalloc(size) ==
  LET n == blocks_for(size)
      s == heap_get_start_block(entries, n)
  IN  /\ s >= 0
      /\ entries' = heap_mark_blocks_taken(entries, s, n)
      /\ live' = live \cup {Allocation(heap_block_to_address(s), n)}

kfree(a) ==
  /\ entries' = heap_mark_blocks_free(entries, heap_address_to_block(a.ptr))
  /\ live' = live \ {a}

Next ==
  \/ \E size \in Sizes : kmalloc(size)
  \/ \E size \in Sizes : kmalloc_fails(size)
  \/ \E a \in live : kfree(a)

Init == kheap_init

Spec == Init /\ [][Next]_vars

-----------------------------------------------------------------------------

(* Two allocations that are both in use never share a block, whatever the  *)
(* order of the calls of kmalloc and kfree that led to them.               *)
NoOverlap ==
  \A a, b \in live : a # b => BlocksOf(a) \cap BlocksOf(b) = {}

(* A block of the pool is marked taken exactly when an allocation in use   *)
(* covers it: kfree gives back all the blocks of an allocation, and only   *)
(* those, so nothing leaks and nothing in use can be handed out again.     *)
TableExact ==
  \A i \in Table : ~IsFree(entries, i) <=> \E a \in live : i \in BlocksOf(a)

(* The flags of the entries under an allocation chain its first block to   *)
(* its last, which is what kfree follows.                                  *)
ChainsExact ==
  \A a \in live : \A i \in BlocksOf(a) :
     entries[i] = chain_entry(StartOf(a), a.blocks, i)

(* No call touches the table entries of an allocation that stays in use.   *)
OthersUntouched ==
  [][\A a \in live \cap live' : \A i \in BlocksOf(a) : entries'[i] = entries[i]]_vars

(* "found a start block with enough blocks afterwards for alloc"           *)
(* (heap.c:82): every allocation lies inside the pool.                     *)
InBounds == \A a \in live : BlocksOf(a) \subseteq Table

=============================================================================
