----------------------------- MODULE HeapTable -----------------------------
(***************************************************************************)
(* The block table of the kernel heap (src/memory/heap/heap.c) as a set of *)
(* pure operators on a table value.  The heap hands out runs of            *)
(* HEAP_BLOCK_SIZE-byte blocks; one byte of the table describes one block. *)
(* Every module that allocates kernel memory is built on these operators.  *)
(***************************************************************************)
EXTENDS Integers, FiniteSetsExt

CONSTANTS
  HEAP_ADDRESS,     \* PEACHOS_HEAP_ADDRESS, first byte of the data pool
  HEAP_SIZE_BYTES,  \* PEACHOS_HEAP_SIZE_BYTES
  HEAP_BLOCK_SIZE,  \* PEACHOS_HEAP_BLOCK_SIZE
  WORD              \* number of values of a uint32_t

(* What kheap_init passes to heap_create and heap_create validates: both   *)
(* ends of the pool are block aligned, and the pool starts above address 0 *)
(* so that 0 can stand for "no memory".                                    *)
ASSUME HeapAssumption ==
  /\ HEAP_BLOCK_SIZE \in Nat \ {0}
  /\ HEAP_SIZE_BYTES \in Nat
  /\ HEAP_ADDRESS \in Nat \ {0}
  /\ WORD \in Nat \ {0}
  /\ HEAP_ADDRESS % HEAP_BLOCK_SIZE = 0
  /\ (HEAP_ADDRESS + HEAP_SIZE_BYTES) % HEAP_BLOCK_SIZE = 0

NULL == 0
ENOMEM == 3

(* Number of table entries: table->total.                                  *)
TOTAL == HEAP_SIZE_BYTES \div HEAP_BLOCK_SIZE

(* The blocks of the pool, and the bytes the table code can write: an      *)
(* allocation may be marked past the end of the table (see                 *)
(* heap_get_start_block), by at most one full 32-bit request.              *)
Table == 0 .. (TOTAL - 1)
MaxBlocks == WORD \div HEAP_BLOCK_SIZE
Region == 0 .. (TOTAL + MaxBlocks)

(* A table entry is the set of the flags that are up in its byte.          *)
Flags == {"TAKEN", "IS_FIRST", "HAS_NEXT"}
FREE == {}

(* The low nibble of an entry is its type: free or taken.                  *)
heap_get_entry_type(entry) == entry \cap {"TAKEN"}

IsFree(e, i) == heap_get_entry_type(e[i]) = FREE

-----------------------------------------------------------------------------

(* The table heap_create leaves behind: every entry of the table free.     *)
heap_create == [i \in Region |-> FREE]

(* uint32_t arithmetic: the last partial block before 2^32 wraps to 0.     *)
heap_align_value_to_upper(val) ==
  IF val % HEAP_BLOCK_SIZE = 0
  THEN val
  ELSE ((val - (val % HEAP_BLOCK_SIZE)) + HEAP_BLOCK_SIZE) % WORD

(* The number of blocks heap_malloc asks for.                              *)
blocks_for(size) == heap_align_value_to_upper(size) \div HEAP_BLOCK_SIZE

heap_block_to_address(block) == HEAP_ADDRESS + block * HEAP_BLOCK_SIZE

(* C division truncates towards zero, so an address below the pool gives a *)
(* negative block.                                                         *)
heap_address_to_block(address) ==
  IF address >= HEAP_ADDRESS
  THEN (address - HEAP_ADDRESS) \div HEAP_BLOCK_SIZE
  ELSE -((HEAP_ADDRESS - address) \div HEAP_BLOCK_SIZE)

-----------------------------------------------------------------------------

(* The scan for a start block.  The loop keeps bs, the first block of the  *)
(* current free run, and bc, the length of that run so far; it stops at    *)
(* the first run whose bc reaches total_blocks.  When no run does, the     *)
(* loop falls off the end of the table with bs still set to the start of   *)
(* the run that touches the end, if there is one, however short: the code  *)
(* returns it.  bc starts at 1, so a request for 0 blocks never matches.   *)
RunStart(e, s) == IsFree(e, s) /\ (s > 0 => ~IsFree(e, s - 1))

RunOf(e, s, n) == s + n <= TOTAL /\ \A i \in s .. (s + n - 1) : IsFree(e, i)

FittingStarts(e, n) ==
  {s \in Table : n > 0 /\ RunStart(e, s) /\ RunOf(e, s, n)}

TrailingStarts(e) ==
  {s \in Table : RunStart(e, s) /\ \A i \in s .. (TOTAL - 1) : IsFree(e, i)}

(* Fault: bc is not reset at a taken block, only bs is.                    *)
Fault_ScanKeepsCount(e, n) ==
  LET starts == {s \in Table : RunStart(e, s) /\
                    \E t \in s .. (TOTAL - 1) :
                      /\ \A i \in s .. t : IsFree(e, i)
                      /\ Cardinality({i \in 0 .. t : IsFree(e, i)}) >= n}
  IN  IF starts # {} THEN Min(starts) ELSE -ENOMEM

(* Fault: the start of the run is recorded after i was advanced.           *)
Fault_StartOneLate(e, n) ==
  IF FittingStarts(e, n) # {} THEN Min(FittingStarts(e, n)) + 1
  ELSE IF TrailingStarts(e) # {} THEN Min(TrailingStarts(e)) + 1
  ELSE -ENOMEM

heap_get_start_block(e, total_blocks) ==
  IF FittingStarts(e, total_blocks) # {}
  THEN Min(FittingStarts(e, total_blocks))
  ELSE IF TrailingStarts(e) # {}
  THEN Min(TrailingStarts(e))
  ELSE -ENOMEM

(* The flags of block i of an allocation of n blocks that starts at s.     *)
chain_entry(s, n, i) ==
  {"TAKEN"} \cup (IF i = s THEN {"IS_FIRST"} ELSE {})
            \cup (IF i < s + n - 1 THEN {"HAS_NEXT"} ELSE {})

(* Fault: the last block of the run is left free.                          *)
Fault_LastBlockUnmarked(e, start_block, total_blocks) ==
  [i \in Region |-> IF i \in start_block .. (start_block + total_blocks - 2)
                    THEN chain_entry(start_block, total_blocks, i)
                    ELSE e[i]]

heap_mark_blocks_taken(e, start_block, total_blocks) ==
  [i \in Region |-> IF i \in start_block .. (start_block + total_blocks - 1)
                    THEN chain_entry(start_block, total_blocks, i)
                    ELSE e[i]]

(* Freeing walks from the starting block to the first entry without        *)
(* HAS_NEXT, or to the end of the table, and frees every entry it visits.  *)
(* Entries below the table (a negative starting block) are not modelled    *)
(* here: ProcessMemory names that case.                                    *)
(* Fault: the walk stops before it clears the last entry of the chain.     *)
Fault_FreeStopsEarly(e, starting_block) ==
  [i \in Region |->
     IF /\ i \in starting_block .. (TOTAL - 1)
        /\ \A j \in starting_block .. i : "HAS_NEXT" \in e[j]
     THEN FREE ELSE e[i]]

heap_mark_blocks_free(e, starting_block) ==
  [i \in Region |->
     IF /\ i \in starting_block .. (TOTAL - 1)
        /\ \A j \in starting_block .. (i - 1) : "HAS_NEXT" \in e[j]
     THEN FREE ELSE e[i]]

=============================================================================
