---------------------------- MODULE MemoryProofs ----------------------------
(***************************************************************************)
(* Proofs about the kernel heap, for every pool size, block size and word  *)
(* size, about the loops of its code, and about the memory of programs on  *)
(* it, for every number of processes and of slots and every pointer a      *)
(* program may pass to free.                                               *)
(* Except for the loops, they need one hypothesis on the callers,          *)
(* PositiveRequests: no request rounds to 0 blocks.  Without it the        *)
(* theorems are false (heap_get_start_block answers a request for 0 blocks *)
(* with the start of the free run at the end of the pool, and marks        *)
(* nothing).                                                               *)
(***************************************************************************)
EXTENDS ProcessMemory, HeapLoops, WellFoundedInduction, TLAPS

(* The inductive invariant.  NoOverlap alone is not inductive: that a new  *)
(* allocation is disjoint from the old ones needs the table to show what   *)
(* is in use (TableExact), and that kfree clears the right entries needs   *)
(* the chains it follows (ChainsExact) to be there and to be separate.     *)
Inv ==
  /\ TypeOK
  /\ \A a \in live : a.blocks > 0
  /\ NoOverlap
  /\ TableExact
  /\ ChainsExact

-----------------------------------------------------------------------------
(* Arithmetic of blocks and addresses.                                     *)

(* A non-empty set of naturals has a least element, and Min denotes it.    *)
LEMMA MinOfNaturals ==
  ASSUME NEW S \in SUBSET Nat, S # {}
  PROVE  Min(S) \in S /\ \A y \in S : Min(S) <= y
<1> DEFINE Less == {p \in Nat \X Nat : p[1] < p[2]}
<1>1. OpToRel(<, Nat) = Less
  BY Zenon DEF OpToRel
<1>2. IsWellFoundedOn(Less, Nat)
  BY <1>1, NatLessThanWellFounded, Zenon
<1> HIDE DEF Less
<1>3. PICK x \in S : \A y \in S : ~ (<<y, x>> \in Less)
  BY <1>2, WFMin, Zenon
<1>4. \A y \in S : x <= y
  <2> TAKE y \in S
  <2>1. <<y, x>> \in Nat \X Nat
    OBVIOUS
  <2>2. <<y, x>>[1] = y /\ <<y, x>>[2] = x
    OBVIOUS
  <2>3. ~(y < x)
    BY <1>3, <2>1, <2>2, Zenon DEF Less
  <2> QED BY <2>3
<1> QED BY <1>4 DEF Min

(* The sizes of the table and of a request are natural numbers.            *)
LEMMA SizesAreNatural == TOTAL \in Nat /\ MaxBlocks \in Nat
BY HeapAssumption DEF HeapAssumption, TOTAL, MaxBlocks

(* heap_address_to_block undoes heap_block_to_address.                     *)
LEMMA BlockOfAddress ==
  ASSUME NEW b \in Nat
  PROVE  heap_address_to_block(heap_block_to_address(b)) = b
BY HeapAssumption
DEF heap_address_to_block, heap_block_to_address, HeapAssumption

(* A request of less than 2^32 bytes takes at most MaxBlocks blocks.       *)
LEMMA BlocksForBounded ==
  ASSUME NEW size \in 0 .. (WORD - 1)
  PROVE  blocks_for(size) \in 0 .. MaxBlocks
<1> DEFINE al == heap_align_value_to_upper(size)
<1>1. al \in 0 .. (WORD - 1)
  BY HeapAssumption DEF HeapAssumption, heap_align_value_to_upper
<1> HIDE DEF al
<1>2. al \div HEAP_BLOCK_SIZE \in 0 .. (WORD \div HEAP_BLOCK_SIZE)
  BY <1>1, HeapAssumption DEF HeapAssumption
<1> QED BY <1>2 DEF blocks_for, MaxBlocks, al

-----------------------------------------------------------------------------
(* What the operators of the table do.                                     *)

(* The block heap_get_start_block finds for a request of n blocks starts a *)
(* run of free blocks that is either long enough or reaches the end of the *)
(* table: in both cases every block of the request that lies in the table  *)
(* is free.                                                                *)
LEMMA StartBlockIsFree ==
  ASSUME NEW e \in [Region -> SUBSET Flags], NEW n \in Nat, n > 0,
         heap_get_start_block(e, n) >= 0
  PROVE  /\ heap_get_start_block(e, n) \in Table
         /\ \A i \in Table :
              i \in heap_get_start_block(e, n) .. (heap_get_start_block(e, n) + n - 1)
                 => IsFree(e, i)
<1> USE SizesAreNatural
<1>1. CASE FittingStarts(e, n) # {}
  <2> DEFINE s == Min(FittingStarts(e, n))
  <2>1. FittingStarts(e, n) \in SUBSET Nat
    BY DEF FittingStarts, Table
  <2>2. s \in FittingStarts(e, n)
    BY <1>1, <2>1, MinOfNaturals
  <2>3. heap_get_start_block(e, n) = s
    BY <1>1 DEF heap_get_start_block
  <2> HIDE DEF s
  <2>4. s \in Table /\ RunOf(e, s, n)
    BY <2>2 DEF FittingStarts
  <2> QED BY <2>3, <2>4 DEF RunOf, Table
<1>2. CASE FittingStarts(e, n) = {}
  <2> DEFINE s == Min(TrailingStarts(e))
  <2>1. TrailingStarts(e) # {}
    BY <1>2 DEF heap_get_start_block, ENOMEM
  <2>2. TrailingStarts(e) \in SUBSET Nat
    BY DEF TrailingStarts, Table
  <2>3. s \in TrailingStarts(e)
    BY <2>1, <2>2, MinOfNaturals
  <2>4. heap_get_start_block(e, n) = s
    BY <1>2, <2>1 DEF heap_get_start_block
  <2> HIDE DEF s
  <2>5. s \in Table /\ \A i \in s .. (TOTAL - 1) : IsFree(e, i)
    BY <2>3 DEF TrailingStarts
  <2> QED BY <2>4, <2>5 DEF Table
<1> QED BY <1>1, <1>2

(* The entries of a chain are flag sets, are not free, and carry HAS_NEXT  *)
(* except at the end of the chain.                                         *)
LEMMA ChainEntry ==
  ASSUME NEW s \in Nat, NEW n \in Nat, NEW i \in s .. (s + n - 1)
  PROVE  /\ chain_entry(s, n, i) \in SUBSET Flags
         /\ "TAKEN" \in chain_entry(s, n, i)
         /\ "HAS_NEXT" \in chain_entry(s, n, i) <=> i < s + n - 1
BY DEF chain_entry, Flags

(* An entry is free when its TAKEN flag is down.                           *)
LEMMA FreeMeansNotTaken ==
  ASSUME NEW e, NEW i
  PROVE  IsFree(e, i) <=> "TAKEN" \notin e[i]
BY DEF IsFree, heap_get_entry_type, FREE

(* The blocks of an allocation that kmalloc handed out.                    *)
LEMMA LiveBlocks ==
  ASSUME TypeOK, NEW a \in live
  PROVE  /\ StartOf(a) \in Table
         /\ a.blocks \in 0 .. MaxBlocks
         /\ BlocksOf(a) = StartOf(a) .. (StartOf(a) + a.blocks - 1)
         /\ BlocksOf(a) \subseteq Region
<1>1. PICK b \in Table : a.ptr = heap_block_to_address(b)
  BY DEF TypeOK
<1>2. StartOf(a) = b
  BY <1>1, BlockOfAddress, SizesAreNatural DEF StartOf, Table
<1>3. a.blocks \in 0 .. MaxBlocks
  BY DEF TypeOK
<1> QED BY <1>1, <1>2, <1>3, SizesAreNatural DEF BlocksOf, Region, Table

(* kfree of an allocation in use clears exactly its blocks in the table.   *)
LEMMA FreeClearsChain ==
  ASSUME Inv, NEW a \in live, NEW i \in Region
  PROVE  heap_mark_blocks_free(entries, StartOf(a))[i]
           = IF i \in BlocksOf(a) /\ i \in Table THEN FREE ELSE entries[i]
<1> USE SizesAreNatural
<1> DEFINE s == StartOf(a)
           n == a.blocks
<1>1. s \in Nat /\ s < TOTAL /\ n \in Nat /\ n > 0
      /\ BlocksOf(a) = s .. (s + n - 1) /\ BlocksOf(a) \subseteq Region
  BY LiveBlocks DEF Inv, Table
<1>2. \A j \in s .. (s + n - 1) : "HAS_NEXT" \in entries[j] <=> j < s + n - 1
  BY <1>1, ChainEntry DEF Inv, ChainsExact
<1> HIDE DEF s, n
<1>3. ASSUME i \in s .. (TOTAL - 1)
      PROVE  (\A j \in s .. (i - 1) : "HAS_NEXT" \in entries[j])
                <=> i \in s .. (s + n - 1)
  <2>1. CASE i \in s .. (s + n - 1)
    BY <1>1, <1>2, <1>3, <2>1
  <2>2. CASE i > s + n - 1
    <3>1. (s + n - 1) \in s .. (i - 1) /\ (s + n - 1) \in s .. (s + n - 1)
      BY <1>1, <2>2 DEF Region
    <3> QED BY <1>1, <1>2, <2>2, <3>1
  <2> QED BY <1>1, <1>3, <2>1, <2>2
<1>4. heap_mark_blocks_free(entries, s)[i]
        = IF i \in s .. (TOTAL - 1) /\ i \in s .. (s + n - 1)
          THEN FREE ELSE entries[i]
  BY <1>3 DEF heap_mark_blocks_free
<1>5. (i \in s .. (TOTAL - 1) /\ i \in s .. (s + n - 1))
         <=> (i \in s .. (s + n - 1) /\ i \in Table)
  BY <1>1 DEF Table, Region
<1> QED BY <1>1, <1>4, <1>5 DEF s

-----------------------------------------------------------------------------
(* One lemma per operation.                                                *)

(* The allocation kmalloc makes is disjoint from all those in use, also    *)
(* when it runs past the end of the pool: an allocation that shares a      *)
(* block beyond the table would also cover the last block of the table.    *)
LEMMA NewIsDisjoint ==
  ASSUME Inv, NEW n \in 0 .. MaxBlocks, n > 0,
         heap_get_start_block(entries, n) >= 0, NEW b \in live
  PROVE  BlocksOf(b) \cap (heap_get_start_block(entries, n) ..
                             (heap_get_start_block(entries, n) + n - 1)) = {}
<1> USE SizesAreNatural
<1> DEFINE s == heap_get_start_block(entries, n)
<1>1. s \in Table /\ \A i \in Table : i \in s .. (s + n - 1) => IsFree(entries, i)
  BY StartBlockIsFree DEF Inv, TypeOK
<1> HIDE DEF s
<1>2. StartOf(b) \in Table /\ b.blocks \in Nat
      /\ BlocksOf(b) = StartOf(b) .. (StartOf(b) + b.blocks - 1)
  BY LiveBlocks DEF Inv
<1>3. \A i \in Table : i \in BlocksOf(b) => ~IsFree(entries, i)
  BY DEF Inv, TableExact
<1>4. SUFFICES ASSUME NEW i \in BlocksOf(b), i \in s .. (s + n - 1) PROVE FALSE
  BY DEF s
<1>5. CASE i \in Table
  BY <1>1, <1>3, <1>4, <1>5
<1>6. CASE i \notin Table
  <2>1. i \in Int /\ i >= TOTAL
    BY <1>1, <1>4, <1>6 DEF Table
  <2>2. (TOTAL - 1) \in Table /\ (TOTAL - 1) \in s .. (s + n - 1)
        /\ (TOTAL - 1) \in BlocksOf(b)
    BY <1>1, <1>2, <1>4, <2>1 DEF Table
  <2> QED BY <1>1, <1>3, <2>2
<1> QED BY <1>5, <1>6

(* kmalloc keeps the invariant and the entries of the others.              *)
LEMMA KmallocKeepsInv ==
  ASSUME Inv, PositiveRequests, NEW size \in Sizes, kmalloc(size)
  PROVE  /\ Inv'
         /\ \A b \in live : \A i \in BlocksOf(b) : entries'[i] = entries[i]
<1> USE SizesAreNatural
<1> DEFINE n == blocks_for(size)
           s == heap_get_start_block(entries, n)
           a == Allocation(heap_block_to_address(s), n)
<1>1. n \in 0 .. MaxBlocks /\ n > 0
  BY SizesAssumption, BlocksForBounded DEF PositiveRequests, SizesAssumption
<1>2. s >= 0 /\ live' = live \cup {a}
      /\ entries' = heap_mark_blocks_taken(entries, s, n)
  BY DEF kmalloc
<1> HIDE DEF n
<1>3. s \in Table /\ \A i \in Table : i \in s .. (s + n - 1) => IsFree(entries, i)
  BY <1>1, <1>2, StartBlockIsFree DEF Inv, TypeOK
<1>4. \A b \in live : BlocksOf(b) \cap (s .. (s + n - 1)) = {}
  BY <1>1, <1>2, NewIsDisjoint
<1> HIDE DEF s
<1>5. \A i \in Region : entries'[i] = IF i \in s .. (s + n - 1)
                                      THEN chain_entry(s, n, i) ELSE entries[i]
  BY <1>2 DEF heap_mark_blocks_taken
<1>6. /\ a \in [ptr : {heap_block_to_address(b) : b \in Table},
                blocks : 0 .. MaxBlocks]
      /\ a.ptr = heap_block_to_address(s) /\ a.blocks = n
  BY <1>1, <1>3 DEF Allocation
<1>7. StartOf(a) = s /\ BlocksOf(a) = s .. (s + n - 1)
  BY <1>3, <1>6, BlockOfAddress DEF StartOf, BlocksOf, Table
<1>8. \A b \in live : BlocksOf(b) \subseteq Region
  BY LiveBlocks DEF Inv
<1> HIDE DEF a
<1>9. \A b \in live : \A i \in BlocksOf(b) : entries'[i] = entries[i]
  BY <1>4, <1>5, <1>8
<1>10. TypeOK'
  <2>1. \A i \in Region : entries'[i] \in SUBSET Flags
    BY <1>1, <1>3, <1>5, ChainEntry DEF Inv, TypeOK, Table
  <2>2. entries' = [i \in Region |-> entries'[i]]
    BY <1>2 DEF heap_mark_blocks_taken
  <2>3. entries' \in [Region -> SUBSET Flags]
    BY <2>1, <2>2
  <2> QED BY <1>2, <1>6, <2>3 DEF Inv, TypeOK
<1>11. \A b \in live' : b.blocks > 0
  BY <1>1, <1>2, <1>6 DEF Inv
<1>12. NoOverlap'
  BY <1>2, <1>4, <1>7 DEF Inv, NoOverlap, BlocksOf, StartOf
<1>13. TableExact'
  <2> SUFFICES ASSUME NEW i \in Table
               PROVE  ~IsFree(entries', i) <=> \E b \in live' : i \in BlocksOf(b)
    BY DEF TableExact, BlocksOf, StartOf
  <2>1. i \in Region
    BY DEF Table, Region
  <2>2. CASE i \in s .. (s + n - 1)
    <3>1. ~IsFree(entries', i)
      BY <1>1, <1>3, <1>5, <2>1, <2>2, ChainEntry, FreeMeansNotTaken DEF Table
    <3> QED BY <1>2, <1>7, <2>2, <3>1
  <2>3. CASE i \notin s .. (s + n - 1)
    <3>1. IsFree(entries', i) <=> IsFree(entries, i)
      BY <1>5, <2>1, <2>3 DEF IsFree
    <3> QED BY <1>2, <1>7, <2>3, <3>1 DEF Inv, TableExact
  <2> QED BY <2>2, <2>3
<1>14. ChainsExact'
  <2> SUFFICES ASSUME NEW b \in live', NEW i \in BlocksOf(b)
               PROVE  entries'[i] = chain_entry(StartOf(b), b.blocks, i)
    BY DEF ChainsExact, BlocksOf, StartOf
  <2>1. CASE b \in live
    BY <1>9, <2>1 DEF Inv, ChainsExact
  <2>2. CASE b = a
    <3>1. i \in Region
      BY <1>1, <1>3, <1>7, <2>2 DEF Table, Region
    <3> QED BY <1>5, <1>6, <1>7, <2>2, <3>1
  <2> QED BY <1>2, <2>1, <2>2
<1> QED BY <1>9, <1>10, <1>11, <1>12, <1>13, <1>14 DEF Inv

(* kfree keeps the invariant and the entries of the others.                *)
LEMMA KfreeKeepsInv ==
  ASSUME Inv, NEW a \in live, kfree(a)
  PROVE  /\ Inv'
         /\ \A b \in live' : \A i \in BlocksOf(b) : entries'[i] = entries[i]
<1> USE SizesAreNatural
<1>1. entries' = heap_mark_blocks_free(entries, StartOf(a)) /\ live' = live \ {a}
  BY DEF kfree, StartOf
<1>2. \A i \in Region : entries'[i] = IF i \in BlocksOf(a) /\ i \in Table
                                      THEN FREE ELSE entries[i]
  BY <1>1, FreeClearsChain
<1>3. \A b \in live' : BlocksOf(b) \subseteq Region /\ BlocksOf(b) \cap BlocksOf(a) = {}
  BY <1>1, LiveBlocks DEF Inv, NoOverlap
<1>4. \A b \in live' : \A i \in BlocksOf(b) : entries'[i] = entries[i]
  BY <1>2, <1>3
<1>5. TypeOK'
  <2>1. \A i \in Region : entries'[i] \in SUBSET Flags
    BY <1>2 DEF Inv, TypeOK, FREE
  <2>2. entries' = [i \in Region |-> entries'[i]]
    BY <1>1 DEF heap_mark_blocks_free
  <2>3. entries' \in [Region -> SUBSET Flags]
    BY <2>1, <2>2
  <2> QED BY <1>1, <2>3 DEF Inv, TypeOK
<1>6. \A b \in live' : b.blocks > 0
  BY <1>1 DEF Inv
<1>7. NoOverlap'
  BY <1>1 DEF Inv, NoOverlap, BlocksOf, StartOf
<1>8. TableExact'
  <2> SUFFICES ASSUME NEW i \in Table
               PROVE  ~IsFree(entries', i) <=> \E b \in live' : i \in BlocksOf(b)
    BY DEF TableExact, BlocksOf, StartOf
  <2>1. i \in Region
    BY DEF Table, Region
  <2>2. CASE i \in BlocksOf(a)
    <3>1. IsFree(entries', i)
      BY <1>2, <2>1, <2>2, FreeMeansNotTaken DEF FREE
    <3> QED BY <1>3, <2>2, <3>1
  <2>3. CASE i \notin BlocksOf(a)
    <3>1. IsFree(entries', i) <=> IsFree(entries, i)
      BY <1>2, <2>1, <2>3 DEF IsFree
    <3> QED BY <1>1, <2>3, <3>1 DEF Inv, TableExact
  <2> QED BY <2>2, <2>3
<1>9. ChainsExact'
  <2> SUFFICES ASSUME NEW b \in live', NEW i \in BlocksOf(b)
               PROVE  entries'[i] = chain_entry(StartOf(b), b.blocks, i)
    BY DEF ChainsExact, BlocksOf, StartOf
  <2> QED BY <1>1, <1>4 DEF Inv, ChainsExact
<1> QED BY <1>4, <1>5, <1>6, <1>7, <1>8, <1>9 DEF Inv

-----------------------------------------------------------------------------
(* The empty pool kheap_init leaves satisfies the invariant.               *)
LEMMA InitInv == Init => Inv
<1> SUFFICES ASSUME Init PROVE Inv
  OBVIOUS
<1>1. entries = [i \in Region |-> {}] /\ live = {}
  BY DEF Init, kheap_init, heap_create, FREE
<1>2. TypeOK
  BY <1>1 DEF TypeOK
<1>3. TableExact
  BY <1>1, FreeMeansNotTaken, SizesAreNatural DEF TableExact, Table, Region
<1> QED BY <1>1, <1>2, <1>3 DEF Inv, NoOverlap, ChainsExact

(* A step that changes nothing keeps the invariant.                        *)
LEMMA NextStutters ==
  ASSUME Inv, UNCHANGED vars
  PROVE  Inv'
BY DEF vars, Inv, TypeOK, NoOverlap, TableExact, ChainsExact, BlocksOf, StartOf

(* Every step keeps the invariant and leaves the entries of the            *)
(* allocations that stay in use alone.                                     *)
LEMMA NextInv ==
  ASSUME PositiveRequests, Inv, [Next]_vars
  PROVE  /\ Inv'
         /\ \A a \in live \cap live' : \A i \in BlocksOf(a) :
              entries'[i] = entries[i]
<1>1. CASE \E size \in Sizes : kmalloc(size)
  BY <1>1, KmallocKeepsInv
<1>2. CASE UNCHANGED vars
  BY <1>2, NextStutters DEF vars
<1>3. CASE \E size \in Sizes : kmalloc_fails(size)
  BY <1>2, <1>3 DEF kmalloc_fails
<1>4. CASE \E a \in live : kfree(a)
  BY <1>4, KfreeKeepsInv
<1> QED BY <1>1, <1>2, <1>3, <1>4 DEF Next

(* The inductive invariant holds in every state.                           *)
THEOREM HeapInvariant ==
  ASSUME PositiveRequests
  PROVE  Spec => []Inv
<1>1. Init => Inv
  BY InitInv
<1>2. Inv /\ [Next]_vars => Inv'
  BY NextInv
<1> QED BY <1>1, <1>2, PTL DEF Spec

(* The variables of the heap keep their types.                             *)
THEOREM HeapTypeOK ==
  ASSUME PositiveRequests
  PROVE  Spec => []TypeOK
<1>1. Inv => TypeOK
  BY DEF Inv
<1> QED BY <1>1, HeapInvariant, PTL

(* kmalloc never hands out a block that is in use, for every pool and      *)
(* every order of calls, even when an allocation overruns the pool.        *)
THEOREM HeapNoOverlap ==
  ASSUME PositiveRequests
  PROVE  Spec => []NoOverlap
<1>1. Inv => NoOverlap
  BY DEF Inv
<1> QED BY <1>1, HeapInvariant, PTL

(* The table marks a block taken exactly when it is in use: kfree neither  *)
(* leaks a block nor frees one too many.                                   *)
THEOREM HeapTableExact ==
  ASSUME PositiveRequests
  PROVE  Spec => []TableExact
<1>1. Inv => TableExact
  BY DEF Inv
<1> QED BY <1>1, HeapInvariant, PTL

(* The chain of flags kfree follows is intact under every allocation.      *)
THEOREM HeapChainsExact ==
  ASSUME PositiveRequests
  PROVE  Spec => []ChainsExact
<1>1. Inv => ChainsExact
  BY DEF Inv
<1> QED BY <1>1, HeapInvariant, PTL

(* No kmalloc or kfree writes the table entries of an allocation that      *)
(* stays in use.                                                           *)
THEOREM HeapOthersUntouched ==
  ASSUME PositiveRequests
  PROVE  Spec => OthersUntouched
<1> DEFINE Untouched == \A a \in live \cap live' : \A i \in BlocksOf(a) :
                           entries'[i] = entries[i]
<1>1. Inv /\ [Next]_vars => [Untouched]_vars
  BY NextInv
<1> QED BY <1>1, HeapInvariant, PTL DEF Spec, OthersUntouched

-----------------------------------------------------------------------------
(***************************************************************************)
(* The loops of the heap, and what HeapTable says they compute.            *)
(***************************************************************************)

(* A set that has 0 and with each number the next has all up to N.         *)
LEMMA AllUpTo ==
  ASSUME NEW N \in Nat, NEW G, 0 \in G,
         \A n \in 0 .. N : n # N /\ n \in G => n + 1 \in G
  PROVE  \A n \in 0 .. N : n \in G
<1> DEFINE B == {n \in 0 .. N : n \notin G}
<1>1. SUFFICES ASSUME B # {} PROVE FALSE
  OBVIOUS
<1>2. B \in SUBSET Nat
  OBVIOUS
<1> DEFINE m == Min(B)
<1>3. m \in B /\ \A y \in B : m <= y
  <2> HIDE DEF B
  <2> QED BY <1>1, <1>2, MinOfNaturals
<1> HIDE DEF m
<1>4. m \in 0 .. N /\ m \notin G /\ m # 0
  BY <1>3
<1>5. m - 1 \in 0 .. N /\ m - 1 # N /\ m - 1 < m /\ (m - 1) + 1 = m
  BY <1>4
<1>6. m - 1 \in G
  BY <1>3, <1>5
<1>7. (m - 1) + 1 \in G
  BY <1>5, <1>6
<1> QED BY <1>4, <1>5, <1>7

(* The variables of a loop after each of N rounds: they start as z, and    *)
(* round k, counted from 0, makes step[<<k, v>>] of v.                     *)
IsLoop(f, N, z, step) ==
  f = [k \in 0 .. N |-> IF k = 0 THEN z ELSE step[<<k - 1, f[k - 1]>>]]

(* A loop runs: there are such values, and they are typed.                 *)
LEMMA LoopRuns ==
  ASSUME NEW N \in Nat, NEW S, NEW z \in S, NEW step \in [(0 .. N) \X S -> S]
  PROVE  \E f \in [0 .. N -> S] : IsLoop(f, N, z, step)
<1> DEFINE First(f, n) == /\ f[0] = z
                          /\ \A k \in 1 .. n : f[k] = step[<<k - 1, f[k - 1]>>]
           Good(n) == \E f \in [0 .. n -> S] : First(f, n)
           All == {n \in 0 .. N : Good(n)}
<1>1. Good(0)
  <2> DEFINE f == [k \in 0 .. 0 |-> z]
  <2>1. f \in [0 .. 0 -> S] /\ f[0] = z
    OBVIOUS
  <2>2. 1 .. 0 = {}
    OBVIOUS
  <2>3. First(f, 0)
    BY <2>1, <2>2
  <2> QED BY <2>1, <2>3
<1>2. ASSUME NEW n \in 0 .. N, n # N, Good(n)
      PROVE  Good(n + 1)
  <2>1. PICK f \in [0 .. n -> S] : First(f, n)
    BY <1>2
  <2> DEFINE s == step[<<n, f[n]>>]
             g == [k \in 0 .. (n + 1) |-> IF k = n + 1 THEN s ELSE f[k]]
  <2>2. s \in S
    <3>1. f[n] \in S
      BY <1>2, <2>1
    <3> QED BY <3>1
  <2> HIDE DEF s
  <2>3. \A k \in 0 .. (n + 1) : k # n + 1 => k \in 0 .. n
    OBVIOUS
  <2>4. g \in [0 .. (n + 1) -> S]
    BY <2>1, <2>2, <2>3
  <2>5. \A k \in 0 .. n : g[k] = f[k]
    OBVIOUS
  <2>6. g[n + 1] = s
    OBVIOUS
  <2>7. n \in 0 .. n /\ 0 \in 0 .. n /\ \A k \in 1 .. n : k - 1 \in 0 .. n /\ k \in 0 .. n
    OBVIOUS
  <2> HIDE DEF g
  <2>8. g[0] = z
    BY <2>1, <2>5, <2>7
  <2>9. ASSUME NEW k \in 1 .. (n + 1) PROVE g[k] = step[<<k - 1, g[k - 1]>>]
    <3>1. CASE k = n + 1
      <4>1. k - 1 = n
        BY <3>1
      <4> QED BY <2>5, <2>6, <2>7, <3>1, <4>1 DEF s
    <3>2. CASE k # n + 1
      <4>1. k \in 1 .. n
        BY <3>2
      <4> QED BY <2>1, <2>5, <2>7, <4>1
    <3> QED BY <3>1, <3>2
  <2>10. First(g, n + 1)
    BY <2>8, <2>9
  <2> HIDE DEF First
  <2> QED BY <2>4, <2>10
<1>3. \A n \in 0 .. N : n \in All
  <2>1. 0 \in All
    BY <1>1
  <2>2. \A n \in 0 .. N : n # N /\ n \in All => n + 1 \in All
    <3> HIDE DEF Good
    <3>1. SUFFICES ASSUME NEW n \in 0 .. N, n # N, n \in All PROVE n + 1 \in All
      OBVIOUS
    <3>2. n + 1 \in 0 .. N
      BY <3>1
    <3> QED BY <1>2, <3>1, <3>2
  <2> HIDE DEF All
  <2> QED BY <2>1, <2>2, AllUpTo
<1>4. PICK f \in [0 .. N -> S] : First(f, N)
  <2> HIDE DEF Good
  <2>1. Good(N)
    BY <1>3
  <2> QED BY <2>1, Zenon DEF Good
<1>5. \A k \in 0 .. N : k = 0 \/ k \in 1 .. N
  OBVIOUS
<1>6. \A k \in 0 .. N : f[k] = IF k = 0 THEN z ELSE step[<<k - 1, f[k - 1]>>]
  BY <1>4, <1>5
<1>7. f = [k \in 0 .. N |-> f[k]]
  OBVIOUS
<1> HIDE DEF First, Good, All
<1>8. f = [k \in 0 .. N |-> IF k = 0 THEN z ELSE step[<<k - 1, f[k - 1]>>]]
  BY <1>6, <1>7
<1> QED BY <1>8 DEF IsLoop


-----------------------------------------------------------------------------
(* heap_get_start_block.                                                   *)

(* The values of bs, bc and of whether the loop was left.                  *)
Scans == [bs : -1 .. TOTAL, bc : Nat, found : BOOLEAN]

(* A scan is the loop over the entries of the table.                       *)
IsScan(f, e, n) ==
  f = [k \in 0 .. TOTAL |->
         IF k = 0 THEN NoRun ELSE scan_entry(e, n, f[k - 1], k - 1)]

(* Two runs of free blocks that reach the same block have the same start.  *)
LEMMA OneRunStart ==
  ASSUME NEW e, NEW s \in Nat, NEW t \in Nat, NEW i \in Nat,
         RunStart(e, s), RunStart(e, t), s <= i, t <= i,
         \A j \in s .. i : IsFree(e, j), \A j \in t .. i : IsFree(e, j)
  PROVE  s = t
<1>1. CASE s < t
  <2>1. t - 1 \in s .. i /\ t > 0
    BY <1>1
  <2> QED BY <2>1 DEF RunStart
<1>2. CASE t < s
  <2>1. s - 1 \in t .. i /\ s > 0
    BY <1>2
  <2> QED BY <2>1 DEF RunStart
<1> QED BY <1>1, <1>2

(* What is known after i entries.  A run that was found is the lowest that *)
(* fits.  While none is found, none ends in the entries seen, and bs and   *)
(* bc are the start and length of the free run that ends there.            *)
ScanInv(e, n, scan, i) ==
  /\ scan.bs \in -1 .. (i - 1)
  /\ scan.found =>
       /\ scan.bs \in FittingStarts(e, n)
       /\ \A t \in FittingStarts(e, n) : scan.bs <= t
  /\ ~scan.found => \A t \in FittingStarts(e, n) : t + n > i
  /\ ~scan.found /\ scan.bs = -1 =>
       /\ scan.bc = 0
       /\ i > 0 => ~IsFree(e, i - 1)
  /\ ~scan.found /\ scan.bs # -1 =>
       /\ RunStart(e, scan.bs)
       /\ \A j \in scan.bs .. (i - 1) : IsFree(e, j)
       /\ scan.bc = i - scan.bs

(* The loop starts so.                                                     *)
LEMMA ScanStarts ==
  ASSUME NEW e, NEW n \in Nat
  PROVE  NoRun \in Scans /\ ScanInv(e, n, NoRun, 0)
<1>1. NoRun.bs = -1 /\ NoRun.bc = 0 /\ NoRun.found = FALSE
  BY DEF NoRun
<1>2. NoRun \in Scans
  BY SizesAreNatural DEF NoRun, Scans
<1>3. \A t \in FittingStarts(e, n) : t + n > 0
  BY SizesAreNatural DEF FittingStarts, Table
<1> QED BY <1>1, <1>2, <1>3 DEF ScanInv

(* An entry keeps the variables typed.                                     *)
LEMMA ScanEntryTyped ==
  ASSUME NEW e, NEW n \in Nat, NEW i \in 0 .. TOTAL, NEW scan \in Scans
  PROVE  scan_entry(e, n, scan, i) \in Scans
<1> USE SizesAreNatural
<1>1. CASE scan.found
  BY <1>1 DEF scan_entry
<1>2. CASE ~scan.found /\ ~IsFree(e, i)
  BY <1>2, ScanStarts DEF scan_entry
<1>3. CASE ~scan.found /\ IsFree(e, i)
  <2> DEFINE bs == IF scan.bs = -1 THEN i ELSE scan.bs
  <2>1. scan_entry(e, n, scan, i)
          = [bs |-> bs, bc |-> scan.bc + 1, found |-> scan.bc + 1 = n]
    BY <1>3 DEF scan_entry
  <2>2. bs \in -1 .. TOTAL
    BY DEF Scans
  <2>3. scan.bc + 1 \in Nat
    BY DEF Scans
  <2>4. (scan.bc + 1 = n) \in BOOLEAN
    OBVIOUS
  <2> HIDE DEF bs
  <2> QED BY <2>1, <2>2, <2>3, <2>4 DEF Scans
<1> QED BY <1>1, <1>2, <1>3

(* An entry keeps what is known.                                           *)
LEMMA ScanEntryKeeps ==
  ASSUME NEW e, NEW n \in Nat, NEW i \in Table, NEW scan \in Scans,
         ScanInv(e, n, scan, i)
  PROVE  ScanInv(e, n, scan_entry(e, n, scan, i), i + 1)
<1> USE SizesAreNatural
<1>0. i \in Nat /\ i < TOTAL
  BY DEF Table
<1>1. CASE scan.found
  <2>1. scan_entry(e, n, scan, i) = scan
    BY <1>1 DEF scan_entry
  <2> QED BY <1>0, <1>1, <2>1 DEF ScanInv
<1>2. ASSUME NEW t \in FittingStarts(e, n), ~scan.found, t + n <= i + 1
      PROVE  /\ t \in Nat /\ n > 0 /\ t <= i /\ t + n = i + 1
             /\ RunStart(e, t) /\ \A j \in t .. i : IsFree(e, j)
  <2>1. t \in Nat /\ n > 0 /\ RunStart(e, t) /\ \A j \in t .. (t + n - 1) : IsFree(e, j)
    BY DEF FittingStarts, Table, RunOf
  <2>2. t + n > i
    BY <1>2 DEF ScanInv
  <2>3. t + n - 1 = i
    BY <1>0, <1>2, <2>1, <2>2
  <2> QED BY <1>0, <2>1, <2>3
<1>3. CASE ~scan.found /\ ~IsFree(e, i)
  <2>1. scan_entry(e, n, scan, i) = NoRun
    BY <1>3 DEF scan_entry
  <2>2. \A t \in FittingStarts(e, n) : t + n > i + 1
    <3> SUFFICES ASSUME NEW t \in FittingStarts(e, n), ~(t + n > i + 1) PROVE FALSE
      OBVIOUS
    <3>1. t \in Nat
      BY DEF FittingStarts, Table
    <3>2. t + n <= i + 1
      BY <1>0, <3>1
    <3>3. i \in t .. i
      BY <1>0, <1>2, <1>3, <3>2
    <3> QED BY <1>2, <1>3, <3>2, <3>3
  <2>3. NoRun.bs = -1 /\ NoRun.bc = 0 /\ NoRun.found = FALSE
    BY DEF NoRun
  <2>4. (i + 1) - 1 = i
    BY <1>0
  <2> QED BY <1>0, <1>3, <2>1, <2>2, <2>3, <2>4 DEF ScanInv
<1>4. CASE ~scan.found /\ IsFree(e, i)
  <2> DEFINE b == IF scan.bs = -1 THEN i ELSE scan.bs
             next == scan_entry(e, n, scan, i)
  <2>1. next = [bs |-> b, bc |-> scan.bc + 1, found |-> scan.bc + 1 = n]
    BY <1>4 DEF scan_entry
  <2>2. /\ b \in Nat /\ b <= i /\ RunStart(e, b)
        /\ \A j \in b .. i : IsFree(e, j)
        /\ scan.bc + 1 = (i + 1) - b
    <3>1. CASE scan.bs = -1
      <4>1. b = i /\ scan.bc = 0 /\ (i > 0 => ~IsFree(e, i - 1))
        BY <1>4, <3>1 DEF ScanInv
      <4>2. \A j \in i .. i : j = i
        BY <1>0
      <4> HIDE DEF b
      <4> QED BY <1>0, <1>4, <4>1, <4>2 DEF RunStart
    <3>2. CASE scan.bs # -1
      <4>1. /\ b = scan.bs /\ RunStart(e, b) /\ scan.bc = i - b
            /\ \A j \in b .. (i - 1) : IsFree(e, j)
        BY <1>4, <3>2 DEF ScanInv
      <4>2. b \in Nat /\ b <= i
        BY <1>0, <3>2 DEF ScanInv
      <4> HIDE DEF b
      <4>3. \A j \in b .. i : j = i \/ j \in b .. (i - 1)
        BY <1>0, <4>2
      <4> QED BY <1>0, <1>4, <4>1, <4>2, <4>3
    <3> QED BY <3>1, <3>2
  <2> HIDE DEF b, next
  <2>3. next.bs = b /\ next.bc = (i + 1) - b /\ (next.found <=> b + n = i + 1)
    <3>1. next.found <=> scan.bc + 1 = n
      BY <2>1
    <3>2. scan.bc + 1 = n <=> b + n = i + 1
      BY <1>0, <2>2
    <3> QED BY <2>1, <2>2, <3>1, <3>2
  <2>4. \A t \in FittingStarts(e, n) : t + n <= i + 1 => t = b
    <3> TAKE t \in FittingStarts(e, n)
    <3> HAVE t + n <= i + 1
    <3> QED BY <1>0, <1>2, <1>4, <2>2, OneRunStart
  <2>5. CASE next.found
    <3>1. b + n = i + 1 /\ n > 0
      BY <1>0, <2>2, <2>3, <2>5
    <3>2. b \in FittingStarts(e, n)
      <4>1. b + n - 1 = i /\ b \in Table /\ b + n <= TOTAL
        BY <1>0, <2>2, <3>1 DEF Table
      <4> QED BY <2>2, <3>1, <4>1 DEF FittingStarts, RunOf
    <3>3. \A t \in FittingStarts(e, n) : b <= t
      <4> TAKE t \in FittingStarts(e, n)
      <4>1. t \in Nat /\ t + n > i
        BY <1>4 DEF FittingStarts, Table, ScanInv
      <4> QED BY <1>0, <2>2, <3>1, <4>1
    <3> QED BY <1>0, <2>2, <2>3, <2>5, <3>2, <3>3 DEF ScanInv, next
  <2>6. CASE ~next.found
    <3>1. b + n # i + 1
      BY <1>0, <2>2, <2>3, <2>6
    <3>2. \A t \in FittingStarts(e, n) : t + n > i + 1
      <4> TAKE t \in FittingStarts(e, n)
      <4>1. t \in Nat /\ t + n > i
        BY <1>4 DEF FittingStarts, Table, ScanInv
      <4>2. t + n # i + 1
        BY <1>0, <2>4, <3>1, <4>1
      <4> QED BY <1>0, <4>1, <4>2
    <3>3. b # -1 /\ (i + 1) - 1 = i
      BY <1>0, <2>2
    <3> QED BY <1>0, <2>2, <2>3, <2>6, <3>2, <3>3 DEF ScanInv, next
  <2> QED BY <2>5, <2>6
<1> QED BY <1>1, <1>3, <1>4

(* The scan runs, and what is known at its end.                            *)
LEMMA ScanEnds ==
  ASSUME NEW e, NEW n \in Nat
  PROVE  scan_table(e, n) \in Scans /\ ScanInv(e, n, scan_table(e, n), TOTAL)
<1> USE SizesAreNatural
<1> DEFINE F == CHOOSE f : IsScan(f, e, n)
<1>1. \E f : IsScan(f, e, n)
  <2> DEFINE step == [p \in (0 .. TOTAL) \X Scans |-> scan_entry(e, n, p[2], p[1])]
  <2>1. step \in [(0 .. TOTAL) \X Scans -> Scans]
    BY ScanEntryTyped
  <2>2. \A k \in 0 .. TOTAL, v \in Scans : step[<<k, v>>] = scan_entry(e, n, v, k)
    OBVIOUS
  <2> HIDE DEF step
  <2>3. PICK f \in [0 .. TOTAL -> Scans] : IsLoop(f, TOTAL, NoRun, step)
    BY <2>1, LoopRuns, ScanStarts
  <2>4. \A k \in 0 .. TOTAL :
           f[k] = IF k = 0 THEN NoRun ELSE scan_entry(e, n, f[k - 1], k - 1)
    <3> TAKE k \in 0 .. TOTAL
    <3>1. CASE k = 0
      BY <2>3, <3>1 DEF IsLoop
    <3>2. CASE k # 0
      <4>1. k - 1 \in 0 .. TOTAL
        BY <3>2
      <4>2. f[k] = step[<<k - 1, f[k - 1]>>]
        BY <2>3, <3>2 DEF IsLoop
      <4>3. f[k - 1] \in Scans
        BY <2>3, <4>1
      <4> QED BY <2>2, <3>2, <4>1, <4>2, <4>3
    <3> QED BY <3>1, <3>2
  <2>5. f = [k \in 0 .. TOTAL |-> f[k]]
    BY <2>3
  <2>6. IsScan(f, e, n)
    BY <2>4, <2>5 DEF IsScan
  <2> QED BY <2>6
<1>2. IsScan(F, e, n)
  BY <1>1, Zenon
<1>3. scan_table(e, n) = F[TOTAL]
  BY Zenon DEF scan_table, IsScan
<1> HIDE DEF F
<1>4. \A k \in 0 .. TOTAL :
         F[k] = IF k = 0 THEN NoRun ELSE scan_entry(e, n, F[k - 1], k - 1)
  BY <1>2, Zenon DEF IsScan
<1> DEFINE G == {k \in 0 .. TOTAL : F[k] \in Scans /\ ScanInv(e, n, F[k], k)}
<1>5. 0 \in G
  <2>1. F[0] = NoRun
    BY <1>4
  <2> QED BY <2>1, ScanStarts
<1>6. ASSUME NEW k \in 0 .. TOTAL, k # TOTAL, k \in G PROVE k + 1 \in G
  <2>1. k + 1 \in 0 .. TOTAL /\ k + 1 # 0 /\ (k + 1) - 1 = k /\ k \in Table
    BY <1>6 DEF Table
  <2>2. F[k + 1] = scan_entry(e, n, F[k], k)
    BY <1>4, <2>1
  <2>3. F[k] \in Scans /\ ScanInv(e, n, F[k], k)
    BY <1>6
  <2> QED BY <1>6, <2>1, <2>2, <2>3, ScanEntryTyped, ScanEntryKeeps
<1>7. \A k \in 0 .. TOTAL : k \in G
  <2> HIDE DEF G
  <2> QED BY <1>5, <1>6, AllUpTo
<1> QED BY <1>3, <1>7

(* Min of a set whose least element is known.                              *)
LEMMA MinIs ==
  ASSUME NEW S \in SUBSET Nat, NEW m \in S, \A x \in S : m <= x
  PROVE  Min(S) = m
<1>1. Min(S) \in S /\ Min(S) <= m
  BY MinOfNaturals
<1>2. m <= Min(S) /\ Min(S) \in Nat
  BY <1>1
<1> DEFINE min == Min(S)
<1> HIDE DEF min
<1>3. min <= m /\ m <= min /\ min \in Nat
  BY <1>1, <1>2 DEF min
<1>4. min = m
  BY <1>3
<1> QED BY <1>4 DEF min

(* The code's scan finds what HeapTable says, on any table.                *)
LEMMA ScanIsStartBlock ==
  ASSUME NEW e, NEW n \in Nat
  PROVE  scan_result(e, n) = heap_get_start_block(e, n)
<1> USE SizesAreNatural
<1> DEFINE v == scan_table(e, n)
<1>1. v \in Scans /\ ScanInv(e, n, v, TOTAL)
  BY ScanEnds
<1>2. scan_result(e, n) = IF v.bs = -1 THEN -ENOMEM ELSE v.bs
  BY DEF scan_result
<1> HIDE DEF v
<1>3. FittingStarts(e, n) \in SUBSET Nat /\ TrailingStarts(e) \in SUBSET Nat
  BY DEF FittingStarts, TrailingStarts, Table
<1>4. CASE v.found
  <2>1. v.bs \in FittingStarts(e, n) /\ \A t \in FittingStarts(e, n) : v.bs <= t
    BY <1>1, <1>4 DEF ScanInv
  <2>2. Min(FittingStarts(e, n)) = v.bs
    BY <1>3, <2>1, MinIs
  <2>3. v.bs # -1
    BY <1>3, <2>1
  <2> QED BY <1>2, <2>1, <2>2, <2>3 DEF heap_get_start_block
<1>5. CASE ~v.found
  <2>1. FittingStarts(e, n) = {}
    <3> SUFFICES ASSUME NEW t \in FittingStarts(e, n) PROVE FALSE
      OBVIOUS
    <3>1. t \in Nat /\ t + n > TOTAL
      BY <1>1, <1>3, <1>5 DEF ScanInv
    <3>2. t + n <= TOTAL
      BY DEF FittingStarts, RunOf
    <3> QED BY <3>1, <3>2
  <2>2. \A t \in TrailingStarts(e) :
           /\ t \in Nat /\ t <= TOTAL - 1 /\ RunStart(e, t)
           /\ \A j \in t .. (TOTAL - 1) : IsFree(e, j)
    BY DEF TrailingStarts, Table
  <2>3. CASE v.bs = -1
    <3>1. TOTAL > 0 => ~IsFree(e, TOTAL - 1)
      BY <1>1, <1>5, <2>3 DEF ScanInv
    <3>2. TrailingStarts(e) = {}
      <4> SUFFICES ASSUME NEW t \in TrailingStarts(e) PROVE FALSE
        OBVIOUS
      <4>1. TOTAL > 0 /\ TOTAL - 1 \in t .. (TOTAL - 1)
        BY <2>2
      <4> QED BY <2>2, <3>1, <4>1
    <3> QED BY <1>2, <2>1, <2>3, <3>2 DEF heap_get_start_block
  <2>4. CASE v.bs # -1
    <3>1. /\ v.bs \in Nat /\ v.bs <= TOTAL - 1 /\ RunStart(e, v.bs)
          /\ \A j \in v.bs .. (TOTAL - 1) : IsFree(e, j)
      BY <1>1, <1>5, <2>4 DEF ScanInv
    <3>2. v.bs \in TrailingStarts(e)
      BY <3>1 DEF TrailingStarts, Table
    <3>3. \A t \in TrailingStarts(e) : t = v.bs
      <4> TAKE t \in TrailingStarts(e)
      <4>1. TOTAL - 1 \in Nat
        BY <3>1
      <4> QED BY <2>2, <3>1, <4>1, OneRunStart
    <3>4. Min(TrailingStarts(e)) = v.bs
      <4>1. \A t \in TrailingStarts(e) : v.bs <= t
        BY <3>1, <3>3
      <4> QED BY <1>3, <3>2, <4>1, MinIs
    <3> QED BY <1>2, <2>1, <2>4, <3>2, <3>4 DEF heap_get_start_block
  <2> QED BY <2>3, <2>4
<1> QED BY <1>4, <1>5

-----------------------------------------------------------------------------
(* heap_mark_blocks_taken.                                                 *)

Entries == [Region -> SUBSET Flags]
Marks == [entries : Entries, entry : SUBSET Flags]

IsMarking(f, e, s, n) ==
  f = [k \in 0 .. n |->
         IF k = 0 THEN [entries |-> e, entry |-> first_entry(n)]
         ELSE mark_entry(f[k - 1], s + (k - 1), (s + n) - 1)]

(* What is known after k blocks: the first k are marked, and the entry at  *)
(* hand is the one for the next.                                           *)
MarkInv(e, s, n, mark, k) ==
  /\ mark.entries = [i \in Region |-> IF i \in s .. (s + k - 1)
                                      THEN chain_entry(s, n, i) ELSE e[i]]
  /\ k < n => mark.entry = chain_entry(s, n, s + k)

(* The loop starts so.                                                     *)
LEMMA MarkStarts ==
  ASSUME NEW e \in Entries, NEW s \in Table, NEW n \in Nat, n > 0
  PROVE  /\ [entries |-> e, entry |-> first_entry(n)] \in Marks
         /\ MarkInv(e, s, n, [entries |-> e, entry |-> first_entry(n)], 0)
<1>1. s \in Nat
  BY SizesAreNatural DEF Table
<1>2. first_entry(n) \in SUBSET Flags
  BY DEF first_entry, Flags
<1>3. \A i \in Region : i \notin s .. (s + 0 - 1)
  BY <1>1, SizesAreNatural DEF Region
<1>4. e = [i \in Region |-> e[i]]
  BY DEF Entries
<1>5. first_entry(n) = chain_entry(s, n, s + 0)
  <2>1. s + 0 = s
    BY <1>1
  <2>2. n > 1 <=> s < s + n - 1
    BY <1>1
  <2> QED BY <2>1, <2>2 DEF first_entry, chain_entry
<1>6. e = [i \in Region |-> IF i \in s .. (s + 0 - 1) THEN chain_entry(s, n, i) ELSE e[i]]
  BY <1>3, <1>4
<1> QED BY <1>2, <1>5, <1>6 DEF Marks, MarkInv

(* A block keeps the variables typed.                                      *)
LEMMA MarkEntryTyped ==
  ASSUME NEW mark \in Marks, NEW i, NEW last
  PROVE  mark_entry(mark, i, last) \in Marks
<1>1. [mark.entries EXCEPT ![i] = mark.entry] \in Entries
  BY DEF Marks, Entries
<1>2. {"TAKEN"} \cup (IF i # last - 1 THEN {"HAS_NEXT"} ELSE {}) \in SUBSET Flags
  BY DEF Flags
<1> QED BY <1>1, <1>2 DEF mark_entry, Marks

(* A block keeps what is known.                                            *)
LEMMA MarkEntryKeeps ==
  ASSUME NEW e \in Entries, NEW s \in Table, NEW n \in 1 .. MaxBlocks,
         NEW k \in 0 .. (n - 1), NEW mark \in Marks, MarkInv(e, s, n, mark, k)
  PROVE  MarkInv(e, s, n, mark_entry(mark, s + k, (s + n) - 1), k + 1)
<1> USE SizesAreNatural
<1> DEFINE next == mark_entry(mark, s + k, (s + n) - 1)
<1>1. s \in Nat /\ s < TOTAL /\ s + k \in Region /\ k < n /\ k \in Nat /\ n \in Nat
  BY DEF Table, Region
<1>2. /\ next.entries = [mark.entries EXCEPT ![s + k] = mark.entry]
      /\ next.entry = {"TAKEN"} \cup (IF s + k # (s + n) - 1 - 1 THEN {"HAS_NEXT"} ELSE {})
  BY DEF mark_entry
<1>3. /\ mark.entry = chain_entry(s, n, s + k)
      /\ mark.entries = [i \in Region |-> IF i \in s .. (s + k - 1)
                                          THEN chain_entry(s, n, i) ELSE e[i]]
  BY <1>1 DEF MarkInv
<1> HIDE DEF next
<1>4. next.entries = [i \in Region |-> IF i \in s .. (s + (k + 1) - 1)
                                       THEN chain_entry(s, n, i) ELSE e[i]]
  <2>1. DOMAIN mark.entries = Region
    BY <1>3
  <2>2. next.entries = [i \in Region |-> IF i = s + k THEN mark.entry ELSE mark.entries[i]]
    BY <1>2, <2>1
  <2>3. \A i \in Region : i \in s .. (s + (k + 1) - 1) <=> i = s + k \/ i \in s .. (s + k - 1)
    BY <1>1 DEF Region
  <2>4. \A i \in Region : (IF i = s + k THEN mark.entry ELSE mark.entries[i])
                             = IF i \in s .. (s + (k + 1) - 1)
                               THEN chain_entry(s, n, i) ELSE e[i]
    <3> TAKE i \in Region
    <3>1. mark.entries[i] = IF i \in s .. (s + k - 1) THEN chain_entry(s, n, i) ELSE e[i]
      BY <1>3
    <3> QED BY <1>3, <2>3, <3>1
  <2> QED BY <2>2, <2>4
<1>5. ASSUME k + 1 < n PROVE next.entry = chain_entry(s, n, s + (k + 1))
  <2>1. s + (k + 1) # s
    BY <1>1
  <2>2. s + k # (s + n) - 1 - 1 <=> s + (k + 1) < s + n - 1
    BY <1>1, <1>5
  <2> QED BY <1>2, <2>1, <2>2 DEF chain_entry
<1> QED BY <1>4, <1>5 DEF MarkInv, next

(* The code's loop marks what HeapTable says, also past the table's end.   *)
LEMMA MarkIsMarkTaken ==
  ASSUME NEW e \in Entries, NEW s \in Table, NEW n \in 1 .. MaxBlocks
  PROVE  mark_run(e, s, n) = heap_mark_blocks_taken(e, s, n)
<1> USE SizesAreNatural
<1> DEFINE F == CHOOSE f : IsMarking(f, e, s, n)
           z == [entries |-> e, entry |-> first_entry(n)]
           last == (s + n) - 1
<1>0. n \in Nat /\ n > 0 /\ s \in Nat
  BY DEF Table
<1>z. z \in Marks /\ MarkInv(e, s, n, z, 0)
  BY <1>0, MarkStarts
<1> HIDE DEF z
<1>1. \E f : IsMarking(f, e, s, n)
  <2> DEFINE step == [p \in (0 .. n) \X Marks |-> mark_entry(p[2], s + p[1], last)]
  <2>1. step \in [(0 .. n) \X Marks -> Marks]
    BY MarkEntryTyped
  <2>2. \A k \in 0 .. n, v \in Marks : step[<<k, v>>] = mark_entry(v, s + k, last)
    OBVIOUS
  <2> HIDE DEF step
  <2>3. PICK f \in [0 .. n -> Marks] : IsLoop(f, n, z, step)
    BY <1>0, <1>z, <2>1, LoopRuns
  <2>4. \A k \in 0 .. n :
           f[k] = IF k = 0 THEN z ELSE mark_entry(f[k - 1], s + (k - 1), last)
    <3> TAKE k \in 0 .. n
    <3>1. CASE k = 0
      BY <2>3, <3>1 DEF IsLoop
    <3>2. CASE k # 0
      <4>1. k - 1 \in 0 .. n
        BY <3>2
      <4>2. f[k] = step[<<k - 1, f[k - 1]>>]
        BY <2>3, <3>2 DEF IsLoop
      <4>3. f[k - 1] \in Marks
        BY <2>3, <4>1
      <4> QED BY <2>2, <3>2, <4>1, <4>2, <4>3
    <3> QED BY <3>1, <3>2
  <2>5. f = [k \in 0 .. n |-> f[k]]
    BY <2>3
  <2>6. IsMarking(f, e, s, n)
    BY <2>4, <2>5 DEF IsMarking, z
  <2> QED BY <2>6
<1>2. IsMarking(F, e, s, n)
  BY <1>1, Zenon
<1>3. mark_run(e, s, n) = F[n].entries
  BY Zenon DEF mark_run, IsMarking
<1> HIDE DEF F
<1>4. \A k \in 0 .. n : F[k] = IF k = 0 THEN z ELSE mark_entry(F[k - 1], s + (k - 1), last)
  BY <1>2, Zenon DEF IsMarking, z
<1> HIDE DEF last
<1> DEFINE G == {k \in 0 .. n : F[k] \in Marks /\ MarkInv(e, s, n, F[k], k)}
<1>5. 0 \in G
  <2>1. 0 \in 0 .. n /\ F[0] = z
    BY <1>0, <1>4
  <2> QED BY <1>z, <2>1
<1>6. ASSUME NEW k \in 0 .. n, k # n, k \in G PROVE k + 1 \in G
  <2>1. k + 1 \in 0 .. n /\ k + 1 # 0 /\ (k + 1) - 1 = k /\ k \in 0 .. (n - 1)
    BY <1>0, <1>6
  <2>2. F[k + 1] = mark_entry(F[k], s + k, last)
    BY <1>4, <2>1
  <2>3. F[k] \in Marks /\ MarkInv(e, s, n, F[k], k)
    BY <1>6
  <2>4. MarkInv(e, s, n, F[k + 1], k + 1)
    BY <2>1, <2>2, <2>3, MarkEntryKeeps DEF last
  <2> QED BY <2>1, <2>2, <2>3, <2>4, MarkEntryTyped
<1>7. n \in G
  <2> HIDE DEF G
  <2>1. \A k \in 0 .. n : k \in G
    BY <1>0, <1>5, <1>6, AllUpTo
  <2> QED BY <1>0, <2>1
<1> QED BY <1>3, <1>7 DEF MarkInv, heap_mark_blocks_taken

-----------------------------------------------------------------------------
(* heap_mark_blocks_free.                                                  *)

Walks == [entries : Entries, done : BOOLEAN]

IsWalk(f, e, s) ==
  f = [k \in 0 .. (TOTAL - s) |->
         IF k = 0 THEN [entries |-> e, done |-> FALSE]
         ELSE free_entry(f[k - 1], s + (k - 1))]

(* What is known after k entries: those of them that the chain reaches are *)
(* free, and the walk has stopped when it read one that ends the chain.    *)
WalkInv(e, s, walk, k) ==
  /\ walk.entries =
       [i \in Region |-> IF /\ i \in s .. (s + k - 1)
                            /\ \A j \in s .. (i - 1) : "HAS_NEXT" \in e[j]
                         THEN FREE ELSE e[i]]
  /\ walk.done <=> \E j \in s .. (s + k - 1) : "HAS_NEXT" \notin e[j]

(* The loop starts so.                                                     *)
LEMMA WalkStarts ==
  ASSUME NEW e \in Entries, NEW s \in Table
  PROVE  /\ [entries |-> e, done |-> FALSE] \in Walks
         /\ WalkInv(e, s, [entries |-> e, done |-> FALSE], 0)
<1>1. s \in Nat
  BY SizesAreNatural DEF Table
<1>2. s .. (s + 0 - 1) = {}
  BY <1>1
<1>3. e = [i \in Region |-> e[i]]
  BY DEF Entries
<1>4. e = [i \in Region |-> IF /\ i \in s .. (s + 0 - 1)
                               /\ \A j \in s .. (i - 1) : "HAS_NEXT" \in e[j]
                            THEN FREE ELSE e[i]]
  BY <1>2, <1>3
<1> QED BY <1>2, <1>4 DEF Walks, WalkInv

(* An entry keeps the variables typed.                                     *)
LEMMA FreeEntryTyped ==
  ASSUME NEW walk \in Walks, NEW i
  PROVE  free_entry(walk, i) \in Walks
<1>1. CASE walk.done
  BY <1>1 DEF free_entry
<1>2. CASE ~walk.done
  <2>1. [walk.entries EXCEPT ![i] = FREE] \in Entries
    BY DEF Walks, Entries, FREE
  <2>2. ("HAS_NEXT" \notin walk.entries[i]) \in BOOLEAN
    OBVIOUS
  <2> QED BY <1>2, <2>1, <2>2 DEF free_entry, Walks
<1> QED BY <1>1, <1>2

(* An entry keeps what is known.                                           *)
LEMMA FreeEntryKeeps ==
  ASSUME NEW e \in Entries, NEW s \in Table, NEW k \in 0 .. (TOTAL - s - 1),
         NEW walk \in Walks, WalkInv(e, s, walk, k)
  PROVE  WalkInv(e, s, free_entry(walk, s + k), k + 1)
<1> USE SizesAreNatural
<1> DEFINE next == free_entry(walk, s + k)
           Reached(i) == \A j \in s .. (i - 1) : "HAS_NEXT" \in e[j]
<1>1. s \in Nat /\ k \in Nat /\ s + k \in Region /\ s + (k + 1) - 1 = s + k
  BY DEF Table, Region
<1>2. /\ walk.entries = [i \in Region |-> IF i \in s .. (s + k - 1) /\ Reached(i)
                                          THEN FREE ELSE e[i]]
      /\ walk.done <=> ~Reached(s + k)
  <2>1. (s + k) - 1 = s + k - 1
    BY <1>1
  <2>2. walk.done <=> \E j \in s .. (s + k - 1) : "HAS_NEXT" \notin e[j]
    BY Zenon DEF WalkInv
  <2>3. walk.done <=> ~Reached(s + k)
    BY <2>1, <2>2, Zenon
  <2> QED BY <2>3, Zenon DEF WalkInv
<1>3. \A j \in Int : j \in s .. (s + k) <=> j = s + k \/ j \in s .. (s + k - 1)
  BY <1>1
<1>4. next.entries = [i \in Region |-> IF i \in s .. (s + k) /\ Reached(i)
                                       THEN FREE ELSE e[i]]
  <2>1. \A i \in Region : i \in Int
    BY DEF Region
  <2>2. CASE walk.done
    <3>1. next = walk
      BY <2>2 DEF free_entry
    <3>2. \A i \in Region : i \in s .. (s + k) /\ Reached(i)
                               <=> i \in s .. (s + k - 1) /\ Reached(i)
      BY <1>2, <1>3, <2>1, <2>2
    <3> HIDE DEF Reached, next
    <3> QED BY <1>2, <3>1, <3>2
  <2>3. CASE ~walk.done
    <3>1. next.entries = [walk.entries EXCEPT ![s + k] = FREE]
      BY <2>3 DEF free_entry
    <3>2. DOMAIN walk.entries = Region
      BY <1>2
    <3> HIDE DEF Reached, next
    <3>3. next.entries = [i \in Region |-> IF i = s + k THEN FREE ELSE walk.entries[i]]
      BY <3>1, <3>2
    <3>4. \A i \in Region : (IF i = s + k THEN FREE ELSE walk.entries[i])
                               = IF i \in s .. (s + k) /\ Reached(i) THEN FREE ELSE e[i]
      <4> TAKE i \in Region
      <4>1. walk.entries[i] = IF i \in s .. (s + k - 1) /\ Reached(i) THEN FREE ELSE e[i]
        BY <1>2
      <4>2. i = s + k => Reached(i)
        BY <1>2, <2>3
      <4> QED BY <1>3, <2>1, <4>1, <4>2
    <3> QED BY <3>3, <3>4
  <2> QED BY <2>2, <2>3
<1>5. next.done <=> \E j \in s .. (s + k) : "HAS_NEXT" \notin e[j]
  <2>1. CASE walk.done
    <3>1. next = walk
      BY <2>1 DEF free_entry
    <3> QED BY <1>1, <1>2, <1>3, <2>1, <3>1
  <2>2. CASE ~walk.done
    <3>1. next.done <=> "HAS_NEXT" \notin walk.entries[s + k]
      BY <2>2 DEF free_entry
    <3>2. walk.entries[s + k] = e[s + k]
      <4>1. s + k \notin s .. (s + k - 1)
        BY <1>1
      <4> QED BY <1>1, <1>2, <4>1
    <3>3. Reached(s + k)
      BY <1>2, <2>2
    <3>4. s + k \in s .. (s + k) /\ \A j \in s .. (s + k) : j \in Int
      BY <1>1
    <3> HIDE DEF next
    <3>5. CASE "HAS_NEXT" \notin e[s + k]
      BY <3>1, <3>2, <3>4, <3>5
    <3>6. CASE "HAS_NEXT" \in e[s + k]
      BY <1>3, <3>1, <3>2, <3>3, <3>4, <3>6
    <3> QED BY <3>5, <3>6
  <2> QED BY <2>1, <2>2
<1> HIDE DEF next
<1> QED BY <1>1, <1>4, <1>5 DEF WalkInv, next

(* The code's walk frees what HeapTable says.                              *)
LEMMA WalkIsMarkFree ==
  ASSUME NEW e \in Entries, NEW s \in Table
  PROVE  walk_chain(e, s) = heap_mark_blocks_free(e, s)
<1> USE SizesAreNatural
<1> DEFINE F == CHOOSE f : IsWalk(f, e, s)
           z == [entries |-> e, done |-> FALSE]
           n == TOTAL - s
<1>0. n \in Nat /\ n > 0 /\ s \in Nat /\ s + n - 1 = TOTAL - 1
  BY DEF Table
<1>z. z \in Walks /\ WalkInv(e, s, z, 0)
  BY WalkStarts
<1> HIDE DEF z
<1>1. \E f : IsWalk(f, e, s)
  <2> DEFINE step == [p \in (0 .. n) \X Walks |-> free_entry(p[2], s + p[1])]
  <2>1. step \in [(0 .. n) \X Walks -> Walks]
    BY FreeEntryTyped
  <2>2. \A k \in 0 .. n, v \in Walks : step[<<k, v>>] = free_entry(v, s + k)
    OBVIOUS
  <2> HIDE DEF step, n
  <2>3. PICK f \in [0 .. n -> Walks] : IsLoop(f, n, z, step)
    BY <1>0, <1>z, <2>1, LoopRuns
  <2>4. \A k \in 0 .. n : f[k] = IF k = 0 THEN z ELSE free_entry(f[k - 1], s + (k - 1))
    <3> TAKE k \in 0 .. n
    <3>1. CASE k = 0
      BY <2>3, <3>1 DEF IsLoop
    <3>2. CASE k # 0
      <4>1. k - 1 \in 0 .. n
        BY <1>0, <3>2
      <4>2. f[k] = step[<<k - 1, f[k - 1]>>]
        BY <2>3, <3>2 DEF IsLoop
      <4>3. f[k - 1] \in Walks
        BY <2>3, <4>1
      <4> QED BY <2>2, <3>2, <4>1, <4>2, <4>3
    <3> QED BY <3>1, <3>2
  <2>5. f = [k \in 0 .. n |-> f[k]]
    BY <2>3
  <2>6. IsWalk(f, e, s)
    BY <2>4, <2>5 DEF IsWalk, z, n
  <2> QED BY <2>6
<1>2. IsWalk(F, e, s)
  BY <1>1, Zenon
<1>3. walk_chain(e, s) = F[n].entries
  BY Zenon DEF walk_chain, IsWalk
<1> HIDE DEF F
<1>4. \A k \in 0 .. n : F[k] = IF k = 0 THEN z ELSE free_entry(F[k - 1], s + (k - 1))
  BY <1>2, Zenon DEF IsWalk, z
<1> DEFINE G == {k \in 0 .. n : F[k] \in Walks /\ WalkInv(e, s, F[k], k)}
<1>5. 0 \in G
  <2> HIDE DEF n
  <2>1. 0 \in 0 .. n /\ F[0] = z
    BY <1>0, <1>4
  <2> QED BY <1>z, <2>1
<1>6. ASSUME NEW k \in 0 .. n, k # n, k \in G PROVE k + 1 \in G
  <2>1. k + 1 \in 0 .. n /\ k + 1 # 0 /\ (k + 1) - 1 = k /\ k \in 0 .. (TOTAL - s - 1)
    BY <1>0, <1>6
  <2> HIDE DEF n
  <2>2. F[k + 1] = free_entry(F[k], s + k)
    BY <1>4, <2>1
  <2>3. F[k] \in Walks /\ WalkInv(e, s, F[k], k)
    BY <1>6
  <2>4. WalkInv(e, s, F[k + 1], k + 1)
    BY <2>1, <2>2, <2>3, FreeEntryKeeps
  <2> QED BY <2>1, <2>2, <2>3, <2>4, FreeEntryTyped
<1> HIDE DEF n
<1>7. n \in G
  <2> HIDE DEF G
  <2>1. \A k \in 0 .. n : k \in G
    BY <1>0, <1>5, <1>6, AllUpTo
  <2> QED BY <1>0, <2>1
<1> QED BY <1>0, <1>3, <1>7 DEF WalkInv, heap_mark_blocks_free

-----------------------------------------------------------------------------
(* Whatever the calls of kmalloc and kfree left in the table, the code's   *)
(* scan for a start block (heap.c:68) finds the lowest run that fits, else *)
(* the run at the end of the table, else nothing.                          *)
LEMMA HeapScanFindsRun == Spec => []ScanFindsRun
<1>1. ScanFindsRun
  BY ScanIsStartBlock, SizesAreNatural DEF ScanFindsRun
<1>2. [](ScanFindsRun)
  BY <1>1, PTL
<1> QED BY <1>2, PTL

(* The table holds flags, also when a caller asks for 0 blocks.            *)
LEMMA EntriesTyped == Spec => [](entries \in Entries)
<1>1. Init => entries \in Entries
  BY DEF Init, kheap_init, heap_create, Entries, FREE
<1>2. entries \in Entries /\ [Next]_vars => (entries \in Entries)'
  <2> SUFFICES ASSUME entries \in Entries, [Next]_vars PROVE entries' \in Entries
    OBVIOUS
  <2>1. ASSUME NEW size \in Sizes, kmalloc(size) PROVE entries' \in Entries
    <3>1. \A s, n, i : chain_entry(s, n, i) \in SUBSET Flags
      BY DEF chain_entry, Flags
    <3> QED BY <2>1, <3>1 DEF kmalloc, heap_mark_blocks_taken, Entries
  <2>2. ASSUME NEW size \in Sizes, kmalloc_fails(size) PROVE entries' \in Entries
    BY <2>2 DEF kmalloc_fails, vars
  <2>3. ASSUME NEW a \in live, kfree(a) PROVE entries' \in Entries
    BY <2>3 DEF kfree, heap_mark_blocks_free, Entries, FREE
  <2>4. CASE UNCHANGED vars
    BY <2>4 DEF vars
  <2> QED BY <2>1, <2>2, <2>3, <2>4 DEF Next
<1> QED BY <1>1, <1>2, PTL DEF Spec

(* On every table of flags, marking a run block by block (heap.c:108)      *)
(* gives each block the flags of its place in the run.                     *)
LEMMA HeapMarksRun == Spec => []MarksRun
<1>1. entries \in Entries => MarksRun
  BY MarkIsMarkTaken DEF MarksRun
<1> QED BY <1>1, EntriesTyped, PTL

(* On every table of flags, the walk of kfree (heap.c:140) frees exactly   *)
(* the rest of the chain from its starting block on.                       *)
LEMMA HeapWalkFreesChain == Spec => []WalkFreesChain
<1>1. entries \in Entries => WalkFreesChain
  BY WalkIsMarkFree DEF WalkFreesChain
<1> QED BY <1>1, EntriesTyped, PTL

(* The operators of HeapTable, on which all other modules that allocate    *)
(* rest, are what the loops of heap.c compute (heap.c:68, 108 and 140).    *)
THEOREM HeapLoopsExact == Spec => []LoopsExact
<1>1. ScanFindsRun /\ MarksRun /\ WalkFreesChain => LoopsExact
  BY DEF LoopsExact
<1> QED BY <1>1, HeapScanFindsRun, HeapMarksRun, HeapWalkFreesChain, PTL

-----------------------------------------------------------------------------
(***************************************************************************)
(* The memory of programs and kernel, on the heap.                         *)
(***************************************************************************)

(* What a process or the kernel holds is in use on the heap, and has one   *)
(* holder.                                                                 *)
HoldingsLive ==
  /\ \A o \in Owners : HeldBy(o) \subseteq live
  /\ \A o, q \in Owners : o # q => HeldBy(o) \cap HeldBy(q) = {}

(* The inductive invariant: that of the heap, and the way from a pointer   *)
(* in a slot to an allocation in use.  A free of a pointer in a slot is    *)
(* then a free of the allocation of that process, and of no other.         *)
MemoryInv ==
  /\ Inv
  /\ MemoryTypeOK
  /\ HoldingsLive
  /\ SlotsMatchHoldings

-----------------------------------------------------------------------------

(* The holders, one by one, before and after a step.                       *)
LEMMA Holders ==
  /\ "kernel" \in Owners
  /\ \A o \in Owners : o = "kernel" \/ o \in Processes
  /\ HeldBy("kernel") = kernel /\ HeldBy("kernel")' = kernel'
  /\ \A p \in Processes : /\ p \in Owners /\ p # "kernel"
                          /\ HeldBy(p) = user[p] /\ HeldBy(p)' = user'[p]
BY ProcessMemoryAssumption DEF Owners, HeldBy, ProcessMemoryAssumption

(* Two allocations in use have different pointers.                         *)
LEMMA PointersDiffer ==
  ASSUME Inv, NEW a \in live, NEW b \in live, a.ptr = b.ptr
  PROVE  a = b
<1>1. StartOf(a) \in Table /\ a.blocks \in Nat /\ a.blocks > 0
      /\ BlocksOf(a) = StartOf(a) .. (StartOf(a) + a.blocks - 1)
  BY LiveBlocks, SizesAreNatural DEF Inv
<1>2. b.blocks \in Nat /\ b.blocks > 0
      /\ BlocksOf(b) = StartOf(b) .. (StartOf(b) + b.blocks - 1)
  BY LiveBlocks, SizesAreNatural DEF Inv
<1>3. StartOf(a) = StartOf(b)
  BY DEF StartOf
<1>4. StartOf(a) \in BlocksOf(a) \cap BlocksOf(b)
  BY <1>1, <1>2, <1>3 DEF Table
<1> QED BY <1>4 DEF Inv, NoOverlap

(* Addresses of the pool are not the null pointer, which lies before it.   *)
LEMMA NullIsOutside ==
  /\ NULL \notin Addresses
  /\ heap_address_to_block(NULL) < 0
  /\ \A x \in Addresses : heap_address_to_block(x) \in Table
<1>1. HEAP_ADDRESS \div HEAP_BLOCK_SIZE > 0
  BY HeapAssumption DEF HeapAssumption
<1>2. heap_address_to_block(NULL) < 0
  BY <1>1, HeapAssumption DEF HeapAssumption, heap_address_to_block, NULL
<1>3. \A x \in Addresses : heap_address_to_block(x) \in Table
  BY BlockOfAddress, SizesAreNatural DEF Addresses, Table
<1> QED BY <1>2, <1>3, SizesAreNatural DEF Table

(* heap_free of the null pointer does nothing: it lies before the table.   *)
LEMMA FreeOfNull ==
  ASSUME Inv, heap_free(NULL)
  PROVE  UNCHANGED <<entries, live>>
<1>1. \A a \in live : a.ptr \in Addresses
  BY DEF Inv, TypeOK, Addresses
<1> QED BY <1>1, NullIsOutside DEF heap_free

(* heap_free of the pointer of an allocation in use is its kfree.          *)
LEMMA FreeOfAllocation ==
  ASSUME Inv, NEW a \in live, heap_free(a.ptr)
  PROVE  kfree(a)
<1>1. a.ptr \in Addresses
  BY DEF Inv, TypeOK, Addresses
<1>2. ~(heap_address_to_block(a.ptr) < 0)
  BY <1>1, NullIsOutside, SizesAreNatural DEF Table
<1>3. live' = live \ {a}
  BY PointersDiffer DEF heap_free
<1> QED BY <1>2, <1>3 DEF heap_free, kfree

(* What kmalloc hands out is new.                                          *)
LEMMA GivenIsNew ==
  ASSUME Inv, PositiveRequests, NEW size \in Sizes, kmalloc(size)
  PROVE  /\ live' = live \cup {Given(size)}
         /\ Given(size) \notin live
         /\ Given(size) \in Holdings
         /\ \A a \in live : a.ptr # Given(size).ptr
<1> DEFINE g == Given(size)
<1>1. live' = live \cup {g}
  BY DEF kmalloc, Given
<1>2. Inv'
  BY KmallocKeepsInv
<1>3. g \in Holdings
  BY <1>1, <1>2 DEF Inv, TypeOK, Holdings, Addresses
<1>4. g.blocks \in 0 .. MaxBlocks /\ g.blocks > 0
  BY <1>1, <1>2, <1>3 DEF Inv, Holdings
<1>5. g.blocks = blocks_for(size)
      /\ g.ptr = heap_block_to_address(heap_get_start_block(entries, g.blocks))
      /\ heap_get_start_block(entries, g.blocks) >= 0
  BY DEF kmalloc, Given, Allocation
<1> HIDE DEF g
<1>6. heap_get_start_block(entries, g.blocks) \in Table
  BY <1>4, <1>5, StartBlockIsFree, SizesAreNatural DEF Inv, TypeOK
<1>7. StartOf(g) = heap_get_start_block(entries, g.blocks)
  BY <1>5, <1>6, BlockOfAddress, SizesAreNatural DEF StartOf, Table
<1>8. ASSUME NEW a \in live, a.ptr = g.ptr PROVE FALSE
  <2>1. StartOf(a) = StartOf(g)
    BY <1>8 DEF StartOf
  <2>2. StartOf(a) \in Table /\ a.blocks \in Nat /\ a.blocks > 0
        /\ BlocksOf(a) = StartOf(a) .. (StartOf(a) + a.blocks - 1)
    BY LiveBlocks, SizesAreNatural DEF Inv
  <2>3. BlocksOf(a) \cap (StartOf(g) .. (StartOf(g) + g.blocks - 1)) = {}
    BY <1>4, <1>5, <1>7, NewIsDisjoint
  <2> QED BY <2>1, <2>2, <2>3, <1>4, SizesAreNatural DEF Table
<1> QED BY <1>1, <1>3, <1>8 DEF g

-----------------------------------------------------------------------------
(* One lemma per operation: the invariant is kept, and what stays held     *)
(* keeps its table entries.                                                *)

(* What a holder keeps over the step keeps its table entries: the action   *)
(* of FreesOnlyOwn.                                                        *)
OthersKept ==
  \A o \in Owners : \A a \in HeldBy(o) : a \in HeldBy(o)' =>
     \A i \in BlocksOf(a) : entries'[i] = entries[i]

(* kmalloc for the kernel: the memory is new, nobody else's changes.       *)
LEMMA KernelKmalloc ==
  ASSUME MemoryInv, PositiveRequests, NEW size \in KernelSizes, kernel_kmalloc(size)
  PROVE  MemoryInv' /\ OthersKept
<1> DEFINE g == Given(size)
<1>1. size \in Sizes /\ kmalloc(size) /\ kernel' = kernel \cup {g}
      /\ UNCHANGED <<allocations, user>>
  BY ProcessMemoryAssumption DEF ProcessMemoryAssumption, kernel_kmalloc
<1>2. Inv' /\ \A b \in live : \A i \in BlocksOf(b) : entries'[i] = entries[i]
  BY <1>1, KmallocKeepsInv DEF MemoryInv
<1>3. live' = live \cup {g} /\ g \notin live /\ g \in Holdings
  BY <1>1, GivenIsNew DEF MemoryInv
<1> HIDE DEF g
<1>4. MemoryTypeOK'
  BY <1>1, <1>2, <1>3 DEF MemoryInv, MemoryTypeOK, Inv
<1>5. HoldingsLive'
  BY <1>1, <1>3, Holders DEF MemoryInv, HoldingsLive, Owners
<1>6. SlotsMatchHoldings'
  BY <1>1 DEF MemoryInv, SlotsMatchHoldings
<1>7. OthersKept
  BY <1>2 DEF MemoryInv, HoldingsLive, OthersKept
<1> QED BY <1>2, <1>4, <1>5, <1>6, <1>7 DEF MemoryInv

(* kfree of what the kernel holds: only that memory becomes free.          *)
LEMMA KernelKfree ==
  ASSUME MemoryInv, NEW a \in kernel, kernel_kfree(a)
  PROVE  MemoryInv' /\ OthersKept
<1>1. heap_free(a.ptr) /\ kernel' = kernel \ {a} /\ UNCHANGED <<allocations, user>>
  BY DEF kernel_kfree
<1>2. a \in live
  BY Holders DEF MemoryInv, HoldingsLive
<1>3. kfree(a) /\ live' = live \ {a}
  BY <1>1, <1>2, FreeOfAllocation DEF MemoryInv, kfree
<1>4. Inv' /\ \A b \in live' : \A i \in BlocksOf(b) : entries'[i] = entries[i]
  BY <1>2, <1>3, KfreeKeepsInv DEF MemoryInv
<1>5. MemoryTypeOK'
  BY <1>1, <1>4 DEF MemoryInv, MemoryTypeOK, Inv
<1>6. HoldingsLive'
  BY <1>1, <1>3, Holders DEF MemoryInv, HoldingsLive, Owners
<1>7. SlotsMatchHoldings'
  BY <1>1 DEF MemoryInv, SlotsMatchHoldings
<1>8. OthersKept
  BY <1>4, <1>6 DEF HoldingsLive, OthersKept, Owners
<1> QED BY <1>4, <1>5, <1>6, <1>7, <1>8 DEF MemoryInv

(* The slot process_malloc takes is an unused one.                         *)
LEMMA FreeIndex ==
  ASSUME NEW p \in Processes, process_find_free_allocation_index(p) >= 0
  PROVE  /\ process_find_free_allocation_index(p) \in Slots
         /\ allocations[p][process_find_free_allocation_index(p)] = NULL
<1> DEFINE free == {i \in Slots : allocations[p][i] = NULL}
<1>1. free # {}
  BY DEF process_find_free_allocation_index, ENOMEM
<1>2. free \in SUBSET Nat
  BY DEF Slots
<1>3. Min(free) \in free
  BY <1>1, <1>2, MinOfNaturals
<1> QED BY <1>1, <1>3 DEF process_find_free_allocation_index

(* process_malloc: the new memory is in one slot and held by the program.  *)
LEMMA ProcessMalloc ==
  ASSUME MemoryInv, PositiveRequests, NEW p \in Processes, NEW size \in UserSizes,
         process_malloc(p, size)
  PROVE  MemoryInv' /\ OthersKept
<1> DEFINE g == Given(size)
           k == process_find_free_allocation_index(p)
<1>1. /\ size \in Sizes /\ kmalloc(size) /\ k >= 0
      /\ allocations' = [allocations EXCEPT ![p][k] = g.ptr]
      /\ user' = [user EXCEPT ![p] = @ \cup {g}]
      /\ UNCHANGED kernel
  BY ProcessMemoryAssumption DEF ProcessMemoryAssumption, process_malloc
<1>2. Inv' /\ \A b \in live : \A i \in BlocksOf(b) : entries'[i] = entries[i]
  BY <1>1, KmallocKeepsInv DEF MemoryInv
<1>3. /\ live' = live \cup {g} /\ g \notin live /\ g \in Holdings
      /\ \A a \in live : a.ptr # g.ptr
  BY <1>1, GivenIsNew DEF MemoryInv
<1>4. k \in Slots /\ allocations[p][k] = NULL
  BY <1>1, FreeIndex
<1> HIDE DEF g, k
<1>5. g.ptr \in Addresses /\ g.ptr # NULL
  BY <1>3, NullIsOutside DEF Holdings
<1>6. MemoryTypeOK'
  BY <1>1, <1>2, <1>3, <1>4, <1>5 DEF MemoryInv, MemoryTypeOK, Inv
<1>7. /\ \A q \in Processes : q # p => user'[q] = user[q] /\ allocations'[q] = allocations[q]
      /\ user'[p] = user[p] \cup {g}
      /\ \A i \in Slots : allocations'[p][i] = IF i = k THEN g.ptr ELSE allocations[p][i]
  BY <1>1, <1>4 DEF MemoryInv, MemoryTypeOK
<1>8. HoldingsLive'
  BY <1>1, <1>3, <1>7, Holders DEF MemoryInv, HoldingsLive, Owners
<1>9. SlotsMatchHoldings'
  <2> SUFFICES ASSUME NEW q \in Processes
               PROVE  /\ {allocations'[q][i] : i \in Slots} \ {NULL} = {a.ptr : a \in user'[q]}
                      /\ \A i, j \in Slots : allocations'[q][i] = allocations'[q][j]
                           => i = j \/ allocations'[q][i] = NULL
    BY DEF SlotsMatchHoldings
  <2>1. CASE q # p
    BY <1>7, <2>1 DEF MemoryInv, SlotsMatchHoldings
  <2>2. CASE q = p
    <3>1. {allocations[p][i] : i \in Slots} \ {NULL} = {a.ptr : a \in user[p]}
      BY DEF MemoryInv, SlotsMatchHoldings
    <3>2. \A a \in user[p] : a.ptr # g.ptr
      BY <1>3, Holders DEF MemoryInv, HoldingsLive
    <3>3. \A i \in Slots : allocations[p][i] # g.ptr
      BY <1>5, <3>1, <3>2
    <3>4. {allocations'[p][i] : i \in Slots} \ {NULL}
            = ({allocations[p][i] : i \in Slots} \ {NULL}) \cup {g.ptr}
      BY <1>4, <1>5, <1>7
    <3>5. {a.ptr : a \in user'[p]} = {a.ptr : a \in user[p]} \cup {g.ptr}
      BY <1>7
    <3>6. \A i, j \in Slots : allocations'[p][i] = allocations'[p][j]
             => i = j \/ allocations'[p][i] = NULL
      BY <1>7, <3>3 DEF MemoryInv, SlotsMatchHoldings
    <3> QED BY <2>2, <3>1, <3>4, <3>5, <3>6
  <2> QED BY <2>1, <2>2
<1>10. OthersKept
  BY <1>2 DEF MemoryInv, HoldingsLive, OthersKept
<1> QED BY <1>2, <1>6, <1>8, <1>9, <1>10 DEF MemoryInv

(* The memory of an allocation that no slot could take stays in use on the *)
(* heap, and nobody holds it.                                              *)
LEMMA ProcessMallocUntracked ==
  ASSUME MemoryInv, PositiveRequests, NEW p \in Processes, NEW size \in UserSizes,
         process_malloc_untracked(p, size)
  PROVE  MemoryInv' /\ OthersKept
<1>1. size \in Sizes /\ kmalloc(size) /\ UNCHANGED <<allocations, kernel, user>>
  BY ProcessMemoryAssumption DEF ProcessMemoryAssumption, process_malloc_untracked
<1>2. Inv' /\ \A b \in live : \A i \in BlocksOf(b) : entries'[i] = entries[i]
  BY <1>1, KmallocKeepsInv DEF MemoryInv
<1>3. live \subseteq live'
  BY <1>1, GivenIsNew DEF MemoryInv
<1>4. MemoryTypeOK'
  BY <1>1, <1>2 DEF MemoryInv, MemoryTypeOK, Inv
<1>5. HoldingsLive'
  BY <1>1, <1>3, Holders DEF MemoryInv, HoldingsLive, Owners
<1>6. SlotsMatchHoldings'
  BY <1>1 DEF MemoryInv, SlotsMatchHoldings
<1>7. OthersKept
  BY <1>2 DEF MemoryInv, HoldingsLive, OthersKept
<1> QED BY <1>2, <1>4, <1>5, <1>6, <1>7 DEF MemoryInv

(* A pointer that process_free accepts is the null pointer or that of an   *)
(* allocation of the process.                                              *)
LEMMA OwnPointer ==
  ASSUME MemoryInv, NEW p \in Processes, NEW ptr, process_is_process_pointer(p, ptr),
         ptr # NULL
  PROVE  \E a \in user[p] : a.ptr = ptr /\ a \in live
<1>1. ptr \in {allocations[p][i] : i \in Slots} \ {NULL}
  BY DEF process_is_process_pointer
<1>2. PICK a \in user[p] : a.ptr = ptr
  BY <1>1 DEF MemoryInv, SlotsMatchHoldings
<1> QED BY <1>2, Holders DEF MemoryInv, HoldingsLive

(* process_free of the null pointer, which an unused slot lets through,    *)
(* changes nothing.                                                        *)
LEMMA ProcessFreeNull ==
  ASSUME MemoryInv, NEW p \in Processes, process_free(p, NULL)
  PROVE  UNCHANGED memory_vars
<1>1. UNCHANGED <<entries, live>>
  BY FreeOfNull DEF process_free, MemoryInv
<1>2. process_allocation_unjoin(p, NULL) = allocations[p]
  BY DEF process_allocation_unjoin, MemoryInv, MemoryTypeOK
<1>3. UNCHANGED allocations
  BY <1>2 DEF process_free, MemoryInv, MemoryTypeOK
<1>4. {a \in user[p] : a.ptr # NULL} = user[p]
  BY NullIsOutside DEF MemoryInv, MemoryTypeOK, Holdings
<1>5. UNCHANGED user
  BY <1>4 DEF process_free, MemoryInv, MemoryTypeOK
<1> QED BY <1>1, <1>3, <1>5 DEF process_free, memory_vars

(* process_free of a pointer of the process: its slot is cleared and only  *)
(* its own memory becomes free.                                            *)
LEMMA ProcessFree ==
  ASSUME MemoryInv, NEW p \in Processes, NEW ptr, ptr # NULL, process_free(p, ptr)
  PROVE  /\ MemoryInv' /\ OthersKept
         /\ \E a \in live : kfree(a)
<1>1. /\ process_is_process_pointer(p, ptr)
      /\ allocations' = [allocations EXCEPT ![p] = process_allocation_unjoin(p, ptr)]
      /\ heap_free(ptr)
      /\ user' = [user EXCEPT ![p] = {a \in @ : a.ptr # ptr}]
      /\ UNCHANGED kernel
  BY DEF process_free
<1>2. PICK a \in user[p] : a.ptr = ptr /\ a \in live
  BY <1>1, OwnPointer
<1>3. kfree(a) /\ live' = live \ {a}
  BY <1>1, <1>2, FreeOfAllocation DEF MemoryInv, kfree
<1>4. Inv' /\ \A b \in live' : \A i \in BlocksOf(b) : entries'[i] = entries[i]
  BY <1>2, <1>3, KfreeKeepsInv DEF MemoryInv
<1>5. /\ \A q \in Processes : q # p => user'[q] = user[q] /\ allocations'[q] = allocations[q]
      /\ user'[p] = {b \in user[p] : b.ptr # ptr}
      /\ \A i \in Slots : allocations'[p][i]
                           = IF allocations[p][i] = ptr THEN NULL ELSE allocations[p][i]
  BY <1>1 DEF MemoryInv, MemoryTypeOK, process_allocation_unjoin
<1>6. user'[p] = user[p] \ {a}
  BY <1>2, <1>5, Holders, PointersDiffer DEF MemoryInv, HoldingsLive
<1>7. MemoryTypeOK'
  <2>1. process_allocation_unjoin(p, ptr) \in [Slots -> Addresses \cup {NULL}]
    BY DEF MemoryInv, MemoryTypeOK, process_allocation_unjoin
  <2> QED BY <1>1, <1>4, <2>1 DEF MemoryInv, MemoryTypeOK, Inv
<1>8. HoldingsLive'
  BY <1>1, <1>2, <1>3, <1>5, <1>6, Holders DEF MemoryInv, HoldingsLive, Owners
<1>9. SlotsMatchHoldings'
  <2> SUFFICES ASSUME NEW q \in Processes
               PROVE  /\ {allocations'[q][i] : i \in Slots} \ {NULL} = {b.ptr : b \in user'[q]}
                      /\ \A i, j \in Slots : allocations'[q][i] = allocations'[q][j]
                           => i = j \/ allocations'[q][i] = NULL
    BY DEF SlotsMatchHoldings
  <2>1. CASE q # p
    BY <1>5, <2>1 DEF MemoryInv, SlotsMatchHoldings
  <2>2. CASE q = p
    <3>1. {allocations[p][i] : i \in Slots} \ {NULL} = {b.ptr : b \in user[p]}
      BY DEF MemoryInv, SlotsMatchHoldings
    <3>2. {allocations'[p][i] : i \in Slots} \ {NULL}
            = ({allocations[p][i] : i \in Slots} \ {NULL}) \ {ptr}
      BY <1>5
    <3>3. {b.ptr : b \in user'[p]} = {b.ptr : b \in user[p]} \ {ptr}
      BY <1>5
    <3>4. \A i, j \in Slots : allocations'[p][i] = allocations'[p][j]
             => i = j \/ allocations'[p][i] = NULL
      BY <1>5 DEF MemoryInv, SlotsMatchHoldings
    <3>5. {allocations'[p][i] : i \in Slots} \ {NULL} = {b.ptr : b \in user'[p]}
      <4> HIDE <1>5
      <4> QED BY <3>1, <3>2, <3>3, Zenon
    <3> QED BY <2>2, <3>4, <3>5, Zenon
  <2> QED BY <2>1, <2>2
<1>10. OthersKept
  BY <1>4, <1>8 DEF HoldingsLive, OthersKept, Owners
<1> QED BY <1>2, <1>3, <1>4, <1>7, <1>8, <1>9, <1>10 DEF MemoryInv

-----------------------------------------------------------------------------

(* The invariant holds when the heap has just been set up.                 *)
LEMMA MemoryInitInv == MemoryInit => MemoryInv
<1> SUFFICES ASSUME MemoryInit PROVE MemoryInv
  OBVIOUS
<1>1. Inv
  BY InitInv DEF MemoryInit, Init
<1>2. MemoryTypeOK
  BY <1>1 DEF MemoryInit, MemoryTypeOK, Inv
<1>3. HoldingsLive
  BY Holders DEF MemoryInit, HoldingsLive
<1>4. SlotsMatchHoldings
  BY DEF MemoryInit, SlotsMatchHoldings
<1> QED BY <1>1, <1>2, <1>3, <1>4 DEF MemoryInv

(* A step that changes nothing.                                            *)
LEMMA MemoryStutters ==
  ASSUME MemoryInv, UNCHANGED memory_vars
  PROVE  MemoryInv' /\ OthersKept
<1>1. Inv' /\ TypeOK'
  BY NextStutters DEF MemoryInv, memory_vars, vars, Inv
<1>2. MemoryTypeOK'
  BY <1>1 DEF MemoryInv, MemoryTypeOK, memory_vars
<1>3. HoldingsLive'
  BY DEF MemoryInv, HoldingsLive, memory_vars, HeldBy
<1>4. SlotsMatchHoldings'
  BY DEF MemoryInv, SlotsMatchHoldings, memory_vars
<1>5. OthersKept
  BY DEF OthersKept, memory_vars
<1> QED BY <1>1, <1>2, <1>3, <1>4, <1>5 DEF MemoryInv

(* Every step keeps the invariant and the entries of what stays held, and  *)
(* is a step of the heap or leaves the heap alone.                         *)
LEMMA MemoryNextInv ==
  ASSUME MemoryInv, PositiveRequests, [MemoryNext]_memory_vars
  PROVE  MemoryInv' /\ OthersKept /\ [Next]_vars
<1>1. ASSUME NEW size \in KernelSizes, kernel_kmalloc(size)
      PROVE  MemoryInv' /\ OthersKept /\ [Next]_vars
  BY <1>1, KernelKmalloc, ProcessMemoryAssumption
  DEF kernel_kmalloc, Next, ProcessMemoryAssumption
<1>2. ASSUME NEW a \in kernel, kernel_kfree(a)
      PROVE  MemoryInv' /\ OthersKept /\ [Next]_vars
  <2>1. a \in live
    BY Holders DEF MemoryInv, HoldingsLive
  <2>2. kfree(a)
    BY <1>2, <2>1, FreeOfAllocation DEF kernel_kfree, MemoryInv
  <2> QED BY <1>2, <2>1, <2>2, KernelKfree DEF Next
<1>3. ASSUME NEW p \in Processes, NEW size \in UserSizes, process_malloc(p, size)
      PROVE  MemoryInv' /\ OthersKept /\ [Next]_vars
  BY <1>3, ProcessMalloc, ProcessMemoryAssumption
  DEF process_malloc, Next, ProcessMemoryAssumption
<1>4. ASSUME NEW p \in Processes, NEW size \in UserSizes, process_malloc_untracked(p, size)
      PROVE  MemoryInv' /\ OthersKept /\ [Next]_vars
  BY <1>4, ProcessMallocUntracked, ProcessMemoryAssumption
  DEF process_malloc_untracked, Next, ProcessMemoryAssumption
<1>5. CASE UNCHANGED memory_vars
  BY <1>5, MemoryStutters DEF memory_vars, vars
<1>6. ASSUME NEW p \in Processes, NEW size \in UserSizes, process_malloc_fails(p, size)
      PROVE  UNCHANGED memory_vars
  BY <1>6 DEF process_malloc_fails, kmalloc_fails, vars, memory_vars
<1>7. ASSUME NEW p \in Processes, NEW ptr \in Pointers, process_free(p, ptr)
      PROVE  MemoryInv' /\ OthersKept /\ [Next]_vars
  <2>1. CASE ptr = NULL
    BY <1>5, <1>7, <2>1, ProcessFreeNull
  <2>2. CASE ptr # NULL
    BY <1>7, <2>2, ProcessFree DEF Next
  <2> QED BY <2>1, <2>2
<1>8. ASSUME NEW p \in Processes, NEW ptr \in Pointers, process_free_refused(p, ptr)
      PROVE  UNCHANGED memory_vars
  BY <1>8 DEF process_free_refused
<1> QED BY <1>1, <1>2, <1>3, <1>4, <1>5, <1>6, <1>7, <1>8
        DEF MemoryNext, isr80h_command4_malloc, isr80h_command5_free

(* The inductive invariant holds in every state.                           *)
THEOREM MemoryInvariant ==
  ASSUME PositiveRequests
  PROVE  MemorySpec => []MemoryInv
<1>1. MemoryInit => MemoryInv
  BY MemoryInitInv
<1>2. MemoryInv /\ [MemoryNext]_memory_vars => MemoryInv'
  BY MemoryNextInv
<1> QED BY <1>1, <1>2, PTL DEF MemorySpec

(* The variables keep their types, whatever pointers are freed.            *)
THEOREM MemoryTypeCorrect ==
  ASSUME PositiveRequests
  PROVE  MemorySpec => []MemoryTypeOK
<1>1. MemoryInv => MemoryTypeOK
  BY DEF MemoryInv
<1> QED BY <1>1, MemoryInvariant, PTL

(* process_malloc and the kernel's kmalloc never give one block to two     *)
(* holders.                                                                *)
THEOREM MemoryHoldersDisjoint ==
  ASSUME PositiveRequests
  PROVE  MemorySpec => []HoldersDisjoint
<1>1. MemoryInv => HoldersDisjoint
  <2> SUFFICES ASSUME MemoryInv, NEW o \in Owners, NEW q \in Owners,
                      NEW a \in HeldBy(o), NEW b \in HeldBy(q), o # q \/ a # b
               PROVE  BlocksOf(a) \cap BlocksOf(b) = {}
    BY DEF HoldersDisjoint
  <2>1. a \in live /\ b \in live /\ a # b
    BY DEF MemoryInv, HoldingsLive
  <2> QED BY <2>1 DEF MemoryInv, Inv, NoOverlap
<1> QED BY <1>1, MemoryInvariant, PTL

(* The slots of a process hold the pointers it may still use, each once    *)
(* (process_malloc, process_allocation_unjoin).                            *)
THEOREM MemorySlotsMatchHoldings ==
  ASSUME PositiveRequests
  PROVE  MemorySpec => []SlotsMatchHoldings
<1>1. MemoryInv => SlotsMatchHoldings
  BY DEF MemoryInv
<1> QED BY <1>1, MemoryInvariant, PTL

(* Whatever pointer a program passes to free, the memory of the others     *)
(* keeps its table entries (process.c:81).                                 *)
THEOREM MemoryFreesOnlyOwn ==
  ASSUME PositiveRequests
  PROVE  MemorySpec => FreesOnlyOwn
<1>1. MemoryInv /\ [MemoryNext]_memory_vars => [OthersKept]_memory_vars
  BY MemoryNextInv
<1> QED BY <1>1, MemoryInvariant, PTL DEF MemorySpec, FreesOnlyOwn, OthersKept

(* Programs and kernel together use the heap as Heap's callers do: every   *)
(* step is a kmalloc, a kfree of something in use, or nothing.             *)
THEOREM MemoryUsesHeapProperly ==
  ASSUME PositiveRequests
  PROVE  MemorySpec => HeapUsedProperly
<1>1. MemoryInit => Init
  BY DEF MemoryInit, Init
<1>2. MemoryInv /\ [MemoryNext]_memory_vars => [Next]_vars
  BY MemoryNextInv
<1> QED BY <1>1, <1>2, MemoryInvariant, PTL DEF MemorySpec, HeapUsedProperly, Spec

=============================================================================
