----------------------------- MODULE HeapLoops -----------------------------
(***************************************************************************)
(* The three loops of src/memory/heap/heap.c, entry by entry.  Module      *)
(* HeapTable states what each of them computes; here is how the code does  *)
(* it, and that it comes to the same.  A loop is the function that gives   *)
(* its variables after each number of entries; after a break they stay.    *)
(***************************************************************************)
EXTENDS Heap

(* heap_get_start_block: the first block of the current free run, and its  *)
(* length so far.                                                          *)
NoRun == [bs |-> -1, bc |-> 0, found |-> FALSE]

(* Fault: the length is not reset at a taken block.                        *)
Fault_CountKept(e, total_blocks, scan, i) ==
  IF scan.found THEN scan
  ELSE IF ~IsFree(e, i) THEN [scan EXCEPT !.bs = -1]
  ELSE [bs |-> IF scan.bs = -1 THEN i ELSE scan.bs,
        bc |-> scan.bc + 1,
        found |-> scan.bc + 1 = total_blocks]

scan_entry(e, total_blocks, scan, i) ==
  IF scan.found THEN scan
  ELSE IF ~IsFree(e, i) THEN NoRun
  ELSE [bs |-> IF scan.bs = -1 THEN i ELSE scan.bs,
        bc |-> scan.bc + 1,
        found |-> scan.bc + 1 = total_blocks]

scan_table(e, total_blocks) ==
  LET after[k \in 0 .. TOTAL] ==
        IF k = 0 THEN NoRun ELSE scan_entry(e, total_blocks, after[k - 1], k - 1)
  IN  after[TOTAL]

scan_result(e, total_blocks) ==
  LET bs == scan_table(e, total_blocks).bs IN IF bs = -1 THEN -ENOMEM ELSE bs

(* heap_mark_blocks_taken: the entry for the next block is made while the  *)
(* current one is marked.                                                  *)
first_entry(total_blocks) ==
  {"TAKEN", "IS_FIRST"} \cup (IF total_blocks > 1 THEN {"HAS_NEXT"} ELSE {})

mark_entry(mark, i, end_block) ==
  [entries |-> [mark.entries EXCEPT ![i] = mark.entry],
   entry |-> {"TAKEN"} \cup (IF i # end_block - 1 THEN {"HAS_NEXT"} ELSE {})]

mark_run(e, start_block, total_blocks) ==
  LET end_block == (start_block + total_blocks) - 1
      after[k \in 0 .. total_blocks] ==
        IF k = 0 THEN [entries |-> e, entry |-> first_entry(total_blocks)]
        ELSE mark_entry(after[k - 1], start_block + (k - 1), end_block)
  IN  after[total_blocks].entries

(* heap_mark_blocks_free: an entry is read, cleared, and then looked at.   *)
free_entry(walk, i) ==
  IF walk.done THEN walk
  ELSE [entries |-> [walk.entries EXCEPT ![i] = FREE],
        done |-> "HAS_NEXT" \notin walk.entries[i]]

walk_chain(e, starting_block) ==
  LET after[k \in 0 .. (TOTAL - starting_block)] ==
        IF k = 0 THEN [entries |-> e, done |-> FALSE]
        ELSE free_entry(after[k - 1], starting_block + (k - 1))
  IN  after[TOTAL - starting_block].entries

-----------------------------------------------------------------------------

(* On every table that calls of kmalloc and kfree lead to, and for every   *)
(* request, the scan that counts through the table finds the lowest free   *)
(* run that is long enough, or else the run at the end, or else fails.     *)
ScanFindsRun ==
  \A n \in 0 .. MaxBlocks : scan_result(entries, n) = heap_get_start_block(entries, n)

(* Marking block after block gives each the flags of its place in the run, *)
(* also where a run reaches past the table.                                *)
MarksRun ==
  \A s \in Table, n \in 1 .. MaxBlocks :
     mark_run(entries, s, n) = heap_mark_blocks_taken(entries, s, n)

(* The walk that reads an entry, clears it and looks at what it read frees *)
(* the chain from its starting block on, wherever in a chain that is.      *)
WalkFreesChain ==
  \A s \in Table : walk_chain(entries, s) = heap_mark_blocks_free(entries, s)

(* The three loops compute what HeapTable says, on every table that calls  *)
(* of kmalloc and kfree lead to.                                           *)
LoopsExact == ScanFindsRun /\ MarksRun /\ WalkFreesChain

=============================================================================
