------------------------------- MODULE MCHeap -------------------------------
(* Instance of Heap for TLC: a pool of 6 blocks of 2 bytes, 4-bit sizes,   *)
(* requests for 1, 2 and 3 blocks.                                         *)
EXTENDS HeapLoops

MCSizes == {1, 4, 5}

ASSUME MCRequests == PositiveRequests
=============================================================================
