-------------------------- MODULE MCProcessMemory --------------------------
(* Instance of ProcessMemory for TLC: a pool of 4 blocks of 2 bytes at     *)
(* address 4, two processes with two allocation slots each.                *)
EXTENDS ProcessMemory, TLC

CONSTANTS p1, p2

MCProcesses == {p1, p2}
MCSymmetry == Permutations(MCProcesses)

(* Requests for one and for two blocks.                                    *)
MCUserSizes == {1, 3}
MCKernelSizes == {2}
MCSizes == MCUserSizes \cup MCKernelSizes

(* Requests for one block and for no bytes at all.                         *)
MCUserSizesWithZero == {0, 2}
MCSizesWithZero == MCUserSizesWithZero \cup MCKernelSizes

(* NULL, every block of the pool, an address inside a block, one past the  *)
(* pool.                                                                   *)
MCPointers == {0, 4, 6, 7, 8, 10, 12}
=============================================================================
