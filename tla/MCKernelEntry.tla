--------------------------- MODULE MCKernelEntry ---------------------------
(* Instance of KernelEntry for TLC: two tasks, registers of two values.    *)
EXTENDS KernelEntry
=============================================================================
