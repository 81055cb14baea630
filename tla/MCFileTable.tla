---------------------------- MODULE MCFileTable ----------------------------
(* Instance of FileTable for TLC: a table of three descriptors, a file of  *)
(* three bytes and an empty one, one private structure more than the table  *)
(* has entries.                                                            *)
EXTENDS FileTable, TLC

CONSTANTS d1, d2, d3, x1, x2, x3, x4, f1, f2

MCFiles == {f1, f2}
MCFileSize == f1 :> 3 @@ f2 :> 0
MCDescs == {d1, d2, d3}
MCPrivates == {x1, x2, x3, x4}
MCSymmetry == Permutations(MCDescs) \cup Permutations(MCPrivates)
=============================================================================
