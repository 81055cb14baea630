--------------------------- MODULE MCTaskProcess ---------------------------
(* Instance of TaskProcess for TLC: a table of three processes and memory  *)
(* for one structure more of each kind.                                    *)
EXTENDS TaskProcess, TLC

CONSTANTS p1, p2, p3, p4, t1, t2, t3, t4

MCProcessIds == {p1, p2, p3, p4}
MCTaskIds == {t1, t2, t3, t4}
MCSymmetry == Permutations(MCProcessIds) \cup Permutations(MCTaskIds)
=============================================================================
