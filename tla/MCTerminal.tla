----------------------------- MODULE MCTerminal -----------------------------
(* Instance of Terminal for TLC: a screen of 3 columns and 2 rows, 3-bit   *)
(* cursor counters.                                                        *)
EXTENDS Terminal
=============================================================================
