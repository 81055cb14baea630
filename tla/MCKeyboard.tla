----------------------------- MODULE MCKeyboard -----------------------------
(* Instance of Keyboard for TLC: two processes, buffers of three chars,   *)
(* counters that wrap after two rounds, a scan table with a dead key.      *)
EXTENDS Keyboard

MCScanSet == [i \in 0 .. 2 |-> CASE i = 0 -> NUL [] i = 1 -> "a" [] i = 2 -> "b"]
=============================================================================
