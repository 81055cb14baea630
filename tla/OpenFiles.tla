----------------------------- MODULE OpenFiles -----------------------------
(***************************************************************************)
(* What the file layer promises: a descriptor number stands for one open   *)
(* file and one position in it, from the fopen that returns it to the      *)
(* fclose of it, and an operation on one descriptor leaves the others      *)
(* alone.                                                                  *)
(***************************************************************************)
EXTENDS Naturals

CONSTANTS Files, MAX_FILE_DESCRIPTORS

VARIABLE open  \* the open file of every descriptor number in use

Fds == 1 .. MAX_FILE_DESCRIPTORS

Init == open = [fd \in {} |-> {}]

Open(fd, file) ==
  /\ fd \notin DOMAIN open
  /\ open' = [g \in DOMAIN open \cup {fd} |->
                IF g = fd THEN [item |-> file, pos |-> 0] ELSE open[g]]

Close(fd) ==
  /\ fd \in DOMAIN open
  /\ open' = [g \in DOMAIN open \ {fd} |-> open[g]]

(* Only the position of fd may change.                                     *)
Seek(fd) ==
  /\ fd \in DOMAIN open
  /\ DOMAIN open' = DOMAIN open
  /\ open' = [open EXCEPT ![fd].pos = open'[fd].pos]

Next == \E fd \in Fds :
  \/ \E file \in Files : Open(fd, file)
  \/ Close(fd)
  \/ Seek(fd)

Spec == Init /\ [][Next]_open
=============================================================================
