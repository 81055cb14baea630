------------------------------ MODULE KeyFifo ------------------------------
(***************************************************************************)
(* What the keyboard buffer promises a program: the keys typed for a       *)
(* process are read by it in the order they were typed, each once, as long *)
(* as no more than BUFFER_SIZE of them wait.  When one more key arrives,   *)
(* the process has lost keys and nothing is promised to it any more.       *)
(***************************************************************************)
EXTENDS Naturals, Sequences

CONSTANTS Processes, Chars, NUL, BUFFER_SIZE

VARIABLES
  queue,   \* the keys that wait, per process, oldest first
  lost,    \* the processes that lost a key
  answer   \* what the last getkey returned

vars == <<queue, lost, answer>>

Init ==
  /\ queue = [p \in Processes |-> <<>>]
  /\ lost = {}
  /\ answer = NUL

(* A key for p arrives.                                                    *)
Type(p, c) ==
  /\ p \notin lost
  /\ IF Len(queue[p]) < BUFFER_SIZE
     THEN queue' = [queue EXCEPT ![p] = Append(@, c)] /\ lost' = lost
     ELSE queue' = [queue EXCEPT ![p] = <<>>] /\ lost' = lost \cup {p}
  /\ answer' = answer

(* p reads a key: the oldest one, or NUL when none waits.                  *)
Read(p) ==
  /\ p \notin lost
  /\ IF queue[p] = <<>>
     THEN answer' = NUL /\ queue' = queue
     ELSE answer' = Head(queue[p]) /\ queue' = [queue EXCEPT ![p] = Tail(@)]
  /\ lost' = lost

(* After a loss a read may return anything.                                *)
ReadAfterLoss(p) ==
  /\ p \in lost
  /\ answer' \in Chars \cup {NUL}
  /\ UNCHANGED <<queue, lost>>

Next == \E p \in Processes :
  \/ \E c \in Chars : Type(p, c)
  \/ Read(p)
  \/ ReadAfterLoss(p)

Spec == Init /\ [][Next]_vars
=============================================================================
