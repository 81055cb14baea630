------------------------------ MODULE Keyboard ------------------------------
(***************************************************************************)
(* Keyboard input: the PS/2 interrupt handler (src/keyboard/classic.c),    *)
(* the ring buffer every process has (src/keyboard/keyboard.c) and the     *)
(* getkey command (src/isr80h/io.c).  kernel_main loads processes with     *)
(* interrupts disabled and then enters the first task; from then on an     *)
(* interrupt and a system call may follow each other in any order, each of *)
(* them running to its end with interrupts disabled.                       *)
(***************************************************************************)
EXTENDS Integers, Sequences

CONSTANTS
  Processes,
  Chars,          \* the characters other than '\0'
  NUL,            \* '\0'
  BUFFER_SIZE,    \* PEACHOS_KEYBOARD_BUFFER_SIZE
  COUNTER,        \* number of values of the head and tail counters
  ScanSet,        \* keyboard_scan_set_one, indexed from 0
  SCAN_SIZE,      \* its length
  KEY_RELEASED    \* CLASSIC_KEYBOARD_KEY_RELEASED, the top bit of a scancode

(* The counters are converted to unsigned before the modulo; they wrap at  *)
(* a multiple of the buffer size (1024 divides 2^32).                      *)
ASSUME KeyboardAssumption ==
  /\ BUFFER_SIZE \in Nat \ {0}
  /\ COUNTER \in Nat /\ COUNTER > BUFFER_SIZE /\ COUNTER % BUFFER_SIZE = 0
  /\ NUL \notin Chars
  /\ SCAN_SIZE \in Nat /\ KEY_RELEASED \in Nat /\ SCAN_SIZE < KEY_RELEASED
  /\ ScanSet \in [0 .. (SCAN_SIZE - 1) -> Chars \cup {NUL}]

None == "none"

VARIABLES
  loaded,           \* the processes loaded so far, in order
  current_process,  \* process_current(): who gets the keys
  current_task,     \* the process of task_current(): who runs and reads
  user_mode,        \* the first task was entered: interrupts can arrive
  buffer, head, tail,  \* process->keyboard of every process
  answer,           \* what the last getkey returned
  overrun           \* ghost: the processes a full buffer was pushed for

kbd == <<buffer, head, tail>>
sched == <<loaded, current_process, current_task, user_mode>>
vars == <<sched, kbd, answer, overrun>>

Index == 0 .. (BUFFER_SIZE - 1)
Counter == 0 .. (COUNTER - 1)

TypeOK ==
  /\ loaded \in Seq(Processes)
  /\ current_process \in Processes \cup {None}
  /\ current_task \in Processes \cup {None}
  /\ user_mode \in BOOLEAN
  /\ buffer \in [Processes -> [Index -> Chars \cup {NUL}]]
  /\ head \in [Processes -> Counter]
  /\ tail \in [Processes -> Counter]
  /\ answer \in Chars \cup {NUL}
  /\ overrun \subseteq Processes

Init ==
  /\ loaded = <<>>
  /\ current_process = None
  /\ current_task = None
  /\ user_mode = FALSE
  /\ buffer = [p \in Processes |-> [i \in Index |-> NUL]]
  /\ head = [p \in Processes |-> 0]
  /\ tail = [p \in Processes |-> 0]
  /\ answer = NUL
  /\ overrun = {}

-----------------------------------------------------------------------------
(* Start of the system, as far as the keyboard depends on it.              *)

IsLoaded(p) == \E i \in DOMAIN loaded : loaded[i] = p

(* A new process has a zeroed keyboard, becomes the current process, and   *)
(* its task the current task if it is the first one.                       *)
process_load_switch(p) ==
  /\ ~user_mode
  /\ ~IsLoaded(p)
  /\ loaded' = Append(loaded, p)
  /\ current_process' = p
  /\ current_task' = IF current_task = None THEN p ELSE current_task
  /\ buffer' = [buffer EXCEPT ![p] = [i \in Index |-> NUL]]
  /\ head' = [head EXCEPT ![p] = 0]
  /\ tail' = [tail EXCEPT ![p] = 0]
  /\ UNCHANGED <<user_mode, answer, overrun>>

task_run_first_ever_task ==
  /\ ~user_mode
  /\ current_task # None
  /\ current_task' = loaded[1]
  /\ user_mode' = TRUE
  /\ UNCHANGED <<loaded, current_process, kbd, answer, overrun>>

-----------------------------------------------------------------------------
(* The keyboard interrupt.                                                 *)

(* The test is scancode > size, so the scancode equal to the size reads    *)
(* the byte that follows the array: padding up to the next object of the   *)
(* data section, which the build fills with 0.                             *)
classic_keyboard_scancode_to_char(scancode) ==
  IF scancode >= SCAN_SIZE THEN NUL ELSE ScanSet[scancode]

keyboard_get_tail_index(p) == tail[p] % BUFFER_SIZE

Unread(p) == (tail[p] + COUNTER - head[p]) % COUNTER

(* Fault: the character goes where the reader is.                          *)
Fault_PushAtHead(c) ==
  LET p == current_process
  IN  /\ p # None
      /\ c # NUL
      /\ buffer' = [buffer EXCEPT ![p][head[p] % BUFFER_SIZE] = c]
      /\ tail' = [tail EXCEPT ![p] = (@ + 1) % COUNTER]
      /\ overrun' = overrun \cup {q \in {p} : Unread(p) = BUFFER_SIZE}
      /\ UNCHANGED <<sched, head, answer>>

(* There is no test for a full buffer: a character for a process that has  *)
(* BUFFER_SIZE unread ones overwrites the oldest of them.                  *)
keyboard_push(c) ==
  LET p == current_process
  IN  /\ p # None
      /\ c # NUL
      /\ buffer' = [buffer EXCEPT ![p][keyboard_get_tail_index(p)] = c]
      /\ tail' = [tail EXCEPT ![p] = (@ + 1) % COUNTER]
      /\ overrun' = overrun \cup {q \in {p} : Unread(p) = BUFFER_SIZE}
      /\ UNCHANGED <<sched, head, answer>>

key_released(scancode) ==
  /\ scancode >= KEY_RELEASED
  /\ UNCHANGED vars

key_without_char(scancode) ==
  /\ scancode < KEY_RELEASED
  /\ classic_keyboard_scancode_to_char(scancode) = NUL
  /\ UNCHANGED vars

key_pressed(scancode) ==
  /\ scancode < KEY_RELEASED
  /\ classic_keyboard_scancode_to_char(scancode) # NUL
  /\ keyboard_push(classic_keyboard_scancode_to_char(scancode))

classic_keyboard_handle_interrupt ==
  /\ user_mode
  /\ \E scancode \in 0 .. (2 * KEY_RELEASED - 1) :
        \/ key_released(scancode)
        \/ key_without_char(scancode)
        \/ key_pressed(scancode)

-----------------------------------------------------------------------------
(* The getkey command.                                                     *)

CharAtHead(p) == buffer[p][head[p] % BUFFER_SIZE]

keyboard_pop_empty ==
  /\ current_task # None
  /\ CharAtHead(current_task) = NUL
  /\ answer' = NUL
  /\ UNCHANGED <<sched, kbd, overrun>>

(* Fault: the slot that was read is not cleared.                           *)
Fault_PopKeepsSlot ==
  LET p == current_task
  IN  /\ p # None
      /\ CharAtHead(p) # NUL
      /\ answer' = CharAtHead(p)
      /\ head' = [head EXCEPT ![p] = (@ + 1) % COUNTER]
      /\ UNCHANGED <<sched, buffer, tail, overrun>>

(* Fault: the reader does not advance.                                     *)
Fault_PopKeepsHead ==
  LET p == current_task
  IN  /\ p # None
      /\ CharAtHead(p) # NUL
      /\ answer' = CharAtHead(p)
      /\ buffer' = [buffer EXCEPT ![p][head[p] % BUFFER_SIZE] = NUL]
      /\ UNCHANGED <<sched, head, tail, overrun>>

(* Fault: the reader moves the wrong way.                                  *)
Fault_PopMovesBack ==
  LET p == current_task
  IN  /\ p # None
      /\ CharAtHead(p) # NUL
      /\ answer' = CharAtHead(p)
      /\ buffer' = [buffer EXCEPT ![p][head[p] % BUFFER_SIZE] = NUL]
      /\ head' = [head EXCEPT ![p] = @ - 1]
      /\ UNCHANGED <<sched, tail, overrun>>

keyboard_pop ==
  LET p == current_task
  IN  /\ p # None
      /\ CharAtHead(p) # NUL
      /\ answer' = CharAtHead(p)
      /\ buffer' = [buffer EXCEPT ![p][head[p] % BUFFER_SIZE] = NUL]
      /\ head' = [head EXCEPT ![p] = (@ + 1) % COUNTER]
      /\ UNCHANGED <<sched, tail, overrun>>

isr80h_command2_getkey ==
  /\ user_mode
  /\ keyboard_pop \/ keyboard_pop_empty

Next ==
  \/ \E p \in Processes : process_load_switch(p)
  \/ task_run_first_ever_task
  \/ classic_keyboard_handle_interrupt
  \/ isr80h_command2_getkey

(* The program that runs calls getkey in a loop (programs/blank/blank.c)   *)
(* and nothing preempts it for good: interrupts return to it.              *)
Fairness == WF_vars(isr80h_command2_getkey)

Spec == Init /\ [][Next]_vars /\ Fairness

-----------------------------------------------------------------------------

(* The slots that hold a character are exactly the unread ones: a slot the *)
(* reader emptied is NUL until the writer comes round to it, across every  *)
(* wrap of the counters and of the buffer.  This is what makes a NUL slot  *)
(* mean "empty" in keyboard_pop.                                           *)
SlotsExact ==
  \A p \in Processes \ overrun : \A i \in Index :
     buffer[p][i] # NUL <=>
       \E k \in 0 .. (Unread(p) - 1) : i = (head[p] + k) % BUFFER_SIZE

(* The keys read are the keys typed, in order, each once, until a buffer   *)
(* overruns: the ring buffer implements the queue.                         *)
UnreadKeys(p) ==
  [k \in 1 .. Unread(p) |-> buffer[p][(head[p] + k - 1) % BUFFER_SIZE]]

Waiting == [p \in Processes |-> IF p \in overrun THEN <<>> ELSE UnreadKeys(p)]

Fifo == INSTANCE KeyFifo WITH queue <- Waiting, lost <- overrun

ImplementsFifo == Fifo!Spec

(* A key that waits for the process that runs is read eventually: the head *)
(* does not stay where it is, unless the buffer overruns.                  *)
KeysAreRead ==
  \A p \in Processes : \A h \in Counter :
     (p = current_task /\ user_mode /\ head[p] = h /\ Unread(p) > 0)
        ~> (head[p] # h \/ p \in overrun)

=============================================================================
