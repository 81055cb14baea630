---------------------------- MODULE TaskProcess ----------------------------
(***************************************************************************)
(* Loading programs: the process table (src/task/process.c) and the linked *)
(* list of tasks (src/task/task.c), with every failure the load path       *)
(* handles.  The kernel loads programs one after the other with interrupts *)
(* disabled and then enters the first task (src/kernel.c).                 *)
(*                                                                         *)
(* Process structures and task structures are identities; kzalloc returns  *)
(* any identity that is not allocated, or fails.  Where the code goes on   *)
(* with a null, an error-coded or an uninitialized pointer, the behaviour  *)
(* is undefined: the model records it in undefined and says nothing more.  *)
(***************************************************************************)
EXTENDS Integers, FiniteSetsExt

CONSTANTS
  ProcessIds,     \* process structures there is memory for
  TaskIds,        \* task structures there is memory for
  MAX_PROCESSES,  \* PEACHOS_MAX_PROCESSES
  EISTKN,         \* the error code, 8
  NULL

ASSUME TaskProcessAssumption ==
  /\ MAX_PROCESSES \in Nat \ {0}
  /\ EISTKN \in 0 .. (MAX_PROCESSES - 1)
  /\ NULL \notin ProcessIds \cup TaskIds

VARIABLES
  processes,        \* the process table
  current_process,
  heap_processes,   \* the process structures that are allocated
  process_task,     \* process->task
  task_head, task_tail, current_task,
  heap_tasks,       \* the task structures that are allocated
  next, prev,       \* task->next and task->prev
  task_process,     \* task->process
  user_mode,        \* task_run_first_ever_task was called
  result,           \* of the last process_load: "ok" or an error
  undefined         \* ghost: the last load ran into undefined behaviour

list == <<task_head, task_tail, current_task, heap_tasks, next, prev, task_process>>
table == <<processes, current_process, process_task>>
vars == <<list, table, heap_processes, user_mode, result, undefined>>

Slots == 0 .. (MAX_PROCESSES - 1)

TypeOK ==
  /\ processes \in [Slots -> ProcessIds \cup {NULL}]
  /\ current_process \in ProcessIds \cup {NULL}
  /\ heap_processes \subseteq ProcessIds
  /\ process_task \in [ProcessIds -> TaskIds \cup {NULL}]
  /\ {task_head, task_tail, current_task} \subseteq TaskIds \cup {NULL}
  /\ heap_tasks \subseteq TaskIds
  /\ next \in [TaskIds -> TaskIds \cup {NULL}]
  /\ prev \in [TaskIds -> TaskIds \cup {NULL}]
  /\ task_process \in [TaskIds -> ProcessIds \cup {NULL}]
  /\ user_mode \in BOOLEAN
  /\ result \in {"ok", "EISTKN", "ENOMEM", "EDATA", "EMAP"}
  /\ undefined \in BOOLEAN

Init ==
  /\ processes = [s \in Slots |-> NULL]
  /\ current_process = NULL
  /\ heap_processes = {}
  /\ process_task = [p \in ProcessIds |-> NULL]
  /\ task_head = NULL /\ task_tail = NULL /\ current_task = NULL
  /\ heap_tasks = {}
  /\ next = [t \in TaskIds |-> NULL]
  /\ prev = [t \in TaskIds |-> NULL]
  /\ task_process = [t \in TaskIds |-> NULL]
  /\ user_mode = FALSE
  /\ result = "ok"
  /\ undefined = FALSE

-----------------------------------------------------------------------------
(* The task list, as a value: task_new and task_free follow each other     *)
(* inside one load.                                                        *)

List == [head |-> task_head, tail |-> task_tail, current |-> current_task,
         next |-> next, prev |-> prev]

(* Fault: the new task is not linked back to the old tail.                 *)
Fault_NoBackLink(l, t) ==
  IF l.head = NULL
  THEN [l EXCEPT !.head = t, !.tail = t, !.current = t,
                 !.next[t] = NULL, !.prev[t] = NULL]
  ELSE [l EXCEPT !.next = [@ EXCEPT ![l.tail] = t, ![t] = NULL],
                 !.prev[t] = NULL,
                 !.tail = t]

(* The list part of task_new; task_init zeroed the task before.            *)
task_list_append(l, t) ==
  IF l.head = NULL
  THEN [l EXCEPT !.head = t, !.tail = t, !.current = t,
                 !.next[t] = NULL, !.prev[t] = NULL]
  ELSE [l EXCEPT !.next = [@ EXCEPT ![l.tail] = t, ![t] = NULL],
                 !.prev[t] = l.tail,
                 !.tail = t]

task_get_next(l) ==
  IF l.next[l.current] = NULL THEN l.head ELSE l.next[l.current]

(* Fault: task_tail stays on the removed task.                             *)
Fault_TailKept(l, t) ==
  LET a == IF l.prev[t] # NULL
           THEN [l EXCEPT !.next[l.prev[t]] = l.next[t]] ELSE l
      b == IF t = a.head THEN [a EXCEPT !.head = a.next[t]] ELSE a
  IN  IF t = b.current THEN [b EXCEPT !.current = task_get_next(b)] ELSE b

(* The assignments happen in this order: head and tail move before the     *)
(* current task is replaced.  The prev field of the following task is not  *)
(* updated.                                                                *)
task_list_remove(l, t) ==
  LET a == IF l.prev[t] # NULL
           THEN [l EXCEPT !.next[l.prev[t]] = l.next[t]] ELSE l
      b == IF t = a.head THEN [a EXCEPT !.head = a.next[t]] ELSE a
      c == IF t = b.tail THEN [b EXCEPT !.tail = b.prev[t]] ELSE b
  IN  IF t = c.current THEN [c EXCEPT !.current = task_get_next(c)] ELSE c

SetList(l) ==
  /\ task_head' = l.head /\ task_tail' = l.tail /\ current_task' = l.current
  /\ next' = l.next /\ prev' = l.prev

(* Fault: the task is linked to itself instead of to its process.          *)
Fault_TaskLinksItself(t, p) == [task_process EXCEPT ![t] = t]

(* task_init links the new task to its process (the registers it sets are  *)
(* in module KernelEntry).                                                 *)
task_init(t, p) == [task_process EXCEPT ![t] = p]

-----------------------------------------------------------------------------
(* process_load_for_slot, one action per way out of it.                    *)

(* The lowest free slot.  A full table is answered with EISTKN, not with   *)
(* -EISTKN, so the test slot < 0 of process_load never fires and the error *)
(* code is taken for a slot number.                                        *)
process_get_free_slot ==
  LET free == {s \in Slots : processes[s] = NULL}
  IN  IF free = {} THEN EISTKN ELSE Min(free)

(* Fault: slots are taken to be numbered from 1.                           *)
Fault_NumberedFromOne(process_id) ==
  IF process_id + 1 \in Slots THEN processes[process_id + 1] ELSE NULL

process_get(process_id) ==
  IF process_id \in Slots THEN processes[process_id] ELSE NULL

Loading == ~user_mode /\ ~undefined

SlotIsFree == process_get(process_get_free_slot) = NULL

(* The table is full: the slot numbered EISTKN is in use, and the error    *)
(* exit reads the process pointer it never set.  What it finds on the      *)
(* stack either has no task, and nothing happens, or the task of a stale   *)
(* pointer is freed.                                                       *)
load_table_full ==
  /\ Loading
  /\ ~SlotIsFree
  /\ result' = "EISTKN"
  /\ undefined' \in BOOLEAN
  /\ UNCHANGED <<list, table, heap_processes, user_mode>>

(* kzalloc of the process structure fails.                                 *)
load_no_process ==
  /\ Loading
  /\ SlotIsFree
  /\ result' = "ENOMEM"
  /\ UNCHANGED <<list, table, heap_processes, user_mode, undefined>>

(* The file cannot be read, or its stack cannot be allocated: the process  *)
(* structure stays allocated and nobody points to it.                      *)
load_no_data(p) ==
  /\ Loading
  /\ SlotIsFree
  /\ p \notin heap_processes
  /\ heap_processes' = heap_processes \cup {p}
  /\ process_task' = [process_task EXCEPT ![p] = NULL]
  /\ result' \in {"EDATA", "ENOMEM"}
  /\ UNCHANGED <<list, processes, current_process, user_mode, undefined>>

(* There is no memory for the task or its page directory: task_new frees   *)
(* a null task or a null page directory, and its error pointer is taken    *)
(* for a task.                                                             *)
load_no_task(p) ==
  /\ Loading
  /\ SlotIsFree
  /\ p \notin heap_processes
  /\ heap_processes' = heap_processes \cup {p}
  /\ result' = "ENOMEM"
  /\ undefined' = TRUE
  /\ UNCHANGED <<list, table, user_mode>>

(* The segments of the program cannot be mapped: task_free takes the new   *)
(* task off the list again and frees it.                                   *)
load_not_mapped(p, t) ==
  /\ Loading
  /\ SlotIsFree
  /\ p \notin heap_processes
  /\ t \notin heap_tasks
  /\ heap_processes' = heap_processes \cup {p}
  /\ process_task' = [process_task EXCEPT ![p] = t]
  /\ SetList(task_list_remove(task_list_append(List, t), t))
  /\ task_process' = task_init(t, p)
  /\ result' = "EMAP"
  /\ UNCHANGED <<processes, current_process, heap_tasks, user_mode, undefined>>

(* Success: the process is entered in the table, and process_load_switch,  *)
(* the only caller of process_load, makes it the current process.          *)
load_ok(p, t) ==
  /\ Loading
  /\ SlotIsFree
  /\ p \notin heap_processes
  /\ t \notin heap_tasks
  /\ heap_processes' = heap_processes \cup {p}
  /\ heap_tasks' = heap_tasks \cup {t}
  /\ process_task' = [process_task EXCEPT ![p] = t]
  /\ task_process' = task_init(t, p)
  /\ SetList(task_list_append(List, t))
  /\ processes' = [processes EXCEPT ![process_get_free_slot] = p]
  /\ current_process' = p
  /\ result' = "ok"
  /\ UNCHANGED <<user_mode, undefined>>

(* Enters the first task of the list, whichever is the current process;    *)
(* panics when there is no current task.                                   *)
task_run_first_ever_task ==
  /\ Loading
  /\ current_task # NULL
  /\ current_task' = task_head
  /\ user_mode' = TRUE
  /\ UNCHANGED <<table, heap_processes, task_head, task_tail, heap_tasks, next,
                 prev, task_process, result, undefined>>

Next ==
  \/ load_table_full
  \/ load_no_process
  \/ \E p \in ProcessIds :
       \/ load_no_data(p)
       \/ load_no_task(p)
       \/ \E t \in TaskIds :
            \/ load_not_mapped(p, t)
            \/ load_ok(p, t)
  \/ task_run_first_ever_task

Spec == Init /\ [][Next]_vars

-----------------------------------------------------------------------------

Registered == {processes[s] : s \in Slots} \ {NULL}
TasksOfProcesses == {process_task[p] : p \in Registered}

(* The list is what its users walk: it starts at the head, ends at the     *)
(* tail, each link has its back link, and it holds allocated tasks only;   *)
(* so task_get_next never leaves it.  Any mix of successful and rolled     *)
(* back loads must keep it so.                                             *)
ListWellFormed ==
  /\ task_head = NULL <=> task_tail = NULL
  /\ task_head = NULL <=> current_task = NULL
  /\ task_head # NULL =>
       /\ prev[task_head] = NULL /\ next[task_tail] = NULL
       /\ {task_head, task_tail, current_task} \subseteq heap_tasks
  /\ \A t \in heap_tasks :
       /\ t # task_tail => next[t] \in heap_tasks /\ prev[next[t]] = t
       /\ t # task_head => prev[t] \in heap_tasks /\ next[prev[t]] = t

(* The tasks that exist are exactly those of the registered processes,     *)
(* each process has one of its own, and the two point to each other, and   *)
(* no process is in two slots: after any sequence of loads, failed ones    *)
(* included, no task is left over and no registered process points to a    *)
(* freed task.                                                             *)
TasksMatchProcesses ==
  /\ heap_tasks = TasksOfProcesses
  /\ \A p \in Registered : task_process[process_task[p]] = p
  /\ \A s, r \in Slots : processes[s] = processes[r] => s = r \/ processes[s] = NULL
  /\ Registered \subseteq heap_processes

(* A load that fails without undefined behaviour changes neither the       *)
(* process table, nor the list, nor who is current.                        *)
FailedLoadRollsBack ==
  [][(result' # "ok" /\ ~undefined' /\ ~user_mode') =>
       /\ UNCHANGED <<processes, current_process>>
       /\ UNCHANGED <<task_head, task_tail, current_task, heap_tasks>>
       /\ \A t \in heap_tasks : next'[t] = next[t] /\ prev'[t] = prev[t]]_vars

=============================================================================
