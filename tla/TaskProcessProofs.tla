-------------------------- MODULE TaskProcessProofs -------------------------
(***************************************************************************)
(* Proofs about loading programs, for every size of the process table and  *)
(* any memory for process and task structures.                             *)
(***************************************************************************)
EXTENDS TaskProcess, NaturalsInduction, WellFoundedInduction, TLAPS

(* The inductive invariant.  The two halves need each other: a new task is *)
(* not on the list because the list holds allocated tasks, and a task that *)
(* a failed load frees is nobody's because allocated tasks are those of    *)
(* the registered processes.                                               *)
Inv ==
  /\ TypeOK
  /\ ListWellFormed
  /\ TasksMatchProcesses

USE TaskProcessAssumption

(* A non-empty set of naturals has a least element, and Min denotes it.    *)
LEMMA MinOfNaturals ==
  ASSUME NEW S \in SUBSET Nat, S # {}
  PROVE  Min(S) \in S /\ \A y \in S : Min(S) <= y
<1> DEFINE Less == {p \in Nat \X Nat : p[1] < p[2]}
<1>1. OpToRel(<, Nat) = Less
  BY Zenon DEF OpToRel
<1>2. IsWellFoundedOn(Less, Nat)
  BY <1>1, NatLessThanWellFounded, Zenon
<1> HIDE DEF Less
<1>3. PICK x \in S : \A y \in S : ~ (<<y, x>> \in Less)
  BY <1>2, WFMin, Zenon
<1>4. \A y \in S : x <= y
  <2> TAKE y \in S
  <2>1. <<y, x>> \in Nat \X Nat
    OBVIOUS
  <2>2. <<y, x>>[1] = y /\ <<y, x>>[2] = x
    OBVIOUS
  <2>3. ~(y < x)
    BY <1>3, <2>1, <2>2, Zenon DEF Less
  <2> QED BY <2>3
<1> QED BY <1>4 DEF Min

-----------------------------------------------------------------------------
(* The list operations, field by field.                                    *)

(* task_list_append puts the first task on an empty list ...               *)
LEMMA AppendFirst ==
  ASSUME TypeOK, NEW t \in TaskIds, task_head = NULL
  PROVE  task_list_append(List, t) =
           [head |-> t, tail |-> t, current |-> t,
            next |-> [next EXCEPT ![t] = NULL], prev |-> [prev EXCEPT ![t] = NULL]]
BY DEF task_list_append, List

(* ... and every other one behind the tail.                                *)
LEMMA AppendLast ==
  ASSUME TypeOK, NEW t \in TaskIds, task_head # NULL
  PROVE  task_list_append(List, t) =
           [head |-> task_head, tail |-> t, current |-> current_task,
            next |-> [next EXCEPT ![task_tail] = t, ![t] = NULL],
            prev |-> [prev EXCEPT ![t] = task_tail]]
BY DEF task_list_append, List

(* task_list_remove on a list of one task leaves it empty, current task    *)
(* included.                                                               *)
LEMMA RemoveOnly ==
  ASSUME NEW t, NEW n, NEW v, n[t] = NULL, v[t] = NULL
  PROVE  task_list_remove([head |-> t, tail |-> t, current |-> t, next |-> n, prev |-> v], t)
           = [head |-> NULL, tail |-> NULL, current |-> NULL, next |-> n, prev |-> v]
<1> DEFINE l == [head |-> t, tail |-> t, current |-> t, next |-> n, prev |-> v]
           b == [head |-> NULL, tail |-> t, current |-> t, next |-> n, prev |-> v]
           c == [head |-> NULL, tail |-> NULL, current |-> t, next |-> n, prev |-> v]
<1>1. [l EXCEPT !.head = l.next[t]] = b
  OBVIOUS
<1>2. [b EXCEPT !.tail = b.prev[t]] = c
  OBVIOUS
<1>3. task_get_next(c) = NULL
  BY DEF task_get_next
<1>4. [c EXCEPT !.current = task_get_next(c)]
        = [head |-> NULL, tail |-> NULL, current |-> NULL, next |-> n, prev |-> v]
  BY <1>3
<1>5. l.prev[t] = NULL /\ t = l.head /\ t = b.tail /\ t = c.current
  OBVIOUS
<1> DEFINE d == [c EXCEPT !.current = task_get_next(c)]
<1> HIDE DEF l, b, c
<1>6. task_list_remove(l, t) = d
  BY <1>1, <1>2, <1>5 DEF task_list_remove
<1> QED BY <1>4, <1>6 DEF l, c

(* The same when the list has other tasks: the task before becomes the    *)
(* tail.                                                                   *)
LEMMA RemoveLast ==
  ASSUME NEW t, NEW h, NEW u, NEW k, NEW n, NEW v,
         u # NULL, t # h, t # k, n[t] = NULL, v[t] = u
  PROVE  task_list_remove([head |-> h, tail |-> t, current |-> k, next |-> n, prev |-> v], t)
           = [head |-> h, tail |-> u, current |-> k,
              next |-> [n EXCEPT ![u] = NULL], prev |-> v]
<1> DEFINE l == [head |-> h, tail |-> t, current |-> k, next |-> n, prev |-> v]
           a == [head |-> h, tail |-> t, current |-> k,
                 next |-> [n EXCEPT ![u] = NULL], prev |-> v]
           c == [head |-> h, tail |-> u, current |-> k,
                 next |-> [n EXCEPT ![u] = NULL], prev |-> v]
<1>1. [l EXCEPT !.next[l.prev[t]] = l.next[t]] = a
  OBVIOUS
<1>2. [a EXCEPT !.tail = a.prev[t]] = c
  OBVIOUS
<1>3. l.prev[t] # NULL /\ t # a.head /\ t = a.tail /\ t # c.current
  OBVIOUS
<1> HIDE DEF l, a, c
<1>4. task_list_remove(l, t) = c
  BY <1>1, <1>2, <1>3 DEF task_list_remove
<1> QED BY <1>4 DEF l, c

(* Removing the task that was just appended gives back the list: only the  *)
(* links of the removed task may differ.                                   *)
LEMMA RemoveAppended ==
  ASSUME Inv, NEW t \in TaskIds \ heap_tasks
  PROVE  LET l == task_list_remove(task_list_append(List, t), t)
         IN  /\ l.head = task_head /\ l.tail = task_tail /\ l.current = current_task
             /\ l.next = [next EXCEPT ![t] = NULL]
             /\ l.prev \in [TaskIds -> TaskIds \cup {NULL}]
             /\ \A u \in TaskIds \ {t} : l.prev[u] = prev[u]
<1>1. CASE task_head = NULL
  <2> DEFINE n == [next EXCEPT ![t] = NULL]
             v == [prev EXCEPT ![t] = NULL]
  <2>1. task_list_append(List, t)
          = [head |-> t, tail |-> t, current |-> t, next |-> n, prev |-> v]
    BY <1>1, AppendFirst DEF Inv
  <2>2. n[t] = NULL /\ v[t] = NULL
    BY DEF Inv, TypeOK
  <2>3. task_list_remove(task_list_append(List, t), t)
          = [head |-> NULL, tail |-> NULL, current |-> NULL, next |-> n, prev |-> v]
    <3> HIDE DEF n, v
    <3> QED BY <2>1, <2>2, RemoveOnly
  <2> QED BY <1>1, <2>3 DEF Inv, TypeOK, ListWellFormed
<1>2. CASE task_head # NULL
  <2> DEFINE n == [next EXCEPT ![task_tail] = t, ![t] = NULL]
             v == [prev EXCEPT ![t] = task_tail]
  <2>1. task_list_append(List, t)
          = [head |-> task_head, tail |-> t, current |-> current_task,
             next |-> n, prev |-> v]
    BY <1>2, AppendLast DEF Inv
  <2>2. /\ {task_head, task_tail, current_task} \subseteq heap_tasks
        /\ next[task_tail] = NULL /\ task_tail \in TaskIds /\ task_tail # NULL
        /\ t # task_head /\ t # task_tail /\ t # current_task
    BY <1>2 DEF Inv, ListWellFormed, TypeOK
  <2>3. n[t] = NULL /\ v[t] = task_tail
    BY DEF Inv, TypeOK
  <2>4. task_list_remove(task_list_append(List, t), t) =
          [head |-> task_head, tail |-> task_tail, current |-> current_task,
           next |-> [n EXCEPT ![task_tail] = NULL], prev |-> v]
    <3> HIDE DEF n, v
    <3> QED BY <2>1, <2>2, <2>3, RemoveLast
  <2>5. [n EXCEPT ![task_tail] = NULL] = [next EXCEPT ![t] = NULL]
    BY <2>2 DEF Inv, TypeOK
  <2> QED BY <2>2, <2>4, <2>5 DEF Inv, TypeOK
<1> QED BY <1>1, <1>2

-----------------------------------------------------------------------------
(* One lemma per way out of process_load_for_slot.                         *)

(* The slot a load writes is a free one: the error code of a full table is *)
(* the number of a slot, which is then in use.                             *)
LEMMA FreeSlot ==
  ASSUME TypeOK, SlotIsFree
  PROVE  process_get_free_slot \in Slots /\ processes[process_get_free_slot] = NULL
<1> DEFINE free == {s \in Slots : processes[s] = NULL}
<1>1. CASE free = {}
  BY <1>1 DEF SlotIsFree, process_get, process_get_free_slot, Slots
<1>2. CASE free # {}
  <2>1. free \in SUBSET Nat
    BY DEF Slots
  <2>2. Min(free) \in free
    BY <1>2, <2>1, MinOfNaturals
  <2> QED BY <1>2, <2>2 DEF process_get_free_slot
<1> QED BY <1>1, <1>2

(* A registered process is allocated, and so is its task.                  *)
LEMMA RegisteredTasks ==
  ASSUME Inv, NEW p \in Registered
  PROVE  /\ p \in ProcessIds /\ p \in heap_processes
         /\ process_task[p] \in heap_tasks /\ process_task[p] \in TaskIds
         /\ task_process[process_task[p]] = p
BY DEF Inv, TypeOK, TasksMatchProcesses, TasksOfProcesses, Registered

(* Steps that touch neither an allocated task nor a registered process     *)
(* keep the correspondence of the two.                                     *)
LEMMA MatchKept ==
  ASSUME Inv, UNCHANGED <<processes, heap_tasks>>, heap_processes \subseteq heap_processes',
         \A p \in heap_processes : process_task'[p] = process_task[p],
         \A t \in heap_tasks : task_process'[t] = task_process[t]
  PROVE  TasksMatchProcesses'
<1>1. Registered' = Registered
  BY DEF Registered
<1>2. TasksOfProcesses' = TasksOfProcesses
  BY <1>1, RegisteredTasks DEF TasksOfProcesses
<1>3. \A p \in Registered : task_process'[process_task'[p]] = p
  BY RegisteredTasks
<1> QED BY <1>1, <1>2, <1>3 DEF Inv, TasksMatchProcesses

(* The failures before there is a task.                                    *)
LEMMA LoadWithoutTask ==
  ASSUME Inv, NEW p \in ProcessIds, load_no_data(p) \/ load_no_task(p)
  PROVE  Inv'
<1>1. UNCHANGED <<list, processes, current_process, user_mode>> /\ TypeOK'
  BY DEF load_no_data, load_no_task, table, Inv, TypeOK, list
<1>2. ListWellFormed'
  BY <1>1 DEF Inv, ListWellFormed, list
<1>3. TasksMatchProcesses'
  <2>1. p \notin heap_processes /\ heap_processes' = heap_processes \cup {p}
    BY DEF load_no_data, load_no_task
  <2>2. \A q \in heap_processes : process_task'[q] = process_task[q]
    BY <2>1 DEF load_no_data, load_no_task, table, Inv, TypeOK
  <2> QED BY <1>1, <2>1, <2>2, MatchKept DEF list
<1> QED BY <1>1, <1>2, <1>3 DEF Inv

(* The list is well formed whenever the allocated tasks keep their links.  *)
LEMMA ListKept ==
  ASSUME Inv, UNCHANGED <<task_head, task_tail, current_task, heap_tasks>>,
         \A t \in heap_tasks : next'[t] = next[t] /\ prev'[t] = prev[t]
  PROVE  ListWellFormed'
BY DEF Inv, ListWellFormed

(* A program whose segments cannot be mapped: the list is as before.       *)
LEMMA LoadNotMapped ==
  ASSUME Inv, NEW p \in ProcessIds, NEW t \in TaskIds, load_not_mapped(p, t)
  PROVE  /\ Inv'
         /\ UNCHANGED <<processes, current_process, task_head, task_tail,
                        current_task, heap_tasks>>
         /\ \A u \in heap_tasks : next'[u] = next[u] /\ prev'[u] = prev[u]
<1>1. /\ p \notin heap_processes /\ t \notin heap_tasks
      /\ heap_processes' = heap_processes \cup {p}
      /\ process_task' = [process_task EXCEPT ![p] = t]
      /\ SetList(task_list_remove(task_list_append(List, t), t))
      /\ task_process' = task_init(t, p)
      /\ result' = "EMAP"
      /\ UNCHANGED <<processes, current_process, heap_tasks, user_mode, undefined>>
  BY DEF load_not_mapped
<1>2. /\ task_head' = task_head /\ task_tail' = task_tail /\ current_task' = current_task
      /\ next' = [next EXCEPT ![t] = NULL]
      /\ prev' \in [TaskIds -> TaskIds \cup {NULL}]
      /\ \A u \in TaskIds \ {t} : prev'[u] = prev[u]
  BY <1>1, RemoveAppended DEF SetList
<1>3. \A u \in heap_tasks : next'[u] = next[u] /\ prev'[u] = prev[u]
  BY <1>1, <1>2 DEF Inv, TypeOK
<1>4. ListWellFormed'
  BY <1>1, <1>2, <1>3, ListKept
<1>5. TypeOK'
  BY <1>1, <1>2 DEF Inv, TypeOK, task_init
<1>6. TasksMatchProcesses'
  <2>1. /\ \A q \in heap_processes : process_task'[q] = process_task[q]
        /\ \A u \in heap_tasks : task_process'[u] = task_process[u]
    BY <1>1 DEF Inv, TypeOK, task_init
  <2> QED BY <1>1, <2>1, MatchKept
<1> QED BY <1>1, <1>2, <1>3, <1>4, <1>5, <1>6 DEF Inv

(* A successful load: the new task is the tail of the list ...             *)
LEMMA LoadOkList ==
  ASSUME Inv, NEW p \in ProcessIds, NEW t \in TaskIds, load_ok(p, t)
  PROVE  /\ {task_head', task_tail', current_task'} \subseteq TaskIds \cup {NULL}
         /\ next' \in [TaskIds -> TaskIds \cup {NULL}]
         /\ prev' \in [TaskIds -> TaskIds \cup {NULL}]
         /\ ListWellFormed'
<1>1. t \notin heap_tasks /\ heap_tasks' = heap_tasks \cup {t}
  BY DEF load_ok
<1>2. SetList(task_list_append(List, t))
  BY DEF load_ok
<1>3. CASE task_head = NULL
  <2>1. /\ task_head' = t /\ task_tail' = t /\ current_task' = t
        /\ next' = [next EXCEPT ![t] = NULL]
        /\ prev' = [prev EXCEPT ![t] = NULL]
    BY <1>2, <1>3, AppendFirst DEF SetList, Inv
  <2>2. \A u \in heap_tasks : /\ u \in TaskIds /\ u # t
                              /\ next[u] \in heap_tasks /\ prev[next[u]] = u
                              /\ prev[u] \in heap_tasks /\ next[prev[u]] = u
    BY <1>1, <1>3 DEF Inv, TypeOK, ListWellFormed
  <2>3. next'[t] = NULL /\ prev'[t] = NULL
    BY <2>1 DEF Inv, TypeOK
  <2>4. \A u \in heap_tasks : /\ next'[u] = next[u] /\ prev'[u] = prev[u]
                              /\ prev'[next[u]] = u /\ next'[prev[u]] = u
    BY <2>1, <2>2, <1>1 DEF Inv, TypeOK
  <2>5. ListWellFormed'
    BY <1>1, <2>1, <2>2, <2>3, <2>4 DEF ListWellFormed
  <2> QED BY <2>1, <2>5 DEF Inv, TypeOK
<1>4. CASE task_head # NULL
  <2>1. /\ task_head' = task_head /\ task_tail' = t /\ current_task' = current_task
        /\ next' = [next EXCEPT ![task_tail] = t, ![t] = NULL]
        /\ prev' = [prev EXCEPT ![t] = task_tail]
    BY <1>2, <1>4, AppendLast DEF SetList, Inv
  <2>2. /\ {task_head, task_tail, current_task} \subseteq heap_tasks
        /\ prev[task_head] = NULL /\ next[task_tail] = NULL
        /\ heap_tasks \subseteq TaskIds
    BY <1>4 DEF Inv, TypeOK, ListWellFormed
  <2>3. /\ next'[task_tail] = t /\ next'[t] = NULL /\ prev'[t] = task_tail
        /\ \A u \in heap_tasks : prev'[u] = prev[u] /\ (u # task_tail => next'[u] = next[u])
    BY <1>1, <2>1, <2>2 DEF Inv, TypeOK
  <2>4. ASSUME NEW u \in heap_tasks'
        PROVE  /\ u # t => next'[u] \in heap_tasks' /\ prev'[next'[u]] = u
               /\ u # task_head => prev'[u] \in heap_tasks' /\ next'[prev'[u]] = u
    <3>1. CASE u = t
      BY <1>1, <2>2, <2>3, <3>1
    <3>2. CASE u = task_tail
      <4>1. u # task_head => prev[u] \in heap_tasks /\ next[prev[u]] = u /\ prev[u] # task_tail
        BY <2>2, <3>2 DEF Inv, ListWellFormed
      <4> QED BY <1>1, <2>2, <2>3, <3>2, <4>1
    <3>3. CASE u # t /\ u # task_tail
      <4>1. u \in heap_tasks /\ next[u] \in heap_tasks /\ prev[next[u]] = u
        BY <1>1, <3>3 DEF Inv, ListWellFormed
      <4>2. u # task_head => prev[u] \in heap_tasks /\ next[prev[u]] = u /\ prev[u] # task_tail
        BY <2>2, <4>1 DEF Inv, ListWellFormed
      <4> QED BY <1>1, <2>2, <2>3, <3>3, <4>1, <4>2
    <3> QED BY <3>1, <3>2, <3>3
  <2>5. ListWellFormed'
    <3>1. task_head' # NULL /\ task_tail' # NULL /\ current_task' # NULL
      BY <1>4, <2>1 DEF Inv, ListWellFormed
    <3>2. /\ prev'[task_head'] = NULL /\ next'[task_tail'] = NULL
          /\ {task_head', task_tail', current_task'} \subseteq heap_tasks'
      BY <1>1, <2>1, <2>2, <2>3
    <3>3. \A u \in heap_tasks' :
            /\ u # task_tail' => next'[u] \in heap_tasks' /\ prev'[next'[u]] = u
            /\ u # task_head' => prev'[u] \in heap_tasks' /\ next'[prev'[u]] = u
      BY <2>1, <2>4
    <3> QED BY <3>1, <3>2, <3>3 DEF ListWellFormed
  <2> QED BY <2>1, <2>2, <2>5 DEF Inv, TypeOK
<1> QED BY <1>3, <1>4

(* ... and belongs to the process in the slot that was free.               *)
LEMMA LoadOk ==
  ASSUME Inv, NEW p \in ProcessIds, NEW t \in TaskIds, load_ok(p, t)
  PROVE  Inv'
<1> DEFINE slot == process_get_free_slot
<1>1. /\ p \notin heap_processes /\ t \notin heap_tasks
      /\ heap_processes' = heap_processes \cup {p}
      /\ heap_tasks' = heap_tasks \cup {t}
      /\ process_task' = [process_task EXCEPT ![p] = t]
      /\ task_process' = [task_process EXCEPT ![t] = p]
      /\ processes' = [processes EXCEPT ![slot] = p]
      /\ current_process' = p /\ result' = "ok"
      /\ UNCHANGED <<user_mode, undefined>>
  BY DEF load_ok, task_init
<1>2. slot \in Slots /\ processes[slot] = NULL
  BY FreeSlot DEF load_ok, Inv
<1> HIDE DEF slot
<1>3. TypeOK'
  BY <1>1, <1>2, LoadOkList DEF Inv, TypeOK
<1>4. p # NULL /\ p \notin Registered
  BY <1>1, RegisteredTasks
<1>5. Registered' = Registered \cup {p}
  <2>1. \A s \in Slots : processes'[s] = IF s = slot THEN p ELSE processes[s]
    BY <1>1 DEF Inv, TypeOK
  <2> QED BY <1>2, <1>4, <2>1 DEF Registered
<1>6. /\ process_task'[p] = t /\ task_process'[t] = p
      /\ \A q \in Registered : /\ process_task'[q] = process_task[q]
                                /\ task_process'[process_task[q]] = q
  BY <1>1, <1>4, RegisteredTasks DEF Inv, TypeOK
<1>7. TasksMatchProcesses'
  <2>1. heap_tasks' = TasksOfProcesses'
    BY <1>1, <1>5, <1>6 DEF Inv, TasksMatchProcesses, TasksOfProcesses
  <2>2. \A q \in Registered' : task_process'[process_task'[q]] = q
    BY <1>5, <1>6
  <2>3. \A s, r \in Slots : processes'[s] = processes'[r] => s = r \/ processes'[s] = NULL
    <3>1. \A s \in Slots : processes[s] # p
      BY <1>4 DEF Registered
    <3> QED BY <1>1, <1>2, <3>1 DEF Inv, TypeOK, TasksMatchProcesses
  <2>4. Registered' \subseteq heap_processes'
    BY <1>1, <1>5 DEF Inv, TasksMatchProcesses
  <2> QED BY <2>1, <2>2, <2>3, <2>4 DEF TasksMatchProcesses
<1> QED BY <1>3, <1>7, LoadOkList DEF Inv

-----------------------------------------------------------------------------

(* The empty table and the empty list at boot.                             *)
LEMMA InitInv == Init => Inv
<1> SUFFICES ASSUME Init PROVE Inv
  OBVIOUS
<1>1. TypeOK
  BY DEF Init, TypeOK
<1>2. ListWellFormed
  BY DEF Init, ListWellFormed
<1>3. Registered = {}
  BY DEF Init, Registered
<1>4. TasksMatchProcesses
  BY <1>3 DEF Init, TasksMatchProcesses, TasksOfProcesses
<1> QED BY <1>1, <1>2, <1>4 DEF Inv

(* Steps that leave the structures alone.                                  *)
LEMMA TablesUnchanged ==
  ASSUME Inv, UNCHANGED <<processes, current_process, heap_processes, process_task,
                          task_head, task_tail, heap_tasks, next, prev, task_process>>,
         current_task' \in {current_task, task_head}, task_head = NULL => current_task' = NULL,
         user_mode' \in BOOLEAN, undefined' \in BOOLEAN,
         result' \in {"ok", "EISTKN", "ENOMEM", "EDATA", "EMAP"}
  PROVE  Inv'
<1>1. TypeOK'
  BY DEF Inv, TypeOK
<1>2. ListWellFormed'
  BY DEF Inv, TypeOK, ListWellFormed
<1>3. TasksMatchProcesses'
  BY MatchKept
<1> QED BY <1>1, <1>2, <1>3 DEF Inv

(* Every step keeps the invariant.                                         *)
LEMMA NextInv == Inv /\ [Next]_vars => Inv'
<1> SUFFICES ASSUME Inv, [Next]_vars PROVE Inv'
  OBVIOUS
<1>1. CASE UNCHANGED vars
  BY <1>1, TablesUnchanged DEF vars, list, table, Inv, TypeOK, ListWellFormed
<1>2. CASE load_table_full \/ load_no_process
  BY <1>2, TablesUnchanged DEF load_table_full, load_no_process, list, table,
                               Inv, TypeOK, ListWellFormed
<1>3. CASE task_run_first_ever_task
  BY <1>3, TablesUnchanged DEF task_run_first_ever_task, table, Inv, TypeOK, ListWellFormed
<1>4. ASSUME NEW p \in ProcessIds, load_no_data(p) \/ load_no_task(p)
      PROVE  Inv'
  BY <1>4, LoadWithoutTask
<1>5. ASSUME NEW p \in ProcessIds, NEW t \in TaskIds, load_not_mapped(p, t) \/ load_ok(p, t)
      PROVE  Inv'
  BY <1>5, LoadNotMapped, LoadOk
<1> QED BY <1>1, <1>2, <1>3, <1>4, <1>5 DEF Next

(* The inductive invariant holds in every state.                           *)
THEOREM TaskProcessInvariant == Spec => []Inv
BY InitInv, NextInv, PTL DEF Spec

(* Table entries, links and back links stay pointers of their kind.        *)
THEOREM TaskProcessTypeOK == Spec => []TypeOK
<1>1. Inv => TypeOK
  BY DEF Inv
<1> QED BY <1>1, TaskProcessInvariant, PTL

(* task_new and task_free keep the list one that task_get_next can walk    *)
(* (task.c:34-79), whatever loads fail and at which step.                  *)
THEOREM TaskListWellFormed == Spec => []ListWellFormed
<1>1. Inv => ListWellFormed
  BY DEF Inv
<1> QED BY <1>1, TaskProcessInvariant, PTL

(* The allocated tasks are those of the processes in the table, one each   *)
(* (process_load_for_slot).                                                *)
THEOREM TasksAreOfProcesses == Spec => []TasksMatchProcesses
<1>1. Inv => TasksMatchProcesses
  BY DEF Inv
<1> QED BY <1>1, TaskProcessInvariant, PTL

(* A load that fails without undefined behaviour leaves table and list as  *)
(* they were (the error exit of process_load_for_slot, process.c:286).     *)
THEOREM FailedLoadsRollBack == Spec => FailedLoadRollsBack
<1> DEFINE RolledBack ==
      (result' # "ok" /\ ~undefined' /\ ~user_mode') =>
        /\ UNCHANGED <<processes, current_process>>
        /\ UNCHANGED <<task_head, task_tail, current_task, heap_tasks>>
        /\ \A t \in heap_tasks : next'[t] = next[t] /\ prev'[t] = prev[t]
<1>1. Inv /\ [Next]_vars => [RolledBack]_vars
  <2> SUFFICES ASSUME Inv, Next PROVE RolledBack
    OBVIOUS
  <2>1. CASE load_table_full \/ load_no_process
    BY <2>1 DEF load_table_full, load_no_process, list, table
  <2>2. CASE task_run_first_ever_task
    BY <2>2 DEF task_run_first_ever_task
  <2>3. ASSUME NEW p \in ProcessIds, load_no_data(p) \/ load_no_task(p)
        PROVE  RolledBack
    BY <2>3 DEF load_no_data, load_no_task, list, table
  <2>4. ASSUME NEW p \in ProcessIds, NEW t \in TaskIds, load_not_mapped(p, t)
        PROVE  RolledBack
    BY <2>4, LoadNotMapped
  <2>5. ASSUME NEW p \in ProcessIds, NEW t \in TaskIds, load_ok(p, t)
        PROVE  RolledBack
    BY <2>5 DEF load_ok
  <2> QED BY <2>1, <2>2, <2>3, <2>4, <2>5 DEF Next
<1> QED BY <1>1, TaskProcessInvariant, PTL DEF Spec, FailedLoadRollsBack

=============================================================================
