---------------------------- MODULE KernelEntry ----------------------------
(***************************************************************************)
(* Entering and leaving the kernel: the interrupt stubs (src/idt/idt.asm), *)
(* the handlers (src/idt/idt.c), the switches of page directory and        *)
(* segment registers (kernel_page, task_page, task_page_task,              *)
(* copy_string_from_task) and the entry into the first task                *)
(* (src/task/task.asm).  One step is one stretch of code between two       *)
(* switches.  Every gate is an interrupt gate (0xEE), so interrupts stay   *)
(* disabled until iret.                                                    *)
(*                                                                         *)
(* Programs are assumed to raise no processor exception: idt_zero returns  *)
(* with ret, and the stubs do not pop error codes.                         *)
(***************************************************************************)
EXTENDS Naturals

CONSTANTS
  Tasks,    \* the tasks on the list
  task_head,
  Vals,     \* contents of a register
  Zero,     \* what a new task's registers hold
  KernelStack  \* the frame pointer of kernel_main

ASSUME KernelEntryAssumption ==
  /\ task_head \in Tasks
  /\ Zero \in Vals /\ KernelStack \notin Vals

VARIABLES
  pc,            \* where the processor is; "user" is user code
  segments,      \* ds, es, fs, gs: "user" or "kernel"
  directory,     \* the page directory loaded: "kernel" or a task's
  interrupts,    \* the interrupt flag
  regs,          \* general registers of the running program
  frame,         \* the interrupt frame on the kernel stack
  registers,     \* task->registers
  current_task,
  tmp_res,       \* the result of a command
  tmp_writable,  \* tasks whose directory maps the copy buffer writable
  in_service,    \* the interrupt controller waits for an acknowledgement
  entry          \* ghost: the registers when the kernel was entered

vars == <<pc, segments, directory, interrupts, regs, frame, registers,
          current_task, tmp_res, tmp_writable, in_service, entry>>

Registers == [gpr : Vals, ebp : Vals \cup {KernelStack}, eax : Vals]

KernelPoints == {"interrupt_handler", "callback", "irq_return", "irq_iret",
                 "isr80h_handler", "command", "stack_item", "argument",
                 "second_item", "copy_string", "copied", "isr80h_return", "isr80h_iret"}

TypeOK ==
  /\ pc \in {"boot", "user"} \cup KernelPoints
  /\ segments \in {"user", "kernel"}
  /\ directory \in Tasks \cup {"kernel"}
  /\ interrupts \in BOOLEAN
  /\ regs \in Registers /\ frame \in Registers /\ entry \in Registers
  /\ registers \in [Tasks -> Registers]
  /\ current_task \in Tasks
  /\ tmp_res \in Vals
  /\ tmp_writable \subseteq Tasks
  /\ in_service \in BOOLEAN

NewRegisters == [gpr |-> Zero, ebp |-> Zero, eax |-> Zero]

Init ==
  /\ pc = "boot"
  /\ segments = "kernel"
  /\ directory = "kernel"
  /\ interrupts = FALSE
  /\ regs = NewRegisters
  /\ frame = NewRegisters
  /\ registers = [t \in Tasks |-> NewRegisters]
  /\ current_task = task_head
  /\ tmp_res = Zero
  /\ tmp_writable = {}
  /\ in_service = FALSE
  /\ entry = NewRegisters

-----------------------------------------------------------------------------
(* The switches.                                                           *)

kernel_page == segments' = "kernel" /\ directory' = "kernel"

task_page == segments' = "user" /\ directory' = current_task

task_page_task(t) == segments' = "user" /\ directory' = t

(* task_current_save_state: the frame into the current task.               *)
task_save_state == registers' = [registers EXCEPT ![current_task] = frame]

Goto(from, to) == pc = from /\ pc' = to

-----------------------------------------------------------------------------
(* User mode.                                                              *)

(* task_run_first_ever_task and task_return.  The registers come from the  *)
(* task, except ebp: restore_general_purpose_registers loads it and then   *)
(* pops the value of its caller over it.  The flags pushed have the        *)
(* interrupt flag set.                                                     *)
task_run_first_ever_task ==
  /\ Goto("boot", "user")
  /\ current_task' = task_head
  /\ directory' = task_head
  /\ segments' = "user"
  /\ regs' = [registers[task_head] EXCEPT !.ebp = KernelStack]
  /\ interrupts' = TRUE
  /\ UNCHANGED <<frame, registers, tmp_res, tmp_writable, in_service, entry>>

(* The program computes.                                                   *)
user_step ==
  /\ Goto("user", "user")
  /\ regs' \in [gpr : Vals, ebp : Vals, eax : Vals]
  /\ UNCHANGED <<segments, directory, interrupts, frame, registers,
                 current_task, tmp_res, tmp_writable, in_service, entry>>

(* An interrupt or int instruction: the gate clears the interrupt flag and *)
(* the stub pushes all the registers.                                      *)
Enter(point) ==
  /\ Goto("user", point)
  /\ interrupts' = FALSE
  /\ frame' = regs
  /\ entry' = regs
  /\ UNCHANGED <<segments, directory, regs, registers, current_task, tmp_res,
                 tmp_writable>>

(* The controller raises no second interrupt before the acknowledgement.   *)
hardware_interrupt ==
  /\ interrupts
  /\ ~in_service
  /\ in_service' = TRUE
  /\ Enter("interrupt_handler")

int_80h ==
  /\ UNCHANGED in_service
  /\ Enter("isr80h_handler")

-----------------------------------------------------------------------------
(* Hardware interrupts.                                                    *)

(* The interrupt has a callback: the keyboard's.                           *)
interrupt_handler_callback ==
  /\ Goto("interrupt_handler", "callback")
  /\ kernel_page
  /\ task_save_state
  /\ UNCHANGED <<interrupts, regs, frame, current_task, tmp_res, tmp_writable,
                 in_service, entry>>

interrupt_handler_no_callback ==
  /\ Goto("interrupt_handler", "irq_return")
  /\ kernel_page
  /\ UNCHANGED <<interrupts, regs, frame, registers, current_task, tmp_res,
                 tmp_writable, in_service, entry>>

(* classic_keyboard_handle_interrupt: a released key returns at once, a    *)
(* pressed one is pushed and the user page is already switched to.         *)
key_released ==
  /\ Goto("callback", "irq_return")
  /\ kernel_page
  /\ UNCHANGED <<interrupts, regs, frame, registers, current_task, tmp_res,
                 tmp_writable, in_service, entry>>

key_pressed ==
  /\ Goto("callback", "irq_return")
  /\ task_page
  /\ UNCHANGED <<interrupts, regs, frame, registers, current_task, tmp_res,
                 tmp_writable, in_service, entry>>

(* Fault: the acknowledgement is left to the callback, which sends none.   *)
Fault_NoAck ==
  /\ Goto("irq_return", "irq_iret")
  /\ task_page
  /\ UNCHANGED <<interrupts, regs, frame, registers, current_task, tmp_res,
                 tmp_writable, entry, in_service>>

(* The end of interrupt_handler: user page, acknowledgement.               *)
interrupt_handler_return ==
  /\ Goto("irq_return", "irq_iret")
  /\ task_page
  /\ in_service' = FALSE
  /\ UNCHANGED <<interrupts, regs, frame, registers, current_task, tmp_res,
                 tmp_writable, entry>>

(* popad and iret.                                                         *)
interrupt_iret ==
  /\ Goto("irq_iret", "user")
  /\ regs' = frame
  /\ interrupts' = TRUE
  /\ UNCHANGED <<segments, directory, frame, registers, current_task, tmp_res,
                 tmp_writable, in_service, entry>>

-----------------------------------------------------------------------------
(* Commands.                                                               *)

(* Fault: the registers are not saved into the task.                       *)
Fault_NoSave ==
  /\ Goto("isr80h_handler", "command")
  /\ kernel_page
  /\ UNCHANGED <<interrupts, regs, frame, registers, current_task, tmp_res,
                 tmp_writable, in_service, entry>>

isr80h_handler ==
  /\ Goto("isr80h_handler", "command")
  /\ kernel_page
  /\ task_save_state
  /\ UNCHANGED <<interrupts, regs, frame, current_task, tmp_res, tmp_writable,
                 in_service, entry>>

(* A command without arguments, or a number that is no command: its        *)
(* result, or 0.                                                           *)
command_plain ==
  /\ Goto("command", "isr80h_return")
  /\ tmp_res' \in Vals
  /\ UNCHANGED <<segments, directory, interrupts, regs, frame, registers,
                 current_task, tmp_writable, in_service, entry>>

(* task_get_stack_item: read the program's stack through its directory.    *)
command_with_argument ==
  /\ Goto("command", "stack_item")
  /\ task_page_task(current_task)
  /\ UNCHANGED <<interrupts, regs, frame, registers, current_task, tmp_res,
                 tmp_writable, in_service, entry>>

(* Fault: the kernel page is not restored after the stack was read.        *)
Fault_StaysOnTaskPage ==
  /\ Goto("stack_item", "argument")
  /\ UNCHANGED <<segments, directory, interrupts, regs, frame, registers,
                 current_task, tmp_res, tmp_writable, in_service, entry>>

task_get_stack_item ==
  /\ Goto("stack_item", "argument")
  /\ kernel_page
  /\ UNCHANGED <<interrupts, regs, frame, registers, current_task, tmp_res,
                 tmp_writable, in_service, entry>>

(* sum reads a second argument the same way and adds the two.              *)
second_argument ==
  /\ Goto("argument", "second_item")
  /\ task_page_task(current_task)
  /\ UNCHANGED <<interrupts, regs, frame, registers, current_task, tmp_res,
                 tmp_writable, in_service, entry>>

command0_sum ==
  /\ Goto("second_item", "isr80h_return")
  /\ kernel_page
  /\ tmp_res' \in Vals
  /\ UNCHANGED <<interrupts, regs, frame, registers, current_task,
                 tmp_writable, in_service, entry>>

(* The other commands, and print when the copy buffer cannot be allocated. *)
argument_used ==
  /\ Goto("argument", "isr80h_return")
  /\ tmp_res' \in Vals
  /\ UNCHANGED <<segments, directory, interrupts, regs, frame, registers,
                 current_task, tmp_writable, in_service, entry>>

(* print: copy_string_from_task maps the buffer into the task and switches *)
(* to the task's directory; the segments stay the kernel's.                *)
copy_string_from_task ==
  /\ Goto("argument", "copy_string")
  /\ tmp_writable' = tmp_writable \cup {current_task}
  /\ directory' = current_task
  /\ UNCHANGED <<segments, interrupts, regs, frame, registers, current_task,
                 tmp_res, in_service, entry>>

copy_string_copied ==
  /\ Goto("copy_string", "copied")
  /\ kernel_page
  /\ UNCHANGED <<interrupts, regs, frame, registers, current_task, tmp_res,
                 tmp_writable, in_service, entry>>

(* Fault: the old page table entry is not put back.                        *)
Fault_MappingKept ==
  /\ Goto("copied", "isr80h_return")
  /\ tmp_res' = Zero
  /\ UNCHANGED <<segments, directory, interrupts, regs, frame, registers,
                 current_task, tmp_writable, in_service, entry>>

(* The old page table entry is put back, the buffer freed, the text        *)
(* printed.                                                                *)
copy_string_done ==
  /\ Goto("copied", "isr80h_return")
  /\ tmp_writable' = tmp_writable \ {current_task}
  /\ tmp_res' = Zero
  /\ UNCHANGED <<segments, directory, interrupts, regs, frame, registers,
                 current_task, in_service, entry>>

isr80h_return ==
  /\ Goto("isr80h_return", "isr80h_iret")
  /\ task_page
  /\ UNCHANGED <<interrupts, regs, frame, registers, current_task, tmp_res,
                 tmp_writable, in_service, entry>>

(* Fault: popad comes after eax was loaded with the result.                *)
Fault_ResultLost ==
  /\ Goto("isr80h_iret", "user")
  /\ regs' = frame
  /\ interrupts' = TRUE
  /\ UNCHANGED <<segments, directory, frame, registers, current_task, tmp_res,
                 tmp_writable, in_service, entry>>

(* Fault: popad is missing, the program gets the registers of the kernel.  *)
Fault_NoPop ==
  /\ Goto("isr80h_iret", "user")
  /\ regs' = [gpr |-> KernelStack, ebp |-> KernelStack, eax |-> tmp_res]
  /\ interrupts' = TRUE
  /\ UNCHANGED <<segments, directory, frame, registers, current_task, tmp_res,
                 tmp_writable, in_service, entry>>

(* popad, the result into eax, iretd.                                      *)
isr80h_iret ==
  /\ Goto("isr80h_iret", "user")
  /\ regs' = [frame EXCEPT !.eax = tmp_res]
  /\ interrupts' = TRUE
  /\ UNCHANGED <<segments, directory, frame, registers, current_task, tmp_res,
                 tmp_writable, in_service, entry>>

-----------------------------------------------------------------------------

InterruptStep ==
  \/ interrupt_handler_callback \/ interrupt_handler_no_callback
  \/ key_released \/ key_pressed
  \/ interrupt_handler_return \/ interrupt_iret

CommandStep ==
  \/ isr80h_handler
  \/ command_plain \/ command_with_argument \/ task_get_stack_item
  \/ second_argument \/ command0_sum \/ argument_used
  \/ copy_string_from_task \/ copy_string_copied \/ copy_string_done
  \/ isr80h_return \/ isr80h_iret

Next ==
  \/ task_run_first_ever_task
  \/ user_step
  \/ hardware_interrupt \/ int_80h
  \/ InterruptStep
  \/ CommandStep

(* The processor goes on executing kernel code.                            *)
Fairness == WF_vars(InterruptStep \/ CommandStep)

Spec == Init /\ [][Next]_vars /\ Fairness

-----------------------------------------------------------------------------

(* User code runs with its own page directory and the user segments, with  *)
(* interrupts enabled and with no kernel page mapped writable, whichever   *)
(* path through the kernel led back to it.                                 *)
UserContext ==
  pc = "user" => /\ directory = current_task
                 /\ segments = "user"
                 /\ interrupts
                 /\ tmp_writable = {}

(* The kernel handles interrupts and commands, and touches its own data,   *)
(* on its own page directory and segments.                                 *)
KernelContext ==
  pc \in {"callback", "command", "argument", "copied"} =>
     directory = "kernel" /\ segments = "kernel"

(* While a command or a callback runs, task->registers of the current task *)
(* are those of the program that was interrupted: task_get_stack_item      *)
(* takes the stack pointer from there.                                     *)
SavedRegistersCurrent ==
  pc \in {"callback", "command", "stack_item", "argument", "second_item",
          "copy_string", "copied", "isr80h_return"} => registers[current_task] = entry

(* A program that is interrupted finds its registers as they were; one     *)
(* that makes a call finds the result in eax and the others as they were.  *)
RegistersPreserved ==
  [][/\ pc = "irq_iret" => regs' = entry
     /\ pc = "isr80h_iret" => regs' = [entry EXCEPT !.eax = tmp_res]]_vars

(* Every interrupt is acknowledged, so the next one can arrive.            *)
Acknowledged == in_service ~> ~in_service

=============================================================================
