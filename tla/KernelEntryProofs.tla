------------------------- MODULE KernelEntryProofs -------------------------
(***************************************************************************)
(* Proofs about KernelEntry: for any number of tasks and any contents of   *)
(* the registers, user code runs in its own context, kernel code in the    *)
(* kernel's, and a program gets its registers back.                        *)
(***************************************************************************)
EXTENDS KernelEntry, TLAPS

(* Facts about the points of the kernel that the invariants need and do    *)
(* not say: interrupts are off in the kernel, the frame on the stack is    *)
(* what was pushed on entry, both returns to user code are made from the   *)
(* user's context, and the copy buffer is mapped only while print copies.  *)
InKernel == pc \in KernelPoints => frame = entry /\ ~interrupts

AtReturn ==
  pc \in {"irq_iret", "isr80h_iret"} => directory = current_task /\ segments = "user"

CopyMapping ==
  /\ tmp_writable \subseteq {current_task}
  /\ pc \notin {"copy_string", "copied"} => tmp_writable = {}

Inv ==
  /\ TypeOK
  /\ UserContext
  /\ KernelContext
  /\ SavedRegistersCurrent
  /\ InKernel
  /\ AtReturn
  /\ CopyMapping

USE KernelEntryAssumption

(* The states in which kernel_main calls task_run_first_ever_task satisfy  *)
(* the invariant.                                                          *)
LEMMA InitInv == Init => Inv
  <1> SUFFICES ASSUME Init PROVE Inv
    OBVIOUS
  <1>1. NewRegisters \in Registers
    BY DEF NewRegisters, Registers
  <1>2. TypeOK
    BY <1>1 DEF Init, TypeOK
  <1>3. frame = entry
    BY DEF Init
  <1>4. ~interrupts /\ pc = "boot" /\ tmp_writable = {}
    BY DEF Init
  <1> QED
    BY <1>2, <1>3, <1>4 DEF Inv, UserContext, KernelContext,
       SavedRegistersCurrent, InKernel, AtReturn, CopyMapping, KernelPoints

(* Every step keeps the types.                                             *)
LEMMA NextType == Inv /\ [Next]_vars => TypeOK'
  <1> SUFFICES ASSUME Inv, [Next]_vars PROVE TypeOK'
    OBVIOUS
  <1> USE DEF Inv, TypeOK, InKernel, Registers, KernelPoints, Goto
  <1>1. CASE UNCHANGED vars
    BY <1>1 DEF vars
  <1>2. CASE task_run_first_ever_task
    BY <1>2 DEF task_run_first_ever_task
  <1>3. CASE user_step
    BY <1>3 DEF user_step
  <1>4. CASE hardware_interrupt \/ int_80h
    BY <1>4 DEF hardware_interrupt, int_80h, Enter
  <1>5. CASE InterruptStep
    BY <1>5 DEF InterruptStep, interrupt_handler_callback,
       interrupt_handler_no_callback, key_released, key_pressed,
       interrupt_handler_return, interrupt_iret, kernel_page, task_page,
       task_save_state
  <1>6. CASE CommandStep
    <2>1. CASE isr80h_handler
      BY <2>1 DEF isr80h_handler, kernel_page, task_save_state
    <2>2. CASE isr80h_iret
      BY <2>2 DEF isr80h_iret
    <2>3. CASE CommandStep /\ ~isr80h_handler /\ ~isr80h_iret
      BY <2>3 DEF CommandStep, command_plain, command_with_argument,
         task_get_stack_item, second_argument, command0_sum, argument_used,
         copy_string_from_task, copy_string_copied, copy_string_done,
         isr80h_return, kernel_page, task_page, task_page_task
    <2> QED BY <1>6, <2>1, <2>2, <2>3
  <1> QED BY <1>1, <1>2, <1>3, <1>4, <1>5, <1>6 DEF Next

(* Every step of user code, of an interrupt and of a command keeps the     *)
(* invariant.                                                              *)
LEMMA NextInv == Inv /\ [Next]_vars => Inv'
  <1> SUFFICES ASSUME Inv, [Next]_vars PROVE Inv'
    OBVIOUS
  <1>0. TypeOK'
    BY NextType
  <1> USE DEF Inv, UserContext, KernelContext, SavedRegistersCurrent, InKernel,
              AtReturn, CopyMapping, KernelPoints, Goto
  <1>1. CASE UNCHANGED vars
    BY <1>0, <1>1 DEF vars
  <1>2. CASE task_run_first_ever_task
    BY <1>0, <1>2 DEF task_run_first_ever_task
  <1>3. CASE user_step
    BY <1>0, <1>3 DEF user_step
  <1>4. CASE hardware_interrupt \/ int_80h
    BY <1>0, <1>4 DEF hardware_interrupt, int_80h, Enter
  <1>5. CASE InterruptStep
    <2>1. CASE interrupt_handler_callback
      BY <1>0, <2>1 DEF interrupt_handler_callback, kernel_page,
         task_save_state, TypeOK
    <2>2. CASE interrupt_handler_no_callback
      BY <1>0, <2>2 DEF interrupt_handler_no_callback, kernel_page
    <2>3. CASE key_released \/ key_pressed
      BY <1>0, <2>3 DEF key_released, key_pressed, kernel_page, task_page
    <2>4. CASE interrupt_handler_return
      BY <1>0, <2>4 DEF interrupt_handler_return, task_page
    <2>5. CASE interrupt_iret
      BY <1>0, <2>5 DEF interrupt_iret
    <2> QED BY <1>5, <2>1, <2>2, <2>3, <2>4, <2>5 DEF InterruptStep
  <1>6. CASE CommandStep
    <2>1. CASE isr80h_handler
      BY <1>0, <2>1 DEF isr80h_handler, kernel_page, task_save_state, TypeOK
    <2>2. CASE command_plain \/ argument_used
      BY <1>0, <2>2 DEF command_plain, argument_used
    <2>3. CASE command_with_argument \/ second_argument
      BY <1>0, <2>3 DEF command_with_argument, second_argument, task_page_task
    <2>4. CASE task_get_stack_item \/ command0_sum
      BY <1>0, <2>4 DEF task_get_stack_item, command0_sum, kernel_page
    <2>5. CASE copy_string_from_task
      BY <1>0, <2>5 DEF copy_string_from_task
    <2>6. CASE copy_string_copied
      BY <1>0, <2>6 DEF copy_string_copied, kernel_page
    <2>7. CASE copy_string_done
      BY <1>0, <2>7 DEF copy_string_done
    <2>8. CASE isr80h_return
      BY <1>0, <2>8 DEF isr80h_return, task_page
    <2>9. CASE isr80h_iret
      BY <1>0, <2>9 DEF isr80h_iret
    <2> QED
      BY <1>6, <2>1, <2>2, <2>3, <2>4, <2>5, <2>6, <2>7, <2>8, <2>9
         DEF CommandStep
  <1> QED BY <1>1, <1>2, <1>3, <1>4, <1>5, <1>6 DEF Next

(* The conjunction is an invariant of the kernel's entry and exit paths.   *)
THEOREM KernelEntryInvariant == Spec => []Inv
  BY InitInv, NextInv, PTL DEF Spec

(* The variables keep their types; the frame the stub pops is the one it   *)
(* pushed, so the registers user code gets back hold user values.          *)
THEOREM KernelEntryTypeOK == Spec => []TypeOK
  <1>1. Inv => TypeOK
    BY DEF Inv
  <1> QED BY <1>1, KernelEntryInvariant, PTL

(* User code always runs on its own page directory and segments, with      *)
(* interrupts enabled and no copy buffer left mapped (idt.c, task.c).      *)
THEOREM KernelEntryUserContext == Spec => []UserContext
  <1>1. Inv => UserContext
    BY DEF Inv
  <1> QED BY <1>1, KernelEntryInvariant, PTL

(* Handlers and commands run on the kernel's page directory and segments.  *)
THEOREM KernelEntryKernelContext == Spec => []KernelContext
  <1>1. Inv => KernelContext
    BY DEF Inv
  <1> QED BY <1>1, KernelEntryInvariant, PTL

(* What task_get_stack_item reads of the current task's registers is what  *)
(* the interrupted program had (idt.c:102, task.c:201).                    *)
THEOREM KernelEntrySavedRegisters == Spec => []SavedRegistersCurrent
  <1>1. Inv => SavedRegistersCurrent
    BY DEF Inv
  <1> QED BY <1>1, KernelEntryInvariant, PTL

(* A program finds its registers as it left them, with the result of a     *)
(* command in eax (idt.asm).                                               *)
THEOREM KernelEntryRegistersPreserved == Spec => RegistersPreserved
  <1> DEFINE Kept ==
        /\ pc = "irq_iret" => regs' = entry
        /\ pc = "isr80h_iret" => regs' = [entry EXCEPT !.eax = tmp_res]
  <1>1. Inv /\ [Next]_vars => [Kept]_vars
    BY DEF Inv, InKernel, KernelPoints, Next, Goto, task_run_first_ever_task,
       user_step, hardware_interrupt, int_80h, Enter, InterruptStep,
       interrupt_handler_callback, interrupt_handler_no_callback, key_released,
       key_pressed, interrupt_handler_return, interrupt_iret, CommandStep,
       isr80h_handler, command_plain, command_with_argument,
       task_get_stack_item, second_argument, command0_sum, argument_used,
       copy_string_from_task, copy_string_copied, copy_string_done,
       isr80h_return, isr80h_iret, vars
  <1> QED BY <1>1, KernelEntryInvariant, PTL DEF Spec, RegistersPreserved
=============================================================================
