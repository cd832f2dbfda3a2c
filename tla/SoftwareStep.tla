---------------------------- MODULE SoftwareStep ----------------------------
(***************************************************************************)
(* Single-stepping a program (src/src/cpu.cpp,                             *)
(* src/src/system_registers.cpp): the software-step state machine over     *)
(* MDSCR_EL1.SS, PSTATE.SS and SPSR_EL1.SS, and how it meets interrupts,   *)
(* faults and system calls in one call of Cpu::step().                     *)
(*                                                                         *)
(* A kernel at EL1 steps a program at EL0; MDSCR_EL1.KDE is clear, so the  *)
(* kernel itself is not stepped, and handlers run with interrupts masked.  *)
(* OS Lock and OS Double Lock act alike and are one flag.                  *)
(***************************************************************************)
EXTENDS Naturals

CONSTANT UserIrqMask  \* the values PSTATE.I has in the stepped program

ASSUME UserIrqMaskAssumption == UserIrqMask \subseteq BOOLEAN

VARIABLES
  mdscr_ss,   \* MDSCR_EL1.SS
  locked,     \* os_lock_active() or double_lock_active()
  pstate,     \* [el, ss, i]
  spsr,       \* SPSR_EL1, of which the same fields matter
  cause,      \* the kind of the last exception taken
  known,      \* the remembered negative answer of the controller is current
  pending,    \* the controller has an interrupt this core could take
  armed,      \* history: the debugger has armed a step and not stopped stepping
  done        \* history: instructions the program completed since then,
              \* counted to 2

vars == <<mdscr_ss, locked, pstate, spsr, cause, known, pending, armed, done>>

InEl0 == pstate.el = 0

-----------------------------------------------------------------------------
(* The step state (system_registers.cpp, software_step_active_pending):    *)
(* debug exceptions are always enabled from EL0, and never from EL1 here.  *)

StepActive           == mdscr_ss /\ InEl0 /\ ~locked
StepActivePending    == StepActive /\ ~pstate.ss
StepActiveNotPending == StepActive /\ pstate.ss

\* Entry to an exception; `saved' is PSTATE.SS as SPSR_EL1 keeps it.
Enter(what, saved) ==
  /\ spsr' = [el |-> pstate.el, ss |-> saved, i |-> pstate.i]
  /\ pstate' = [el |-> 1, ss |-> FALSE, i |-> TRUE]
  /\ cause' = what

\* Mutant: a system call is stepped again.
SavedSs_SvcToo(what) == pstate.ss

\* Mutant: a fault uses the step up.
SavedSs_Never(what) == pstate.ss /\ ~StepActive

\* captured_pstate_for_sync_exception: a system call has been stepped, any
\* other exception will return to the instruction that is still to be stepped.
SavedSs(what) ==
  IF StepActiveNotPending THEN what # "svc" ELSE pstate.ss

-----------------------------------------------------------------------------
(* One call of step() in the program                                       *)

Looks       == ~pstate.i /\ ~known
TakesIrq    == Looks /\ pending
LooksInVain == Looks /\ ~pending

\* try_take_irq: PSTATE.SS is saved before it is cleared.
StepIrq ==
  /\ InEl0 /\ TakesIrq
  /\ Enter("irq", pstate.ss)
  /\ known' = FALSE /\ pending' = FALSE
  /\ UNCHANGED <<mdscr_ss, locked, armed, done>>

\* A look in vain is remembered.
AfterLook == known' = (known \/ LooksInVain)

\* maybe_take_software_step_before_instruction
StepBefore ==
  /\ InEl0 /\ ~TakesIrq /\ StepActivePending
  /\ Enter("step", pstate.ss)
  /\ AfterLook
  /\ UNCHANGED <<mdscr_ss, locked, pending, armed, done>>

Runs == InEl0 /\ ~TakesIrq /\ ~StepActivePending

Completed ==
  done' = IF ~StepActive THEN done ELSE IF done < 2 THEN done + 1 ELSE done

\* finish_instruction completes the step unless this call of step() took an
\* exception; try_take_irq claims to have taken one even when it looks in vain.
Completes == StepActiveNotPending /\ ~LooksInVain

\* An instruction that takes no exception.
Plain ==
  /\ Runs
  /\ IF Completes THEN Enter("step", FALSE)
                  ELSE UNCHANGED <<pstate, spsr, cause>>
  /\ AfterLook /\ Completed
  /\ UNCHANGED <<mdscr_ss, locked, pending, armed>>

Svc ==
  /\ Runs
  /\ Enter("svc", SavedSs("svc"))
  /\ AfterLook /\ Completed
  /\ UNCHANGED <<mdscr_ss, locked, pending, armed>>

\* A fault of the fetch or of the instruction: it does not complete.
Abort ==
  /\ Runs
  /\ Enter("abort", SavedSs("abort"))
  /\ AfterLook
  /\ UNCHANGED <<mdscr_ss, locked, pending, armed, done>>

-----------------------------------------------------------------------------
(* The kernel                                                              *)

WriteMdscr(on) ==
  /\ ~InEl0
  /\ mdscr_ss' = on
  /\ done' = 0 /\ armed' = FALSE
  /\ UNCHANGED <<locked, pstate, spsr, cause, known, pending>>

WriteOsLock(on) ==
  /\ ~InEl0
  /\ locked' = on
  /\ UNCHANGED <<mdscr_ss, pstate, spsr, cause, known, pending, armed, done>>

\* The debugger lets the program execute one more instruction.
Arm ==
  /\ ~InEl0 /\ cause = "step"
  /\ spsr' = [el |-> spsr.el, ss |-> TRUE, i |-> spsr.i]
  /\ done' = 0 /\ armed' = TRUE
  /\ UNCHANGED <<mdscr_ss, locked, pstate, cause, known, pending>>

\* exception_return: PSTATE.SS is taken from SPSR_EL1 only while stepping.
Eret ==
  /\ ~InEl0
  /\ pstate' = [el |-> spsr.el, ss |-> mdscr_ss /\ spsr.ss, i |-> spsr.i]
  /\ UNCHANGED <<mdscr_ss, locked, spsr, cause, known, pending, armed, done>>

\* Another core or a device changes the controller and so its epoch.
ControllerChanges ==
  /\ known' = FALSE
  /\ pending' \in BOOLEAN
  /\ UNCHANGED <<mdscr_ss, locked, pstate, spsr, cause, armed, done>>

Init ==
  /\ mdscr_ss \in BOOLEAN /\ locked \in BOOLEAN
  /\ pstate = [el |-> 1, ss |-> FALSE, i |-> TRUE]
  /\ spsr \in {[el |-> 0, ss |-> ss, i |-> i] : ss \in BOOLEAN, i \in UserIrqMask}
  /\ cause = "svc"
  /\ known = FALSE /\ pending = FALSE
  /\ armed = FALSE /\ done = 0

Next ==
  \/ StepIrq \/ StepBefore \/ Plain \/ Svc \/ Abort
  \/ \E on \in BOOLEAN : WriteMdscr(on) \/ WriteOsLock(on)
  \/ Arm \/ Eret \/ ControllerChanges

Spec == Init /\ [][Next]_vars

-----------------------------------------------------------------------------
(* Properties                                                              *)

(* A step executes one instruction and no second one, whatever faults,     *)
(* system calls and interrupts come in between (cpu.cpp, step and          *)
(* complete_software_step_after_instruction).                              *)
StepsOne == armed => done <= 1

\* The program is stepped with interrupts masked.
ProgramMasks == IF InEl0 THEN pstate.i ELSE spsr.i

(* In a program that masks interrupts a step executes one instruction and  *)
(* no second one, whatever faults and system calls come in between, and    *)
(* whatever the kernel does with the lock in their handlers (captured_     *)
(* pstate_for_sync_exception, finish_instruction).                         *)
MaskedStepsOne == ProgramMasks => StepsOne

(* A step that was armed brings the debugger back only after an            *)
(* instruction has completed: an interrupt or a fault in front of it, and  *)
(* what their handlers do, leave it armed (captured_pstate_for_sync_       *)
(* exception, try_take_irq, exception_return).                             *)
NoEmptyStep ==
  [][armed /\ InEl0 /\ ~InEl0' /\ cause' = "step" => done' >= 1]_vars
=============================================================================
