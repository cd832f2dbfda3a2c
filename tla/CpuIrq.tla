------------------------------- MODULE CpuIrq -------------------------------
(***************************************************************************)
(* The CPU side of interrupt delivery (src/src/cpu.cpp): when a core looks *)
(* at the controller at all (should_try_irq and its memory of negative     *)
(* answers), taking an IRQ, the two bookkeeping stacks behind              *)
(* ICC_IAR1/EOIR1/DIR (exceptions, and manual acknowledgements), ERET, and *)
(* the WFI and WFE waits.  All cores share the controller of GicV3.        *)
(*                                                                         *)
(* One step of a core is one call of Cpu::step(): it either takes an IRQ,  *)
(* or executes one instruction after a fruitless look at the controller,   *)
(* or polls while waiting.  Cores interleave.                              *)
(***************************************************************************)
EXTENDS GicV3, Sequences

CONSTANTS
  MaxExcDepth,  \* kExceptionStackCapacity (64), for both stacks
  Setups        \* the guests and devices the cores are run with

\* Controller registers written, waits, and synchronous exceptions.
GuestFeatures == {"enabler", "activer", "pendr", "ipriorityr", "wfi", "wfe", "svc"}

Setup == [lines    : SUBSET IntIds,         \* INTIDs driven by a device line (set_level)
          messages : SUBSET IntIds,         \* INTIDs pended directly (set_pending, SGIs)
          pmrs     : SUBSET Prio,           \* the priority masks the guest writes
          eoimodes : SUBSET BOOLEAN,        \* the ICC_CTLR_EL1.EOImode it writes
          uses     : SUBSET GuestFeatures,  \* what else it does
          tidy     : BOOLEAN]               \* it keeps to the rules of the repository's
                                            \* own tests (see GuestMayEoir)

ASSUME CpuAssumption == MaxExcDepth \in Nat \ {0} /\ Setups \subseteq Setup

\* running_priority_ of a core that handles nothing: 0x100.
IdlePrio == MaxPrio + 1

RunPrio == 0 .. IdlePrio

Frame       == [is_irq : BOOLEAN, intid : 0 .. NumIntIds, prev_prio : RunPrio, dropped : BOOLEAN]
ManualFrame == [intid : IntIds, prev_prio : RunPrio, dropped : BOOLEAN]
Query       == [valid : BOOLEAN, epoch : Nat, threshold : Prio]

Acknowledged == [intid : IntIds, prio : Prio, manual : BOOLEAN]

Core == [masked    : BOOLEAN,   \* PSTATE.I
         igrpen1   : BOOLEAN,   \* ICC_IGRPEN1_EL1
         drop_only : BOOLEAN,   \* ICC_CTLR_EL1.EOImode
         pmr       : Prio,      \* ICC_PMR_EL1
         running   : RunPrio,   \* running_priority_
         threshold : Prio,      \* irq_delivery_threshold_
         query     : Query,     \* irq_query_*: the last negative answer
         exc       : Seq(Frame),
         manual    : Seq(ManualFrame),
         wfi       : BOOLEAN,
         wfe       : BOOLEAN,
         event     : BOOLEAN,
         halted    : {"no", "last", "yes"}]  \* halted_; see Executing

VARIABLES
  setup,   \* the guest and the devices, chosen at the start
  core,    \* per-CPU state
  apr,     \* history: per CPU, what is acknowledged and not yet ended, the
           \* stack an architectural CPU interface keeps in ICC_AP1R
  waived   \* history: the lines the guest has silenced by register writes

vars == <<setup, gic, core, apr, waived>>

-----------------------------------------------------------------------------
(* Helpers on a core                                                       *)

Lesser(a, b) == IF a < b THEN a ELSE b

Top(stack) == stack[Len(stack)]
Pop(stack) == SubSeq(stack, 1, Len(stack) - 1)

\* refresh_irq_threshold_cache
Refresh(c) == [c EXCEPT !.threshold = Lesser(c.pmr, c.running)]

RunAt(c, prio) == Refresh([c EXCEPT !.running = prio])

ResetCore ==
  Refresh([masked    |-> FALSE,
           igrpen1   |-> FALSE,
           drop_only |-> FALSE,
           pmr       |-> MaxPrio,
           running   |-> IdlePrio,
           threshold |-> MaxPrio,
           query     |-> [valid |-> FALSE, epoch |-> 0, threshold |-> 0],
           exc       |-> <<>>,
           manual    |-> <<>>,
           wfi       |-> FALSE,
           wfe       |-> FALSE,
           event     |-> FALSE,
           halted    |-> "no"])

KnownNegative(g, c) ==
  c.query.valid /\ c.query.epoch = g.epoch /\ c.query.threshold = c.threshold

ShouldTryIrq(g, c) == ~c.masked /\ c.igrpen1 /\ ~KnownNegative(g, c)

NoteNegative(g, c) ==
  [c EXCEPT !.query = [valid |-> TRUE, epoch |-> g.epoch, threshold |-> c.threshold]]

\* Only irq_query_negative_valid_ is cleared; the other two fields are dead then.
NoQuery           == [valid |-> FALSE, epoch |-> 0, threshold |-> 0]
ForgetNegative(c) == [c EXCEPT !.query = NoQuery]

-----------------------------------------------------------------------------
(* try_take_irq.  The interrupt is acknowledged before the depth check: a  *)
(* full stack stops the core with the interrupt already active.            *)

Deliverable(g, p, c) == HighestPending(g, p, c.threshold) # Spurious

\* Mutant: the frame does not remember the interrupted priority.
EnterIrq_ForgetsPriority(g, p, c) ==
  LET intid == HighestPending(g, p, c.threshold)
      frame == [is_irq |-> TRUE, intid |-> intid, prev_prio |-> IdlePrio, dropped |-> FALSE]
  IN  RunAt([ForgetNegative(c) EXCEPT !.exc = Append(@, frame), !.masked = TRUE],
            Priority(g, p, intid))

EnterIrq(g, p, c) ==
  LET intid == HighestPending(g, p, c.threshold)
      frame == [is_irq |-> TRUE, intid |-> intid, prev_prio |-> c.running, dropped |-> FALSE]
  IN  RunAt([ForgetNegative(c) EXCEPT !.exc = Append(@, frame), !.masked = TRUE],
            Priority(g, p, intid))

\* The history of acknowledgements after core p acknowledges at its threshold.
Acked(g, p, c, manual) ==
  LET intid == HighestPending(g, p, c.threshold)
  IN  [apr EXCEPT ![p] = Append(@, [intid  |-> intid,
                                    prio   |-> Priority(g, p, intid),
                                    manual |-> manual])]

\* Core p acknowledges an interrupt in this step; c is its state at that point
\* of step(), `stuck' its state if the exception stack has no room.
TakeIrq(p, g, c, stuck) ==
  /\ ShouldTryIrq(g, c) /\ Deliverable(g, p, c)
  /\ Becomes(AfterAcknowledge(g, p, c.threshold))
  /\ core' = [core EXCEPT ![p] = IF Len(c.exc) < MaxExcDepth THEN EnterIrq(g, p, c)
                                                            ELSE ForgetNegative(stuck)]
  /\ apr' = Acked(g, p, c, FALSE)
  /\ UNCHANGED waived

-----------------------------------------------------------------------------
(* A step of a waiting core                                                *)

\* WFI ends when anything at all is pending for the core, masked or not, and
\* the interrupt is taken in the same step if it can be.
WfiStep(p) ==
  LET c     == core[p]
      g     == AfterHasPending(gic, p, MaxPrio)
      awake == [c EXCEPT !.wfi = FALSE]
      tried == IF ShouldTryIrq(g, awake) THEN NoteNegative(g, awake) ELSE awake
  IN  /\ c.halted = "no" /\ c.wfi
      /\ \/ /\ ~HasPending(gic, p, MaxPrio)
            /\ Becomes(g)
            /\ UNCHANGED <<core, apr, waived>>
         \/ /\ HasPending(gic, p, MaxPrio)
            /\ TakeIrq(p, g, awake, [awake EXCEPT !.halted = "yes"])
         \/ /\ HasPending(gic, p, MaxPrio)
            /\ ~(ShouldTryIrq(g, awake) /\ Deliverable(g, p, awake))
            /\ Becomes(g)
            /\ core' = [core EXCEPT ![p] = tried]
            /\ UNCHANGED <<apr, waived>>

\* irq_wakeup_ready consults the controller only when IRQs are unmasked and the
\* last negative answer is out of date.
IrqWakeupReady(g, p, c) == ShouldTryIrq(g, c) /\ HasPending(g, p, c.threshold)

AfterIrqWakeupReady(g, p, c) ==
  IF ShouldTryIrq(g, c) /\ ~HasPending(g, p, c.threshold) THEN NoteNegative(g, c) ELSE c

GicAfterIrqWakeupReady(g, p, c) ==
  IF ShouldTryIrq(g, c) THEN AfterHasPending(g, p, c.threshold) ELSE g

WfeStep(p) ==
  LET c == core[p]
      g == GicAfterIrqWakeupReady(gic, p, c)
  IN  /\ c.halted = "no" /\ ~c.wfi /\ c.wfe
      /\ \/ /\ c.event
            /\ core' = [core EXCEPT ![p].event = FALSE, ![p].wfe = FALSE]
            /\ UNCHANGED <<gic, apr, waived>>
         \/ /\ ~c.event /\ ~IrqWakeupReady(gic, p, c)
            /\ Becomes(g)
            /\ core' = [core EXCEPT ![p] = AfterIrqWakeupReady(gic, p, c)]
            /\ UNCHANGED <<apr, waived>>
         \/ /\ ~c.event /\ IrqWakeupReady(gic, p, c)
            /\ TakeIrq(p, g, [c EXCEPT !.wfe = FALSE], [c EXCEPT !.halted = "yes"])

\* The scheduler's ready_to_run asks the same questions without stepping.
ReadyToRun(p) ==
  LET c == core[p]
  IN  /\ c.halted = "no" /\ (c.wfi \/ c.wfe)
      /\ \/ /\ c.wfi
            /\ Becomes(AfterHasPending(gic, p, MaxPrio))
            /\ UNCHANGED core
         \/ /\ ~c.wfi /\ ~c.event
            /\ Becomes(GicAfterIrqWakeupReady(gic, p, c))
            /\ core' = [core EXCEPT ![p] = AfterIrqWakeupReady(gic, p, c)]
      /\ UNCHANGED <<apr, waived>>

IrqStep(p) ==
  LET c == core[p]
  IN  /\ c.halted = "no" /\ ~c.wfi /\ ~c.wfe
      /\ TakeIrq(p, gic, c, [c EXCEPT !.halted = "last"])

-----------------------------------------------------------------------------
(* Instructions.  An instruction runs only when no IRQ is taken; the look  *)
(* at the controller that step() makes first leaves its trace in `query'.  *)
(* When the stack is full try_take_irq sets halted_ but returns false, and *)
(* step() goes on to execute its instruction: the core's last one.         *)

Executing(p) ==
  LET c == core[p]
  IN  /\ ~c.wfi /\ ~c.wfe
      /\ \/ c.halted = "no" /\ ~(ShouldTryIrq(gic, c) /\ Deliverable(gic, p, c))
         \/ c.halted = "last"

Fetched(p) ==
  LET c == core[p]
  IN  IF c.halted = "last" THEN [c EXCEPT !.halted = "yes"]
      ELSE IF ShouldTryIrq(gic, c) THEN NoteNegative(gic, c) ELSE c

Execute(p, c) == Executing(p) /\ core' = [core EXCEPT ![p] = c]

MsrDaif(p, masked) ==
  /\ Execute(p, [Fetched(p) EXCEPT !.masked = masked])
  /\ UNCHANGED <<gic, apr, waived>>

WriteIccPmr(p, pmr) ==
  /\ Execute(p, Refresh([Fetched(p) EXCEPT !.pmr = pmr]))
  /\ UNCHANGED <<gic, apr, waived>>

WriteIccIgrpen1(p, on) ==
  /\ Execute(p, [Fetched(p) EXCEPT !.igrpen1 = on])
  /\ UNCHANGED <<gic, apr, waived>>

WriteIccCtlr(p, drop_only) ==
  /\ Execute(p, [Fetched(p) EXCEPT !.drop_only = drop_only])
  /\ UNCHANGED <<gic, apr, waived>>

LastAcked(p, intid) == apr[p] # <<>> /\ Top(apr[p]).intid = intid

InIrqFrame(c) == c.exc # <<>> /\ Top(c.exc).is_irq

\* ICC_IAR1_EL1 in an IRQ handler repeats the INTID the entry acknowledged;
\* elsewhere it acknowledges by itself and remembers that on the manual stack.
IarAcknowledges(c) == ~InIrqFrame(c) /\ c.igrpen1 /\ Len(c.manual) < MaxExcDepth

ReadIccIar1(p) ==
  LET c     == Fetched(p)
      intid == HighestPending(gic, p, c.threshold)
      frame == [intid |-> intid, prev_prio |-> c.running, dropped |-> FALSE]
  IN  /\ Executing(p)
      /\ \/ /\ ~IarAcknowledges(c)
            /\ core' = [core EXCEPT ![p] = c]
            /\ UNCHANGED <<gic, apr>>
         \/ /\ IarAcknowledges(c) /\ intid = Spurious
            /\ core' = [core EXCEPT ![p] = NoteNegative(gic, c)]
            /\ UNCHANGED <<gic, apr>>
         \/ /\ IarAcknowledges(c) /\ intid # Spurious
            /\ Becomes(AfterAcknowledge(gic, p, c.threshold))
            /\ core' = [core EXCEPT ![p] =
                 RunAt([ForgetNegative(c) EXCEPT !.manual = Append(@, frame)],
                       Priority(gic, p, intid))]
            /\ apr' = Acked(gic, p, c, TRUE)
      /\ UNCHANGED waived

\* icc_priority_drop
WriteIccEoir1(p, intid) ==
  LET c     == Fetched(p)
      inIrq == InIrqFrame(c) /\ Top(c.exc).intid = intid
      inMan == ~inIrq /\ c.manual # <<>> /\ Top(c.manual).intid = intid
  IN  /\ Executing(p)
      /\ IF inIrq \/ inMan
         THEN Becomes(IF c.drop_only THEN gic ELSE Eoi(gic, p, intid))
         ELSE UNCHANGED gic
      /\ core' = [core EXCEPT ![p] =
           CASE inIrq -> RunAt([c EXCEPT !.exc[Len(c.exc)].dropped = TRUE],
                               Top(c.exc).prev_prio)
             [] inMan -> RunAt([c EXCEPT !.manual =
                                  IF c.drop_only
                                  THEN [@ EXCEPT ![Len(c.manual)].dropped = TRUE]
                                  ELSE Pop(@)],
                               Top(c.manual).prev_prio)
             [] OTHER -> c]
      /\ apr' = [apr EXCEPT ![p] = IF LastAcked(p, intid) THEN Pop(@) ELSE @]
      /\ UNCHANGED waived

\* icc_deactivate
WriteIccDir(p, intid) ==
  LET c     == Fetched(p)
      inMan == c.manual # <<>> /\ Top(c.manual).intid = intid /\ Top(c.manual).dropped
  IN  /\ Execute(p, IF inMan THEN [c EXCEPT !.manual = Pop(@)] ELSE c)
      /\ Becomes(Eoi(gic, p, intid))
      /\ UNCHANGED <<apr, waived>>

\* ERET ends the interrupt of an IRQ frame whose handler wrote no EOIR.
Eret(p, masked) ==
  LET c      == Fetched(p)
      frame  == Top(c.exc)
      ends   == c.exc # <<>> /\ frame.is_irq /\ ~frame.dropped
      popped == IF c.exc = <<>> THEN c ELSE [c EXCEPT !.exc = Pop(@)]
      c1     == [popped EXCEPT !.masked = masked]
  IN  /\ Execute(p, IF ends THEN RunAt(c1, frame.prev_prio) ELSE c1)
      /\ IF ends THEN Becomes(Eoi(gic, p, frame.intid)) ELSE UNCHANGED gic
      /\ apr' = [apr EXCEPT ![p] = IF ends /\ LastAcked(p, frame.intid) THEN Pop(@) ELSE @]
      /\ UNCHANGED waived

\* enter_sync_exception: SVC, a fault, a trap.
SyncException(p) ==
  LET c     == Fetched(p)
      frame == [is_irq |-> FALSE, intid |-> 0, prev_prio |-> c.running, dropped |-> TRUE]
  IN  /\ Execute(p, IF Len(c.exc) >= MaxExcDepth
                    THEN [c EXCEPT !.halted = "yes"]
                    ELSE [c EXCEPT !.exc = Append(@, frame), !.masked = TRUE])
      /\ UNCHANGED <<gic, apr, waived>>

Wfi(p) ==
  /\ Execute(p, [Fetched(p) EXCEPT !.wfi = TRUE])
  /\ UNCHANGED <<gic, apr, waived>>

Wfe(p) ==
  LET c == Fetched(p)
  IN  /\ Execute(p, IF c.event THEN [c EXCEPT !.event = FALSE] ELSE [c EXCEPT !.wfe = TRUE])
      /\ UNCHANGED <<gic, apr, waived>>

\* SEV reaches every core through SoC::broadcast_event, the sender included.
Sev(p) ==
  /\ Executing(p)
  /\ core' = [q \in Cpus |-> [(IF q = p THEN Fetched(p) ELSE core[q]) EXCEPT !.event = TRUE]]
  /\ UNCHANGED <<gic, apr, waived>>

Sgi(p, intid, irm, list) ==
  /\ Execute(p, Fetched(p))
  /\ Becomes(SendSgi(gic, p, intid, irm, list))
  /\ UNCHANGED <<apr, waived>>

\* The interrupts some core has acknowledged and not ended.
Handled == UNION {{SlotOf(q, apr[q][k].intid) : k \in DOMAIN apr[q]} : q \in Cpus}

\* Stores to the controller's registers.  ICPENDR and ICACTIVER can silence a
\* line that is still asserted: the guest has asked for it.
GicRegisterWrite(p) ==
  /\ Execute(p, Fetched(p))
  /\ UNCHANGED apr
  /\ \E s \in {t \in Slots : t[2] \in setup.lines \cup setup.messages}, value \in BOOLEAN :
       \/ /\ "enabler" \in setup.uses
          /\ Becomes(SetEnabledBits(gic, {s}, value))
          /\ UNCHANGED waived
       \/ /\ "activer" \in setup.uses
          /\ Becomes(SetActiveBits(gic, {s}, value))
          /\ waived' = waived \cup {s}
       \/ /\ "pendr" \in setup.uses /\ s \notin SpiSlots
          /\ Becomes(SetPendingBits(gic, {s}, value))
          /\ waived' = waived \cup {s}
       \/ \E prio \in Prio :
          /\ "ipriorityr" \in setup.uses /\ (setup.tidy => s \notin gic.active \cup Handled)
          /\ Becomes(SetPriorityRange(gic, [t \in {s} |-> prio]))
          /\ UNCHANGED waived

-----------------------------------------------------------------------------
(* Devices, and restoring a snapshot                                       *)

Line(p, intid, asserted) ==
  /\ Becomes(SetLevel(gic, SlotOf(p, intid), asserted))
  /\ waived' = IF asserted \/ SlotOf(p, intid) \in Handled THEN waived
                                                           ELSE waived \ {SlotOf(p, intid)}
  /\ UNCHANGED <<core, apr>>

Message(p, intid) ==
  /\ Becomes(SetPendingBits(gic, {SlotOf(p, intid)}, TRUE))
  /\ UNCHANGED <<core, apr, waived>>

-----------------------------------------------------------------------------
(* What the guest does.  It keeps the architecture's rules for ending      *)
(* interrupts: in the reverse order of their acknowledgement, and it       *)
(* deactivates only what it has ended.  A tidy guest also ends an          *)
(* interrupt that it took as an exception once, while that handler's frame *)
(* is the top one; deactivates a manually acknowledged interrupt before it *)
(* ends the one it interrupted; returns from no exception while what it    *)
(* acknowledged last, manually, is not ended; and leaves the priority      *)
(* alone of an interrupt that is active or that a core has not ended.      *)

GuestMayEoir(p, intid) ==
  LET c == core[p]
  IN  /\ LastAcked(p, intid)
      /\ setup.tidy => IF Top(apr[p]).manual
                      THEN c.manual # <<>> /\ ~Top(c.manual).dropped
                      ELSE InIrqFrame(c) /\ Top(c.exc).intid = intid /\ ~Top(c.exc).dropped

GuestMayEret(p) ==
  LET c == core[p]
  IN  /\ (InIrqFrame(c) /\ ~Top(c.exc).dropped) =>
            LastAcked(p, Top(c.exc).intid) /\ ~Top(apr[p]).manual
      /\ (setup.tidy /\ apr[p] # <<>>) => ~Top(apr[p]).manual

GuestMayDeactivate(p, intid) ==
  /\ SlotOf(p, intid) \in gic.active
  /\ SlotOf(p, intid) \notin Handled

(* The machine starts from a snapshot whose cores are in their reset state; *)
(* power-on is the image in which nothing is enabled.                       *)

Init ==
  /\ setup \in Setups
  /\ gic \in {LoadState(PowerOnGic, image) : image \in SnapshotImages}
  /\ core = [p \in Cpus |-> ResetCore]
  /\ apr = [p \in Cpus |-> <<>>]
  /\ waived = {}

Instruction(p) ==
  \/ \E b \in BOOLEAN : MsrDaif(p, b) \/ WriteIccIgrpen1(p, b)
  \/ \E b \in BOOLEAN : GuestMayEret(p) /\ Eret(p, b)
  \/ \E pmr \in setup.pmrs : WriteIccPmr(p, pmr)
  \/ \E m \in setup.eoimodes : WriteIccCtlr(p, m)
  \/ ReadIccIar1(p)
  \/ \E intid \in IntIds : GuestMayEoir(p, intid) /\ WriteIccEoir1(p, intid)
  \/ \E intid \in IntIds : GuestMayDeactivate(p, intid) /\ WriteIccDir(p, intid)
  \/ "svc" \in setup.uses /\ SyncException(p)
  \/ "wfi" \in setup.uses /\ Wfi(p)
  \/ "wfe" \in setup.uses /\ (Wfe(p) \/ Sev(p))
  \/ \E intid \in setup.messages \cap 0 .. NumSgis - 1, irm \in BOOLEAN, list \in SUBSET Cpus :
       Sgi(p, intid, irm, list)
  \/ GicRegisterWrite(p)

CpuStep(p) == IrqStep(p) \/ WfiStep(p) \/ WfeStep(p) \/ Instruction(p)

Device ==
  \E p \in Cpus :
     \/ \E intid \in setup.lines, b \in BOOLEAN : Line(p, intid, b)
     \/ \E intid \in setup.messages : Message(p, intid)

Next ==
  /\ (\E p \in Cpus : CpuStep(p) \/ ReadyToRun(p)) \/ Device
  /\ UNCHANGED setup

Spec == Init /\ [][Next]_vars

-----------------------------------------------------------------------------
(* Properties                                                              *)

\* The state is that of the controller and of the cores (the members of class
\* Cpu), with stacks that never outgrow their arrays.
CpuTypeOK ==
  /\ setup \in Setups
  /\ gic \in Gic
  /\ core \in [Cpus -> Core]
  /\ \A p \in Cpus : Len(core[p].exc) <= MaxExcDepth /\ Len(core[p].manual) <= MaxExcDepth
  /\ apr \in [Cpus -> Seq(Acknowledged)]
  /\ waived \subseteq Slots

(* A core that skips the controller because it remembers a negative answer *)
(* misses nothing: there is no interrupt it could take (cpu.hpp,           *)
(* should_try_irq).  Any write by any core or device that makes one        *)
(* deliverable must have moved the epoch or the threshold.                 *)
NegativeAnswerStillNegative ==
  \A p \in Cpus : KnownNegative(gic, core[p]) => ~Deliverable(gic, p, core[p])

(* The delivery threshold is cached at every change of the mask or of the  *)
(* running priority (cpu.hpp, refresh_irq_threshold_cache).                *)
ThresholdIsCurrent ==
  \A p \in Cpus : core[p].threshold = Lesser(core[p].pmr, core[p].running)

(* The exception stack and the manual stack together keep the one stack of *)
(* active priorities the architecture defines: the running priority is     *)
(* that of the interrupt acknowledged last and not yet ended, or idle      *)
(* (cpu.cpp, icc_priority_drop, read_icc_iar1_el1, ERET).                  *)
RunningPriorityIsLastAcked ==
  \A p \in Cpus :
     core[p].halted = "no" =>
        core[p].running = IF apr[p] = <<>> THEN IdlePrio ELSE Top(apr[p]).prio

(* An interrupt only preempts one that is less urgent (try_take_irq).      *)
NestedIsMoreUrgent ==
  \A p \in Cpus : \A j, k \in DOMAIN apr[p] :
     j < k /\ core[p].halted = "no" => apr[p][k].prio < apr[p][j].prio

(* A device line that is asserted is never forgotten: until it falls its   *)
(* interrupt is pending or being handled, unless the guest itself cleared  *)
(* it (gicv3.cpp, set_level, acknowledge and eoi).                         *)
AssertedLineServed ==
  gic.line_level \subseteq gic.pending \cup gic.active \cup waived

(* An SPI that only a line drives is in the hands of at most one core:     *)
(* acknowledging takes it away from every other (gicv3.cpp, acknowledge).  *)
LineSpiHandledOnce ==
  \A intid \in (setup.lines \ setup.messages) \cap SpiIds : SlotOf(0, intid) \notin waived =>
     \A p, q \in Cpus : \A j \in DOMAIN apr[p], k \in DOMAIN apr[q] :
        apr[p][j].intid = intid /\ apr[q][k].intid = intid => p = q /\ j = k
=============================================================================
