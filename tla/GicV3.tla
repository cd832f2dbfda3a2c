------------------------------- MODULE GicV3 -------------------------------
(***************************************************************************)
(* The interrupt controller of src/src/gicv3.cpp: the pending, enabled,    *)
(* active, line-level and priority state of every interrupt, the           *)
(* per-CPU cache of the answer of has_pending, and the state epoch that    *)
(* says whether a cached answer may still be used.                         *)
(*                                                                         *)
(* The class is one C++ object that many callers change (MMIO writes, the  *)
(* CPU interface, the SoC's device synchronisation), often several times   *)
(* in one call.  Its state is therefore one record, `gic', and each member *)
(* function is an operator from such a record to the next, so that callers *)
(* compose them in the order the code makes its calls.                     *)
(*                                                                         *)
(* Left out, because nothing but a register read looks at them: GICD_CTLR, *)
(* GICR_WAKER, IGROUPR0, ICFGR0/1, the identification registers and the    *)
(* performance counters.                                                   *)
(***************************************************************************)
EXTENDS Naturals, FiniteSets

CONSTANTS
  NumCpus,         \* locals_.size()
  NumSgis,         \* INTIDs below this are software generated (16 in the code)
  NumLocal,        \* kLocalIntIds: INTIDs below this are banked per CPU (32)
  NumIntIds,       \* kNumIntIds (1024)
  MaxPrio,         \* the mask value 0xFF
  DefaultPriority, \* kDefaultPriority (0xC0)
  SnapshotImages,  \* the guest-visible states a snapshot may hold
  MaxEpoch         \* bound on state_epoch_ (a 64-bit counter in the code)

Cpus      == 0 .. NumCpus - 1
IntIds    == 0 .. NumIntIds - 1
LocalIds  == 0 .. NumLocal - 1
SpiIds    == NumLocal .. NumIntIds - 1
Prio      == 0 .. MaxPrio

\* INTID 1023, the answer when there is nothing to acknowledge.
Spurious == NumIntIds

(* Where an interrupt's bits are kept: a local INTID has one slot per CPU, *)
(* an SPI a single slot that every CPU shares (filed here under CPU 0).    *)
SlotOf(cpu, intid) == <<IF intid \in LocalIds THEN cpu ELSE 0, intid>>
LocalSlots(cpu)    == {cpu} \X LocalIds
SpiSlots           == {0} \X SpiIds
Slots              == (Cpus \X LocalIds) \cup SpiSlots

\* The bitmap registers: one frame per redistributor, and the distributor.
Banks == {LocalSlots(cpu) : cpu \in Cpus} \cup {SpiSlots}

GicImage == [pending    : SUBSET Slots,
             enabled    : SUBSET Slots,
             active     : SUBSET Slots,
             line_level : SUBSET Slots,
             priorities : [Slots -> Prio]]

PendingQueryCache == [valid : BOOLEAN, value : BOOLEAN, pmr : Prio, epoch : Nat]

Gic == [pending    : SUBSET Slots,
        enabled    : SUBSET Slots,
        active     : SUBSET Slots,
        line_level : SUBSET Slots,
        priorities : [Slots -> Prio],
        cache      : [Cpus -> PendingQueryCache],
        epoch      : Nat]

ASSUME GicAssumption ==
  /\ NumCpus \in Nat \ {0}
  /\ NumSgis \in Nat /\ NumLocal \in Nat /\ NumIntIds \in Nat
  /\ NumSgis <= NumLocal /\ NumLocal <= NumIntIds
  /\ MaxPrio \in Nat
  /\ DefaultPriority \in Prio
  /\ SnapshotImages \subseteq GicImage
  /\ MaxEpoch \in Nat

VARIABLE gic

-----------------------------------------------------------------------------
(* Construction                                                            *)

EmptyCache == [valid |-> FALSE, value |-> FALSE, pmr |-> MaxPrio, epoch |-> 0]

\* The constructor calls set_cpu_count(1) and the SoC calls it once more, so
\* the epoch has left its initial value 1 before any CPU runs.
PowerOnGic ==
  [pending    |-> {},
   enabled    |-> {},
   active     |-> {},
   line_level |-> {},
   priorities |-> [s \in Slots |-> DefaultPriority],
   cache      |-> [cpu \in Cpus |-> EmptyCache],
   epoch      |-> 3]

-----------------------------------------------------------------------------
(* Single-bit setters.  The code leaves at once when the bit already has   *)
(* the value, and otherwise writes it and increments the epoch; over a set *)
(* of slots the epoch grows by the number of bits that change.             *)

Updated(bits, S, value) == IF value THEN bits \cup S ELSE bits \ S

Changed(old, new) == Cardinality((old \ new) \cup (new \ old))

\* Mutant: the setter forgets the epoch.
SetPendingBits_SameEpoch(g, S, value) ==
  [g EXCEPT !.pending = Updated(@, S, value)]

SetPendingBits(g, S, value) ==
  LET new == Updated(g.pending, S, value)
  IN  [g EXCEPT !.pending = new, !.epoch = @ + Changed(g.pending, new)]

SetEnabledBits(g, S, value) ==
  LET new == Updated(g.enabled, S, value)
  IN  [g EXCEPT !.enabled = new, !.epoch = @ + Changed(g.enabled, new)]

SetActiveBits(g, S, value) ==
  LET new == Updated(g.active, S, value)
  IN  [g EXCEPT !.active = new, !.epoch = @ + Changed(g.active, new)]

\* Mutant: a priority write forgets the epoch.
SetPriorityRange_SameEpoch(g, new) ==
  [g EXCEPT !.priorities = [s \in Slots |-> IF s \in DOMAIN new THEN new[s]
                                                                ELSE g.priorities[s]]]

\* A priority register write increments the epoch whether or not it changes
\* anything; `new' gives the priorities of the INTIDs the register covers.
SetPriorityRange(g, new) ==
  [g EXCEPT !.priorities = [s \in Slots |-> IF s \in DOMAIN new THEN new[s]
                                                                ELSE g.priorities[s]],
            !.epoch = @ + 1]

-----------------------------------------------------------------------------
(* Sources of interrupts                                                   *)

\* Mutant: a rising line pends an interrupt that is being handled.
SetLevel_WhileActive(g, s, asserted) ==
  LET levelled == [g EXCEPT !.line_level = Updated(@, {s}, asserted),
                            !.epoch = @ + 1]
  IN  IF (s \in g.line_level) = asserted THEN g
      ELSE IF asserted THEN SetPendingBits(levelled, {s}, TRUE)
      ELSE levelled

\* A line that does not change is ignored.  A rising line pends the interrupt
\* unless it is being handled; a falling line leaves what is pending alone.
SetLevel(g, s, asserted) ==
  LET levelled == [g EXCEPT !.line_level = Updated(@, {s}, asserted),
                            !.epoch = @ + 1]
  IN  IF (s \in g.line_level) = asserted THEN g
      ELSE IF asserted /\ s \notin g.active
           THEN SetPendingBits(levelled, {s}, TRUE)
           ELSE levelled

\* `list' is the set of CPUs whose affinity the written value selects.
SgiTargets(source, irm, list) == IF irm THEN Cpus \ {source} ELSE list

SendSgi(g, source, intid, irm, list) ==
  SetPendingBits(g, {<<cpu, intid>> : cpu \in SgiTargets(source, irm, list)}, TRUE)

-----------------------------------------------------------------------------
(* Queries.  An interrupt is a candidate for a CPU when it is pending,     *)
(* enabled and more urgent than the threshold; whether it is active, its   *)
(* group and its routing play no part.                                     *)

\* Mutant: an interrupt at the threshold is deliverable.
Candidates_AtThreshold(g, cpu, pmr) ==
  {i \in IntIds : LET s == SlotOf(cpu, i)
                  IN  s \in g.pending /\ s \in g.enabled /\ g.priorities[s] <= pmr}

Candidates(g, cpu, pmr) ==
  {i \in IntIds : LET s == SlotOf(cpu, i)
                  IN  s \in g.pending /\ s \in g.enabled /\ g.priorities[s] < pmr}

Priority(g, cpu, intid) ==
  IF intid \in IntIds THEN g.priorities[SlotOf(cpu, intid)] ELSE DefaultPriority

\* i is served before j: the smaller priority value first, then the smaller INTID.
Before(g, cpu, i, j) ==
  \/ Priority(g, cpu, i) < Priority(g, cpu, j)
  \/ Priority(g, cpu, i) = Priority(g, cpu, j) /\ i <= j

HighestPending(g, cpu, pmr) ==
  LET C == Candidates(g, cpu, pmr)
  IN  IF C = {} THEN Spurious
      ELSE CHOOSE i \in C : \A j \in C : Before(g, cpu, i, j)

CacheHit(g, cpu, pmr) ==
  LET c == g.cache[cpu]
  IN  c.valid /\ c.epoch = g.epoch /\ c.pmr = pmr

\* The boolean has_pending returns, and the state after the call: the method
\* is const but fills the (mutable) cache on a miss.
HasPending(g, cpu, pmr) ==
  IF CacheHit(g, cpu, pmr) THEN g.cache[cpu].value
                           ELSE HighestPending(g, cpu, pmr) # Spurious

AfterHasPending(g, cpu, pmr) ==
  IF CacheHit(g, cpu, pmr) THEN g
  ELSE [g EXCEPT !.cache[cpu] = [valid |-> TRUE,
                                 value |-> HighestPending(g, cpu, pmr) # Spurious,
                                 pmr   |-> pmr,
                                 epoch |-> g.epoch]]

-----------------------------------------------------------------------------
(* Acknowledge and end of interrupt                                        *)

AfterAcknowledge(g, cpu, pmr) ==
  LET i == HighestPending(g, cpu, pmr)
      s == SlotOf(cpu, i)
  IN  IF i = Spurious THEN g
      ELSE SetActiveBits(SetPendingBits(g, {s}, FALSE), {s}, TRUE)

\* Mutant: a line that is still asserted is forgotten.
Eoi_NoRepend(g, cpu, intid) ==
  IF intid \in IntIds THEN SetActiveBits(g, {SlotOf(cpu, intid)}, FALSE) ELSE g

\* A line that is still asserted makes the interrupt pending again.
Eoi(g, cpu, intid) ==
  LET s     == SlotOf(cpu, intid)
      ended == SetActiveBits(g, {s}, FALSE)
  IN  IF intid \notin IntIds THEN g
      ELSE IF s \in g.line_level THEN SetPendingBits(ended, {s}, TRUE)
      ELSE ended

-----------------------------------------------------------------------------
(* Snapshots.  load_state calls set_cpu_count twice (each drops the caches *)
(* and increments the epoch), reads the arrays, increments the epoch again *)
(* and drops the caches.                                                   *)

ImageOf(g) == [pending    |-> g.pending,
               enabled    |-> g.enabled,
               active     |-> g.active,
               line_level |-> g.line_level,
               priorities |-> g.priorities]

LoadState(g, image) ==
  [pending    |-> image.pending,
   enabled    |-> image.enabled,
   active     |-> image.active,
   line_level |-> image.line_level,
   priorities |-> image.priorities,
   cache      |-> [cpu \in Cpus |-> EmptyCache],
   epoch      |-> g.epoch + 3]

-----------------------------------------------------------------------------
(* The controller under every caller: one action per public operation.     *)

GicInit == gic = PowerOnGic

Becomes(g) == g.epoch <= MaxEpoch /\ gic' = g

\* GICD_ISENABLER/ICENABLER and GICR_ISENABLER0/ICENABLER0.  A sub-word write
\* reaches the same code with some other 32-bit value.
WriteEnabler(S, value) == Becomes(SetEnabledBits(gic, S, value))

\* GICD_ISACTIVER/ICACTIVER and GICR_ISACTIVER0/ICACTIVER0.
WriteActiver(S, value) == Becomes(SetActiveBits(gic, S, value))

\* GICR_ISPENDR0/ICPENDR0.  The distributor has no such register for SPIs.
WritePendr(S, value) == Becomes(SetPendingBits(gic, S, value))

WriteIpriorityr(new) == Becomes(SetPriorityRange(gic, new))

SetPending(cpu, intid) == Becomes(SetPendingBits(gic, {SlotOf(cpu, intid)}, TRUE))

DriveLine(cpu, intid, asserted) == Becomes(SetLevel(gic, SlotOf(cpu, intid), asserted))

WriteSgi1r(source, intid, irm, list) == Becomes(SendSgi(gic, source, intid, irm, list))

QueryPending(cpu, pmr) == Becomes(AfterHasPending(gic, cpu, pmr))

Acknowledge(cpu, pmr) == Becomes(AfterAcknowledge(gic, cpu, pmr))

EndOfInterrupt(cpu, intid) == Becomes(Eoi(gic, cpu, intid))

RestoreSnapshot(image) == Becomes(LoadState(gic, image))

GuestRegisterWrite ==
  \/ \E bank \in Banks : \E S \in SUBSET bank : \E value \in BOOLEAN :
       WriteEnabler(S, value) \/ WriteActiver(S, value)
  \/ \E cpu \in Cpus : \E S \in SUBSET LocalSlots(cpu) : \E value \in BOOLEAN :
       WritePendr(S, value)
  \/ \E bank \in Banks : \E S \in SUBSET bank : \E new \in [S -> Prio] :
       WriteIpriorityr(new)
  \/ \E source \in Cpus, intid \in 0 .. NumSgis - 1, irm \in BOOLEAN, list \in SUBSET Cpus :
       WriteSgi1r(source, intid, irm, list)

DeviceInput ==
  \E cpu \in Cpus, intid \in IntIds :
     \/ SetPending(cpu, intid)
     \/ \E asserted \in BOOLEAN : DriveLine(cpu, intid, asserted)

CpuInterface ==
  \E cpu \in Cpus :
     \/ \E pmr \in Prio : QueryPending(cpu, pmr) \/ Acknowledge(cpu, pmr)
     \/ \E intid \in 0 .. NumIntIds : EndOfInterrupt(cpu, intid)

GicNext == \/ GuestRegisterWrite
           \/ DeviceInput
           \/ CpuInterface
           \/ \E image \in SnapshotImages : RestoreSnapshot(image)

GicSpec == GicInit /\ [][GicNext]_gic

-----------------------------------------------------------------------------
(* Properties                                                              *)

\* The state is a controller state (the members of class GicV3).
GicTypeOK == gic \in Gic

(* A has_pending answer that the epoch still vouches for is the answer a   *)
(* full scan would give (gicv3.cpp, has_pending): every operation that     *)
(* changes what is deliverable to any CPU must have moved the epoch.       *)
CachedAnswerIsScanAnswer ==
  \A cpu \in Cpus : \A pmr \in Prio :
     CacheHit(gic, cpu, pmr) =>
        (gic.cache[cpu].value <=> Candidates(gic, cpu, pmr) # {})
=============================================================================
