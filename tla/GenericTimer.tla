---------------------------- MODULE GenericTimer ----------------------------
(***************************************************************************)
(* The timer of src/src/generic_timer.cpp in its guest-step clock mode:    *)
(* a counter that is only brought up to date at a sync, a virtual and a    *)
(* physical compare channel per CPU, a one-shot MMIO timer, and the        *)
(* forecast steps_until_irq on which the SoC plans how far it may run.     *)
(*                                                                         *)
(* As in GicV3 the object's state is one record, `timer', and its member   *)
(* functions are operators on such records.  `now' is the SoC's guest time *)
(* (SoC::guest_time_ticks), which runs ahead of the counter between syncs. *)
(***************************************************************************)
EXTENDS Integers, FiniteSets

CONSTANTS
  TimerCpus,      \* cpu_states_
  CyclesPerStep,  \* cycles_per_step_
  Modulus,        \* 2^64, the width of counters, compare values and steps
  CompareValues,  \* the compare values the guest writes
  TvalValues,     \* the timer values the guest writes: signed 32-bit numbers
  MaxTick         \* bound on guest time

Channels == TimerCpus \X {"virt", "phys"}
Cycles   == 0 .. Modulus - 1
Channel  == [cval : Cycles, enable : BOOLEAN, imask : BOOLEAN, irq_pending : BOOLEAN]

Timer == [counter  : Cycles,
          anchor   : 0 .. MaxTick,
          compare  : Cycles,
          enabled  : BOOLEAN,
          mmio_irq : BOOLEAN,
          fired    : BOOLEAN,
          channel  : [Channels -> Channel]]

\* The guest's time never wraps within the bound.
ASSUME TimerAssumption ==
  /\ IsFiniteSet(TimerCpus) /\ TimerCpus # {}
  /\ CyclesPerStep \in Nat
  /\ MaxTick \in Nat
  /\ Modulus \in Nat /\ Modulus > MaxTick * CyclesPerStep
  /\ CompareValues \subseteq Cycles
  /\ TvalValues \subseteq Int

VARIABLES timer, now

\* The cap the SoC passes (a quarter of the 64-bit range): no deadline at all.
NoDeadline == Modulus \div 4

-----------------------------------------------------------------------------

NewTimer ==
  [counter |-> 0, anchor |-> 0, compare |-> 0, enabled |-> FALSE,
   mmio_irq |-> FALSE, fired |-> FALSE,
   channel |-> [k \in Channels |->
     [cval |-> 0, enable |-> FALSE, imask |-> FALSE, irq_pending |-> FALSE]]]

CounterAt(t, steps) == (t.counter + (steps - t.anchor) * CyclesPerStep) % Modulus

UpdateIrqState(t) ==
  LET fires == t.enabled /\ ~t.mmio_irq /\ ~t.fired /\ t.counter >= t.compare
      level(c) == c.enable /\ ~c.imask /\ t.counter >= c.cval
  IN  [t EXCEPT !.mmio_irq = @ \/ fires,
                !.fired    = @ \/ fires,
                !.channel  = [k \in Channels |->
                                [t.channel[k] EXCEPT !.irq_pending = level(t.channel[k])]]]

SyncToSteps(t, steps) ==
  UpdateIrqState([t EXCEPT !.counter = CounterAt(t, steps), !.anchor = steps])

\* CNTV_CTL_EL0/CNTP_CTL_EL0, CVAL and TVAL.
WriteCtl(t, steps, k, enable, imask) ==
  UpdateIrqState([SyncToSteps(t, steps) EXCEPT !.channel[k].enable = enable,
                                               !.channel[k].imask  = imask])

WriteCval(t, steps, k, cval) ==
  UpdateIrqState([SyncToSteps(t, steps) EXCEPT !.channel[k].cval = cval])

WriteTval(t, steps, k, tval) ==
  WriteCval(t, steps, k, (CounterAt(t, steps) + tval) % Modulus)

\* The MMIO registers look at the counter as the last sync left it.
MmioWriteCompare(t, value) ==
  UpdateIrqState([t EXCEPT !.compare = value, !.mmio_irq = FALSE, !.fired = FALSE])

MmioWriteCtl(t, enable, clear) ==
  UpdateIrqState([t EXCEPT !.enabled  = enable,
                           !.mmio_irq = @ /\ enable /\ ~clear,
                           !.fired    = @ /\ enable])

\* Mutant: the restored timer counts the steps before the snapshot once more.
Restored_NoRebase(t, steps) ==
  SyncToSteps(UpdateIrqState([SyncToSteps(t, steps) EXCEPT !.anchor = 0]), steps)

\* save_snapshot syncs; load_snapshot reads the state with the anchor at 0,
\* rebases it to the restored guest time and sets the clock mode again.
Restored(t, steps) ==
  SyncToSteps([UpdateIrqState([SyncToSteps(t, steps) EXCEPT !.anchor = 0])
                 EXCEPT !.anchor = steps], steps)

-----------------------------------------------------------------------------
(* The forecast.  The cycles to go are rounded up to whole steps in        *)
(* unsigned arithmetic.                                                    *)

\* Mutant: the steps are rounded up once too often.
StepsNeeded_OneMore(current, target, max) ==
  IF current >= target THEN 0
  ELSE IF CyclesPerStep = 0 THEN max
  ELSE (target - current) \div CyclesPerStep + 1

StepsNeeded(current, target, max) ==
  IF current >= target THEN 0
  ELSE IF CyclesPerStep = 0 THEN max
  ELSE ((target - current + CyclesPerStep - 1) % Modulus) \div CyclesPerStep

LeastOf(S) == CHOOSE n \in S : \A m \in S : n <= m

Armed(c) == c.enable /\ ~c.imask

StepsUntilIrq(t, steps, max) ==
  LET current == CounterAt(t, steps)
      mmio    == IF t.enabled /\ ~t.fired THEN {StepsNeeded(current, t.compare, max)} ELSE {}
  IN  IF t.mmio_irq \/ \E k \in Channels : t.channel[k].irq_pending THEN 0
      ELSE LeastOf({max} \cup mmio
                   \cup {StepsNeeded(current, t.channel[k].cval, max) :
                           k \in {j \in Channels : Armed(t.channel[j])}})

-----------------------------------------------------------------------------
(* The timer under any caller, while guest time goes on                    *)

TimerInit == timer = NewTimer /\ now = 0

\* Instructions run; the counter is not brought up to date.
Elapse == now < MaxTick /\ now' = now + 1 /\ UNCHANGED timer

Sync == timer' = SyncToSteps(timer, now) /\ UNCHANGED now

WriteChannel(k) ==
  /\ \/ \E enable, imask \in BOOLEAN : timer' = WriteCtl(timer, now, k, enable, imask)
     \/ \E cval \in CompareValues : timer' = WriteCval(timer, now, k, cval)
     \/ \E tval \in TvalValues : timer' = WriteTval(timer, now, k, tval)
  /\ UNCHANGED now

WriteMmio ==
  /\ \/ \E value \in CompareValues : timer' = MmioWriteCompare(timer, value)
     \/ \E enable, clear \in BOOLEAN : timer' = MmioWriteCtl(timer, enable, clear)
  /\ UNCHANGED now

SaveAndLoadTimer == timer' = Restored(timer, now) /\ UNCHANGED now

TimerNext == Elapse \/ Sync \/ (\E k \in Channels : WriteChannel(k)) \/ WriteMmio \/ SaveAndLoadTimer

TimerSpec == TimerInit /\ [][TimerNext]_<<timer, now>>

-----------------------------------------------------------------------------
(* Properties                                                              *)

\* The state is a timer state (the members of class GenericTimer).
TimerTypeOK == timer \in Timer /\ now \in 0 .. MaxTick

\* Some line would be high if the timer were synced k steps from now.
HighAfter(k) ==
  LET t == SyncToSteps(timer, now + k)
  IN  t.mmio_irq \/ \E c \in Channels : t.channel[c].irq_pending

\* The counter passes the compare value before it wraps.
Fits(target) == target + CyclesPerStep - 1 < Modulus

(* The forecast is never late: no line rises before the step it names, so  *)
(* a run that stops there misses no interrupt.  And it is exact: a line    *)
(* does rise at that step, so idle CPUs whose time is moved there have     *)
(* something to wake up for, unless a compare value is so close to the     *)
(* counter's end that the step which should reach it wraps the counter, or *)
(* that rounding up to it overflows (steps_until_irq, SoC::run             *)
(* fast_forward_to_next_guest_event).                                      *)
DeadlineIsExact ==
  LET n == StepsUntilIrq(timer, now, NoDeadline)
  IN  /\ \A k \in 0 .. n - 1 : ~HighAfter(k)
      /\ n < NoDeadline /\ Fits(timer.compare) /\ (\A k \in Channels : Fits(timer.channel[k].cval))
           => HighAfter(n)

(* The counter the guest reads never goes back, whatever is synced,        *)
(* written, saved or restored (counter_at_steps, rebase_to_steps), and it  *)
(* moves only with guest time.                                             *)
CounterFollowsTime ==
  [][CounterAt(timer', now') = CounterAt(timer, now) + (now' - now) * CyclesPerStep]_<<timer, now>>
=============================================================================
