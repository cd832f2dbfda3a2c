------------------------------- MODULE SocRun -------------------------------
(***************************************************************************)
(* The main loop, SoC::run (src/src/soc.cpp): when the devices are synced  *)
(* and their levels reach the interrupt controller, which cores execute    *)
(* and for how long before the loop looks around again, how guest time     *)
(* moves, and how waiting cores are woken.                                 *)
(*                                                                         *)
(* The controller and the timer are those of GicV3 and GenericTimer.  A    *)
(* core is reduced to what the loop can tell apart: CpuIrq models the      *)
(* rest.  Queries of the controller are answered by a scan, which the      *)
(* theorem CachedAnswerCorrect of GicV3Proofs allows, and its epoch, which *)
(* then nothing reads, stays 0 (see BurstStep on the loop's own look).     *)
(* One device line stands for the UART, the KMI and the virtio devices,    *)
(* which sync_devices treats alike.                                        *)
(***************************************************************************)
EXTENDS GicV3, GenericTimer

CONSTANTS
  Budget,        \* the most steps of one call of run(): main's run_chunk
  ShortWindow,   \* kShortDeadlineWindow (256)
  VirtId,        \* kTimerVirtIntId
  PhysId,        \* kTimerPhysIntId
  DeviceId,      \* the SPI of the device
  Setups         \* the machines that are run

VARIABLES
  setup,  \* the machine: its options, chosen at the start, and its guest
  core,   \* per core, what the loop sees of it
  dev,    \* the device's irq_pending()
  plan,   \* the device schedule
  loop,   \* where run() is
  signal  \* what the last step told the loop

vars == <<setup, gic, timer, now, core, dev, plan, loop, signal>>

GuestDeeds == {"daif", "wfi", "wfe", "sgi", "store", "timer", "mmio_timer",
               "device", "cpu_on", "off", "halt"}

Setup ==
  [legacy    : BOOLEAN,      \* SchedulerMode::Legacy
   all_start : BOOLEAN,      \* SecondaryBootMode::AllStart: every core is on at once
   sdl       : BOOLEAN,      \* a window is open: presenting a frame may find key presses
   least_run : 1 .. Budget,  \* the fewest steps of a call of run(): main's calls are
                             \* short only up to a scheduled injection
   does      : SUBSET GuestDeeds,
   timers    : SUBSET {"virt", "phys"}]  \* the channels of its core a guest programs

\* Every core has its channels, and guest time ends before the forecast's cap.
ASSUME SocAssumption ==
  /\ TimerCpus = Cpus
  /\ MaxTick < NoDeadline
  /\ Budget \in Nat \ {0}
  /\ ShortWindow \in Nat
  /\ {VirtId, PhysId} \subseteq LocalIds /\ VirtId # PhysId
  /\ DeviceId \in SpiIds
  /\ Setups \subseteq Setup

None == -1  \* no scheduled event

Core == [on     : BOOLEAN,               \* cpu_powered_on_
         mode   : {"run", "wfi", "wfe", "halted"},
         event  : BOOLEAN,               \* event_register_
         masked : BOOLEAN,               \* PSTATE.I set or ICC_IGRPEN1_EL1 clear
         irq    : 0 .. NumIntIds]        \* what its handler is to end

Plan == [sync_valid     : BOOLEAN,               \* device_sync_valid_
         schedule_valid : BOOLEAN,               \* device_schedule_valid_
         dirty          : BOOLEAN,               \* device_schedule_dirty_
         event          : {None} \cup Nat,       \* next_device_event_
         last           : SUBSET Slots]          \* the last_*_level_ that are true

Loop == [at        : {"host", "top", "burst", "round"},
         remaining : 0 .. Budget,
         window    : 0 .. Budget,        \* steps of a burst, rounds of a batch
         turn      : 0 .. NumCpus,       \* the core to step next
         active    : BOOLEAN,            \* any_active: a core has run in this round
         polling   : BOOLEAN]            \* fallback_poll_waiters

Signal == [woken  : BOOLEAN,   \* runnable_state_dirty_
           stop   : BOOLEAN,   \* stop_requested_
           failed : BOOLEAN]   \* step() returned false

-----------------------------------------------------------------------------
(* Syncing the devices.  Operators that the loop calls one after another   *)
(* work on the part of the machine they share.                             *)

Machine == [gic |-> gic, timer |-> timer, now |-> now, dev |-> dev, plan |-> plan]

Settled(g) == [g EXCEPT !.epoch = 0]

TimerSlot(k) == SlotOf(k[1], IF k[2] = "virt" THEN VirtId ELSE PhysId)
DeviceSlot   == SlotOf(0, DeviceId)
LineSlots    == {TimerSlot(k) : k \in Channels} \cup {DeviceSlot}

\* The MMIO timer drives the virtual timer's line of every core.
TimerLevels(t) ==
  {TimerSlot(k) : k \in {j \in Channels : t.channel[j].irq_pending \/ (j[2] = "virt" /\ t.mmio_irq)}}

Levels(t, d) == TimerLevels(t) \cup IF d THEN {DeviceSlot} ELSE {}

\* set_level for each slot of S, high if the slot is in `high'.
SetLevels(g, S, high) ==
  LET rising == (S \cap high) \ g.line_level
  IN  Settled(SetPendingBits([g EXCEPT !.line_level = (@ \ S) \cup (S \cap high)],
                             rising \ g.active, TRUE))

\* sync_devices: a level that is the one told last is not told again.  A frame
\* presented afterwards may find key presses: `keys' is the device's level then.
SyncDevices(m, keys) ==
  LET t    == SyncToSteps(m.timer, m.now)
      high == Levels(t, m.dev)
      told == {s \in LineSlots : ~m.plan.sync_valid \/ (s \in high) # (s \in m.plan.last)}
  IN  [m EXCEPT !.timer = t,
                !.gic   = SetLevels(m.gic, told, high),
                !.dev   = keys,
                !.plan  = [sync_valid |-> TRUE, schedule_valid |-> FALSE, dirty |-> FALSE,
                           event |-> None, last |-> high]]

\* Mutant: the loop is not told that the schedule is out of date.
Invalidated_NotDirty(pl) ==
  [pl EXCEPT !.sync_valid = FALSE, !.schedule_valid = FALSE, !.event = None]

\* invalidate_device_schedule
Invalidated(pl) ==
  [pl EXCEPT !.sync_valid = FALSE, !.schedule_valid = FALSE, !.dirty = TRUE, !.event = None]

-----------------------------------------------------------------------------
(* The next device event, and what it makes of the schedule                *)

TimerDeadline(t, tick) ==
  LET n == StepsUntilIrq(t, tick, NoDeadline) IN IF n = NoDeadline THEN None ELSE tick + n

Fresh(m) ==
  /\ m.plan.schedule_valid /\ ~m.plan.dirty
  /\ m.plan.event = None \/ m.plan.event >= m.now

NextDeviceEvent(m) == IF Fresh(m) THEN m.plan.event ELSE TimerDeadline(m.timer, m.now)

AfterNextDeviceEvent(m) ==
  [m EXCEPT !.plan.schedule_valid = TRUE, !.plan.dirty = FALSE, !.plan.event = NextDeviceEvent(m)]

Due(m) == NextDeviceEvent(m) # None /\ NextDeviceEvent(m) <= m.now

-----------------------------------------------------------------------------
(* What the loop sees of the cores                                         *)

Active(p)  == core[p].on /\ core[p].mode # "halted"
Waiting(p) == core[p].mode \in {"wfi", "wfe"}

Deliverable(g, p) == Candidates(g, p, MaxPrio) # {}

\* Mutant: a core in WFI is ready only if its interrupt can be taken.
ReadyToRun_UnmaskedOnly(g, p) ==
  LET c == core[p]
  IN  \/ c.mode = "run"
      \/ c.mode = "wfe" /\ c.event
      \/ Waiting(p) /\ ~c.masked /\ Deliverable(g, p)

ReadyToRun(g, p) ==
  LET c == core[p]
  IN  \/ c.mode = "run"
      \/ c.mode = "wfi" /\ Deliverable(g, p)
      \/ c.mode = "wfe" /\ (c.event \/ (~c.masked /\ Deliverable(g, p)))

Runnable(g) == {p \in Cpus : core[p].on /\ ReadyToRun(g, p)}

AllHalted == \A p \in Cpus : ~Active(p)

-----------------------------------------------------------------------------
(* The loop's decisions                                                    *)

AllWaiting == \A p \in Cpus : Active(p) => Waiting(p)

\* deadline_driven_window_needed; only the last case consults the schedule.
DeadlineWindowNeeded(m) ==
  /\ ~setup.legacy /\ ~AllHalted
  /\ \/ AllWaiting
     \/ LET e == NextDeviceEvent(m) IN e # None /\ e - m.now <= ShortWindow

AfterDeadlineWindowNeeded(m) ==
  IF setup.legacy \/ AllHalted \/ AllWaiting THEN m ELSE AfterNextDeviceEvent(m)

MaybeSyncDevices(m, keys) ==
  LET m1 == AfterDeadlineWindowNeeded(m)
  IN  IF \/ ~DeadlineWindowNeeded(m)
         \/ ~m1.plan.sync_valid \/ m1.plan.dirty \/ Due(m1)
      THEN SyncDevices(m1, keys)
      ELSE AfterNextDeviceEvent(m1)

CanFastForward(m) ==
  ~setup.legacy /\ NextDeviceEvent(m) # None /\ NextDeviceEvent(m) > m.now

FastForwarded(m, keys) ==
  SyncDevices([AfterNextDeviceEvent(m) EXCEPT !.now = NextDeviceEvent(m),
                                              !.plan.sync_valid = FALSE], keys)

\* Mutant: a window runs one step past the event.
RunWindow_OneMore(m, budget, divisor, sensitive) ==
  LET chunk == (budget + divisor - 1) \div divisor
      e     == NextDeviceEvent(m)
  IN  IF setup.legacy \/ ~sensitive \/ e = None THEN chunk
      ELSE IF e <= m.now THEN 1
      ELSE LeastOf({chunk, e - m.now + 1})

\* compute_run_window, in steps of one core; Budget is below the fixed caps.
RunWindow(m, budget, divisor, sensitive) ==
  LET chunk == (budget + divisor - 1) \div divisor
      e     == NextDeviceEvent(m)
  IN  IF setup.legacy \/ ~sensitive \/ e = None THEN chunk
      ELSE IF e <= m.now THEN 1
      ELSE LeastOf({chunk, e - m.now})

AfterRunWindow(m, sensitive) ==
  IF setup.legacy \/ ~sensitive THEN m ELSE AfterNextDeviceEvent(m)

-----------------------------------------------------------------------------
(* The top of the loop, up to the next instruction                         *)

Adopt(m) ==
  /\ gic' = m.gic /\ timer' = m.timer /\ now' = m.now /\ dev' = m.dev /\ plan' = m.plan

KeyPresses(d) == IF setup.sdl THEN {d, TRUE} ELSE {d}

\* The variables of run() between two calls, and at the top of its loop.
NoLoop == [at |-> "host", remaining |-> 0, window |-> 0, turn |-> 0,
           active |-> FALSE, polling |-> FALSE]

AtTop(n) == [NoLoop EXCEPT !.at = "top", !.remaining = n]

\* The budget is used up or a stop was requested: a last sync, and return.
Return ==
  /\ loop.at = "top" /\ (loop.remaining = 0 \/ signal.stop)
  /\ \E keys \in KeyPresses(dev) : Adopt(SyncDevices(Machine, keys))
  /\ loop' = NoLoop
  /\ UNCHANGED <<core, signal>>

Looking == loop.at = "top" /\ loop.remaining > 0 /\ ~signal.stop

\* The machine after the look at the devices that starts every iteration.
Looked == {MaybeSyncDevices(Machine, keys) : keys \in KeyPresses(dev)}

\* Nobody can run.  A single core is stepped all the same, even if halted.
Idle(m) == Runnable(m.gic) = {} /\ (NumCpus > 1 => ~AllHalted)

StopHalted ==
  /\ Looking /\ NumCpus > 1 /\ AllHalted
  /\ \E m \in Looked : \E keys \in KeyPresses(m.dev) : Adopt(SyncDevices(m, keys))
  /\ loop' = NoLoop
  /\ signal' = [signal EXCEPT !.stop = TRUE]
  /\ UNCHANGED core

FastForward ==
  /\ Looking
  /\ \E m \in Looked :
       /\ Idle(m) /\ CanFastForward(m)
       /\ \E keys \in KeyPresses(m.dev) : Adopt(FastForwarded(m, keys))
  /\ UNCHANGED <<core, loop, signal>>

\* One core runs alone until the window ends or something happens.
StartBurst(m, p, sensitive) ==
  /\ Adopt(AfterRunWindow(m, sensitive))
  /\ loop' = [loop EXCEPT !.at = "burst", !.turn = p,
                          !.window = RunWindow(m, loop.remaining, 1, sensitive)]
  /\ signal' = [signal EXCEPT !.woken = IF NumCpus > 1 THEN FALSE ELSE @]

\* The cores take turns, one step each.
StartRounds(m, runnable, polling) ==
  LET sensitive == DeadlineWindowNeeded(m)
      m1        == AfterDeadlineWindowNeeded(m)
  IN  /\ Adopt(AfterRunWindow(m1, sensitive))
      /\ loop' = [loop EXCEPT !.at = "round", !.turn = 0, !.active = FALSE, !.polling = polling,
                              !.window = RunWindow(m1, loop.remaining, runnable, sensitive)]
      /\ UNCHANGED signal

Dispatch ==
  /\ Looking /\ (NumCpus > 1 => ~AllHalted)
  /\ \E m \in Looked :
       /\ ~(Idle(m) /\ CanFastForward(m))
       /\ \/ /\ NumCpus = 1
             /\ StartBurst(AfterDeadlineWindowNeeded(m), 0, DeadlineWindowNeeded(m))
          \/ /\ NumCpus > 1 /\ Cardinality(Runnable(m.gic)) = 1
             /\ StartBurst(m, CHOOSE p \in Runnable(m.gic) : TRUE, TRUE)
          \/ /\ NumCpus > 1 /\ Cardinality(Runnable(m.gic)) > 1
             /\ StartRounds(m, Cardinality(Runnable(m.gic)), FALSE)
          \/ /\ NumCpus > 1 /\ Runnable(m.gic) = {}
             /\ StartRounds(m, Cardinality({p \in Cpus : Active(p)}), TRUE)
  /\ UNCHANGED core

-----------------------------------------------------------------------------
(* One call of Cpu::step()                                                 *)

\* step() returns; the single-core loop stops when it returns false.
Returns(failed) ==
  signal' = [signal EXCEPT !.failed = failed, !.stop = @ \/ (failed /\ NumCpus = 1)]

Quietly == Returns(FALSE)

TakeIrq(p) ==
  /\ gic' = Settled(AfterAcknowledge(gic, p, MaxPrio))
  /\ core' = [core EXCEPT ![p].mode = "run", ![p].masked = TRUE,
                          ![p].irq = HighestPending(gic, p, MaxPrio)]
  /\ Quietly /\ UNCHANGED <<timer, dev, plan>>

Stays(p, c) ==
  /\ core' = [core EXCEPT ![p] = c]
  /\ Quietly /\ UNCHANGED <<gic, timer, dev, plan>>

StepHalted(p) ==
  /\ core[p].mode = "halted"
  /\ Returns(TRUE)
  /\ UNCHANGED <<gic, timer, core, dev, plan>>

StepWaiting(p) ==
  LET c == core[p]
      awake == [c EXCEPT !.mode = "run"]
  IN  \/ c.mode = "wfi" /\ ~Deliverable(gic, p) /\ Stays(p, c)
      \/ c.mode = "wfi" /\ Deliverable(gic, p) /\ c.masked /\ Stays(p, awake)
      \/ c.mode = "wfe" /\ c.event /\ Stays(p, [awake EXCEPT !.event = FALSE])
      \/ c.mode = "wfe" /\ ~c.event /\ (c.masked \/ ~Deliverable(gic, p)) /\ Stays(p, c)
      \/ /\ Waiting(p) /\ ~c.masked /\ Deliverable(gic, p)
         /\ c.mode = "wfe" => ~c.event
         /\ TakeIrq(p)

\* Instructions with an effect on the core itself only.
Local(p) ==
  LET c == core[p]
  IN  \/ Stays(p, c)
      \/ "daif" \in setup.does /\ c.irq = Spurious /\ Stays(p, [c EXCEPT !.masked = ~@])
      \/ "wfi" \in setup.does /\ Stays(p, [c EXCEPT !.mode = "wfi"])
      \/ "wfe" \in setup.does /\ Stays(p, IF c.event THEN [c EXCEPT !.event = FALSE]
                                                    ELSE [c EXCEPT !.mode = "wfe"])

\* The end of an IRQ handler: EOIR and ERET.
EndIrq(p) ==
  LET c == core[p]
  IN  /\ c.irq # Spurious
      /\ gic' = Settled(Eoi(gic, p, c.irq))
      /\ core' = [core EXCEPT ![p].masked = FALSE, ![p].irq = Spurious]
      /\ Quietly /\ UNCHANGED <<timer, dev, plan>>

Sgi(p) ==
  /\ "sgi" \in setup.does
  /\ \E intid \in 0 .. NumSgis - 1, q \in Cpus \ {p} :
       gic' = Settled(SendSgi(gic, p, intid, FALSE, {q}))
  /\ Quietly /\ UNCHANGED <<timer, core, dev, plan>>

\* Mutant: the broadcast does not tell the loop.
Signalled_Silent(S) == signal' = [signal EXCEPT !.failed = FALSE]

\* broadcast_event, on_cpu_memory_write: the loop is told if one of them waits
\* for an event, whether or not it now has one.
Signalled(S) ==
  signal' = [signal EXCEPT !.failed = FALSE,
                           !.woken  = @ \/ (\E q \in S : core[q].mode = "wfe")]

Sev(p) ==
  /\ "wfe" \in setup.does
  /\ core' = [q \in Cpus |-> [core[q] EXCEPT !.event = TRUE]]
  /\ Signalled(Cpus)
  /\ UNCHANGED <<gic, timer, dev, plan>>

\* A store breaks the reservations of some other cores.
Store(p) ==
  /\ "store" \in setup.does
  /\ \E hit \in SUBSET (Cpus \ {p}) :
       core' = [q \in Cpus |-> IF q \in hit THEN [core[q] EXCEPT !.event = TRUE] ELSE core[q]]
  /\ Signalled(Cpus \ {p})
  /\ UNCHANGED <<gic, timer, dev, plan>>

\* Nothing reads the time of a guest that programs no timer.
Timed == setup.does \cap {"timer", "mmio_timer"} # {}

Tick == now' = IF Timed THEN now + 1 ELSE now

\* The guest programs no deadline that the bound on time would hide.
WithinTime(t, n) ==
  Timed => /\ now + n <= MaxTick /\ t.compare + n <= MaxTick
           /\ \A k \in Channels : t.channel[k].cval + n <= MaxTick

\* Mutant: a timer register write does not reach the observer.
TimerWritten_Unobserved(pl) == pl

\* The timer's state_change_observer.
TimerWritten(pl) == Invalidated(pl)

\* refresh_local_timer_irq_lines: the writer's own two lines, at once.
TimerWrite(p) ==
  /\ "timer" \in setup.does
  /\ \E k \in {p} \X setup.timers :
       \/ \E enable, imask \in BOOLEAN : timer' = WriteCtl(timer, now, k, enable, imask)
       \/ \E cval \in CompareValues : timer' = WriteCval(timer, now, k, cval)
  /\ WithinTime(timer', loop.remaining)
  /\ gic' = SetLevels(gic, {TimerSlot(<<p, "virt">>), TimerSlot(<<p, "phys">>)}, TimerLevels(timer'))
  /\ plan' = TimerWritten(plan)
  /\ Quietly /\ UNCHANGED <<core, dev>>

MmioTimerWrite(p) ==
  /\ "mmio_timer" \in setup.does
  /\ \/ \E value \in CompareValues : timer' = MmioWriteCompare(timer, value)
     \/ \E enable, clear \in BOOLEAN : timer' = MmioWriteCtl(timer, enable, clear)
  /\ WithinTime(timer', loop.remaining)
  /\ plan' = TimerWritten(plan)
  /\ Quietly /\ UNCHANGED <<gic, core, dev>>

\* A register access that may change the device's interrupt; its observer.
DeviceAccess(p) ==
  /\ "device" \in setup.does
  /\ dev' \in BOOLEAN
  /\ plan' = Invalidated(plan)
  /\ Quietly /\ UNCHANGED <<gic, timer, core>>

NewCore(on) == [on |-> on, mode |-> "run", event |-> FALSE, masked |-> TRUE, irq |-> Spurious]

\* PSCI CPU_ON; the boot core cannot be the target.
CpuOn(p) ==
  /\ "cpu_on" \in setup.does
  /\ \E q \in Cpus \ {0} :
       /\ ~core[q].on
       /\ core' = [core EXCEPT ![q] = NewCore(TRUE)]
  /\ signal' = [signal EXCEPT !.failed = FALSE, !.woken = TRUE]
  /\ UNCHANGED <<gic, timer, dev, plan>>

\* PSCI SYSTEM_OFF and SYSTEM_RESET.
SystemOff(p) ==
  /\ "off" \in setup.does
  /\ signal' = [signal EXCEPT !.failed = FALSE, !.stop = TRUE]
  /\ UNCHANGED <<gic, timer, core, dev, plan>>

\* A breakpoint that halts fails the step; other ways to halt do not.
Halt(p) ==
  /\ "halt" \in setup.does
  /\ core' = [core EXCEPT ![p].mode = "halted"]
  /\ \E failed \in BOOLEAN : Returns(failed)
  /\ UNCHANGED <<gic, timer, dev, plan>>

StepRunning(p) ==
  /\ core[p].mode = "run"
  /\ IF ~core[p].masked /\ Deliverable(gic, p) THEN TakeIrq(p)
     ELSE \/ Local(p) \/ EndIrq(p) \/ Sgi(p) \/ Sev(p) \/ Store(p)
          \/ TimerWrite(p) \/ MmioTimerWrite(p) \/ DeviceAccess(p)
          \/ CpuOn(p) \/ SystemOff(p) \/ Halt(p)

CoreStep(p) == StepHalted(p) \/ StepWaiting(p) \/ StepRunning(p)

-----------------------------------------------------------------------------
(* Bursts and rounds                                                       *)

(* In the SMP loop the burst also leaves its inner loop when the           *)
(* controller's epoch has moved and a peer is in WFI, but the loop around  *)
(* it goes on with the same core: the burst does not end.                  *)
BurstStep ==
  LET p == loop.turn
  IN  /\ loop.at = "burst"
      /\ CoreStep(p) /\ Tick
      /\ loop' = IF signal'.stop THEN NoLoop
                 ELSE IF \/ loop.window = 1 \/ plan'.dirty \/ signal'.failed
                         \/ (NumCpus > 1 /\ (signal'.woken \/ core'[p].mode \in {"wfi", "wfe"}))
                      THEN AtTop(loop.remaining - 1)
                 ELSE [loop EXCEPT !.remaining = @ - 1, !.window = @ - 1]

\* Some core of this round may still step.
InRound == loop.at = "round" /\ loop.turn < NumCpus /\ loop.remaining > 0 /\ ~signal.stop

Steps(p) == Active(p) /\ (loop.polling \/ ReadyToRun(gic, p))

RoundSkip ==
  /\ InRound /\ ~Steps(loop.turn)
  /\ loop' = [loop EXCEPT !.turn = @ + 1]
  /\ UNCHANGED <<gic, timer, now, core, dev, plan, signal>>

RoundStep ==
  /\ InRound /\ Steps(loop.turn)
  /\ CoreStep(loop.turn)
  /\ loop' = [loop EXCEPT !.turn = @ + 1, !.remaining = @ - 1, !.active = TRUE]
  /\ UNCHANGED now

\* Every core that ran made one step, so guest time moves by one.
RoundEnd ==
  LET over == ~loop.active \/ plan.dirty \/ loop.window = 1 \/ loop.remaining = 0 \/ signal.stop
  IN  /\ loop.at = "round" /\ ~InRound
      /\ IF loop.active THEN Tick ELSE UNCHANGED now
      /\ loop' = IF over THEN AtTop(loop.remaining)
                 ELSE [loop EXCEPT !.window = @ - 1, !.turn = 0, !.active = FALSE]
      /\ signal' = [signal EXCEPT !.stop = @ \/ (~loop.active /\ AllHalted)]
      /\ UNCHANGED <<gic, timer, core, dev, plan>>

-----------------------------------------------------------------------------
(* The host: main calls run() again and again, and injects input between   *)
(* two calls.                                                              *)

AtHost == loop.at = "host"

Run ==
  /\ AtHost /\ ~signal.stop
  /\ \E n \in setup.least_run .. Budget : WithinTime(timer, n) /\ loop' = AtTop(n)
  /\ UNCHANGED <<gic, timer, now, core, dev, plan, signal>>

\* inject_uart_rx also pends the interrupt at once, inject_ps2_rx does not.
Inject ==
  /\ AtHost /\ ~signal.stop
  /\ dev' \in {dev, TRUE}
  /\ \/ UNCHANGED gic
     \/ dev' /\ gic' = Settled(SetPendingBits(gic, {DeviceSlot}, TRUE))
  /\ plan' = Invalidated(plan)
  /\ UNCHANGED <<timer, now, core, loop, signal>>

\* reset_perf_measurement_state
NewPlan == [sync_valid |-> FALSE, schedule_valid |-> FALSE, dirty |-> TRUE,
            event |-> None, last |-> {}]

NewSignal == [woken |-> FALSE, stop |-> FALSE, failed |-> FALSE]

\* save_snapshot and load_snapshot; saving a stopped machine clears its halts.
SaveAndLoadSnapshot ==
  /\ AtHost
  /\ timer' = Restored(timer, now)
  /\ core' = IF signal.stop
             THEN [p \in Cpus |-> [core[p] EXCEPT !.mode = IF @ = "halted" THEN "run" ELSE @]]
             ELSE core
  /\ plan' = NewPlan
  /\ signal' = NewSignal
  /\ UNCHANGED <<gic, now, dev, loop>>

Init ==
  /\ setup \in Setups
  /\ gic \in {Settled(LoadState(PowerOnGic, image)) : image \in SnapshotImages}
  /\ timer = NewTimer /\ now = 0
  /\ core = [p \in Cpus |-> NewCore(p = 0 \/ setup.all_start)]
  /\ dev = FALSE
  /\ plan = NewPlan
  /\ loop = NoLoop
  /\ signal = NewSignal

LoopNext == \/ Run \/ Return \/ StopHalted \/ FastForward \/ Dispatch
            \/ BurstStep \/ RoundSkip \/ RoundStep \/ RoundEnd

Next == (LoopNext \/ Inject \/ SaveAndLoadSnapshot) /\ UNCHANGED setup

Spec == Init /\ [][Next]_vars

\* main calls run() again after every return, until the machine is stopped, and
\* the loop never blocks: this is the weak fairness of LoopNext for a guest that
\* programs no timer, with its ENABLED written out.
FairSpec == Spec /\ ([]<><<LoopNext>>_vars \/ <>[](AtHost /\ signal.stop))

-----------------------------------------------------------------------------
(* Properties                                                              *)

\* The state is one of the loop's: no step or round is taken beyond the budget
\* of the call, whose counters are unsigned (SoC::run).
SocTypeOK ==
  /\ setup \in Setups
  /\ gic \in Gic /\ timer \in Timer /\ now \in 0 .. MaxTick
  /\ core \in [Cpus -> Core] /\ dev \in BOOLEAN
  /\ plan \in Plan /\ loop \in Loop /\ signal \in Signal

\* The loop is about to let a core execute.
InWindow == loop.at \in {"burst", "round"}

(* While cores execute, the lines the controller sees are the levels the   *)
(* devices drive, unless a change is noted and the loop about to sync:     *)
(* neither the levels told last nor a schedule rebuilt in between (which   *)
(* clears the dirty mark) may hide one (soc.cpp, sync_devices,             *)
(* next_device_event, invalidate_device_schedule).                         *)
LinesFollowDevices ==
  InWindow /\ ~plan.dirty =>
     gic.line_level \cap LineSlots = Levels(timer, dev)

(* The device event the loop plans by is the timer's next deadline even    *)
(* though it was computed at an earlier time (soc.cpp, next_device_event). *)
CachedEventIsDeadline ==
  Fresh(Machine) => plan.event = TimerDeadline(timer, now)

\* A sync now would change some level.
TimerLate == TimerLevels(SyncToSteps(timer, now)) # TimerLevels(timer)

(* A core that runs alone while others wait executes nothing past the      *)
(* next timer deadline of any core (soc.cpp, compute_run_window).          *)
BurstMeetsDeadline ==
  loop.at = "burst" /\ NumCpus > 1 /\ ~setup.legacy => ~TimerLate

(* A core that runs alone goes on only while no other core waits for an    *)
(* event that it already has (soc.cpp, broadcast_event, on_cpu_memory_     *)
(* write and the burst of run).                                            *)
BurstEndsOnEvent ==
  loop.at = "burst" =>
     \A q \in Cpus \ {loop.turn} : core[q].on /\ core[q].mode = "wfe" => ~core[q].event

(* A core that runs alone goes on only while no other core is ready: what  *)
(* one core does to wake another takes effect at once.                     *)
BurstPeersNotReady ==
  loop.at = "burst" => \A q \in Cpus \ {loop.turn} : core[q].on => ~ReadyToRun(gic, q)

(* A core in WFI for which an interrupt is pending leaves WFI, unless      *)
(* another core takes that interrupt: the loop keeps coming back to look   *)
(* (soc.cpp, inspect_cpu_dispatch_state; cpu.cpp, ready_to_run).           *)
PendingEndsWfi ==
  \A p \in Cpus :
     (core[p].on /\ core[p].mode = "wfi" /\ Deliverable(gic, p))
        ~> (core[p].mode # "wfi" \/ ~Deliverable(gic, p))
=============================================================================
