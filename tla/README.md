# aarchvm: a TLA+ verification project

aarchvm is an AArch64 system emulator in C++20: one to several interpreted
cores, an interrupt controller, a generic timer and a set of memory-mapped
devices, driven by one host thread. This directory holds TLA+ models of the
parts whose correctness depends on order and on state kept in more than one
place, TLC runs that check them on small instances, and TLAPS proofs about
interrupt delivery and nesting, software step, translation caches, shared memory,
the timer, the main loop, the virtio rings and the small devices.

All paths below are relative to the repository (`src/src` is the implementation,
`src/include/aarchvm` its headers). `PROJECT.json` maps every definition to the
lines it models.

## 1. Inventory

The emulator has a single thread. What makes it hard is not data races but
*caches of answers* and *deferred work*: to be fast, a core does not look at the
interrupt controller before every instruction, the main loop does not look at
the devices before every step, and guest time is not brought up to date at every
tick. Each such shortcut is sound only if everything that could change the
answer says so.

| Component | State | Operations | Talks to |
|---|---|---|---|
| Interrupt controller, `gicv3.cpp` | pending, enabled, active, line-level bits and priorities per INTID (banked below 32), an answer cache per CPU, an epoch | register writes, `set_level`, `set_pending`, `send_sgi`, `has_pending`, `acknowledge`, `eoi`, snapshots | called by cores, SoC, devices |
| CPU interrupt interface, `cpu.cpp`, `cpu.hpp` | PSTATE.I, ICC_* registers, running priority, cached threshold, remembered negative answer, exception stack, manual stack, WFI/WFE/event flags | `step`, `try_take_irq`, ICC_IAR1/EOIR1/DIR/PMR/CTLR/IGRPEN1, ERET, exceptions, WFI, WFE, SEV, `ready_to_run` | controller; other cores by SGI and SEV |
| Software step, `cpu.cpp`, `system_registers.cpp` | MDSCR.SS, PSTATE.SS, SPSR.SS, OS Lock | exception entry and return, end of an instruction | interrupt delivery |
| Generic timer, `generic_timer.cpp` | counter and its anchor, compare channels per core, MMIO timer | sync, CTL/CVAL/TVAL, MMIO registers, `steps_until_irq`, snapshots | SoC (observer) |
| SoC main loop, `soc.cpp`, `main.cpp` | device schedule, last levels told, budget and window, stop and wake flags | `run`, `sync_devices`, `next_device_event`, PSCI, input injection, snapshots | everything |
| Translation and TLB, `cpu.cpp`, `cpu.hpp` | set-associative TLB, last data and fetch translation, TTBRs, TCR, MAIR, ASID | walk, permission check, TLBI, address-space switch, snapshots | broadcast between cores (SoC) |
| Exclusive monitor, `cpu.cpp`, `soc.cpp` | reservation and event register per core | LDXR, STXR, CLREX, stores and DMA of others, WFE | memory-write callback of the SoC |
| Decode cache, `cpu.cpp` | decoded pages, last page | fetch, IC IVAU and IALLU, stores, TLBI, `set_predecode_enabled` | broadcast between cores |
| Loads and stores, `cpu.cpp` | registers, memory, the exception of this step | `exec_load_store`, predecoded forms, `mmu_read_value`, `mmu_write_value` | translation, monitor, bus |
| Other instructions, `cpu.cpp`, `system_registers.cpp` | registers | integer, floating-point, vector and system-register instructions | - |
| Virtio block and network, `virtio_*_mmio.cpp` | queue addresses and indices, features, status, header width, waiting frames | registers, notify, reset, receive, snapshots | guest memory, SoC (line), host |
| UART, `uart_pl011.cpp` | receive queue, RIS, IMSC, CR | registers, `inject_rx`, `on_uart_tx` of the SoC | SoC (line, patterns) |
| KMI, `pl050_kmi.cpp` | receive queue, pending command, scan set | registers, keyboard commands, `inject_ps2_rx` | SoC (line) |
| RTC, `rtc_pl031.cpp` | offset to the host's clock, frozen time, match, alarm | registers, snapshots | host clock |
| Block MMIO, perf mailbox | transfer registers; measurement session | commands | guest memory; SoC counters |
| Bus and fast path, `bus.cpp`, `bus_fast_path.hpp` | address map | read, write | devices |
| Snapshots, framebuffer window, slirp back end | files, window, sockets | I/O | SoC |

What must be right, component by component:

* controller: a cached answer equals the answer of a full scan; an asserted line
  is not forgotten; an SPI is handed to one core only;
* CPU interface: a core that skips the controller misses nothing; two
  bookkeeping stacks together give the one running priority of the architecture;
* software step: one instruction, never none and never two;
* timer: the forecast is never late, and exact where idle time is skipped; the
  counter follows guest time through every save and restore;
* main loop: lines follow the devices whenever a core executes; the cached next
  event is the timer's deadline; a core that runs alone stops for deadlines and
  for cores it wakes; a core in WFI is not forgotten;
* translation: a cached translation is one the tables give, or one that the
  kernel has yet to invalidate; blocks and restrictions on tables mean what the
  pages below them would;
* monitor, decode cache: no store by another core or a device is missed, and
  nothing else breaks a reservation;
* loads and stores: an aborted one leaves nothing behind that its second attempt
  would notice, and the predecoded form is the slow one;
* virtio: every available buffer is used once, in order, and the driver is told;
  only what was given is written; no frame is lost or stuck;
* devices: a driver that obeys its interrupt gets every byte; alarms ring once;
  the guest's clock does not jump; transfers are all or nothing.

`PROJECT.json` lists the hazards, each at the line where it bites.

## 2. Modules

| Module | Models | Built on |
|---|---|---|
| `GicV3` | interrupt controller | - |
| `GicV3Proofs` | theorems about `GicV3` | `GicV3` |
| `CpuIrq` | cores taking and ending interrupts | `GicV3` |
| `CpuIrqProofs` | theorems about `CpuIrq`: what a core may skip; lines, who handles them, nesting and priorities | `CpuIrq`, `GicV3Proofs` |
| `SoftwareStep` | software step of EL0 | - |
| `LoadStore` | load and store instructions, slow and predecoded | - |
| `PageTables` | table walk and permissions | - |
| `Mmu` | translation caches and their invalidation | `PageTables` |
| `SharedMemory` | stores, exclusives and decoded instructions of several cores | - |
| `MemoryProofs` | theorems about `Mmu` and `SharedMemory` | those modules |
| `GenericTimer` | the timer in its guest-step mode | - |
| `TimerProofs` | theorems about `GenericTimer` | `GenericTimer` |
| `SocRun` | `SoC::run` with controller, timer, one device and reduced cores | `GicV3`, `GenericTimer` |
| `SocRunProofs` | theorems about `SocRun` | `SocRun`, `GicV3Proofs`, `TimerProofs` |
| `BufferQueue` | abstract: what a virtqueue promises a driver | - |
| `VirtioRing` | the split ring both virtio devices use | - |
| `VirtioBlk`, `VirtioNet` | the two devices with their drivers | `VirtioRing`, `BufferQueue` |
| `Virtio` | what both devices promise | `VirtioBlk`, `VirtioNet` |
| `VirtioProofs` | theorems about `VirtioRing` and `VirtioBlk` | those modules, `TimerProofs` |
| `VirtioNetProofs` | theorems about `VirtioNet` and both devices together | `Virtio`, `VirtioProofs` |
| `UartPl011`, `Pl050Kmi`, `RtcPl031`, `BlockMmio`, `PerfMailbox` | one device each | - |
| `DevicesProofs` | theorems about the five small devices, and about `SoftwareStep` | those modules, `TimerProofs` |
| `MCCore` | instance of `GicV3`, `SoftwareStep`, and of the next two | `MCInsns`, `MCMemory` |
| `MCInsns` | the instructions and machines `LoadStore` is tried on | `LoadStore` |
| `MCMemory` | page tables, stores and mappings for `Mmu` and `SharedMemory` | those modules |
| `MCDevices` | instance of `GenericTimer`, the five small devices, and of the next two | `MCBlk`, `MCNet`, `Virtio` |
| `MCBlk`, `MCNet` | the setups `VirtioBlk` and `VirtioNet` are tried on | those modules |
| `MCCpuIrq`, `MCSocRun` | instances of the module of that name | |

`MCCore` and `MCDevices` each hold several systems that share nothing; a variable
chosen at the start (`part`, `device`) says which one moves, and the others stand
still in one state. This is a union of state spaces, never a product.

**GicV3.** The C++ object is the record `gic`; every member function is an
operator from a record to the next, so callers compose them in the order of the
code's calls. A *slot* is where an interrupt's bits live: one per core for banked
INTIDs, one for an SPI. `GicNext` is the controller under any caller. Registers
that only a register read looks at are left out. The epoch bound `MaxEpoch` is a
guard of `Becomes` (a 64-bit counter in the code); a sub-word register write is a
write of some 32-bit value.

**CpuIrq.** One action is one call of `Cpu::step()`: an IRQ is taken, or one
instruction is executed after a fruitless look, or a wait is polled. `query` is
the remembered negative answer (`irq_query_*`), `exc` and `manual` the two
stacks. A full exception stack acknowledges first and halts the core afterwards,
one instruction later, as in the code (`halted = "last"`). Two history variables
state what is right: `apr`, the stack of acknowledged interrupts an
architectural CPU interface keeps, and `waived`, the lines a guest has silenced
itself through ICPENDR, ICACTIVER or ISACTIVER. A *setup* says which devices
there are and what the guest does; it is chosen at the start and never changes.
A *tidy* guest follows rules that the repository's own guest tests follow (a
comment in the module lists them); without them the running priority goes wrong,
see `irq_rules`. One of the rules came out of the proof of section 4: a guest may
clear the active bit of an interrupt it handles by ICACTIVER and then raise that
interrupt's priority, after which it is taken again inside its own handler; a
tidy guest leaves the priority of what it handles alone.

**SoftwareStep.** A kernel at EL1 steps a program at EL0 with KDE clear. The
controller is reduced to "there is an interrupt" and "the remembered negative
answer is current"; both may change at any time.

**GenericTimer.** `now` is the SoC's guest time, the counter is only brought up
to date by a sync. The forecast keeps the width of the code's unsigned
arithmetic (`% Modulus`), because its rounding overflows for far compare values.

**SocRun.** The phases of `run()` are `loop.at`: the host between two calls, the
top of the loop (maybe-sync, stop, fast-forward, dispatch), a burst of a single
runnable core, or rounds of one step per core. Operators over a `Machine` record
follow the order of the code's calls; `AfterX` is what a call of `X` leaves
behind in the schedule. Controller queries are answered by a scan, which
`CachedAnswerCorrect` justifies, so the epoch is not kept. One device line stands
for UART, KMI and virtio, which `sync_devices` treats alike. `setup` holds the
command-line options (scheduler mode, boot mode, window) and the guest.

**LoadStore.** A machine record `s` goes through an instruction; the operators
follow the helpers of `exec_load_store` (`mmu_read`, `mmu_strict_read`,
`raw_mmu_read`, `data_abort` and so on), so that what has been done before a fault
is still there when the fault is taken. A byte has `ByteMod` values but sizes,
widths and alignments are those of the code. `Exec` is the slow path, `ExecDecoded`
the predecoded one. The system runs one instruction again and again while its
handler repairs the page the abort reported. The module states its value
conversions with `Bitwise`, so it stays with TLC.

**PageTables, Mmu.** Addresses are page numbers and a descriptor is a record of
its fields. `Descend` goes down the levels, gathering restrictions; `Walk` then
checks what it has arrived at.
`mmu` is a core's TLB, its two last translations, registers and ASID. A kernel
changes tables, switches spaces and sends TLBIs, which the SoC broadcasts;
`stale` remembers the old translations a kernel has replaced and not invalidated,
so `TlbCoherent` allows exactly those.

**SharedMemory.** Cells of RAM, a mapping of virtual pages that may alias, and for
each core its monitor, event register and decoded pages. Stores are cut at pages
as `mmu_write_value` cuts them, and may fail half-way where nothing is behind the
second page. The ghost `link` says what really happened to the bytes of the last
LDXR: `ExclusiveIsAtomic` compares STXR's answer with it, success and failure.

**VirtioRing, VirtioBlk, VirtioNet, BufferQueue.** Guest memory is a function
from cells to contents; an access succeeds exactly when all its cells are RAM. A
notification is one step, as in the code: it runs through the available chains
until the first that fails. Drivers program a device by scripts, offer chains at
any time, handle the interrupt by acknowledging first and collecting until the
ring is empty, and may reset the device in the middle. `RingsAreQueues` is a
refinement: the rings in memory, read through indices that wrap, implement
`BufferQueue`. The setups of `MCBlk` include loops, read-only buffers, sectors at
and past the end of the disk, and rings that are not RAM. A setup is `sound` when its driver
keeps to the rules of a queue: the table and the two rings are RAM and apart
(`SoundLayout`), no descriptor gives the device a cell of them (`SoundTable`), there
are fewer chains than index values (`SoundHeads`), and the script stops the queue,
empties the rings and then programs it (`SoundScript`). Chains may be broken in any
way. A network driver keeps two such queues apart from each other and from the cells
where it writes its frames, stops both by a reset or one after the other, and programs
them one after the other (`NetSetupAssumption`). Assumptions state this, and TLC evaluates
them on the setups of the run.

A network driver numbers the frames it sends, and the host numbers its own; on the
other side the numbers must come out one by one. In the setups with `lead` a frame
begins with a zero, which is also all that a header consists of, so the device can
take it for a part of the header. The setups of `MCNet` have both widths of the
header in both directions, negotiated and guessed, header and frame in one segment
and apart, and two frames on their way at once.

**UartPl011** has the device, the SoC's pattern windows and an interrupt-driven
driver. **Pl050Kmi** has the keyboard protocol by bytes, in hexadecimal.
**RtcPl031** counts host seconds modulo `RtcModulus` (2^32), with the alarm that
is evaluated only on access. **BlockMmio** has a transfer as one command over
image and RAM. **PerfMailbox** has a session of counters across snapshots.

## 3. Runs

| Run | Distinct states | Shows |
|---|---|---|
| `core` | 96,385 | the controller under any caller: `CachedAnswerIsScanAnswer`; software step: `MaskedStepsOne`, `NoEmptyStep`; every form of load and store on machines whose pages are absent, read-only, device memory or empty, with watchpoints and alignment checks: `FaultIsPrecise`, `RestartsExactly`, `PredecodeAgrees`, `BytesFindTheirPlace`; one core, and two, with changing tables: `TlbCoherent`, `SnapshotKeepsTlb`; tables of every shape: `WalkFollowsMapping`, `UnprivilegedIsUser`; two cores and a device on shared data and code: `ExclusiveIsAtomic`, `ReleaseWakesWaiter`, `DecodedIsMemory` |
| `irq_nest` | 371,342 | one core nests handlers, manual acknowledgements, both EOI modes and synchronous exceptions to a full stack: `RunningPriorityIsLastAcked`, `NestedIsMoreUrgent` |
| `irq_share` | 199,584 | two cores share a line under register writes, or signal each other and wait: `AssertedLineServed`, `LineSpiHandledOnce`, `NegativeAnswerStillNegative` |
| `soc_smp` | 328,185 | two cores, both scheduler modes, timers, events, stores, CPU_ON, halts, stops, injected input, snapshots: `LinesFollowDevices`, `BurstMeetsDeadline`, `BurstEndsOnEvent`, and, under fairness, `PendingEndsWfi` |
| `soc_up` | 162,504 | the single-core loop with both channels and the MMIO timer: `CachedEventIsDeadline` |
| `devices` | 241,964 | timer: `DeadlineIsExact` and `CounterFollowsTime` with five cycles per step and a wrapping forecast; UART: `ConsoleSeesPatterns`, and under fairness `UartDrains`; keyboard: `KmiStaysInStep`; clock: `RtcTimeContinuous`, `RtcAlarmSeen`; block device: `BlockAllOrNothing`; mailbox: `PerfMeasuresSession`; both virtio devices: `RingsAreQueues`, `DriversTold`; virtio block: `BlkWritesOnlyGiven`, `BlkOkIsDone`, and under fairness `BlkChainsReturn`; virtio network: `NetFramesInOrder`, `NetNoFrameStuck` |

`GicTypeOK`, `SocTypeOK`, `TimerTypeOK`, `ThresholdIsCurrent` and the answers
remembered by a nesting core are not checked by a run: they are theorems (section
4). The other type invariants (`CpuTypeOK`, `BlkTypeOK`, `NetTypeOK`) say what the
state is; the runs check what could be wrong with it.

Six runs are expected to fail; each is a disagreement between the code and a
statement of the repository, quoted in `PROJECT.json` under `findings`:

* `irq_rules` - a guest that ends interrupts in reverse order, but not frame by
  frame, is left with the running priority of an interrupt that it has ended:
  EOIR looks at the tops of two separate stacks.
* `step_lost` - an unmasked program that is stepped executes two instructions
  when the core looks at the controller in vain: `try_take_irq` claims an
  exception (`exception_taken_this_step_`) before it knows of one.
* `soc_sgi` - the check of the controller's epoch leaves only the inner loop of a
  burst, so a core that was sent an SGI waits until the window ends.
* `soc_keys` - keys found by `present()` are injected after the levels were
  sampled and before the schedule is marked clean: the interrupt is delayed.
* `blk_wrap` - the sector of a request times 512 wraps in 64 bits before it is
  compared with the size of the image: a write far past the end overwrites the
  first sector and is answered OK. Both properties of the contents of a disk
  (`BlkWritesOnlyGiven`, `BlkOkIsDone`) speak of the sector a request names; in
  `devices` they hold for every setup whose byte offsets fit (`SectorsFit`).
* `net_header` - a driver with the short header, in one segment with a frame that
  begins with zeros, is taken for one with the long header: the device cuts bytes
  off the frame, and off every later one.

### Bounds

* Two cores are the smallest number at which one can change what another has
  cached; nothing in the modelled code compares more than two cores. One banked
  and one shared interrupt, at two priorities that can be delivered plus the mask
  value, give every comparison each outcome.
* `MaxEpoch` (5 in `core`) allows caches that are fresh, one and several epochs
  old. In the `irq_*` runs the epoch is out of reach of its bound: they use a
  view. The epoch is only compared for equality with copies of it and never
  decreases, so a copy that differs now differs for ever, and `MCView` keeps just
  which copies are fresh. All checked properties are functions of the view.
* `MaxExcDepth` 2 (64 in the code) reaches a full stack, and halting, with one
  frame inside another.
* `MaxTick` bounds guest time; a guest programs no deadline that the bound would
  hide (`WithinTime`). `Budget` 3 (200,000 in the code) ends calls before, at and
  after deadlines and in the middle of rounds; `ShortWindow` 1 (256) puts
  deadlines on both sides.
* `Modulus` 64, five cycles per step and a compare value of 63 make the forecast
  overflow, towards a deadline in the step that would wrap the counter. Two ticks
  (`MaxTick` in `devices`) reach the other compare value; what is beyond them the
  property computes (`HighAfter`).
* A register holds 8 units of 4 values and a page 32 of them: every access size
  crosses a page at one of the places tried, and sign, carry and truncation have
  room to go wrong.
* Tables of two entries in two or three levels, two spaces and a kernel; two
  ways in one set, so entries are evicted; one change of the tables at a time
  (`MaxStores`), and two cached translations where two cores run
  (`MCMaxCached`), which is what one invalidation that misses a core needs.
* Pages of two cells, of which two are mapped, to RAM, to the same RAM or to
  nothing: a store crosses a page, an alias is written, the second half fails.
* `IndexModulus` 6 with queues of 6 and 2 entries wraps ring indices within a
  few requests; `OffsetModulus` 16 wraps sectors in `blk_wrap`; `AddressHalf` 32 splits
  queue addresses. Two frames are on their way or wait at once (`MaxPending`; 1024
  may wait in the code); numbered modulo 3, they show a loss, a repetition and a
  wrong order.
* Queues of two bytes in UART and keyboard fill up; four bytes typed and sent
  are longer than the patterns; `RtcModulus` 8 wraps the clock in a run.
* Deadlock is checked in every run: the bounds never cut a behaviour off
  unnoticed, because injection and snapshots remain possible. In `core` an
  instruction that has completed, or whose fault its handler cannot repair, is at
  its end and may stay there (`MCInsnEnds`), and tables that are only walked have
  nothing to do; nothing else may stop.
* `core` uses symmetry of the cores of `SharedMemory`, which nothing tells apart;
  it checks no liveness.

### Fairness

Three properties need it.

`PendingEndsWfi`: `main` calls `run()` again after every return
until the machine is stopped, and nothing in the loop blocks on a guest, so the
loop takes steps for ever or the machine is stopped: `FairSpec`. Guest actions
and injections get no fairness. Calls of `run()` have at least as many steps as
there are cores in that setup (`least_run`): `main` makes shorter calls only just
before a scheduled injection (`main.cpp:605-620`), so finitely often. With calls
of one step for ever the property would fail, since each round starts at core 0;
the hazard list says so. Setups that program timers have a bound on time and so
no fair behaviour of their own: `PendingEndsWfi` is about the setup with SGIs,
events and input.

`BlkChainsReturn`: a driver goes on with what it has begun (`BlkFairness`, weak
fairness of its script, its notification, its acknowledgement and its
collecting). The device needs none: it acts inside the notification. Offering
chains, resets and snapshots are not fair.

`UartDrains`: the guest's handler runs when the line is high again and again
(`UartFairness`; strong, because the driver may mask the interrupt in between),
and a driver that has stopped listening listens again. The core's part in this is
`AssertedLineServed`, the main loop's `LinesFollowDevices`.

## 4. Proofs

`GicV3Proofs` proves, for any number of cores, interrupts and priorities, any
snapshot images and any epoch bound (`GicAssumption`):

* `GicTypeCorrect`: `GicSpec => []GicTypeOK`;
* `CachedAnswerCorrect`: `GicSpec => []CachedAnswerIsScanAnswer`.

`CachedAnswerIsScanAnswer` is not inductive: a cache stamped with a *future* epoch
would become current later without anybody asking. The inductive invariant
`GicInv` adds that no cache is ahead of the epoch, and the type. The argument: a
change of state is *quiet* if it leaves the caches alone and either moves the
epoch forward or leaves everything alone that an answer depends on. Each setter
is quiet (`PendingQuiet`, `EnabledQuiet`, `ActiveQuiet`, `PriorityQuiet`,
`LevelQuiet`, `SgiQuiet`, `AcknowledgeQuiet`, `EoiQuiet`), being quiet is
transitive, and a quiet change keeps `GicInv` (`QuietKeepsInv`), because the
candidates depend on three fields only (`CandidatesDepend`). A query stores what
a scan finds (`QueryKeepsInv`), and loading a snapshot drops all caches.

`CpuIrqProofs` proves, for any number of cores and interrupts, any stack depth
and any set of setups (`CpuAssumption`):

* `NegativeAnswerCorrect`: `Spec => []NegativeAnswerStillNegative`;
* `ThresholdCorrect`: `Spec => []ThresholdIsCurrent`.

The inductive invariant `CpuInv` says of each core that its record is typed, its
stacks fit into their arrays and its threshold is current (`GoodCore`), and that
its remembered answer was not given in the future and is true while its epoch
stands, at the threshold it was given for (`TrueQuery`). That threshold need not
be the core's present one, which is why the property itself is not inductive: a
write of ICC_PMR_EL1 or an EOIR may bring an old threshold back. `GicInv` is part
of `CpuInv`, since a core in WFE takes its answer from the controller's own cache
(`HasPendingTrue`). Any step of any core or device *moves* the controller: it
keeps `GicInv` and either advances the epoch or leaves the answers alone, so the
other cores' answers stay true (`MoveKeepsQuery`, `OneKeeps`). What remains is
one lemma per kind of step about the core that takes it.

About what becomes of an interrupt it proves, under the same assumptions:

* `HandledOnceHolds`: `Spec => [](AprOK /\ HandledOnce)`;
* `LineSpiHandled`: `Spec => []LineSpiHandledOnce`;
* `AssertedLinesServed`: `LinesStartServed => (Spec => []AssertedLineServed)`.

`LineSpiHandledOnce` alone is not inductive: that no two cores handle a line's
SPI says nothing about the next acknowledgement. `HandledOnce` adds that while an
entry for it is in a history its active bit is set and its pending bit is not, so
that nobody can acknowledge it; `AprOK` gives the histories their type. The
proof first reduces every action to its effect on the controller's bits, the
histories and the stacks (`Touches` and its companions), and then keeps the
invariants through the effects. `LinesStartServed` says that in every snapshot
image an asserted line is pending or active. Images are a constant of the model,
so without it one could be loaded in which a line has been forgotten already;
those that the program saves satisfy it, by the same theorem.

About nesting the module goes on to prove:

* `StackInvariant`: `Spec => []StackInv`;
* `RunningPriorityCorrect`: `Spec => [](setup.tidy => RunningPriorityIsLastAcked)`;
* `NestingCorrect`: `Spec => [](setup.tidy => NestedIsMoreUrgent)`.

The code keeps two stacks, exception frames and manual acknowledgements, where
the architecture has one. `OneStack` says that the history `apr` of a core is a
merge of the two: each entry has its place in the frames and in the manual stack,
in order, what the code saved at that place is the priority below it in the
history, and nothing else on the stacks is still open, so that popping either
stack restores the right one. `PriosKept` says
that the priorities in the history are those the controller still has, which
needs the rule on priorities of `CpuIrq` above. That an entry pushed is more
urgent than the one below follows from the threshold (`ThresholdCorrect`), and
that its interrupt was not there yet from `HandledOnce`. A core that has halted
is excepted, as in the properties: it takes no further step.

`DevicesProofs` proves, for the whole of `SoftwareStep` (it has no
constants):

* `MaskedStepCorrect`: `Spec => []MaskedStepsOne`;
* `NoEmptyStepCorrect`: `Spec => NoEmptyStep`.

The inductive invariant `StepInv` adds where the pending step is kept: as long as
an armed step has executed nothing, the program's SS bit is set, in PSTATE while
the program runs and in SPSR while a handler does (`StillArmed`); and once a
masked program has executed its instruction that bit is clear (`StepOver`).

`MemoryProofs` has two parts. About shared memory it proves, for any number of
cores and devices, any page size, any RAM and any mappings of it, aliases and
holes included (`SharedAssumption`: pages hold an even number of cells, so that a
pair fits, and RAM has a lowest page):

* `SharedInvHolds`: `SharedSpec => []SharedInv`;
* `ExclusivesAreAtomic`: `SharedSpec => []ExclusiveIsAtomic`;
* `ReleasesWakeWaiters`: `SharedSpec => []ReleaseWakesWaiter`;
* `DecodedMatchesMemory`: `SharedSpec => []DecodedIsMemory`.

The properties speak of what STXR answers and of what WFE does; the invariant
carries them over the time between. `LinkInv` says of each core that a valid
monitor covers exactly the cells of `link` and that nobody has spoiled them, that
an invalid one was lost for a cause, and that one lost to another agent's store
has left an event behind for the core to see. `DecodeInv` says that every valid
slot of a decode cache has only true words of its frame, and that none is valid
while predecoding is off. A store is followed cell by cell
through its split at pages: each half that is written tells all other cores
before the next one is tried, so nothing is missed when the second half faults.

About translation it proves, for any number of cores, sets and ways, any address
spaces, any tables at the start and any changes to them (`MmuAssumption`: there is
a set and a way, and pages have numbers):

* `TlbCoherentHolds`: `MmuSpec => []TlbCoherent`;
* `SnapshotKeepsTlbHolds`: `MmuSpec => []SnapshotKeepsTlb`;
* `UnprivilegedIsUserHolds`: `MmuSpec => []UnprivilegedIsUser`.

`TlbInv` says where what is cached may come from: `Known` is what the present
tables give and what waits for its invalidation, and everything a core holds, in
any way of any set or in its last translations, is a member of it as the core's
MAIR shows it (`Held`). Each operation of the TLB only moves entries about
(`InsertKeeps`, `MapKeeps`, `FlushAllKeeps`, `LoadKeeps`); a translation adds what
its walk found, and a walk that succeeds finds the same whoever asks
(`WalkAgrees`); a store into the tables makes what is no longer present stale; and
an invalidation takes from every core whatever it takes from `stale`. A snapshot
needs more: `TidyInv` says that an entry is in the set of its page and that no set
has two entries of which a lookup would have to prefer one. The entries are then
put back one by one, and `PutBack`, an invariant of that loop, says that after k
positions the sets hold exactly the entries before k, each set filled from its
first way on, so that no insertion evicts another, although all ways may be in
use. For the loop the module derives induction for sets of numbers from the
well-foundedness of `<` (`Inductive`).

`TimerProofs` proves, for any number of cores, any speed of the counter, any width
of the registers that guest time fits into, and any values written
(`TimerAssumption`):

* `CounterCorrect`: `TimerSpec => CounterFollowsTime`;
* `DeadlineCorrect`: `TimerSpec => [](TimerTypeOK /\ DeadlineIsExact)`.

The invariant `TimerInv` says that the counter is the anchor's time, that the
anchor is not in the future, and that a pending line is really due; the forecast
is then an argument about rounding up modulo `Modulus`. The attempt showed that
exactness was claimed for too many compare values: with several cycles per step
the counter itself wraps in the step that should reach a value close to its end.
`Fits` now says so, and the run has such a value. The module also has what the
main loop relies on: between two changes of the timer the deadline does not move
when guest time advances (`ForecastNext`), it is not beyond the compare values
(`ForecastBound`), a sync leaves the settings alone (`SyncLines`) and a second one
finds nothing to do (`SyncTwice`).

`SocRunProofs` proves, for any number of cores, any budget, window and speed of the
counter, any set of setups and any snapshot images (`SocAssumption`,
`GicAssumption`, `TimerAssumption`):

* `SocTypeCorrect`: `Spec => []SocTypeOK`;
* `LinesCorrect`: `Spec => [](~setup.sdl => LinesFollowDevices)`;
* `DeviceEventCorrect`: `Spec => []CachedEventIsDeadline`;
* `BurstDeadlineCorrect`: `Spec => []BurstMeetsDeadline`;
* `BurstEventCorrect`: `Spec => []BurstEndsOnEvent`.

None of the four is inductive: each speaks of the moment at which cores execute,
or at which the schedule is clean, and what makes it true was done earlier. The
invariant `SocInv` carries it over. `LinesOK`: as long as the levels told last are
valid, the controller has them and they are the devices' (also at the top of the
loop, where the controller may lag). `EventOK`: a fresh schedule has the timer's
deadline; guest time may advance because the deadline does not move before it is
reached. `SyncedOrNoted`: cores execute only after a sync or while a change is
noted. `BurstPlanned`: the window that a burst has left ends before the planned
event, or is one step. `TimeOK` says that the timer stands at or before guest
time and that the bound on time leaves room for the steps of the call. The first
part of the module follows a machine record through the loop's calls
(`SyncKeeps`, `NextEventKeeps`, `FastForwardKeeps`, `MaybeSyncFit`, `RunWindowIs`),
the second has one lemma per action; what a core does in one step is
`CoreStepKeeps`. Two assumptions were needed beyond the types: every core has its
channels (`TimerCpus = Cpus`), and the guest's time ends before the forecast's cap,
a quarter of the 64-bit range, since the code takes that cap for "no deadline".
`LinesCorrect` excepts a machine with a window, for which `soc_keys` shows the
property violated.

`DevicesProofs` also proves, for each device under its own assumption on its constants
(`UartAssumption`, `RtcAssumption`, `BlockAssumption`; keyboard and mailbox need
none):

* `PatternsSeen`: `UartSpec => []ConsoleSeesPatterns`. Each window holds the last
  bytes sent, as many as its pattern is long, and the reply is armed as long as
  its pattern has not been sent (`ConsoleOK`).
* `KmiInStep`: `KmiSpec => []KmiStaysInStep`. An answer that is owed is in the
  queue of an enabled port, and the first of two resets ends a half-sent command
  (`KmiInv`).
* `RtcFollowsTime`, `RtcAlarmsSeen`: `RtcSpec => RtcTimeContinuous` and
  `RtcSpec => []RtcAlarmSeen`, by the arithmetic of remainders: differences of
  times modulo the register's width are independent of wraps in between.
* `BlockCommandsAtomic`: `BlockSpec => BlockAllOrNothing`, from the range checks.
* `PerfMeasures`: `PerfSpec => []PerfMeasuresSession`; the property is inductive.

`VirtioProofs` proves, for any size of the indices, the queue and the disk, any
guest memory, any chains, and any scripts of register writes (`RingAssumption`,
`BlkAssumption`, and `BlkSetupAssumption` about sound setups):

* `BlkInvariant`: `BlkSpec => []BlkInv`;
* `BlkRingImplementsQueue`: `BlkSpec => BlkRingIsQueue`, the half of `RingsAreQueues`
  that is about the block device;
* `BlkDriverIsTold`: `BlkSpec => []BlkDriverTold`, its half of `DriversTold`;
* `BlkWritesWhatItIsGiven`: `BlkSpec => (blk_setup.sound /\ HeadersKept(blk_setup) =>
  [][MemoryWritesGiven]_blk_vars /\ (SectorsFit(blk_setup) => BlkWritesOnlyGiven))`.

The queue of `BufferQueue` is two sequences; the code has two rings of cells and
four indices, each modulo 2^16, in the device and in memory. `RingOK(l, mem, heads,
s, r, n)` says what they must be for the sequences to be there: the driver is at
index s, the r cells from there in the used ring are returned and the n - r cells of
the avail ring after them are offered, all of them hold different heads, and every
published index is what these numbers make it. n cannot exceed the number of heads,
so the cells never meet although indices wrap (`SlotsApart`). Offering, serving,
returning and collecting each move the numbers (`RingOffer`, `RingServe`,
`RingReturned`, `RingCollect`). `BlkInv` says that a started queue has such numbers
for the layout its driver programmed, and where the queue is not started, how far
the script has come: stopped, emptied, and how many of the registers are programmed,
half by half (`Programmed`). A request may write wherever its chain says; that it
cannot write into the queue it came from is `ExecuteKeeps`, by induction over the
segments, from the rule that no descriptor gives the device such a cell. The loop of
a notification is followed turn by turn (`BlkServed`), whether or not the chains can
be walked: it always ends with every offered head returned, in order.

What a notification writes follows the same turns. Of one request, `RequestWrites`
says that it stores into memory only cells of descriptors its chain gives, and into
the disk only the span its header names, induction over the segments again
(`CopySegmentStores`). The property judges this by the chains and headers as the
notification found them, while the device reads each header when its turn comes,
after earlier requests have written. So it needs more than a sound layout:
`HeadersKept` says that no descriptor gives the device a cell some chain has its
header in, and that the driver does not write buffers over headers. Without it a
request could rewrite the header of the next one, and the code would obey it.
`BlkWriteInv` adds to `BlkInv` that headers in memory are those of the setup
(`BlkKept`). The half about guest memory, `MemoryWritesGiven`, holds whatever
sectors the headers name. The half about the disk, `DiskWritesGiven`, is about the
sectors that are named, while the code uses a byte offset of 64 bits; the two are
the same when the offset fits (`SectorsFit`, `OffsetIsFirstUnit`), and the theorem
claims it only then, since `blk_wrap` shows it false otherwise. `MCBlk` has TLC
evaluate that every sound setup of `devices` satisfies both conditions
(`MCHeaders`), and that the one of `blk_wrap` lacks only the second (`MCOffset`).

`VirtioNetProofs` proves the same of the network device, under `RingAssumption` and
`NetSetupAssumption`, and puts the two together:

* `NetInvariant`: `NetSpec => []NetInv`;
* `NetRingsImplementQueues`: `NetSpec => NetRingsAreQueues`, receive and transmit ring
  each a `BufferQueue`; with the block device
  `VirtioRingsImplementQueues`: `BlkSpec /\ NetSpec => RingsAreQueues`;
* `NetDriverIsTold`: `NetSpec => []NetDriverTold`; with the block device
  `VirtioDriversAreTold`: `BlkSpec /\ NetSpec => []DriversTold`;
* `NetFramesFindBuffers`: `NetSpec => [](Roomy(net_setup) => NetNoFrameStuck)`.

The theorems about both take the two specifications as they are, with guest memories
of their own: in the run, too, the devices share nothing.

A queue of the network device differs from that of the block device in three ways.
There are two of them, and the work on one must leave the other's rings and both
tables alone: `NetTurned` says what one chain, sent or filled, has changed, and
`WritePayloadKeeps` that a frame written into a chain stays in the chain's cells. A
loop may stop early, at a chain that is empty, of the wrong direction, too small or
not RAM, or because no frame is left, so `NetServes` says only that some of the
offered heads, in order and from the first on, have come back (`NetServed`), which is
still a step of the abstract queue, whose device may return any number at once. And
one script programs both, so `ScriptAt` says of each where the script stands with it:
between the write that stops it and the one that starts it it is not ready, once the
rings are emptied they are empty until then, and a driver that stops its queues one
by one has selected the one it stops. `DriversTold` is in `NetQueueOK`: heads that
wait to be collected mean an interrupt that is raised or being handled.

That no frame is stuck is in `NetQueueOK` too: with a frame waiting and no
notification under way, a receive queue has nothing left. It holds only if the loop
does not give up, and the code gives up at a buffer the frame does not fit into
(`virtio_net_mmio.cpp:633`). `Roomy` says that every receive buffer is writable RAM
with room for the long header and any frame that may come; a driver cannot know that
the header will be the short one. That frames which the loopback returns fit as well
is `FrameFits`, which every waiting frame keeps through the queue of frames, a reset
and a snapshot. Two setups of the run are not roomy in this sense and have the
property nevertheless, because the long header is never used there; the others are
(`MCRoomy`).

Only model-checked:

* liveness under fairness (`PendingEndsWfi`, `BlkChainsReturn`, `UartDrains`): the
  prover handles neither fairness nor ENABLED;
* `LoadStore` (`FaultIsPrecise`, `RestartsExactly`, `PredecodeAgrees`,
  `BytesFindTheirPlace`): it states the conversions of values with `Bitwise`, which
  the prover cannot read, and with folds over bytes;
* `WalkFollowsMapping`: that a block is its pages is arithmetic on spans at each
  level, under conditions on the tables (no table points back into the one that is
  split) which the run's tables satisfy and for which no assumption is stated;
* `NetFramesInOrder`: frames are gathered from and scattered over segments by folds,
  and that the width guessed for the header is the driver's is a matter of the setups:
  for one it is not, see `net_header`;
* `BlkOkIsDone` of the block device, about the contents of a whole transfer, and
  `BlkWritesOnlyGiven` for the setups of the run that are not sound.

## 5. Not modelled

* The host-monotonic clock mode of the timer and the wait for slirp sockets in
  the idle loop: they depend on real time and on the network.
* Integer, floating-point and vector arithmetic: data, not control. Of the
  system instructions only those that touch modelled state.
* Address translation by AT instructions; the configuration space of the virtio
  devices; registers that only store and return a value.
* The bus and its fast path: other modules see an access as what the device
  does, or a failure. With it, sub-word writes to redistributor frames.
* The snapshot file format and its old versions; rendering; libslirp.
* Stepping of EL1 (KDE) and of WFI/WFE; SEVL; contexts that migrate between
  cores.

Behaviours met on the way that no statement of the repository settles, and that
the models have as they are:

* CASB and CASH compare 32 bits (`cpu.cpp:14765`): with upper bits set in the
  compared register they never succeed;
* a vector literal load may check the stack pointer's alignment, because bits of
  its offset are taken for a base register (`cpu.cpp:15151`);
* a predecoded STRB or STRH hands a device the untruncated register
  (`cpu.cpp:4266`);
* ERET drops a reservation without setting the event register (`cpu.cpp:5281`);
* a full keyboard queue drops the acknowledgement of a command
  (`pl050_kmi.cpp:175`), a full UART queue the byte (`uart_pl011.cpp:191`);
* a receive buffer smaller than the frame stops the queue
  (`virtio_net_mmio.cpp:633`), and a frame is sent again when the used ring cannot
  be written (`virtio_net_mmio.cpp:577`);
* a snapshot taken with a register out of range is refused when it is loaded
  (`virtio_net_mmio.cpp:264`, `virtio_blk_mmio.cpp:219`);
* rounds of several cores run past a deadline that is further away than the
  short window (`soc.cpp:1101`).

## 6. Plan

In this order, most important first:

1. `NetFramesInOrder` and `BlkOkIsDone`: the contents of a transfer segment by segment,
   along the inductions of `WritePayloadKeeps` and `CopySegmentStores`.
2. `WalkFollowsMapping` for tables that are trees.
3. UART and KMI inside `SocRun` in place of its single device line.
4. Exception depth with migrating contexts; stepping of EL1 and of WFI.
5. Bus: the fast path decodes and faults like the slow one; sub-word frames of
   the controller.
