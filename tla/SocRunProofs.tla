---------------------------- MODULE SocRunProofs ----------------------------
(***************************************************************************)
(* Proofs about the main loop, for any number of cores, lengths of calls   *)
(* and windows, and cycles per step: the lines follow the devices, the     *)
(* planned event is the timer's deadline, and a core that runs alone       *)
(* stops for deadlines and events.                                         *)
(*                                                                         *)
(* The first part follows a machine record through the loop's calls, the   *)
(* second the actions.                                                     *)
(***************************************************************************)
EXTENDS SocRun, GicV3Proofs, TimerProofs

\* The steps that the call still has, with that of the round that is not over;
\* the bound on time leaves room for them.
Left == IF ~Timed THEN 0 ELSE IF loop.active THEN loop.remaining + 1 ELSE loop.remaining

\* A timer that nobody has programmed.
Still(t) ==
  /\ ~t.enabled /\ ~t.mmio_irq
  /\ \A k \in Channels : ~t.channel[k].enable /\ ~t.channel[k].irq_pending

\* The timer stands at or before guest time, and its compare values and guest
\* time leave room for the steps to come.
Early(t, left) == t.compare + left <= MaxTick /\ \A k \in Channels : t.channel[k].cval + left <= MaxTick

TimeOK(m, left) ==
  /\ m.now \in Nat /\ m.now + left <= MaxTick
  /\ InTime(m.timer, m.now) /\ Early(m.timer, left)
  /\ ~Timed => m.now = 0 /\ Still(m.timer)

\* While the levels told last are valid, the controller has them, and they are
\* what the devices drive.
LinesOK(m) ==
  m.plan.sync_valid => /\ m.gic.line_level \cap LineSlots = m.plan.last
                       /\ ~setup.sdl => m.plan.last = Levels(m.timer, m.dev)

EventOK(m) == Fresh(m) => m.plan.event = TimerDeadline(m.timer, m.now)

MachineOK(m, left) ==
  /\ m = [gic |-> m.gic, timer |-> m.timer, now |-> m.now, dev |-> m.dev, plan |-> m.plan]
  /\ m.gic \in Gic /\ m.dev \in BOOLEAN /\ m.plan \in Plan
  /\ TimeOK(m, left) /\ LinesOK(m) /\ EventOK(m)

\* A sync of the machine would change some level.
Late(m) == TimerLevels(SyncToSteps(m.timer, m.now)) # TimerLevels(m.timer)

LoopOK ==
  /\ loop \in Loop
  /\ loop.at = "host"  => loop.remaining = 0 /\ ~loop.active
  /\ loop.at = "top"   => ~loop.active
  /\ loop.at = "burst" => ~loop.active /\ loop.turn \in Cpus /\ 1 <= loop.window /\ loop.window <= loop.remaining
  /\ loop.at = "round" => 1 <= loop.window

\* Cores execute only after a sync, or while a change is noted.
SyncedOrNoted == InWindow => plan.sync_valid \/ plan.dirty

\* A burst ends before the planned event, or at once.
BurstPlanned ==
  loop.at = "burst" /\ NumCpus > 1 /\ ~setup.legacy =>
    \/ plan.schedule_valid /\ ~plan.dirty /\ (plan.event = None \/ now + loop.window <= plan.event)
    \/ loop.window = 1 /\ ~TimerLate

SocInv ==
  /\ setup \in Setups /\ core \in [Cpus -> Core] /\ signal \in Signal
  /\ MachineOK(Machine, Left) /\ LoopOK
  /\ SyncedOrNoted /\ BurstPlanned /\ BurstEndsOnEvent

-----------------------------------------------------------------------------
(* The timer's lines                                                       *)

LEMMA SocConstants ==
  /\ MaxTick \in Nat /\ NoDeadline \in Nat /\ MaxTick < NoDeadline /\ Budget \in Nat \ {0}
  /\ NumCpus \in Nat \ {0} /\ Channels = Cpus \X {"virt", "phys"} /\ None \notin Nat
BY SocAssumption, TimerAssumption, GicAssumption DEF NoDeadline, Channels, None

LEMMA LineSlotsType == LineSlots \subseteq Slots
<1>1. ASSUME NEW k \in Channels PROVE TimerSlot(k) \in Slots
  <2>1. k[1] \in Cpus /\ VirtId \in LocalIds /\ PhysId \in LocalIds
    BY SocConstants, SocAssumption
  <2> QED
    BY <2>1 DEF TimerSlot, SlotOf, Slots
<1>2. DeviceSlot \in Slots
  BY SocAssumption DEF DeviceSlot, SlotOf, Slots, SpiSlots, LocalIds, SpiIds
<1> QED
  BY <1>1, <1>2 DEF LineSlots

LEMMA LevelsType ==
  ASSUME NEW t, NEW d
  PROVE  Levels(t, d) \subseteq LineSlots
BY DEF Levels, TimerLevels, LineSlots

\* Timers with the same lines high have the same levels.
LEMMA LevelsDepend ==
  ASSUME NEW t, NEW u, t.mmio_irq <=> u.mmio_irq,
         \A k \in Channels : t.channel[k].irq_pending <=> u.channel[k].irq_pending
  PROVE  TimerLevels(t) = TimerLevels(u)
BY DEF TimerLevels

LEMMA SyncedNotLate ==
  ASSUME NEW t, NEW s \in 0 .. MaxTick, InTime(t, s)
  PROVE  TimerLevels(SyncToSteps(SyncToSteps(t, s), s)) = TimerLevels(SyncToSteps(t, s))
BY SyncTwice, LevelsDepend

\* Before its deadline the timer drives no line, synced or not.
LEMMA EarlyNotLate ==
  ASSUME NEW t, NEW s \in 0 .. MaxTick, InTime(t, s), StepsUntilIrq(t, s, NoDeadline) # 0
  PROVE  TimerLevels(SyncToSteps(t, s)) = TimerLevels(t)
<1> DEFINE u == SyncToSteps(t, s)
           c == s * CyclesPerStep
<1>1. /\ ~t.mmio_irq /\ \A k \in Channels : ~t.channel[k].irq_pending
      /\ t.enabled /\ ~t.fired => c < t.compare
      /\ \A k \in Channels : Armed(t.channel[k]) => c < t.channel[k].cval
  BY NothingYet
<1>2. /\ u.mmio_irq <=> t.mmio_irq \/ (t.enabled /\ ~t.fired /\ c >= t.compare)
      /\ \A k \in Channels : u.channel[k].irq_pending <=> Level(t.channel[k], c)
  BY SyncLines
<1>3. t.compare \in Int /\ c \in Int /\ \A k \in Channels : t.channel[k].cval \in Int
  <2>1. t.compare \in Cycles /\ c \in Cycles /\ \A k \in Channels : t.channel[k].cval \in Cycles
    BY CyclesFit DEF InTime, AnyTimer, Channel
  <2> QED
    BY <2>1, TimerAssumption DEF Cycles
<1> HIDE DEF u, c
<1>4. ~u.mmio_irq
  BY <1>1, <1>2, <1>3
<1>5. \A k \in Channels : ~u.channel[k].irq_pending
  BY <1>1, <1>2, <1>3 DEF Level, Armed
<1> QED
  BY <1>1, <1>4, <1>5, LevelsDepend DEF u

\* The deadline is not in the past.
LEMMA DeadlineType ==
  ASSUME NEW t, NEW s \in 0 .. MaxTick, InTime(t, s)
  PROVE  /\ StepsUntilIrq(t, s, NoDeadline) \in 0 .. NoDeadline
         /\ TimerDeadline(t, s) = None \/ (TimerDeadline(t, s) \in Nat /\ TimerDeadline(t, s) >= s)
<1>1. StepsUntilIrq(t, s, NoDeadline) \in 0 .. NoDeadline
  <2>1. CASE t.mmio_irq \/ \E k \in Channels : t.channel[k].irq_pending
    BY <2>1, SocConstants DEF StepsUntilIrq
  <2>2. CASE ~t.mmio_irq /\ \A k \in Channels : ~t.channel[k].irq_pending
    BY <2>2, ForecastIs
  <2> QED
    BY <2>1, <2>2
<1> QED
  BY <1>1, SocConstants DEF TimerDeadline

\* Guest time that stops before the deadline does not move it.
LEMMA DeadlineStays ==
  ASSUME NEW t, NEW s \in Nat, s + 1 <= MaxTick, InTime(t, s), InBound(t),
         TimerDeadline(t, s) = None \/ TimerDeadline(t, s) >= s + 1
  PROVE  TimerDeadline(t, s + 1) = TimerDeadline(t, s)
<1> DEFINE n == StepsUntilIrq(t, s, NoDeadline)
           k == StepsUntilIrq(t, s + 1, NoDeadline)
<1>1. n \in 0 .. NoDeadline /\ NoDeadline \in Nat /\ NoDeadline # 0 /\ None = -1
  BY DeadlineType, SocConstants DEF None
<1>2. TimerDeadline(t, s) = IF n = NoDeadline THEN None ELSE s + n
  BY DEF TimerDeadline
<1>3. TimerDeadline(t, s + 1) = IF k = NoDeadline THEN None ELSE s + 1 + k
  BY DEF TimerDeadline
<1> HIDE DEF n, k
<1>4. n # 0
  BY <1>1, <1>2
<1>5. k = IF n = NoDeadline THEN NoDeadline ELSE n - 1
  BY <1>4, SocConstants, ForecastNext DEF n, k
<1> QED
  BY <1>1, <1>2, <1>3, <1>4, <1>5

-----------------------------------------------------------------------------
(* The controller's lines                                                  *)

\* A controller whose lines are as before.
SameLines(g, h) == h \in Gic /\ h.line_level = g.line_level

LEMMA SettledLines ==
  ASSUME NEW g \in Gic, NEW h, SameLines(g, h)
  PROVE  SameLines(g, Settled(h))
BY DEF SameLines, Settled, Gic

LEMMA PendingLines ==
  ASSUME NEW g \in Gic, NEW S \in SUBSET Slots, NEW value
  PROVE  SameLines(g, SetPendingBits(g, S, value)) /\ SameLines(g, SetActiveBits(g, S, value))
<1>1. SetPendingBits(g, S, value) \in Gic /\ SetActiveBits(g, S, value) \in Gic
  BY PendingQuiet, ActiveQuiet DEF Quiet
<1>2. SetPendingBits(g, S, value).line_level = g.line_level
  BY DEF SetPendingBits, Gic
<1>3. SetActiveBits(g, S, value).line_level = g.line_level
  BY DEF SetActiveBits, Gic
<1> QED
  BY <1>1, <1>2, <1>3 DEF SameLines

LEMMA AcknowledgeLines ==
  ASSUME NEW g \in Gic, NEW p \in Cpus, NEW pmr \in Prio
  PROVE  SameLines(g, AfterAcknowledge(g, p, pmr))
<1> DEFINE i == HighestPending(g, p, pmr)
           s == SlotOf(p, i)
           h == SetPendingBits(g, {s}, FALSE)
<1>1. CASE i = Spurious
  BY <1>1 DEF AfterAcknowledge, SameLines
<1>2. CASE i # Spurious
  <2>1. s \in Slots
    BY <1>2, HighestPendingFinds, SlotOfType
  <2>2. AfterAcknowledge(g, p, pmr) = SetActiveBits(h, {s}, TRUE)
    BY <1>2 DEF AfterAcknowledge
  <2> HIDE DEF s
  <2>3. SameLines(g, h)
    BY <2>1, PendingLines
  <2>4. h \in Gic
    BY <2>3 DEF SameLines
  <2> HIDE DEF h
  <2>5. SameLines(h, SetActiveBits(h, {s}, TRUE))
    BY <2>1, <2>4, PendingLines
  <2> QED
    BY <2>2, <2>3, <2>5 DEF SameLines
<1> QED
  BY <1>1, <1>2

LEMMA EoiLines ==
  ASSUME NEW g \in Gic, NEW p \in Cpus, NEW intid
  PROVE  SameLines(g, Eoi(g, p, intid))
<1> DEFINE s == SlotOf(p, intid)
           h == SetActiveBits(g, {s}, FALSE)
<1>1. CASE intid \notin IntIds
  BY <1>1 DEF Eoi, SameLines
<1>2. CASE intid \in IntIds
  <2>1. s \in Slots
    BY <1>2, SlotOfType
  <2>2. Eoi(g, p, intid) \in {h, SetPendingBits(h, {s}, TRUE)}
    BY <1>2 DEF Eoi
  <2> HIDE DEF s
  <2>3. SameLines(g, h)
    BY <2>1, PendingLines
  <2>4. h \in Gic
    BY <2>3 DEF SameLines
  <2> HIDE DEF h
  <2>5. SameLines(h, SetPendingBits(h, {s}, TRUE))
    BY <2>1, <2>4, PendingLines
  <2> QED
    BY <2>2, <2>3, <2>5 DEF SameLines
<1> QED
  BY <1>1, <1>2

LEMMA SgiLines ==
  ASSUME NEW g \in Gic, NEW p \in Cpus, NEW intid \in 0 .. NumSgis - 1, NEW list \in SUBSET Cpus
  PROVE  SameLines(g, SendSgi(g, p, intid, FALSE, list))
<1>1. {<<cpu, intid>> : cpu \in SgiTargets(p, FALSE, list)} \in SUBSET Slots
  BY GicAssumption DEF SgiTargets, Slots, LocalIds
<1> QED
  BY <1>1, PendingLines DEF SendSgi

\* After set_level has been called for the slots of S these are as told.
LEMMA SetLevelsLines ==
  ASSUME NEW g \in Gic, NEW S \in SUBSET Slots, NEW high
  PROVE  /\ SetLevels(g, S, high) \in Gic
         /\ SetLevels(g, S, high).line_level = (g.line_level \ S) \cup (S \cap high)
<1> DEFINE lines == (g.line_level \ S) \cup (S \cap high)
           rising == (S \cap high) \ g.line_level
           f == [g EXCEPT !.line_level = lines]
<1>1. lines \in SUBSET Slots /\ rising \ g.active \in SUBSET Slots
  BY DEF Gic
<1>2. f \in Gic /\ f.line_level = lines
  <2> HIDE DEF lines
  <2> QED
    BY <1>1 DEF Gic
<1>3. SetLevels(g, S, high) = Settled(SetPendingBits(f, rising \ g.active, TRUE))
  BY DEF SetLevels, Gic
<1> HIDE DEF f, lines, rising
<1>4. SameLines(f, SetPendingBits(f, rising \ g.active, TRUE))
  BY <1>1, <1>2, PendingLines
<1>5. SameLines(f, SetLevels(g, S, high))
  BY <1>2, <1>3, <1>4, SettledLines
<1> QED
  BY <1>2, <1>5 DEF SameLines, lines

-----------------------------------------------------------------------------
(* The loop's calls                                                        *)

\* Key presses change the device only where a window is open.
Keys(d) == {k \in BOOLEAN : ~setup.sdl => k = d}

LEMMA TimeKept ==
  ASSUME NEW m, NEW left \in Nat, TimeOK(m, left)
  PROVE  /\ m.now \in 0 .. MaxTick /\ InBound(m.timer) /\ InTime(m.timer, m.now)
         /\ m.timer.compare \in Nat /\ \A k \in Channels : m.timer.channel[k].cval \in Nat
<1>1. m.timer.compare \in Cycles /\ \A k \in Channels : m.timer.channel[k].cval \in Cycles
  BY DEF TimeOK, InTime, AnyTimer, Channel
<1>2. m.timer.compare \in Nat /\ \A k \in Channels : m.timer.channel[k].cval \in Nat
  BY <1>1, TimerAssumption DEF Cycles
<1> QED
  BY <1>2, SocConstants DEF TimeOK, InBound, Early

\* What a sync does to the time of the machine.
LEMMA SyncTime ==
  ASSUME NEW m, NEW left \in Nat, TimeOK(m, left), NEW h,
         h.timer = SyncToSteps(m.timer, m.now), h.now = m.now
  PROVE  TimeOK(h, left)
<1>1. m.now \in 0 .. MaxTick /\ InTime(m.timer, m.now)
  BY TimeKept
<1>2. InTime(h.timer, h.now)
  BY <1>1, SyncInTime
<1>3. SameSettings(m.timer, h.timer)
  BY <1>1, SyncLines
<1>4. Early(h.timer, left)
  BY <1>3 DEF TimeOK, Early, SameSettings
<1>5. Still(m.timer) => Still(h.timer)
  BY <1>1, SyncLines DEF Still, SameSettings, Level
<1> QED
  BY <1>2, <1>4, <1>5 DEF TimeOK

\* sync_devices: the controller has the levels of the devices, whatever it
\* was told before.
LEMMA SyncKeeps ==
  ASSUME NEW m, NEW left \in Nat,
         m = [gic |-> m.gic, timer |-> m.timer, now |-> m.now, dev |-> m.dev, plan |-> m.plan],
         m.gic \in Gic, m.dev \in BOOLEAN, m.plan \in Plan, TimeOK(m, left), LinesOK(m),
         NEW keys \in Keys(m.dev)
  PROVE  LET h == SyncDevices(m, keys)
         IN  /\ MachineOK(h, left) /\ h.now = m.now
             /\ h.plan.sync_valid /\ ~h.plan.dirty /\ ~Late(h)
<1> DEFINE t    == SyncToSteps(m.timer, m.now)
           high == Levels(t, m.dev)
           told == {s \in LineSlots : ~m.plan.sync_valid \/ (s \in high) # (s \in m.plan.last)}
           p    == [sync_valid |-> TRUE, schedule_valid |-> FALSE, dirty |-> FALSE,
                    event |-> None, last |-> high]
           g    == SetLevels(m.gic, told, high)
           h    == SyncDevices(m, keys)
<1>1. /\ h.timer = t /\ h.gic = g /\ h.dev = keys /\ h.plan = p /\ h.now = m.now
      /\ h = [gic |-> h.gic, timer |-> h.timer, now |-> h.now, dev |-> h.dev, plan |-> h.plan]
  <2>1. h = [m EXCEPT !.timer = t, !.gic = g, !.dev = keys, !.plan = p]
    BY DEF SyncDevices
  <2> HIDE DEF t, g, p, h
  <2> QED
    BY <2>1
<1>2. high \subseteq LineSlots /\ LineSlots \subseteq Slots
  BY LevelsType, LineSlotsType
<1>3. told \in SUBSET Slots /\ told \subseteq LineSlots
  BY <1>2
<1>4. p \in Plan
  BY <1>2 DEF Plan
<1>5. g \in Gic /\ g.line_level = (m.gic.line_level \ told) \cup (told \cap high)
  <2> HIDE DEF told, high
  <2> QED
    BY <1>3, SetLevelsLines
<1>6. ASSUME NEW s \in LineSlots PROVE s \in g.line_level <=> s \in high
  <2>1. CASE s \in told
    BY <1>5, <2>1
  <2>2. CASE s \notin told
    <3>1. m.plan.sync_valid /\ (s \in high <=> s \in m.plan.last)
      BY <2>2
    <3>2. s \in m.gic.line_level <=> s \in m.plan.last
      BY <3>1 DEF LinesOK
    <3> HIDE DEF told, high, g
    <3> QED
      BY <1>5, <2>2, <3>1, <3>2
  <2> QED
    BY <2>1, <2>2
<1>7. g.line_level \cap LineSlots = high
  <2> HIDE DEF g, high
  <2> QED
    BY <1>2, <1>6
<1>8. TimeOK(h, left)
  <2> HIDE DEF h
  <2> QED
    BY <1>1, SyncTime
<1>9. LinesOK(h)
  <2> HIDE DEF g, t, h
  <2> QED
    BY <1>1, <1>7 DEF LinesOK, Keys
<1>10. EventOK(h)
  <2> HIDE DEF h
  <2> QED
    BY <1>1 DEF EventOK, Fresh
<1>11. ~Late(h)
  <2>1. m.now \in 0 .. MaxTick /\ InTime(m.timer, m.now)
    BY TimeKept
  <2> HIDE DEF h
  <2> QED
    BY <1>1, <2>1, SyncedNotLate DEF Late
<1>12. keys \in BOOLEAN
  BY DEF Keys
<1> HIDE DEF g, t, h, p, told, high
<1>13. h.plan.sync_valid /\ ~h.plan.dirty
  BY <1>1 DEF p
<1> QED
  BY <1>1, <1>4, <1>5, <1>8, <1>9, <1>10, <1>11, <1>12, <1>13 DEF MachineOK, h

\* next_device_event: what it returns is the timer's deadline, and it leaves
\* the rest of the machine alone.
LEMMA NextEventKeeps ==
  ASSUME NEW m, NEW left \in Nat, MachineOK(m, left)
  PROVE  LET h == AfterNextDeviceEvent(m)
         IN  /\ MachineOK(h, left)
             /\ h.gic = m.gic /\ h.timer = m.timer /\ h.now = m.now /\ h.dev = m.dev
             /\ h.plan.sync_valid = m.plan.sync_valid /\ h.plan.schedule_valid /\ ~h.plan.dirty
             /\ h.plan.event = NextDeviceEvent(m)
             /\ NextDeviceEvent(m) = TimerDeadline(m.timer, m.now)
             /\ NextDeviceEvent(h) = NextDeviceEvent(m)
             /\ NextDeviceEvent(m) = None \/ (NextDeviceEvent(m) \in Nat /\ NextDeviceEvent(m) >= m.now)
<1> DEFINE e == NextDeviceEvent(m)
           h == AfterNextDeviceEvent(m)
<1>1. e = TimerDeadline(m.timer, m.now)
  BY DEF MachineOK, EventOK, NextDeviceEvent
<1>2. m.now \in 0 .. MaxTick /\ InTime(m.timer, m.now)
  BY TimeKept DEF MachineOK
<1>3. e = None \/ (e \in Nat /\ e >= m.now)
  BY <1>1, <1>2, DeadlineType
<1>4. /\ h.gic = m.gic /\ h.timer = m.timer /\ h.now = m.now /\ h.dev = m.dev
      /\ h = [gic |-> h.gic, timer |-> h.timer, now |-> h.now, dev |-> h.dev, plan |-> h.plan]
      /\ h.plan = [m.plan EXCEPT !.schedule_valid = TRUE, !.dirty = FALSE, !.event = e]
  <2>1. m = [gic |-> m.gic, timer |-> m.timer, now |-> m.now, dev |-> m.dev, plan |-> m.plan]
    BY DEF MachineOK
  <2>2. h = [m EXCEPT !.plan.schedule_valid = TRUE, !.plan.dirty = FALSE, !.plan.event = e]
    BY DEF AfterNextDeviceEvent
  <2> HIDE DEF h, e
  <2> QED
    BY <2>1, <2>2
<1>5. m.plan \in Plan
  BY DEF MachineOK
<1> HIDE DEF h, e
<1>6. h.plan \in Plan /\ h.plan.sync_valid = m.plan.sync_valid /\ h.plan.schedule_valid
      /\ ~h.plan.dirty /\ h.plan.event = e /\ h.plan.last = m.plan.last
  BY <1>3, <1>4, <1>5 DEF Plan
<1>7. TimeOK(h, left)
  BY <1>4 DEF MachineOK, TimeOK
<1>8. LinesOK(h)
  BY <1>4, <1>6 DEF MachineOK, LinesOK
<1>9. EventOK(h) /\ NextDeviceEvent(h) = e
  BY <1>1, <1>4, <1>6 DEF EventOK, NextDeviceEvent
<1>10. h.gic \in Gic /\ h.dev \in BOOLEAN
  BY <1>4 DEF MachineOK
<1>11. MachineOK(h, left)
  BY <1>4, <1>6, <1>7, <1>8, <1>9, <1>10 DEF MachineOK
<1> QED
  BY <1>1, <1>3, <1>4, <1>6, <1>9, <1>11 DEF h, e

\* A timer that nobody has programmed has no deadline.
LEMMA StillNoDeadline ==
  ASSUME NEW t, NEW s \in 0 .. MaxTick, InTime(t, s), Still(t)
  PROVE  TimerDeadline(t, s) = None
<1>1. StepsUntilIrq(t, s, NoDeadline) = NoDeadline
  BY ForecastIs DEF Still, Armed
<1> QED
  BY <1>1 DEF TimerDeadline

\* fast_forward_to_next_guest_event: guest time moves to the deadline, which
\* leaves room for the steps to come, and the devices are synced there.
LEMMA FastForwardKeeps ==
  ASSUME NEW m, NEW left \in Nat, MachineOK(m, left), CanFastForward(m), NEW keys \in Keys(m.dev)
  PROVE  MachineOK(FastForwarded(m, keys), left)
<1> DEFINE e == NextDeviceEvent(m)
           a == AfterNextDeviceEvent(m)
           n == StepsUntilIrq(m.timer, m.now, NoDeadline)
           f == [a EXCEPT !.now = e, !.plan.sync_valid = FALSE]
<1>1. m.now \in 0 .. MaxTick /\ InTime(m.timer, m.now) /\ InBound(m.timer)
      /\ m.timer.compare \in Nat /\ \A k \in Channels : m.timer.channel[k].cval \in Nat
  BY TimeKept DEF MachineOK
<1>2. e # None /\ e > m.now /\ e = TimerDeadline(m.timer, m.now)
  BY NextEventKeeps DEF CanFastForward
<1>3. /\ MachineOK(a, left) /\ a.gic = m.gic /\ a.timer = m.timer /\ a.now = m.now /\ a.dev = m.dev
      /\ e \in Nat
  BY <1>2, NextEventKeeps
<1>4. n \notin {0, NoDeadline} /\ e = m.now + n /\ n \in Nat
  <2>1. n \in 0 .. NoDeadline
    BY <1>1, DeadlineType
  <2>2. e = IF n = NoDeadline THEN None ELSE m.now + n
    BY <1>2 DEF TimerDeadline
  <2> HIDE DEF n, e
  <2> QED
    BY <1>1, <1>2, <2>1, <2>2, SocConstants
<1>5. e <= m.timer.compare \/ \E k \in Channels : e <= m.timer.channel[k].cval
  BY <1>1, <1>4, ForecastBound
<1>6. e + left <= MaxTick
  <2> HIDE DEF e
  <2> QED
    BY <1>1, <1>3, <1>5, SocConstants DEF MachineOK, TimeOK, Early
<1>7. Timed
  <2> SUFFICES ASSUME ~Timed PROVE FALSE
    OBVIOUS
  <2>1. Still(m.timer)
    BY DEF MachineOK, TimeOK
  <2> QED
    BY <1>1, <1>2, <2>1, StillNoDeadline
<1>8. /\ f = [gic |-> f.gic, timer |-> f.timer, now |-> f.now, dev |-> f.dev, plan |-> f.plan]
      /\ f.gic = a.gic /\ f.timer = a.timer /\ f.now = e /\ f.dev = a.dev
      /\ f.plan = [a.plan EXCEPT !.sync_valid = FALSE]
  <2>1. a = [gic |-> a.gic, timer |-> a.timer, now |-> a.now, dev |-> a.dev, plan |-> a.plan]
    BY <1>3 DEF MachineOK
  <2>2. f = [a EXCEPT !.now = e, !.plan.sync_valid = FALSE]
    OBVIOUS
  <2> HIDE DEF a, e, f
  <2> QED
    BY <2>1, <2>2
<1>9. FastForwarded(m, keys) = SyncDevices(f, keys)
  BY DEF FastForwarded
<1> HIDE DEF f, a, e, n
<1>10. a.plan \in Plan
  BY <1>3 DEF MachineOK
<1>11. f.plan \in Plan /\ ~f.plan.sync_valid
  BY <1>8, <1>10 DEF Plan
<1>12. TimeOK(f, left)
  <2>1. InTime(f.timer, f.now)
    BY <1>1, <1>2, <1>3, <1>8 DEF InTime, AnyTimer
  <2> QED
    BY <1>3, <1>6, <1>7, <1>8, <2>1 DEF MachineOK, TimeOK
<1>13. LinesOK(f) /\ f.gic \in Gic /\ f.dev \in BOOLEAN /\ f.dev = m.dev
  BY <1>3, <1>8, <1>11 DEF LinesOK, MachineOK
<1>14. keys \in Keys(f.dev)
  BY <1>13
<1>15. MachineOK(SyncDevices(f, keys), left)
  BY <1>8, <1>11, <1>12, <1>13, <1>14, SyncKeeps
<1> QED
  BY <1>9, <1>15

\* A machine whose devices need no sync.
Fit(m, left) == MachineOK(m, left) /\ m.plan.sync_valid /\ ~m.plan.dirty /\ ~Late(m)

\* Before the deadline no sync is needed.
LEMMA NotDueNotLate ==
  ASSUME NEW m, NEW left \in Nat, MachineOK(m, left), ~Due(m)
  PROVE  ~Late(m)
<1>1. m.now \in 0 .. MaxTick /\ InTime(m.timer, m.now)
  BY TimeKept DEF MachineOK
<1>2. /\ NextDeviceEvent(m) = TimerDeadline(m.timer, m.now)
      /\ NextDeviceEvent(m) = None \/ (NextDeviceEvent(m) \in Nat /\ NextDeviceEvent(m) > m.now)
  BY <1>1, NextEventKeeps DEF Due
<1>3. StepsUntilIrq(m.timer, m.now, NoDeadline) # 0
  <2> SUFFICES ASSUME StepsUntilIrq(m.timer, m.now, NoDeadline) = 0 PROVE FALSE
    OBVIOUS
  <2>1. TimerDeadline(m.timer, m.now) = m.now
    BY <1>1, SocConstants DEF TimerDeadline
  <2> QED
    BY <1>1, <1>2, <2>1, SocConstants
<1> QED
  BY <1>1, <1>3, EarlyNotLate DEF Late

\* next_device_event asks nothing of a machine that was fit.
LEMMA NextEventFit ==
  ASSUME NEW m, NEW left \in Nat, Fit(m, left)
  PROVE  Fit(AfterNextDeviceEvent(m), left)
<1>1. MachineOK(m, left)
  BY DEF Fit
<1> QED
  BY <1>1, NextEventKeeps DEF Fit, Late

LEMMA WindowNeededFit ==
  ASSUME NEW m, NEW left \in Nat
  PROVE  /\ MachineOK(m, left) => MachineOK(AfterDeadlineWindowNeeded(m), left)
         /\ Fit(m, left) => Fit(AfterDeadlineWindowNeeded(m), left)
         /\ MachineOK(m, left) => /\ AfterDeadlineWindowNeeded(m).gic = m.gic
                                  /\ AfterDeadlineWindowNeeded(m).timer = m.timer
                                  /\ AfterDeadlineWindowNeeded(m).now = m.now
                                  /\ AfterDeadlineWindowNeeded(m).dev = m.dev
BY NextEventKeeps, NextEventFit DEF AfterDeadlineWindowNeeded

\* maybe_sync_devices: a machine that is not synced needs no sync.
LEMMA MaybeSyncFit ==
  ASSUME NEW m, NEW left \in Nat, MachineOK(m, left), NEW keys \in Keys(m.dev)
  PROVE  Fit(MaybeSyncDevices(m, keys), left) /\ MaybeSyncDevices(m, keys).now = m.now
<1> DEFINE m1 == AfterDeadlineWindowNeeded(m)
           asks == ~DeadlineWindowNeeded(m) \/ ~m1.plan.sync_valid \/ m1.plan.dirty \/ Due(m1)
<1>1. MachineOK(m1, left) /\ m1.now = m.now /\ m1.dev = m.dev
  BY WindowNeededFit
<1>2. MaybeSyncDevices(m, keys) = IF asks THEN SyncDevices(m1, keys) ELSE AfterNextDeviceEvent(m1)
  BY DEF MaybeSyncDevices
<1> HIDE DEF m1
<1>3. CASE asks
  <2>1. MachineOK(SyncDevices(m1, keys), left) /\ SyncDevices(m1, keys).now = m1.now
        /\ SyncDevices(m1, keys).plan.sync_valid /\ ~SyncDevices(m1, keys).plan.dirty /\ ~Late(SyncDevices(m1, keys))
    BY <1>1, SyncKeeps DEF MachineOK
  <2> HIDE DEF asks
  <2> QED
    BY <1>1, <1>2, <1>3, <2>1 DEF Fit
<1>4. CASE ~asks
  <2>1. Fit(m1, left)
    BY <1>1, <1>4, NotDueNotLate DEF Fit
  <2>2. Fit(AfterNextDeviceEvent(m1), left) /\ AfterNextDeviceEvent(m1).now = m1.now
    BY <1>1, <2>1, NextEventFit, NextEventKeeps
  <2> HIDE DEF asks
  <2> QED
    BY <1>1, <1>2, <1>4, <2>2
<1> QED
  BY <1>3, <1>4

-----------------------------------------------------------------------------
(* From one state to the next                                              *)

\* The machine after a step of a core, before guest time moves, and after an action.
Stepped == [gic |-> gic', timer |-> timer', now |-> now, dev |-> dev', plan |-> plan']
After   == [gic |-> gic', timer |-> timer', now |-> now', dev |-> dev', plan |-> plan']

LEMMA NextMachine ==
  ASSUME setup' = setup, MachineOK(After, Left')
  PROVE  MachineOK(Machine, Left)'
BY DEF MachineOK, After, Machine, TimeOK, InTime, Early, Timed, Still, LinesOK, EventOK, Fresh

LEMMA AdoptIs ==
  ASSUME NEW m, NEW left, MachineOK(m, left), Adopt(m)
  PROVE  After = m
BY DEF Adopt, After, MachineOK

\* Fewer steps to come need less room.
LEMMA LessLeft ==
  ASSUME NEW m, NEW left \in Nat, MachineOK(m, left), NEW less \in Nat, less <= left
  PROVE  MachineOK(m, less)
<1>1. m.now \in Nat /\ m.timer.compare \in Nat /\ \A k \in Channels : m.timer.channel[k].cval \in Nat
  BY TimeKept, SocConstants DEF MachineOK
<1>2. TimeOK(m, less)
  BY <1>1, SocConstants DEF MachineOK, TimeOK, Early
<1> QED
  BY <1>2 DEF MachineOK

\* A step of guest time uses up one step of the room, and does not move the deadline.
LEMMA TickKeeps ==
  ASSUME NEW m, NEW left \in Nat, MachineOK(m, left + 1), Timed
  PROVE  MachineOK([m EXCEPT !.now = @ + 1], left)
<1> DEFINE h == [m EXCEPT !.now = @ + 1]
<1>1. /\ h.gic = m.gic /\ h.timer = m.timer /\ h.now = m.now + 1 /\ h.dev = m.dev /\ h.plan = m.plan
      /\ h = [gic |-> h.gic, timer |-> h.timer, now |-> h.now, dev |-> h.dev, plan |-> h.plan]
  BY DEF MachineOK
<1> HIDE DEF h
<1>2. left + 1 \in Nat /\ TimeOK(m, left + 1)
  BY DEF MachineOK
<1>3. m.now \in 0 .. MaxTick /\ InBound(m.timer) /\ InTime(m.timer, m.now)
      /\ m.timer.compare \in Nat /\ \A k \in Channels : m.timer.channel[k].cval \in Nat
  BY <1>2, TimeKept
<1>4. m.now + 1 + left <= MaxTick /\ m.now + 1 <= MaxTick /\ m.now \in Nat /\ MaxTick \in Nat
  BY <1>2, <1>3, SocConstants DEF TimeOK
<1>5. TimeOK(h, left)
  <2>1. InTime(h.timer, h.now)
    BY <1>1, <1>3, <1>4 DEF InTime, AnyTimer
  <2>2. Early(h.timer, left)
    BY <1>1, <1>2, <1>3, SocConstants DEF TimeOK, Early
  <2> QED
    BY <1>1, <1>4, <2>1, <2>2 DEF TimeOK
<1>6. EventOK(h)
  <2> SUFFICES ASSUME Fresh(h) PROVE h.plan.event = TimerDeadline(h.timer, h.now)
    BY DEF EventOK
  <2>1. /\ m.plan.schedule_valid /\ ~m.plan.dirty
        /\ m.plan.event = None \/ m.plan.event >= m.now + 1
    BY <1>1 DEF Fresh
  <2>2. m.plan.event = None \/ m.plan.event \in Nat
    BY DEF MachineOK, Plan
  <2>3. Fresh(m)
    BY <1>4, <2>1, <2>2 DEF Fresh
  <2>4. m.plan.event = TimerDeadline(m.timer, m.now)
    BY <2>3 DEF MachineOK, EventOK
  <2> QED
    BY <1>1, <1>3, <1>4, <2>1, <2>4, DeadlineStays
<1> QED
  BY <1>1, <1>5, <1>6 DEF MachineOK, LinesOK, h

\* A step that leaves the lines alone.
LEMMA KeepLines ==
  ASSUME NEW m, NEW left, MachineOK(m, left), NEW g, SameLines(m.gic, g)
  PROVE  MachineOK([gic |-> g, timer |-> m.timer, now |-> m.now, dev |-> m.dev, plan |-> m.plan], left)
BY DEF MachineOK, SameLines, TimeOK, LinesOK, EventOK, Fresh

\* A step whose change is noted.
LEMMA NoteChange ==
  ASSUME NEW m, NEW left, m.gic \in Gic, m.dev \in BOOLEAN, m.plan \in Plan, TimeOK(m, left),
         m = [gic |-> m.gic, timer |-> m.timer, now |-> m.now, dev |-> m.dev, plan |-> m.plan],
         ~m.plan.sync_valid, m.plan.dirty
  PROVE  MachineOK(m, left)
BY DEF MachineOK, LinesOK, EventOK, Fresh

-----------------------------------------------------------------------------
(* One call of Cpu::step()                                                 *)

\* The steps of the call that are still to come, this one included.
Room == IF Timed THEN loop.remaining ELSE 0

\* The core p may step, and what then holds before guest time moves: a change of
\* the schedule is noted, and the loop is told of an event for a waiting core.
MayStep(p) ==
  /\ setup \in Setup /\ p \in Cpus /\ loop.remaining \in Nat /\ MachineOK(Machine, Room)
  /\ core \in [Cpus -> Core] /\ signal \in Signal

EventTold(p) ==
  \A q \in Cpus \ {p} : core'[q].on /\ core'[q].mode = "wfe" /\ core'[q].event =>
     signal'.woken \/ (core[q].on /\ core[q].mode = "wfe" /\ core[q].event)

StepOK(p) ==
  /\ MachineOK(Stepped, Room)
  /\ core' \in [Cpus -> Core] /\ signal' \in Signal
  /\ plan'.dirty \/ (plan' = plan /\ timer' = timer)
  /\ EventTold(p)

LEMMA ReturnsSignal ==
  ASSUME signal \in Signal, NEW failed \in BOOLEAN, Returns(failed)
  PROVE  signal' \in Signal
BY DEF Returns, Signal

\* Steps that leave the machine alone.
LEMMA CoreOnly ==
  ASSUME MachineOK(Machine, Room), UNCHANGED <<gic, timer, dev, plan>>
  PROVE  MachineOK(Stepped, Room) /\ plan' = plan /\ timer' = timer
<1>1. Stepped = Machine
  BY DEF Stepped, Machine
<1> QED
  BY <1>1

\* Steps that change p alone tell no other core of an event.
LEMMA OwnOnly ==
  ASSUME NEW p \in Cpus, core \in [Cpus -> Core], NEW c \in Core, core' = [core EXCEPT ![p] = c]
  PROVE  core' \in [Cpus -> Core] /\ EventTold(p)
BY DEF EventTold

LEMMA StaysKeeps ==
  ASSUME NEW p, MayStep(p), NEW c \in Core, Stays(p, c)
  PROVE  StepOK(p)
BY CoreOnly, OwnOnly, ReturnsSignal DEF MayStep, StepOK, Stays, Quietly

\* Steps that change the controller, not its lines.
LEMMA GicOnly ==
  ASSUME MachineOK(Machine, Room), SameLines(gic, gic'), UNCHANGED <<timer, dev, plan>>
  PROVE  MachineOK(Stepped, Room) /\ plan' = plan /\ timer' = timer
<1>1. Stepped = [gic |-> gic', timer |-> Machine.timer, now |-> Machine.now,
                 dev |-> Machine.dev, plan |-> Machine.plan]
  BY DEF Stepped, Machine
<1>2. SameLines(Machine.gic, gic')
  BY DEF Machine
<1> QED
  BY <1>1, <1>2, KeepLines

LEMMA TakeIrqKeeps ==
  ASSUME NEW p, MayStep(p), TakeIrq(p)
  PROVE  StepOK(p)
<1> DEFINE c == [core[p] EXCEPT !.mode = "run", !.masked = TRUE, !.irq = HighestPending(gic, p, MaxPrio)]
<1>1. p \in Cpus /\ gic \in Gic /\ core[p] \in Core /\ core \in [Cpus -> Core] /\ MaxPrio \in Prio
  BY GicAssumption DEF MayStep, MachineOK, Machine, Prio
<1>2. HighestPending(gic, p, MaxPrio) \in 0 .. NumIntIds
  BY <1>1, HighestPendingFinds, GicAssumption DEF Spurious, IntIds
<1>3. c \in Core
  BY <1>1, <1>2 DEF Core
<1>4. core' = [core EXCEPT ![p] = c]
  BY <1>1 DEF TakeIrq
<1> HIDE DEF c
<1>5. SameLines(gic, gic')
  BY <1>1, AcknowledgeLines, SettledLines DEF TakeIrq
<1> QED
  BY <1>3, <1>4, <1>5, GicOnly, OwnOnly, ReturnsSignal DEF MayStep, StepOK, TakeIrq, Quietly

LEMMA EndIrqKeeps ==
  ASSUME NEW p, MayStep(p), EndIrq(p)
  PROVE  StepOK(p)
<1> DEFINE c == [core[p] EXCEPT !.masked = FALSE, !.irq = Spurious]
<1>1. p \in Cpus /\ gic \in Gic /\ core[p] \in Core /\ core \in [Cpus -> Core]
  BY DEF MayStep, MachineOK, Machine
<1>2. c \in Core
  <2>1. Spurious \in 0 .. NumIntIds
    BY GicAssumption DEF Spurious
  <2> QED
    BY <1>1, <2>1 DEF Core
<1>3. core' = [core EXCEPT ![p] = c]
  BY <1>1 DEF EndIrq
<1> HIDE DEF c
<1>4. SameLines(gic, gic')
  BY <1>1, EoiLines, SettledLines DEF EndIrq
<1> QED
  BY <1>2, <1>3, <1>4, GicOnly, OwnOnly, ReturnsSignal DEF MayStep, StepOK, EndIrq, Quietly

LEMMA SgiKeeps ==
  ASSUME NEW p, MayStep(p), Sgi(p)
  PROVE  StepOK(p)
<1>1. p \in Cpus /\ gic \in Gic
  BY DEF MayStep, MachineOK, Machine
<1>2. SameLines(gic, gic')
  BY <1>1, SgiLines, SettledLines DEF Sgi
<1> QED
  BY <1>2, GicOnly, ReturnsSignal DEF MayStep, StepOK, EventTold, Sgi, Quietly

LEMMA SevKeeps ==
  ASSUME NEW p, MayStep(p), Sev(p)
  PROVE  StepOK(p)
<1>1. core' \in [Cpus -> Core]
  BY DEF MayStep, Sev, Core
<1>2. signal' \in Signal /\ (signal'.woken <=> signal.woken \/ \E q \in Cpus : core[q].mode = "wfe")
  BY DEF MayStep, Sev, Signalled, Signal
<1>3. \A q \in Cpus : core'[q].mode = core[q].mode
  BY DEF MayStep, Sev, Core
<1> QED
  BY <1>1, <1>2, <1>3, CoreOnly DEF MayStep, StepOK, EventTold, Sev

LEMMA StoreKeeps ==
  ASSUME NEW p, MayStep(p), Store(p)
  PROVE  StepOK(p)
<1>1. PICK hit \in SUBSET (Cpus \ {p}) :
        core' = [q \in Cpus |-> IF q \in hit THEN [core[q] EXCEPT !.event = TRUE] ELSE core[q]]
  BY DEF Store
<1>2. core' \in [Cpus -> Core] /\ \A q \in Cpus : core'[q].mode = core[q].mode
  BY <1>1 DEF MayStep, Core
<1>3. signal' \in Signal
      /\ (signal'.woken <=> signal.woken \/ \E q \in Cpus \ {p} : core[q].mode = "wfe")
  BY DEF MayStep, Store, Signalled, Signal
<1> QED
  BY <1>2, <1>3, CoreOnly DEF MayStep, StepOK, EventTold, Store

\* The steps whose change the observers note.
LEMMA Noted ==
  ASSUME MachineOK(Machine, Room), gic' \in Gic, dev' \in BOOLEAN, plan' = Invalidated(plan),
         TimeOK([timer |-> timer', now |-> now], Room)
  PROVE  MachineOK(Stepped, Room) /\ plan'.dirty
<1>1. plan \in Plan
  BY DEF MachineOK, Machine
<1>2. plan' \in Plan /\ ~plan'.sync_valid /\ plan'.dirty
  BY <1>1 DEF Plan, Invalidated
<1>3. /\ Stepped.gic = gic' /\ Stepped.timer = timer' /\ Stepped.now = now
      /\ Stepped.dev = dev' /\ Stepped.plan = plan'
      /\ Stepped = [gic |-> Stepped.gic, timer |-> Stepped.timer, now |-> Stepped.now,
                    dev |-> Stepped.dev, plan |-> Stepped.plan]
  BY DEF Stepped
<1>4. TimeOK(Stepped, Room)
  BY <1>3 DEF TimeOK
<1> QED
  BY <1>2, <1>3, <1>4, NoteChange

\* What a guest that programs a timer must leave.
LEMMA WrittenInTime ==
  ASSUME loop.remaining \in Nat, MachineOK(Machine, Room), Timed,
         NEW t, InTime(t, now), WithinTime(t, loop.remaining)
  PROVE  TimeOK([timer |-> t, now |-> now], Room)
BY DEF MachineOK, Machine, TimeOK, Early, WithinTime, Room

LEMMA TimerWriteKeeps ==
  ASSUME NEW p, MayStep(p), TimerWrite(p)
  PROVE  StepOK(p)
<1>1. /\ p \in Cpus /\ setup \in Setup /\ MachineOK(Machine, Room) /\ gic \in Gic /\ dev \in BOOLEAN
      /\ Room \in Nat /\ Timed
  BY DEF MayStep, MachineOK, Machine, Room, TimerWrite, Timed
<1>2. now \in 0 .. MaxTick /\ InTime(timer, now)
  BY <1>1, TimeKept DEF MachineOK, Machine
<1>3. InTime(timer', now)
  <2>1. {p} \X setup.timers \subseteq Channels /\ CompareValues \subseteq Cycles
    BY <1>1, SocConstants, TimerAssumption DEF Setup
  <2> QED
    BY <1>2, <2>1, WritesInTime DEF TimerWrite
<1>4. gic' \in Gic
  <2>1. TimerSlot(<<p, "virt">>) \in Slots /\ TimerSlot(<<p, "phys">>) \in Slots
    <3>1. <<p, "virt">> \in Channels /\ <<p, "phys">> \in Channels
      BY <1>1, SocConstants
    <3> QED
      BY <3>1, LineSlotsType DEF LineSlots
  <2> QED
    BY <1>1, <2>1, SetLevelsLines DEF TimerWrite
<1>5. TimeOK([timer |-> timer', now |-> now], Room)
  BY <1>1, <1>3, WrittenInTime DEF MayStep, TimerWrite
<1>6. plan' = Invalidated(plan) /\ dev' = dev /\ core' = core /\ Quietly
  BY DEF TimerWrite, TimerWritten
<1>7. MachineOK(Stepped, Room) /\ plan'.dirty
  BY <1>1, <1>4, <1>5, <1>6, Noted
<1> QED
  BY <1>6, <1>7, ReturnsSignal DEF MayStep, StepOK, EventTold, Quietly

LEMMA MmioTimerWriteKeeps ==
  ASSUME NEW p, MayStep(p), MmioTimerWrite(p)
  PROVE  StepOK(p)
<1>1. MachineOK(Machine, Room) /\ gic \in Gic /\ dev \in BOOLEAN /\ Room \in Nat /\ Timed
  BY DEF MayStep, MachineOK, Machine, Room, MmioTimerWrite, Timed
<1>2. now \in 0 .. MaxTick /\ InTime(timer, now)
  BY <1>1, TimeKept DEF MachineOK, Machine
<1>3. InTime(timer', now)
  <2>1. CompareValues \subseteq Cycles
    BY TimerAssumption
  <2> QED
    BY <1>2, <2>1, WritesInTime DEF MmioTimerWrite
<1>4. TimeOK([timer |-> timer', now |-> now], Room)
  BY <1>1, <1>3, WrittenInTime DEF MayStep, MmioTimerWrite
<1>5. plan' = Invalidated(plan) /\ gic' = gic /\ dev' = dev /\ core' = core /\ Quietly
  BY DEF MmioTimerWrite, TimerWritten
<1>6. MachineOK(Stepped, Room) /\ plan'.dirty
  BY <1>1, <1>4, <1>5, Noted
<1> QED
  BY <1>5, <1>6, ReturnsSignal DEF MayStep, StepOK, EventTold, Quietly

LEMMA DeviceAccessKeeps ==
  ASSUME NEW p, MayStep(p), DeviceAccess(p)
  PROVE  StepOK(p)
<1>1. MachineOK(Machine, Room) /\ gic \in Gic
  BY DEF MayStep, MachineOK, Machine
<1>2. /\ plan' = Invalidated(plan) /\ gic' = gic /\ timer' = timer /\ core' = core
      /\ dev' \in BOOLEAN /\ Quietly
  BY DEF DeviceAccess
<1>3. TimeOK([timer |-> timer', now |-> now], Room)
  BY <1>1, <1>2 DEF MachineOK, Machine, TimeOK
<1>4. MachineOK(Stepped, Room) /\ plan'.dirty
  BY <1>1, <1>2, <1>3, Noted
<1> QED
  BY <1>2, <1>4, ReturnsSignal DEF MayStep, StepOK, EventTold, Quietly

\* PSCI calls and halts.
LEMMA PowerKeeps ==
  ASSUME NEW p, MayStep(p), CpuOn(p) \/ SystemOff(p) \/ Halt(p)
  PROVE  StepOK(p)
<1>1. p \in Cpus /\ core[p] \in Core /\ core \in [Cpus -> Core] /\ signal \in Signal
  BY DEF MayStep
<1>2. MachineOK(Stepped, Room) /\ plan' = plan /\ timer' = timer
  BY CoreOnly DEF MayStep, CpuOn, SystemOff, Halt
<1>3. CASE CpuOn(p)
  <2>1. Spurious \in 0 .. NumIntIds
    BY GicAssumption DEF Spurious
  <2>2. NewCore(TRUE) \in Core
    BY <2>1 DEF Core, NewCore
  <2>3. core' \in [Cpus -> Core]
    BY <1>1, <1>3, <2>2 DEF CpuOn
  <2>4. signal' \in Signal /\ signal'.woken
    BY <1>1, <1>3 DEF CpuOn, Signal
  <2> QED
    BY <1>2, <2>3, <2>4 DEF StepOK, EventTold
<1>4. CASE SystemOff(p)
  <2>1. signal' \in Signal /\ core' = core
    BY <1>1, <1>4 DEF SystemOff, Signal
  <2> QED
    BY <1>1, <1>2, <2>1 DEF StepOK, EventTold
<1>5. CASE Halt(p)
  <2> DEFINE c == [core[p] EXCEPT !.mode = "halted"]
  <2>1. c \in Core /\ core' = [core EXCEPT ![p] = c]
    BY <1>1, <1>5 DEF Core, Halt
  <2> HIDE DEF c
  <2>2. signal' \in Signal
    BY <1>1, <1>5, ReturnsSignal DEF Halt
  <2> QED
    BY <1>1, <1>2, <2>1, <2>2, OwnOnly DEF StepOK
<1> QED
  BY <1>3, <1>4, <1>5

LEMMA CoreStepKeeps ==
  ASSUME NEW p, MayStep(p), CoreStep(p)
  PROVE  StepOK(p)
<1>1. p \in Cpus /\ core[p] \in Core /\ core \in [Cpus -> Core]
  BY DEF MayStep
<1>2. CASE StepHalted(p)
  BY <1>2, CoreOnly, ReturnsSignal DEF MayStep, StepOK, EventTold, StepHalted
<1>3. ASSUME NEW c, Stays(p, c), c \in Core
      PROVE  StepOK(p)
  BY <1>3, StaysKeeps
<1>4. /\ core[p] \in Core /\ [core[p] EXCEPT !.mode = "run"] \in Core
      /\ [[core[p] EXCEPT !.mode = "run"] EXCEPT !.event = FALSE] \in Core
      /\ [core[p] EXCEPT !.masked = ~@] \in Core /\ [core[p] EXCEPT !.mode = "wfi"] \in Core
      /\ [core[p] EXCEPT !.event = FALSE] \in Core /\ [core[p] EXCEPT !.mode = "wfe"] \in Core
  BY <1>1 DEF Core
<1>5. CASE StepWaiting(p)
  BY <1>3, <1>4, <1>5, TakeIrqKeeps DEF StepWaiting
<1>6. CASE Local(p)
  BY <1>3, <1>4, <1>6 DEF Local
<1>7. CASE StepRunning(p)
  BY <1>6, <1>7, TakeIrqKeeps, EndIrqKeeps, SgiKeeps, SevKeeps, StoreKeeps, TimerWriteKeeps,
     MmioTimerWriteKeeps, DeviceAccessKeeps, PowerKeeps
     DEF StepRunning
<1> QED
  BY <1>2, <1>5, <1>7 DEF CoreStep

-----------------------------------------------------------------------------
(* The host's actions                                                      *)

\* What SocInv' takes.
LEMMA NextInv ==
  ASSUME SocInv, setup' = setup, core' \in [Cpus -> Core], signal' \in Signal,
         MachineOK(After, Left'), LoopOK', SyncedOrNoted', BurstPlanned', BurstEndsOnEvent'
  PROVE  SocInv'
BY NextMachine DEF SocInv

\* Outside bursts and rounds the rest is about the machine.
LEMMA NextOutside ==
  ASSUME SocInv, setup' = setup, core' \in [Cpus -> Core], signal' \in Signal,
         MachineOK(After, Left'), LoopOK', loop'.at \in {"host", "top"}
  PROVE  SocInv'
BY NextInv DEF SyncedOrNoted, BurstPlanned, BurstEndsOnEvent, InWindow

\* The room that the bound leaves.
LEMMA LeftType ==
  ASSUME SocInv
  PROVE  /\ Left \in Nat /\ loop.remaining \in Nat /\ Budget \in Nat
         /\ setup \in Setups /\ setup \in Setup /\ gic \in Gic /\ dev \in BOOLEAN /\ plan \in Plan
BY SocConstants, SocAssumption DEF SocInv, LoopOK, Loop, Left, MachineOK, Machine

LEMMA LoopTypes ==
  ASSUME NEW n \in 0 .. Budget
  PROVE  /\ NoLoop \in Loop /\ NoLoop.at = "host" /\ NoLoop.remaining = 0 /\ ~NoLoop.active
         /\ AtTop(n) \in Loop /\ AtTop(n).at = "top" /\ AtTop(n).remaining = n /\ ~AtTop(n).active
<1>1. 0 \in 0 .. NumCpus /\ 0 \in 0 .. Budget
  BY SocConstants
<1> QED
  BY <1>1 DEF NoLoop, AtTop, Loop

LEMMA RunKeeps ==
  ASSUME SocInv, setup' = setup, Run
  PROVE  SocInv'
<1>1. PICK n \in setup.least_run .. Budget : WithinTime(timer, n) /\ loop' = AtTop(n)
  BY DEF Run
<1>2. n \in 0 .. Budget /\ n \in Nat
  BY LeftType DEF Setup
<1>3. loop' \in Loop /\ loop'.at = "top" /\ loop'.remaining = n /\ ~loop'.active
  BY <1>1, <1>2, LoopTypes
<1>4. After = Machine /\ core' = core /\ signal' = signal
  BY DEF Run, After, Machine
<1>5. Left' = IF ~Timed THEN 0 ELSE n
  BY <1>3 DEF Left, Timed
<1>6. MachineOK(Machine, Left)
  BY DEF SocInv
<1>7. MachineOK(Machine, Left')
  <2>1. CASE ~Timed
    BY <1>5, <1>6, <2>1 DEF Left
  <2>2. CASE Timed
    <3>1. now + n <= MaxTick /\ Early(timer, n)
      BY <1>1, <2>2 DEF WithinTime, Early
    <3>2. TimeOK(Machine, n)
      BY <1>6, <2>2, <3>1 DEF MachineOK, TimeOK, Machine
    <3> QED
      BY <1>5, <1>6, <2>2, <3>2 DEF MachineOK
  <2> QED
    BY <2>1, <2>2
<1>8. LoopOK'
  BY <1>3 DEF LoopOK
<1> QED
  BY <1>3, <1>4, <1>7, <1>8, NextOutside DEF SocInv

LEMMA InjectKeeps ==
  ASSUME SocInv, setup' = setup, Inject
  PROVE  SocInv'
<1>1. /\ loop.at = "host" /\ loop' = loop /\ core' = core /\ signal' = signal
      /\ timer' = timer /\ now' = now /\ plan' = Invalidated(plan)
  BY DEF Inject, AtHost
<1>2. Left' = Left
  BY <1>1 DEF Left, Timed
<1>3. dev' \in BOOLEAN
  BY LeftType DEF Inject
<1>4. gic' \in Gic
  <2>1. {DeviceSlot} \in SUBSET Slots
    BY LineSlotsType DEF LineSlots
  <2>2. SameLines(gic, Settled(SetPendingBits(gic, {DeviceSlot}, TRUE)))
    BY <2>1, LeftType, PendingLines, SettledLines
  <2> QED
    BY <2>2, LeftType DEF Inject, SameLines
<1>5. plan' \in Plan /\ ~plan'.sync_valid /\ plan'.dirty
  BY <1>1, LeftType DEF Plan, Invalidated
<1>6. MachineOK(After, Left)
  <2>1. /\ After.gic = gic' /\ After.timer = timer /\ After.now = now
        /\ After.dev = dev' /\ After.plan = plan'
        /\ After = [gic |-> After.gic, timer |-> After.timer, now |-> After.now,
                    dev |-> After.dev, plan |-> After.plan]
    BY <1>1 DEF After
  <2>2. TimeOK(After, Left)
    BY <2>1 DEF SocInv, MachineOK, Machine, TimeOK
  <2> QED
    BY <1>3, <1>4, <1>5, <2>1, <2>2, NoteChange
<1>7. LoopOK'
  BY <1>1 DEF SocInv, LoopOK
<1> QED
  BY <1>1, <1>2, <1>6, <1>7, NextOutside DEF SocInv

\* A save and a load leave the timer's settings alone, and do not start it.
LEMMA RestoredKeeps ==
  ASSUME NEW t, NEW s \in 0 .. MaxTick, InTime(t, s)
  PROVE  SameSettings(t, Restored(t, s)) /\ (Still(t) => Still(Restored(t, s)))
<1> DEFINE synced == SyncToSteps(t, s)
           saved == [synced EXCEPT !.anchor = 0]
           loaded == UpdateIrqState(saved)
           rebased == [loaded EXCEPT !.anchor = s]
<1>1. s \in Nat /\ InTime(synced, s) /\ synced.anchor = s
  BY SyncInTime, SocConstants
<1>2. SameSettings(t, synced) /\ (Still(t) => Still(synced))
  BY SyncLines DEF Still, SameSettings, Level
<1>3. /\ saved \in AnyTimer /\ saved.counter = s * CyclesPerStep
      /\ SameSettings(t, saved) /\ (Still(t) => Still(saved))
  <2> HIDE DEF synced
  <2> QED
    BY <1>1, <1>2 DEF InTime, AnyTimer, SameSettings, Still
<1>4. /\ loaded \in AnyTimer /\ loaded.counter = saved.counter
      /\ SameSettings(saved, loaded)
      /\ loaded.mmio_irq <=> saved.mmio_irq \/ Fires(saved)
      /\ \A k \in Channels : loaded.channel[k].irq_pending <=> Level(saved.channel[k], saved.counter)
  <2> HIDE DEF saved
  <2> QED
    BY <1>3, UpdateSettles, UpdateSettings
<1> HIDE DEF loaded, saved, synced
<1>5. SameSettings(t, loaded) /\ (Still(t) => Still(loaded))
  BY <1>3, <1>4 DEF SameSettings, Still, Fires, Level
<1>6. InTime(rebased, s) /\ SameSettings(t, rebased) /\ (Still(t) => Still(rebased))
  BY <1>1, <1>3, <1>4, <1>5 DEF InTime, AnyTimer, SameSettings, Still
<1>7. Restored(t, s) = SyncToSteps(rebased, s)
  BY DEF Restored, rebased, loaded, saved, synced
<1> HIDE DEF rebased
<1> QED
  BY <1>6, <1>7, SyncLines DEF SameSettings, Still, Level

LEMMA NewPlanType == NewPlan \in Plan /\ ~NewPlan.sync_valid /\ NewPlan.dirty
BY DEF NewPlan, Plan

LEMMA SnapshotKeeps ==
  ASSUME SocInv, setup' = setup, SaveAndLoadSnapshot
  PROVE  SocInv'
<1>1. /\ loop.at = "host" /\ loop' = loop /\ gic' = gic /\ now' = now /\ dev' = dev
      /\ timer' = Restored(timer, now) /\ plan' = NewPlan /\ signal' = NewSignal
  BY DEF SaveAndLoadSnapshot, AtHost
<1>2. core' \in [Cpus -> Core]
  BY DEF SaveAndLoadSnapshot, SocInv, Core
<1>3. signal' \in Signal
  BY <1>1 DEF NewSignal, Signal
<1>4. Left' = Left
  BY <1>1 DEF Left, Timed
<1>5. MachineOK(Machine, Left)
  BY DEF SocInv
<1>6. now \in 0 .. MaxTick /\ InTime(timer, now)
  BY <1>5, LeftType, TimeKept DEF MachineOK, Machine
<1>7. InTime(timer', now) /\ SameSettings(timer, timer') /\ (Still(timer) => Still(timer'))
  BY <1>1, <1>6, RestoredInTime, RestoredKeeps
<1>8. MachineOK(After, Left)
  <2>1. /\ After.gic = gic /\ After.timer = timer' /\ After.now = now
        /\ After.dev = dev /\ After.plan = NewPlan
        /\ After = [gic |-> After.gic, timer |-> After.timer, now |-> After.now,
                    dev |-> After.dev, plan |-> After.plan]
    BY <1>1 DEF After
  <2>2. Early(timer', Left)
    BY <1>5, <1>7 DEF MachineOK, Machine, TimeOK, Early, SameSettings
  <2>3. TimeOK(After, Left)
    BY <1>5, <1>7, <2>1, <2>2 DEF MachineOK, Machine, TimeOK
  <2> QED
    BY <2>1, <2>3, LeftType, NewPlanType, NoteChange
<1>9. LoopOK'
  BY <1>1 DEF SocInv, LoopOK
<1> QED
  BY <1>1, <1>2, <1>3, <1>4, <1>8, <1>9, NextOutside

-----------------------------------------------------------------------------
(* The top of the loop                                                     *)

LEMMA KeysAre ==
  ASSUME NEW d \in BOOLEAN
  PROVE  KeyPresses(d) \subseteq Keys(d)
BY DEF KeyPresses, Keys

\* Between two iterations the machine is that of SocInv.
LEMMA TopMachine ==
  ASSUME SocInv
  PROVE  /\ MachineOK(Machine, Left) /\ Left \in Nat /\ 0 \in Nat /\ 0 <= Left
         /\ Machine.dev = dev /\ dev \in BOOLEAN
         /\ \A m \in Looked : Fit(m, Left) /\ m.dev \in BOOLEAN
<1>1. MachineOK(Machine, Left) /\ Left \in Nat /\ Machine.dev = dev /\ dev \in BOOLEAN
  BY LeftType DEF SocInv, Machine
<1>2. \A m \in Looked : Fit(m, Left)
  BY <1>1, KeysAre, MaybeSyncFit DEF Looked
<1>3. \A m \in Looked : m.dev \in BOOLEAN
  BY <1>2 DEF Fit, MachineOK
<1> QED
  BY <1>1, <1>2, <1>3

\* run() returns after a last sync.
LEMMA LastSync ==
  ASSUME SocInv, setup' = setup, NEW m, MachineOK(m, Left), NEW keys \in KeyPresses(m.dev),
         Adopt(SyncDevices(m, keys)), loop' = NoLoop, core' = core, signal' \in Signal
  PROVE  SocInv'
<1>1. keys \in Keys(m.dev)
  BY KeysAre DEF MachineOK
<1>2. MachineOK(SyncDevices(m, keys), Left)
  BY <1>1, LeftType, SyncKeeps DEF MachineOK
<1>3. MachineOK(SyncDevices(m, keys), 0)
  BY <1>2, TopMachine, LessLeft
<1>4. After = SyncDevices(m, keys)
  BY <1>2, AdoptIs
<1>5. loop' \in Loop /\ loop'.at = "host" /\ loop'.remaining = 0 /\ ~loop'.active
  <2>1. 0 \in 0 .. Budget
    BY SocConstants
  <2> QED
    BY <2>1, LoopTypes
<1>6. Left' = 0 /\ LoopOK'
  BY <1>5 DEF Left, LoopOK
<1> QED
  BY <1>3, <1>4, <1>5, <1>6, NextOutside DEF SocInv

LEMMA ReturnKeeps ==
  ASSUME SocInv, setup' = setup, Return
  PROVE  SocInv'
BY TopMachine, LastSync DEF Return, SocInv

LEMMA StopHaltedKeeps ==
  ASSUME SocInv, setup' = setup, StopHalted
  PROVE  SocInv'
<1>1. signal' \in Signal
  BY DEF SocInv, StopHalted, Signal
<1> QED
  BY <1>1, TopMachine, LastSync DEF StopHalted, Fit

LEMMA FastForwardActionKeeps ==
  ASSUME SocInv, setup' = setup, FastForward
  PROVE  SocInv'
<1>1. PICK m \in Looked : CanFastForward(m) /\ \E keys \in KeyPresses(m.dev) : Adopt(FastForwarded(m, keys))
  BY DEF FastForward
<1>2. PICK keys \in KeyPresses(m.dev) : Adopt(FastForwarded(m, keys))
  BY <1>1
<1>3. MachineOK(m, Left) /\ keys \in Keys(m.dev)
  BY TopMachine, KeysAre DEF Fit
<1>4. MachineOK(FastForwarded(m, keys), Left)
  BY <1>1, <1>3, TopMachine, FastForwardKeeps
<1>5. After = FastForwarded(m, keys)
  BY <1>2, <1>4, AdoptIs
<1>6. loop' = loop /\ core' = core /\ signal' = signal /\ loop.at = "top"
  BY DEF FastForward, Looking
<1>7. Left' = Left /\ LoopOK'
  BY <1>6 DEF Left, Timed, SocInv, LoopOK
<1> QED
  BY <1>4, <1>5, <1>6, <1>7, NextOutside DEF SocInv

-----------------------------------------------------------------------------
(* Bursts and rounds start                                                 *)

\* compute_run_window: at least one step, and none past the budget or the event.
LEMMA RunWindowIs ==
  ASSUME NEW m, NEW left \in Nat, MachineOK(m, left), NEW budget \in Nat \ {0},
         NEW divisor \in Nat \ {0}, NEW sensitive \in BOOLEAN
  PROVE  LET w == RunWindow(m, budget, divisor, sensitive)
             e == NextDeviceEvent(m)
         IN  /\ w \in 1 .. budget
             /\ sensitive /\ ~setup.legacy =>
                  e = None \/ (e \in Nat /\ m.now + w <= e) \/ (w = 1 /\ e = m.now)
<1> DEFINE e == NextDeviceEvent(m)
           chunk == (budget + divisor - 1) \div divisor
           w == RunWindow(m, budget, divisor, sensitive)
<1>1. m.now \in Nat /\ (e = None \/ (e \in Nat /\ e >= m.now))
  BY NextEventKeeps DEF MachineOK, TimeOK
<1>2. chunk \in 1 .. budget
  <2> DEFINE x == budget + divisor - 1
  <2>1. x \in Nat /\ x >= divisor /\ x < divisor * (budget + 1)
    <3>1. divisor * (budget + 1) = budget + divisor + (budget * (divisor - 1))
      OBVIOUS
    <3>2. budget * (divisor - 1) \in Nat
      OBVIOUS
    <3> QED
      BY <3>1, <3>2
  <2>2. x = divisor * (x \div divisor) + (x % divisor) /\ x % divisor \in 0 .. divisor - 1
        /\ x \div divisor \in Nat
    BY <2>1, NaturalDivision
  <2> HIDE DEF x
  <2>3. x \div divisor # 0
    BY <2>1, <2>2
  <2>4. x \div divisor < budget + 1
    <3> SUFFICES ASSUME x \div divisor >= budget + 1 PROVE FALSE
      BY <2>2
    <3> DEFINE q == x \div divisor
               more == q - (budget + 1)
    <3>1. q \in Nat /\ more \in Nat /\ q = budget + 1 + more /\ x = divisor * q + (x % divisor)
      BY <2>2
    <3> HIDE DEF more, q
    <3>2. divisor * q = divisor * (budget + 1) + divisor * more
      BY <3>1
    <3>3. divisor * more \in Nat /\ divisor * q \in Nat /\ divisor * (budget + 1) \in Nat
      BY <3>1
    <3> QED
      BY <2>1, <2>2, <3>1, <3>2, <3>3
  <2> QED
    BY <2>2, <2>3, <2>4 DEF x
<1>3. w = IF setup.legacy \/ ~sensitive \/ e = None THEN chunk
          ELSE IF e <= m.now THEN 1
          ELSE LeastOf({chunk, e - m.now})
  BY DEF RunWindow
<1> HIDE DEF e, chunk, w
<1>4. CASE setup.legacy \/ ~sensitive \/ e = None
  BY <1>2, <1>3, <1>4 DEF e, w
<1>5. CASE ~(setup.legacy \/ ~sensitive \/ e = None) /\ e <= m.now
  BY <1>1, <1>3, <1>5 DEF e, w
<1>6. CASE ~(setup.legacy \/ ~sensitive \/ e = None) /\ ~(e <= m.now)
  <2>1. e - m.now \in Nat \ {0}
    BY <1>1, <1>6
  <2>2. w \in {chunk, e - m.now} /\ w <= chunk /\ w <= e - m.now
    BY <1>2, <1>3, <1>6, <2>1, LeastOfNaturals
  <2> QED
    BY <1>1, <1>2, <2>1, <2>2 DEF e, w
<1> QED
  BY <1>4, <1>5, <1>6

\* What compute_run_window leaves of a machine that needs no sync.
LEMMA WindowFit ==
  ASSUME NEW m, NEW left \in Nat, Fit(m, left), NEW sensitive \in BOOLEAN
  PROVE  LET h == AfterRunWindow(m, sensitive)
         IN  /\ Fit(h, left) /\ h.gic = m.gic /\ h.now = m.now
             /\ sensitive /\ ~setup.legacy => h.plan.schedule_valid /\ h.plan.event = NextDeviceEvent(m)
BY NextEventKeeps, NextEventFit DEF AfterRunWindow, Fit

LEMMA StartBurstKeeps ==
  ASSUME SocInv, setup' = setup, Looking, NEW m, Fit(m, Left), NEW p \in Cpus,
         NEW sensitive \in BOOLEAN, NumCpus > 1 => sensitive,
         \A q \in Cpus \ {p} : core[q].on => ~ReadyToRun(m.gic, q),
         core' = core, StartBurst(m, p, sensitive)
  PROVE  SocInv'
<1> DEFINE h == AfterRunWindow(m, sensitive)
           w == RunWindow(m, loop.remaining, 1, sensitive)
           e == NextDeviceEvent(m)
<1>1. /\ loop \in Loop /\ loop.at = "top" /\ ~loop.active /\ loop.remaining \in 1 .. Budget
      /\ loop.remaining \in Nat \ {0} /\ Left \in Nat /\ Budget \in Nat
  BY LeftType DEF Looking, SocInv, LoopOK, Loop
<1>2. /\ w \in 1 .. loop.remaining
      /\ sensitive /\ ~setup.legacy => e = None \/ (e \in Nat /\ m.now + w <= e) \/ (w = 1 /\ e = m.now)
  BY <1>1, RunWindowIs DEF Fit
<1>3. /\ Fit(h, Left) /\ h.now = m.now
      /\ sensitive /\ ~setup.legacy => h.plan.schedule_valid /\ h.plan.event = e
  BY <1>1, WindowFit
<1>4. After = h
  BY <1>3, AdoptIs DEF StartBurst, Fit
<1>5. loop' = [loop EXCEPT !.at = "burst", !.turn = p, !.window = w]
  BY DEF StartBurst
<1> HIDE DEF h, w, e
<1>6. p \in 0 .. NumCpus /\ w \in 0 .. Budget
  BY <1>1, <1>2, SocConstants DEF Cpus
<1>7. /\ loop' \in Loop /\ loop'.at = "burst" /\ loop'.turn = p /\ loop'.window = w
      /\ loop'.remaining = loop.remaining /\ ~loop'.active
  BY <1>1, <1>5, <1>6 DEF Loop
<1>8. Left' = Left
  BY <1>1, <1>7 DEF Left, Timed
<1>9. signal' \in Signal
  BY DEF SocInv, StartBurst, Signal
<1>10. plan' = h.plan /\ now' = h.now /\ timer' = h.timer
  BY <1>4 DEF After
<1>11. LoopOK'
  BY <1>1, <1>2, <1>7 DEF LoopOK
<1>12. SyncedOrNoted'
  BY <1>3, <1>10 DEF SyncedOrNoted, Fit
<1>13. BurstPlanned'
  <2>1. TimerLate' = Late(After)
    BY DEF TimerLate, Late, After
  <2> QED
    BY <1>2, <1>3, <1>4, <1>7, <1>10, <2>1 DEF BurstPlanned, Fit
<1>14. BurstEndsOnEvent'
  BY <1>7 DEF BurstEndsOnEvent, ReadyToRun
<1> QED
  BY <1>3, <1>4, <1>8, <1>9, <1>11, <1>12, <1>13, <1>14, NextInv DEF SocInv, Fit

LEMMA StartRoundsKeeps ==
  ASSUME SocInv, setup' = setup, Looking, NEW m, Fit(m, Left), NEW runnable \in Nat \ {0},
         NEW polling \in BOOLEAN, core' = core, StartRounds(m, runnable, polling)
  PROVE  SocInv'
<1> DEFINE sensitive == DeadlineWindowNeeded(m)
           m1 == AfterDeadlineWindowNeeded(m)
           h  == AfterRunWindow(m1, sensitive)
           w  == RunWindow(m1, loop.remaining, runnable, sensitive)
<1>1. /\ loop \in Loop /\ loop.at = "top" /\ ~loop.active /\ loop.remaining \in 1 .. Budget
      /\ loop.remaining \in Nat \ {0} /\ Left \in Nat /\ Budget \in Nat
  BY LeftType DEF Looking, SocInv, LoopOK, Loop
<1>2. sensitive \in BOOLEAN
  BY DEF DeadlineWindowNeeded
<1>3. Adopt(h) /\ signal' = signal
      /\ loop' = [loop EXCEPT !.at = "round", !.turn = 0, !.active = FALSE, !.polling = polling,
                              !.window = w]
  BY DEF StartRounds
<1>4. Fit(m1, Left)
  BY <1>1, WindowNeededFit
<1> HIDE DEF m1, sensitive
<1>5. w \in 1 .. loop.remaining
  BY <1>1, <1>2, <1>4, RunWindowIs DEF Fit
<1>6. Fit(h, Left)
  BY <1>1, <1>2, <1>4, WindowFit
<1>7. After = h
  BY <1>3, <1>6, AdoptIs DEF Fit
<1> HIDE DEF h, w
<1>8. /\ loop' \in Loop /\ loop'.at = "round" /\ loop'.window = w
      /\ loop'.remaining = loop.remaining /\ ~loop'.active
  <2>1. 0 \in 0 .. NumCpus /\ w \in 0 .. Budget
    BY <1>1, <1>5, SocConstants
  <2> QED
    BY <1>1, <1>3, <2>1 DEF Loop
<1>9. Left' = Left
  BY <1>1, <1>8 DEF Left, Timed
<1>10. LoopOK'
  BY <1>5, <1>8 DEF LoopOK
<1>11. SyncedOrNoted'
  BY <1>6, <1>7 DEF SyncedOrNoted, Fit, After
<1> QED
  BY <1>3, <1>6, <1>7, <1>8, <1>9, <1>10, <1>11, NextInv
     DEF SocInv, Fit, BurstPlanned, BurstEndsOnEvent

LEMMA DispatchKeeps ==
  ASSUME SocInv, setup' = setup, Dispatch
  PROVE  SocInv'
<1>1. PICK m \in Looked :
        \/ /\ NumCpus = 1
           /\ StartBurst(AfterDeadlineWindowNeeded(m), 0, DeadlineWindowNeeded(m))
        \/ /\ NumCpus > 1 /\ Cardinality(Runnable(m.gic)) = 1
           /\ StartBurst(m, CHOOSE p \in Runnable(m.gic) : TRUE, TRUE)
        \/ /\ NumCpus > 1 /\ Cardinality(Runnable(m.gic)) > 1
           /\ StartRounds(m, Cardinality(Runnable(m.gic)), FALSE)
        \/ /\ NumCpus > 1 /\ Runnable(m.gic) = {}
           /\ StartRounds(m, Cardinality({p \in Cpus : Active(p)}), TRUE)
  BY DEF Dispatch
<1> DEFINE R == Runnable(m.gic)
           A == {p \in Cpus : Active(p)}
<1>2. Looking /\ core' = core /\ (NumCpus > 1 => ~AllHalted)
  BY DEF Dispatch
<1>3. Fit(m, Left) /\ Left \in Nat
  BY TopMachine
<1>4. IsFiniteSet(R) /\ Cardinality(R) \in Nat /\ IsFiniteSet(A) /\ Cardinality(A) \in Nat
  <2>1. IsFiniteSet(Cpus)
    BY SocConstants, FS_Interval DEF Cpus
  <2>2. R \subseteq Cpus /\ A \subseteq Cpus
    BY DEF Runnable
  <2> HIDE DEF R, A
  <2> QED
    BY <2>1, <2>2, FS_Subset, FS_CardinalityType
<1>5. CASE NumCpus = 1 /\ StartBurst(AfterDeadlineWindowNeeded(m), 0, DeadlineWindowNeeded(m))
  <2>1. Fit(AfterDeadlineWindowNeeded(m), Left) /\ DeadlineWindowNeeded(m) \in BOOLEAN
    BY <1>3, WindowNeededFit DEF DeadlineWindowNeeded
  <2>2. 0 \in Cpus /\ Cpus \ {0} = {}
    BY <1>5 DEF Cpus
  <2> QED
    BY <1>2, <1>5, <2>1, <2>2, StartBurstKeeps
<1>6. CASE Cardinality(R) = 1 /\ StartBurst(m, CHOOSE p \in R : TRUE, TRUE)
  <2>1. PICK p : R = {p}
    BY <1>4, <1>6, FS_Singleton
  <2>2. (CHOOSE q \in R : TRUE) = p
    BY <2>1
  <2>3. p \in Cpus /\ \A q \in Cpus \ {p} : core[q].on => ~ReadyToRun(m.gic, q)
    BY <2>1 DEF Runnable
  <2> HIDE DEF R
  <2> QED
    BY <1>2, <1>3, <1>6, <2>2, <2>3, StartBurstKeeps
<1>7. CASE Cardinality(R) > 1 /\ StartRounds(m, Cardinality(R), FALSE)
  <2>1. Cardinality(R) \in Nat \ {0}
    BY <1>4, <1>7
  <2> HIDE DEF R
  <2> QED
    BY <1>2, <1>3, <1>7, <2>1, StartRoundsKeeps
<1>8. CASE NumCpus > 1 /\ StartRounds(m, Cardinality(A), TRUE)
  <2>1. A # {}
    BY <1>2, <1>8 DEF AllHalted
  <2>2. Cardinality(A) # 0
    BY <1>4, <2>1, FS_EmptySet
  <2> HIDE DEF A
  <2> QED
    BY <1>2, <1>3, <1>4, <1>8, <2>2, StartRoundsKeeps
<1> QED
  BY <1>1, <1>5, <1>6, <1>7, <1>8

-----------------------------------------------------------------------------
(* Bursts and rounds go on                                                 *)

\* Guest time moves after the step of a core or a round of steps.
LEMMA TickMachine ==
  ASSUME NEW m, NEW left \in Nat, NEW room \in Nat, MachineOK(m, room), m.now = now,
         Tick, room = IF Timed THEN left + 1 ELSE 0
  PROVE  MachineOK([m EXCEPT !.now = now'], IF Timed THEN left ELSE 0)
<1>1. CASE Timed
  <2>1. now' = m.now + 1 /\ MachineOK(m, left + 1)
    BY <1>1 DEF Tick
  <2>2. MachineOK([m EXCEPT !.now = @ + 1], left)
    BY <1>1, <2>1, TickKeeps
  <2> QED
    BY <1>1, <2>1, <2>2
<1>2. CASE ~Timed
  <2>1. now' = m.now /\ MachineOK(m, 0)
    BY <1>2 DEF Tick
  <2>2. [m EXCEPT !.now = now'] = m
    BY <2>1 DEF MachineOK
  <2> QED
    BY <1>2, <2>1, <2>2
<1> QED
  BY <1>1, <1>2

LEMMA BurstStepKeeps ==
  ASSUME SocInv, setup' = setup, BurstStep
  PROVE  SocInv'
<1> DEFINE p    == loop.turn
           rest == loop.remaining - 1
           ends == \/ loop.window = 1 \/ plan'.dirty \/ signal'.failed
                   \/ (NumCpus > 1 /\ (signal'.woken \/ core'[p].mode \in {"wfi", "wfe"}))
<1>1. /\ loop \in Loop /\ loop.at = "burst" /\ ~loop.active /\ p \in Cpus
      /\ loop.window \in Nat \ {0} /\ loop.window <= loop.remaining
      /\ loop.remaining \in 0 .. Budget /\ loop.remaining \in Nat /\ rest \in 0 .. Budget /\ Budget \in Nat
  BY LeftType DEF BurstStep, SocInv, LoopOK, Loop
<1>2. CoreStep(p) /\ Tick
      /\ loop' = IF signal'.stop THEN NoLoop
                 ELSE IF ends THEN AtTop(rest)
                 ELSE [loop EXCEPT !.remaining = @ - 1, !.window = @ - 1]
  BY DEF BurstStep
<1>3. StepOK(p)
  <2>1. Left = Room
    BY <1>1 DEF Left, Room
  <2>2. MayStep(p)
    BY <1>1, <2>1, LeftType DEF MayStep, SocInv
  <2> QED
    BY <1>2, <2>2, CoreStepKeeps
<1>4. MachineOK(After, IF Timed THEN rest ELSE 0)
  <2>1. After = [Stepped EXCEPT !.now = now'] /\ Stepped.now = now
    BY DEF After, Stepped
  <2>2. rest \in Nat /\ Room \in Nat /\ Room = IF Timed THEN rest + 1 ELSE 0
    BY <1>1 DEF Room
  <2> HIDE DEF rest
  <2> QED
    BY <1>2, <1>3, <2>1, <2>2, TickMachine DEF StepOK
<1>5. CASE loop' \in {NoLoop, AtTop(rest)}
  <2>1. loop' \in Loop /\ ~loop'.active /\ loop'.at \in {"host", "top"}
        /\ loop'.remaining \in {0, rest} /\ (loop'.at = "host" => loop'.remaining = 0)
    BY <1>1, <1>5, LoopTypes
  <2>2. Left' \in Nat /\ Left' <= (IF Timed THEN rest ELSE 0)
    BY <1>1, <2>1 DEF Left, Timed
  <2>3. MachineOK(After, Left')
    BY <1>1, <1>4, <2>2, LessLeft
  <2>4. LoopOK'
    BY <2>1 DEF LoopOK
  <2> QED
    BY <1>3, <2>1, <2>3, <2>4, NextOutside DEF StepOK
<1>6. CASE ~signal'.stop /\ ~ends
  <2>1. loop' = [loop EXCEPT !.remaining = rest, !.window = loop.window - 1]
    BY <1>2, <1>6
  <2>2. loop.window # 1 /\ loop.window - 1 \in 0 .. Budget /\ rest \in 0 .. Budget
    BY <1>1, <1>6
  <2>3. /\ loop' \in Loop /\ loop'.at = "burst" /\ loop'.turn = p /\ ~loop'.active
        /\ loop'.remaining = rest /\ loop'.window = loop.window - 1
    BY <1>1, <2>1, <2>2 DEF Loop
  <2>4. Left' = IF Timed THEN rest ELSE 0
    BY <2>3 DEF Left, Timed
  <2>5. LoopOK'
    BY <1>1, <2>2, <2>3 DEF LoopOK
  <2>6. plan' = plan /\ timer' = timer /\ ~plan.dirty /\ (NumCpus > 1 => ~signal'.woken)
    BY <1>3, <1>6 DEF StepOK
  <2>7. SyncedOrNoted'
    BY <1>1, <2>6 DEF SocInv, SyncedOrNoted, InWindow
  <2>8. BurstPlanned'
    <3> SUFFICES ASSUME NumCpus > 1, ~setup'.legacy
                 PROVE  plan'.schedule_valid /\ ~plan'.dirty
                        /\ (plan'.event = None \/ now' + loop'.window <= plan'.event)
      BY DEF BurstPlanned
    <3>1. plan.schedule_valid /\ ~plan.dirty /\ (plan.event = None \/ now + loop.window <= plan.event)
      BY <1>1, <2>2 DEF SocInv, BurstPlanned
    <3>2. now \in Nat /\ (plan.event = None \/ plan.event \in Nat)
      BY DEF SocInv, MachineOK, Machine, TimeOK, Plan
    <3>3. now' = now \/ now' = now + 1
      BY <1>2 DEF Tick
    <3> QED
      BY <1>1, <2>3, <2>6, <3>1, <3>2, <3>3
  <2>9. BurstEndsOnEvent'
    <3>1. CASE NumCpus = 1
      <4>1. Cpus \ {loop'.turn} = {}
        BY <1>1, <2>3, <3>1 DEF Cpus
      <4> QED
        BY <4>1 DEF BurstEndsOnEvent
    <3>2. CASE NumCpus > 1
      BY <1>1, <1>3, <2>3, <2>6, <3>2 DEF SocInv, BurstEndsOnEvent, StepOK, EventTold
    <3> QED
      BY <3>1, <3>2, SocConstants
  <2> QED
    BY <1>3, <1>4, <2>4, <2>5, <2>7, <2>8, <2>9, NextInv DEF StepOK
<1> QED
  BY <1>2, <1>5, <1>6

LEMMA RoundSkipKeeps ==
  ASSUME SocInv, setup' = setup, RoundSkip
  PROVE  SocInv'
<1>1. /\ loop \in Loop /\ loop.at = "round" /\ loop.turn < NumCpus
      /\ loop' = [loop EXCEPT !.turn = @ + 1]
      /\ core' = core /\ signal' = signal /\ plan' = plan /\ After = Machine
  BY DEF RoundSkip, InRound, SocInv, LoopOK, After, Machine
<1>2. /\ loop' \in Loop /\ loop'.at = "round" /\ loop'.window = loop.window
      /\ loop'.remaining = loop.remaining /\ loop'.active = loop.active
  BY <1>1, SocConstants DEF Loop
<1>3. Left' = Left /\ LoopOK'
  BY <1>1, <1>2 DEF Left, Timed, SocInv, LoopOK
<1>4. SyncedOrNoted' /\ BurstPlanned' /\ BurstEndsOnEvent'
  BY <1>1, <1>2 DEF SocInv, SyncedOrNoted, InWindow, BurstPlanned, BurstEndsOnEvent
<1> QED
  BY <1>1, <1>3, <1>4, NextInv DEF SocInv

LEMMA RoundStepKeeps ==
  ASSUME SocInv, setup' = setup, RoundStep
  PROVE  SocInv'
<1> DEFINE p == loop.turn
<1>1. /\ loop \in Loop /\ loop.at = "round" /\ p \in Cpus /\ loop.remaining \in 1 .. Budget
      /\ loop.remaining \in Nat /\ Budget \in Nat /\ 1 <= loop.window
      /\ loop' = [loop EXCEPT !.turn = @ + 1, !.remaining = @ - 1, !.active = TRUE]
      /\ CoreStep(p) /\ now' = now
  BY LeftType, SocConstants DEF RoundStep, InRound, SocInv, LoopOK, Loop, Cpus
<1>2. StepOK(p)
  <2>1. Room \in Nat /\ Room <= Left /\ Left \in Nat
    BY <1>1, LeftType DEF Left, Room
  <2>2. MachineOK(Machine, Room)
    BY <2>1, LessLeft DEF SocInv
  <2>3. MayStep(p)
    BY <1>1, <2>2, LeftType DEF MayStep, SocInv
  <2> QED
    BY <1>1, <2>3, CoreStepKeeps
<1>3. /\ loop' \in Loop /\ loop'.at = "round" /\ loop'.window = loop.window
      /\ loop'.remaining = loop.remaining - 1 /\ loop'.active
  <2>1. loop.turn + 1 \in 0 .. NumCpus /\ loop.remaining - 1 \in 0 .. Budget
    BY <1>1, SocConstants DEF Cpus
  <2> QED
    BY <1>1, <2>1 DEF Loop
<1>4. Left' = Room /\ LoopOK'
  BY <1>1, <1>3 DEF Left, Timed, Room, LoopOK
<1>5. After = Stepped
  BY <1>1 DEF After, Stepped
<1>6. SyncedOrNoted' /\ BurstPlanned' /\ BurstEndsOnEvent'
  BY <1>1, <1>2, <1>3
     DEF SocInv, StepOK, SyncedOrNoted, InWindow, BurstPlanned, BurstEndsOnEvent
<1> QED
  BY <1>2, <1>4, <1>5, <1>6, NextInv DEF StepOK

LEMMA RoundEndKeeps ==
  ASSUME SocInv, setup' = setup, RoundEnd
  PROVE  SocInv'
<1> DEFINE over == ~loop.active \/ plan.dirty \/ loop.window = 1 \/ loop.remaining = 0 \/ signal.stop
<1>1. /\ loop \in Loop /\ loop.at = "round" /\ 1 <= loop.window /\ loop.window \in 0 .. Budget
      /\ loop.remaining \in 0 .. Budget /\ loop.remaining \in Nat /\ Budget \in Nat
  BY LeftType DEF RoundEnd, SocInv, LoopOK, Loop
<1>2. /\ gic' = gic /\ timer' = timer /\ core' = core /\ dev' = dev /\ plan' = plan
      /\ IF loop.active THEN Tick ELSE now' = now
      /\ loop' = IF over THEN AtTop(loop.remaining)
                 ELSE [loop EXCEPT !.window = @ - 1, !.turn = 0, !.active = FALSE]
  BY DEF RoundEnd
<1>3. signal' \in Signal
  BY DEF RoundEnd, SocInv, Signal
<1>4. /\ loop' \in Loop /\ loop'.at \in {"top", "round"} /\ loop'.remaining = loop.remaining
      /\ ~loop'.active /\ (loop'.at = "round" => 1 <= loop'.window)
  <2>1. CASE over
    BY <1>1, <1>2, <2>1, LoopTypes
  <2>2. CASE ~over
    <3>1. loop' = [loop EXCEPT !.window = loop.window - 1, !.turn = 0, !.active = FALSE]
      BY <1>2, <2>2
    <3>2. 0 \in 0 .. NumCpus /\ loop.window - 1 \in 0 .. Budget /\ 1 <= loop.window - 1
      BY <1>1, <2>2, SocConstants
    <3> QED
      BY <1>1, <3>1, <3>2 DEF Loop
  <2> QED
    BY <2>1, <2>2
<1>5. Left' = IF Timed THEN loop.remaining ELSE 0
  BY <1>4 DEF Left, Timed
<1>6. MachineOK(After, Left')
  <2>1. After = [Machine EXCEPT !.now = now'] /\ Machine.now = now
    BY <1>2 DEF After, Machine
  <2>2. MachineOK(Machine, Left) /\ Left \in Nat
    BY LeftType DEF SocInv
  <2>3. CASE loop.active
    <3>1. Left = IF Timed THEN loop.remaining + 1 ELSE 0
      BY <2>3 DEF Left
    <3>2. Tick
      BY <1>2, <2>3
    <3> QED
      BY <1>1, <1>5, <2>1, <2>2, <3>1, <3>2, TickMachine
  <2>4. CASE ~loop.active
    <3>1. Left' = Left /\ After = Machine
      BY <1>2, <1>5, <2>4 DEF Left, After, Machine
    <3> QED
      BY <2>2, <3>1
  <2> QED
    BY <2>3, <2>4
<1>7. LoopOK'
  BY <1>4 DEF LoopOK
<1>8. SyncedOrNoted' /\ BurstPlanned' /\ BurstEndsOnEvent'
  BY <1>1, <1>2, <1>4 DEF SocInv, SyncedOrNoted, InWindow, BurstPlanned, BurstEndsOnEvent
<1> QED
  BY <1>2, <1>3, <1>6, <1>7, <1>8, NextInv DEF SocInv

-----------------------------------------------------------------------------
(* The invariant                                                           *)

LEMMA SocInitial == Init => SocInv
<1> SUFFICES ASSUME Init PROVE SocInv
  OBVIOUS
<1>1. /\ setup \in Setups /\ timer = NewTimer /\ now = 0 /\ dev = FALSE /\ plan = NewPlan
      /\ loop = NoLoop /\ signal = NewSignal
      /\ core = [p \in Cpus |-> NewCore(p = 0 \/ setup.all_start)]
  BY DEF Init
<1>2. gic \in Gic
  <2>1. PICK image \in SnapshotImages : gic = Settled(LoadState(PowerOnGic, image))
    BY DEF Init
  <2>2. LoadState(PowerOnGic, image) \in Gic
    BY InitInv, LoadKeepsInv DEF GicInv
  <2> QED
    BY <2>1, <2>2 DEF Settled, Gic
<1>3. core \in [Cpus -> Core]
  <2>1. Spurious \in 0 .. NumIntIds /\ setup.all_start \in BOOLEAN
    BY <1>1, SocAssumption, GicAssumption DEF Spurious, Setup
  <2>2. \A on \in BOOLEAN : NewCore(on) \in Core
    BY <2>1 DEF NewCore, Core
  <2> QED
    BY <1>1, <2>2
<1>4. signal \in Signal
  BY <1>1 DEF NewSignal, Signal
<1>5. loop \in Loop /\ loop.at = "host" /\ loop.remaining = 0 /\ ~loop.active
  <2>1. 0 \in 0 .. Budget
    BY SocConstants
  <2> QED
    BY <1>1, <2>1, LoopTypes
<1>6. Left = 0
  BY <1>5 DEF Left
<1>7. MachineOK(Machine, 0)
  <2>1. /\ Machine.gic = gic /\ Machine.timer = timer /\ Machine.now = now
        /\ Machine.dev = dev /\ Machine.plan = plan
        /\ Machine = [gic |-> Machine.gic, timer |-> Machine.timer, now |-> Machine.now,
                      dev |-> Machine.dev, plan |-> Machine.plan]
    BY DEF Machine
  <2>2. InTime(timer, now)
    BY <1>1, TimerInitial DEF TimerInit, TimerInv
  <2>3. Early(timer, 0) /\ Still(timer)
    BY <1>1, SocConstants DEF NewTimer, Early, Still
  <2>4. TimeOK(Machine, 0)
    BY <1>1, <2>1, <2>2, <2>3, SocConstants DEF TimeOK
  <2> QED
    BY <1>1, <1>2, <2>1, <2>4, NewPlanType, NoteChange
<1>8. LoopOK
  BY <1>5 DEF LoopOK
<1> QED
  BY <1>1, <1>3, <1>4, <1>5, <1>6, <1>7, <1>8
     DEF SocInv, SyncedOrNoted, InWindow, BurstPlanned, BurstEndsOnEvent

LEMMA SocStep == SocInv /\ [Next]_vars => SocInv'
<1> SUFFICES ASSUME SocInv, [Next]_vars PROVE SocInv'
  OBVIOUS
<1>1. CASE Next
  <2>1. setup' = setup
    BY <1>1 DEF Next
  <2> QED
    BY <1>1, <2>1, RunKeeps, ReturnKeeps, StopHaltedKeeps, FastForwardActionKeeps, DispatchKeeps,
       BurstStepKeeps, RoundSkipKeeps, RoundStepKeeps, RoundEndKeeps, InjectKeeps, SnapshotKeeps
       DEF Next, LoopNext
<1>2. CASE UNCHANGED vars
  BY <1>2
     DEF vars, SocInv, MachineOK, Machine, TimeOK, InTime, Early, Timed, Still, Left, LinesOK,
         EventOK, Fresh, LoopOK, SyncedOrNoted, InWindow, BurstPlanned, TimerLate,
         BurstEndsOnEvent
<1> QED
  BY <1>1, <1>2

LEMMA SocInvariant == Spec => []SocInv
BY SocInitial, SocStep, PTL DEF Spec

-----------------------------------------------------------------------------
(* The properties                                                          *)

(* The state is one of the loop's: no step or round is taken beyond the    *)
(* budget of the call, and guest time stays within the bound (SoC::run).   *)
THEOREM SocTypeCorrect == Spec => []SocTypeOK
<1>1. SocInv => SocTypeOK
  <2> SUFFICES ASSUME SocInv PROVE SocTypeOK
    OBVIOUS
  <2>1. gic \in Gic /\ dev \in BOOLEAN /\ plan \in Plan /\ TimeOK(Machine, Left) /\ Left \in Nat
    BY LeftType DEF SocInv, MachineOK
  <2>2. now \in 0 .. MaxTick /\ timer \in AnyTimer /\ timer.anchor <= now
    BY <2>1, TimeKept DEF Machine, InTime
  <2>3. timer.anchor \in 0 .. MaxTick
    BY <2>2, SocConstants DEF AnyTimer
  <2>4. timer \in Timer
    BY <2>2, <2>3 DEF AnyTimer, Timer
  <2> QED
    BY <2>1, <2>2, <2>4 DEF SocInv, LoopOK, SocTypeOK
<1> QED
  BY <1>1, SocInvariant, PTL

(* While cores execute, the controller sees the levels that the devices    *)
(* drive, or a change is noted (soc.cpp, sync_devices).  It is not so with *)
(* a window open: presenting a frame may find key presses after the levels *)
(* were told, which the run of soc_keys shows.                             *)
THEOREM LinesCorrect == Spec => [](~setup.sdl => LinesFollowDevices)
<1>1. SocInv => (~setup.sdl => LinesFollowDevices)
  <2> SUFFICES ASSUME SocInv, ~setup.sdl, InWindow, ~plan.dirty
               PROVE  gic.line_level \cap LineSlots = Levels(timer, dev)
    BY DEF LinesFollowDevices
  <2>1. plan.sync_valid
    BY DEF SocInv, SyncedOrNoted
  <2> QED
    BY <2>1 DEF SocInv, MachineOK, Machine, LinesOK
<1> QED
  BY <1>1, SocInvariant, PTL

(* The device event that the loop plans by is the timer's next deadline,   *)
(* though it may have been computed steps ago (soc.cpp, next_device_event).*)
THEOREM DeviceEventCorrect == Spec => []CachedEventIsDeadline
<1>1. SocInv => CachedEventIsDeadline
  BY DEF SocInv, MachineOK, Machine, EventOK, CachedEventIsDeadline
<1> QED
  BY <1>1, SocInvariant, PTL

(* A core that runs alone executes nothing past a timer deadline of any    *)
(* core (soc.cpp, compute_run_window).                                     *)
THEOREM BurstDeadlineCorrect == Spec => []BurstMeetsDeadline
<1>1. SocInv => BurstMeetsDeadline
  <2> SUFFICES ASSUME SocInv, loop.at = "burst", NumCpus > 1, ~setup.legacy PROVE ~TimerLate
    BY DEF BurstMeetsDeadline
  <2>1. MachineOK(Machine, Left) /\ Left \in Nat
    BY LeftType DEF SocInv
  <2>2. CASE loop.window = 1 /\ ~TimerLate
    BY <2>2
  <2>3. CASE plan.schedule_valid /\ ~plan.dirty /\ (plan.event = None \/ now + loop.window <= plan.event)
    <3>1. now \in Nat /\ (plan.event = None \/ plan.event \in Nat) /\ loop.window \in Nat /\ 1 <= loop.window
      BY <2>1, LeftType DEF MachineOK, Machine, TimeOK, Plan, SocInv, LoopOK, Loop
    <3>2. Fresh(Machine) /\ ~(plan.event # None /\ plan.event <= now)
      BY <2>3, <3>1 DEF Fresh, Machine
    <3>3. ~Due(Machine)
      BY <3>2 DEF Due, NextDeviceEvent, Machine
    <3>4. ~Late(Machine)
      BY <2>1, <3>3, NotDueNotLate
    <3> QED
      BY <3>4 DEF Late, TimerLate, Machine
  <2> QED
    BY <2>2, <2>3 DEF SocInv, BurstPlanned
<1> QED
  BY <1>1, SocInvariant, PTL

(* A core that runs alone goes on only while no other core waits for an    *)
(* event that it already has: what a SEV or a store that breaks its        *)
(* reservation does for a waiter ends the burst (soc.cpp, broadcast_event, *)
(* on_cpu_memory_write).                                                   *)
THEOREM BurstEventCorrect == Spec => []BurstEndsOnEvent
<1>1. SocInv => BurstEndsOnEvent
  BY DEF SocInv
<1> QED
  BY <1>1, SocInvariant, PTL
=============================================================================
