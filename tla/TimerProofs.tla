----------------------------- MODULE TimerProofs -----------------------------
(***************************************************************************)
(* The timer, proved right for any number of CPUs and cycles per step: its *)
(* counter is guest time, and its forecast is never late.                  *)
(***************************************************************************)
EXTENDS GenericTimer, TLAPS
WF == INSTANCE WellFoundedInduction

-----------------------------------------------------------------------------
(* Remainders by a modulus that is not a number: what the clocks need.     *)

LEMMA Division ==
  ASSUME NEW m \in Nat \ {0}
  PROVE  \A x \in Int : x = m * (x \div m) + (x % m)
  OBVIOUS

LEMMA NaturalDivision ==
  ASSUME NEW m \in Nat \ {0}, NEW x \in Nat
  PROVE  /\ x \div m \in Nat /\ x % m \in 0 .. m - 1 /\ m * (x \div m) \in Nat
         /\ x = m * (x \div m) + (x % m)
<1>1. x \div m \in Nat
  OBVIOUS
<1>2. m * (x \div m) \in Nat
  BY <1>1
<1> QED
  BY <1>1, <1>2, Division

LEMMA RemainderIs ==
  ASSUME NEW m \in Nat \ {0}, NEW q \in Int, NEW r \in 0 .. m - 1
  PROVE  (q * m + r) % m = r
<1> DEFINE x == q * m + r
<1>1. x \in Int /\ q * m \in Int
  OBVIOUS
<1>2. x % m \in 0 .. m - 1 /\ x \div m \in Int
  BY <1>1
<1>3. x = m * (x \div m) + (x % m)
  <2> HIDE DEF x
  <2> QED
    BY <1>1, Division
<1>4. (q - x \div m) * m = (x % m) - r
  BY <1>1, <1>2, <1>3
<1>5. q - x \div m = 0
  <2>1. q - x \div m < 1
    <3> SUFFICES ASSUME q - x \div m >= 1 PROVE FALSE
      BY <1>2
    <3>1. (q - x \div m) * m >= m
      BY <1>2
    <3> QED
      BY <1>2, <1>4, <3>1
  <2>2. q - x \div m > -1
    <3> SUFFICES ASSUME q - x \div m <= -1 PROVE FALSE
      BY <1>2
    <3>1. (q - x \div m) * m <= -m
      BY <1>2
    <3> QED
      BY <1>2, <1>4, <3>1
  <2> QED
    BY <1>2, <2>1, <2>2
<1> QED
  BY <1>1, <1>2, <1>4, <1>5

(* Adding on after taking the remainder comes to the same.                 *)
LEMMA RemainderAdds ==
  ASSUME NEW m \in Nat \ {0}, NEW a \in Int, NEW b \in Int
  PROVE  ((a % m) + b) % m = (a + b) % m
<1> DEFINE q == a \div m
           p == ((a % m) + b) \div m
           r == ((a % m) + b) % m
<1>1. a % m \in Int /\ q \in Int /\ p \in Int /\ r \in 0 .. m - 1
  OBVIOUS
<1>2. a = m * q + (a % m)
  BY Division
<1>3. (a % m) + b = p * m + r
  BY <1>1
<1>4. a + b = (q + p) * m + r
  BY <1>1, <1>2, <1>3
<1>5. ((q + p) * m + r) % m = r
  <2> HIDE DEF q, p, r
  <2> QED
    BY <1>1, RemainderIs
<1> QED
  BY <1>4, <1>5

LEMMA RemainderOfSmall ==
  ASSUME NEW m \in Nat \ {0}, NEW r \in 0 .. m - 1
  PROVE  r % m = r
<1>1. (0 * m + r) % m = r
  BY RemainderIs
<1> QED
  BY <1>1

-----------------------------------------------------------------------------
(* The timer.                                                              *)

(* A timer whose anchor may lie beyond the bound on guest time, as that of *)
(* a forecast does.                                                        *)
AnyTimer == [counter  : Cycles,
             anchor   : Nat,
             compare  : Cycles,
             enabled  : BOOLEAN,
             mmio_irq : BOOLEAN,
             fired    : BOOLEAN,
             channel  : [Channels -> Channel]]

Level(c, counter) == c.enable /\ ~c.imask /\ counter >= c.cval
Fires(t) == t.enabled /\ ~t.mmio_irq /\ ~t.fired /\ t.counter >= t.compare

(* A channel's line is only high while its condition holds.                *)
LinesTrue(t) ==
  \A k \in Channels : t.channel[k].irq_pending => Level(t.channel[k], t.counter)

(* The counter stands where the anchor says, at or before guest time s.    *)
InTime(t, s) ==
  t \in AnyTimer /\ t.anchor <= s /\ t.counter = t.anchor * CyclesPerStep

TimerInv == InTime(timer, now) /\ now \in 0 .. MaxTick /\ LinesTrue(timer)

LEMMA UpdateSettles ==
  ASSUME NEW t \in AnyTimer
  PROVE  LET u == UpdateIrqState(t)
         IN  /\ u \in AnyTimer
             /\ u.counter = t.counter /\ u.anchor = t.anchor
             /\ u.mmio_irq <=> t.mmio_irq \/ Fires(t)
             /\ \A k \in Channels : u.channel[k].irq_pending <=> Level(t.channel[k], t.counter)
             /\ LinesTrue(u)
<1> DEFINE fires == t.enabled /\ ~t.mmio_irq /\ ~t.fired /\ t.counter >= t.compare
           level(c) == c.enable /\ ~c.imask /\ t.counter >= c.cval
           chans == [k \in Channels |-> [t.channel[k] EXCEPT !.irq_pending = level(t.channel[k])]]
           u == UpdateIrqState(t)
<1>1. u = [t EXCEPT !.mmio_irq = t.mmio_irq \/ fires, !.fired = t.fired \/ fires, !.channel = chans]
  BY DEF UpdateIrqState, AnyTimer
<1>2. ASSUME NEW k \in Channels
      PROVE  /\ chans[k] \in Channel /\ chans[k].irq_pending = level(t.channel[k])
             /\ chans[k].enable = t.channel[k].enable /\ chans[k].imask = t.channel[k].imask
             /\ chans[k].cval = t.channel[k].cval
  <2>1. t.channel[k] \in Channel
    BY DEF AnyTimer
  <2>2. level(t.channel[k]) \in BOOLEAN
    BY <2>1 DEF Channel
  <2>3. chans[k] = [t.channel[k] EXCEPT !.irq_pending = level(t.channel[k])]
    OBVIOUS
  <2> HIDE DEF level, chans
  <2> QED
    BY <2>1, <2>2, <2>3 DEF Channel
<1>3. chans \in [Channels -> Channel]
  BY <1>2
<1>4. fires \in BOOLEAN /\ (t.mmio_irq \/ fires) \in BOOLEAN /\ (t.fired \/ fires) \in BOOLEAN
  BY DEF AnyTimer
<1>5. /\ u \in AnyTimer /\ u.counter = t.counter /\ u.anchor = t.anchor /\ u.channel = chans
      /\ u.mmio_irq <=> t.mmio_irq \/ fires
  <2> HIDE DEF chans, fires, u
  <2> QED
    BY <1>1, <1>3, <1>4 DEF AnyTimer
<1>6. \A k \in Channels : u.channel[k].irq_pending <=> Level(t.channel[k], t.counter)
  BY <1>2, <1>5 DEF Level
<1>7. \A k \in Channels : Level(u.channel[k], u.counter) <=> Level(t.channel[k], t.counter)
  BY <1>2, <1>5 DEF Level
<1> HIDE DEF chans, u
<1>8. LinesTrue(u)
  BY <1>6, <1>7 DEF LinesTrue
<1> QED
  BY <1>5, <1>6, <1>8 DEF u, Fires

LEMMA UpdateInTime ==
  ASSUME NEW t, NEW s, InTime(t, s)
  PROVE  InTime(UpdateIrqState(t), s) /\ LinesTrue(UpdateIrqState(t))
  BY UpdateSettles DEF InTime

(* Within the bound the counter does not wrap.                             *)
LEMMA CyclesFit ==
  ASSUME NEW s \in 0 .. MaxTick
  PROVE  s * CyclesPerStep \in Cycles
<1>1. CyclesPerStep \in Nat /\ MaxTick \in Nat /\ Modulus \in Nat /\ MaxTick * CyclesPerStep < Modulus
  BY TimerAssumption
<1>2. s * CyclesPerStep <= MaxTick * CyclesPerStep /\ s * CyclesPerStep \in Nat
  BY <1>1
<1>3. MaxTick * CyclesPerStep \in Nat
  BY <1>1
<1> QED
  BY <1>1, <1>2, <1>3 DEF Cycles

LEMMA CounterIs ==
  ASSUME NEW t, NEW s \in Nat, NEW u \in Nat, InTime(t, s)
  PROVE  CounterAt(t, u) = (u * CyclesPerStep) % Modulus
<1>1. CyclesPerStep \in Nat /\ t.anchor \in Nat
  BY TimerAssumption DEF InTime, AnyTimer
<1>2. t.anchor * CyclesPerStep + (u - t.anchor) * CyclesPerStep = u * CyclesPerStep
  BY <1>1
<1> QED
  BY <1>2 DEF CounterAt, InTime

LEMMA CounterInTime ==
  ASSUME NEW t, NEW s \in 0 .. MaxTick, InTime(t, s)
  PROVE  CounterAt(t, s) = s * CyclesPerStep
<1>1. Modulus \in Nat \ {0} /\ s \in Nat
  <2>1. MaxTick * CyclesPerStep \in Nat
    BY TimerAssumption
  <2> QED
    BY <2>1, TimerAssumption
<1>2. s * CyclesPerStep \in 0 .. Modulus - 1
  BY CyclesFit DEF Cycles
<1>3. (s * CyclesPerStep) % Modulus = s * CyclesPerStep
  BY <1>1, <1>2, RemainderOfSmall
<1> QED
  BY <1>1, <1>3, CounterIs

LEMMA SyncInTime ==
  ASSUME NEW t, NEW s \in 0 .. MaxTick, InTime(t, s)
  PROVE  InTime(SyncToSteps(t, s), s) /\ LinesTrue(SyncToSteps(t, s)) /\ SyncToSteps(t, s).anchor = s
<1> DEFINE moved == [t EXCEPT !.counter = CounterAt(t, s), !.anchor = s]
<1>1. CounterAt(t, s) = s * CyclesPerStep /\ s * CyclesPerStep \in Cycles /\ s \in Nat
  BY CounterInTime, CyclesFit, TimerAssumption
<1>2. moved \in AnyTimer /\ moved.anchor = s /\ moved.counter = s * CyclesPerStep
  BY <1>1 DEF InTime, AnyTimer
<1>3. SyncToSteps(t, s) = UpdateIrqState(moved)
  BY DEF SyncToSteps
<1> HIDE DEF moved
<1>4. InTime(moved, s)
  BY <1>1, <1>2 DEF InTime
<1> QED
  BY <1>2, <1>3, <1>4, UpdateInTime, UpdateSettles

LEMMA TimerInitial == TimerInit => TimerInv
<1> SUFFICES ASSUME TimerInit PROVE TimerInv
  OBVIOUS
<1>1. 0 \in Cycles /\ 0 \in 0 .. MaxTick /\ 0 * CyclesPerStep = 0
  BY CyclesFit, TimerAssumption DEF Cycles
<1>2. [cval |-> 0, enable |-> FALSE, imask |-> FALSE, irq_pending |-> FALSE] \in Channel
  BY <1>1 DEF Channel
<1>3. NewTimer \in AnyTimer /\ NewTimer.anchor = 0 /\ NewTimer.counter = 0
      /\ \A k \in Channels : ~NewTimer.channel[k].irq_pending
  BY <1>1, <1>2 DEF NewTimer, AnyTimer
<1> QED
  BY <1>1, <1>3 DEF TimerInit, TimerInv, InTime, LinesTrue

(* A synced timer whose channels or MMIO registers are then written.       *)
LEMMA ChannelInTime ==
  ASSUME NEW t, NEW s, InTime(t, s), NEW k \in Channels
  PROVE  /\ \A cval \in Cycles : InTime([t EXCEPT !.channel[k].cval = cval], s)
         /\ \A enable, imask \in BOOLEAN :
              InTime([t EXCEPT !.channel[k].enable = enable, !.channel[k].imask = imask], s)
<1>1. t \in AnyTimer /\ t.channel \in [Channels -> Channel]
  BY DEF InTime, AnyTimer
<1>2. \A ch \in [Channels -> Channel] : InTime([t EXCEPT !.channel = ch], s)
  BY <1>1 DEF InTime, AnyTimer
<1>3. ASSUME NEW cval \in Cycles PROVE InTime([t EXCEPT !.channel[k].cval = cval], s)
  <2>1. [t.channel EXCEPT ![k].cval = cval] \in [Channels -> Channel]
    BY <1>1 DEF Channel
  <2>2. [t EXCEPT !.channel[k].cval = cval] = [t EXCEPT !.channel = [t.channel EXCEPT ![k].cval = cval]]
    BY <1>1 DEF AnyTimer
  <2> QED
    BY <1>2, <2>1, <2>2
<1>4. ASSUME NEW enable \in BOOLEAN, NEW imask \in BOOLEAN
      PROVE  InTime([t EXCEPT !.channel[k].enable = enable, !.channel[k].imask = imask], s)
  <2> DEFINE ch == [t.channel EXCEPT ![k].enable = enable, ![k].imask = imask]
  <2>1. ch \in [Channels -> Channel]
    BY <1>1 DEF Channel
  <2>2. [t EXCEPT !.channel[k].enable = enable, !.channel[k].imask = imask] = [t EXCEPT !.channel = ch]
    BY <1>1 DEF AnyTimer
  <2> QED
    BY <1>2, <2>1, <2>2
<1> QED
  BY <1>3, <1>4

LEMMA MmioInTime ==
  ASSUME NEW t, NEW s, InTime(t, s)
  PROVE  /\ \A value \in Cycles :
              InTime([t EXCEPT !.compare = value, !.mmio_irq = FALSE, !.fired = FALSE], s)
         /\ \A enable, clear \in BOOLEAN :
              InTime([t EXCEPT !.enabled = enable, !.mmio_irq = @ /\ enable /\ ~clear,
                               !.fired = @ /\ enable], s)
  BY DEF InTime, AnyTimer

LEMMA RestoredInTime ==
  ASSUME NEW t, NEW s \in 0 .. MaxTick, InTime(t, s)
  PROVE  InTime(Restored(t, s), s) /\ LinesTrue(Restored(t, s))
<1> DEFINE synced == SyncToSteps(t, s)
           saved == [synced EXCEPT !.anchor = 0]
           loaded == UpdateIrqState(saved)
           rebased == [loaded EXCEPT !.anchor = s]
<1>1. synced \in AnyTimer /\ synced.counter = s * CyclesPerStep /\ s \in Nat
  <2>1. InTime(synced, s) /\ synced.anchor = s
    BY SyncInTime
  <2> QED
    BY <2>1, TimerAssumption DEF InTime
<1>2. saved \in AnyTimer /\ saved.counter = s * CyclesPerStep
  <2> HIDE DEF synced
  <2> QED
    BY <1>1 DEF AnyTimer
<1>3. loaded \in AnyTimer /\ loaded.counter = s * CyclesPerStep
  <2> HIDE DEF saved
  <2> QED
    BY <1>2, UpdateSettles
<1>4. rebased \in AnyTimer /\ rebased.counter = s * CyclesPerStep /\ rebased.anchor = s
  <2> HIDE DEF loaded
  <2> QED
    BY <1>1, <1>3 DEF AnyTimer
<1>5. Restored(t, s) = SyncToSteps(rebased, s)
  BY DEF Restored
<1> HIDE DEF rebased
<1>6. InTime(rebased, s)
  BY <1>1, <1>4 DEF InTime
<1> QED
  BY <1>5, <1>6, SyncInTime

(* Every register write brings the timer to guest time or leaves it there. *)
LEMMA WritesInTime ==
  ASSUME NEW t, NEW s \in 0 .. MaxTick, InTime(t, s)
  PROVE  /\ \A k \in Channels, enable, imask \in BOOLEAN : /\ InTime(WriteCtl(t, s, k, enable, imask), s)
                                                        /\ LinesTrue(WriteCtl(t, s, k, enable, imask))
         /\ \A k \in Channels, cval \in Cycles : /\ InTime(WriteCval(t, s, k, cval), s)
                                               /\ LinesTrue(WriteCval(t, s, k, cval))
         /\ \A value \in Cycles : InTime(MmioWriteCompare(t, value), s) /\ LinesTrue(MmioWriteCompare(t, value))
         /\ \A enable, clear \in BOOLEAN : /\ InTime(MmioWriteCtl(t, enable, clear), s)
                                          /\ LinesTrue(MmioWriteCtl(t, enable, clear))
<1> DEFINE synced == SyncToSteps(t, s)
<1>1. InTime(synced, s)
  BY SyncInTime
<1> HIDE DEF synced
<1>2. ASSUME NEW k \in Channels, NEW enable \in BOOLEAN, NEW imask \in BOOLEAN
      PROVE  InTime(WriteCtl(t, s, k, enable, imask), s) /\ LinesTrue(WriteCtl(t, s, k, enable, imask))
  <2>1. WriteCtl(t, s, k, enable, imask)
          = UpdateIrqState([synced EXCEPT !.channel[k].enable = enable, !.channel[k].imask = imask])
    BY DEF WriteCtl, synced
  <2>2. InTime([synced EXCEPT !.channel[k].enable = enable, !.channel[k].imask = imask], s)
    BY <1>1, ChannelInTime
  <2> QED
    BY <2>1, <2>2, UpdateInTime
<1>3. ASSUME NEW k \in Channels, NEW cval \in Cycles
      PROVE  InTime(WriteCval(t, s, k, cval), s) /\ LinesTrue(WriteCval(t, s, k, cval))
  <2>1. WriteCval(t, s, k, cval) = UpdateIrqState([synced EXCEPT !.channel[k].cval = cval])
    BY DEF WriteCval, synced
  <2>2. InTime([synced EXCEPT !.channel[k].cval = cval], s)
    BY <1>1, ChannelInTime
  <2> QED
    BY <2>1, <2>2, UpdateInTime
<1>4. ASSUME NEW value \in Cycles
      PROVE  InTime(MmioWriteCompare(t, value), s) /\ LinesTrue(MmioWriteCompare(t, value))
  <2>1. InTime([t EXCEPT !.compare = value, !.mmio_irq = FALSE, !.fired = FALSE], s)
    BY MmioInTime
  <2> QED
    BY <2>1, UpdateInTime DEF MmioWriteCompare
<1>5. ASSUME NEW enable \in BOOLEAN, NEW clear \in BOOLEAN
      PROVE  InTime(MmioWriteCtl(t, enable, clear), s) /\ LinesTrue(MmioWriteCtl(t, enable, clear))
  <2>1. InTime([t EXCEPT !.enabled = enable, !.mmio_irq = @ /\ enable /\ ~clear, !.fired = @ /\ enable], s)
    BY MmioInTime
  <2> QED
    BY <2>1, UpdateInTime DEF MmioWriteCtl
<1> QED
  BY <1>2, <1>3, <1>4, <1>5

LEMMA TimerStep == TimerInv /\ [TimerNext]_<<timer, now>> => TimerInv'
<1> SUFFICES ASSUME TimerInv, [TimerNext]_<<timer, now>> PROVE TimerInv'
  OBVIOUS
<1>1. InTime(timer, now) /\ now \in 0 .. MaxTick /\ LinesTrue(timer)
  BY DEF TimerInv
<1>2. CASE Elapse
  <2>1. timer' = timer /\ now' = now + 1 /\ now' \in 0 .. MaxTick
    BY <1>1, <1>2, TimerAssumption DEF Elapse
  <2>2. InTime(timer, now')
    BY <1>1, <2>1, TimerAssumption DEF InTime, AnyTimer
  <2> QED
    BY <1>1, <2>1, <2>2 DEF TimerInv
<1>3. CASE Sync
  BY <1>1, <1>3, SyncInTime DEF Sync, TimerInv
<1>4. ASSUME NEW k \in Channels, WriteChannel(k) PROVE TimerInv'
  <2>1. now' = now
    BY <1>4 DEF WriteChannel
  <2>2. CompareValues \subseteq Cycles
    BY TimerAssumption
  <2>3. \A tval \in TvalValues : (CounterAt(timer, now) + tval) % Modulus \in Cycles
    <3>1. CounterAt(timer, now) \in Int
      BY <1>1, CounterInTime, CyclesFit, TimerAssumption DEF Cycles
    <3>2. Modulus \in Nat \ {0}
      BY <1>1, CyclesFit, TimerAssumption DEF Cycles
    <3> QED
      BY <3>1, <3>2, TimerAssumption DEF Cycles
  <2>4. InTime(timer', now) /\ LinesTrue(timer')
    BY <1>1, <1>4, <2>2, <2>3, WritesInTime DEF WriteChannel, WriteTval
  <2> QED
    BY <1>1, <2>1, <2>4 DEF TimerInv
<1>5. CASE WriteMmio
  <2>1. now' = now
    BY <1>5 DEF WriteMmio
  <2>2. InTime(timer', now) /\ LinesTrue(timer')
    BY <1>1, <1>5, WritesInTime, TimerAssumption DEF WriteMmio
  <2> QED
    BY <1>1, <2>1, <2>2 DEF TimerInv
<1>6. CASE SaveAndLoadTimer
  BY <1>1, <1>6, RestoredInTime DEF SaveAndLoadTimer, TimerInv
<1>7. CASE UNCHANGED <<timer, now>>
  BY <1>1, <1>7 DEF TimerInv, InTime, LinesTrue
<1> QED
  BY <1>2, <1>3, <1>4, <1>5, <1>6, <1>7 DEF TimerNext

(* The counter the guest reads is guest time, cycle for cycle: it never    *)
(* goes back, whatever is synced, written, saved or restored, for any      *)
(* number of CPUs and cycles per step (counter_at_steps, rebase_to_steps). *)
THEOREM CounterCorrect == TimerSpec => CounterFollowsTime
<1>1. TimerInit => TimerInv
  BY TimerInitial
<1>2. TimerInv /\ [TimerNext]_<<timer, now>> => TimerInv'
  BY TimerStep
<1>3. TimerInv /\ TimerInv' =>
        [CounterAt(timer', now') = CounterAt(timer, now) + (now' - now) * CyclesPerStep]_<<timer, now>>
  <2> SUFFICES ASSUME TimerInv, TimerInv'
               PROVE  CounterAt(timer', now') = CounterAt(timer, now) + (now' - now) * CyclesPerStep
    OBVIOUS
  <2>1. CounterAt(timer, now) = now * CyclesPerStep /\ now \in 0 .. MaxTick
    BY CounterInTime DEF TimerInv
  <2>2. CounterAt(timer', now') = now' * CyclesPerStep /\ now' \in 0 .. MaxTick
    BY CounterInTime DEF TimerInv
  <2>3. CyclesPerStep \in Nat /\ now \in Nat /\ now' \in Nat
    BY <2>1, <2>2, TimerAssumption
  <2>4. now' * CyclesPerStep = now * CyclesPerStep + (now' - now) * CyclesPerStep
    BY <2>3
  <2> QED
    BY <2>1, <2>2, <2>4
<1> QED
  BY <1>1, <1>2, <1>3, PTL DEF TimerSpec, CounterFollowsTime

(* The forecast.  A set of natural numbers that is not empty has a least   *)
(* element, which LeastOf names.                                           *)
LEMMA LeastOfNaturals ==
  ASSUME NEW S \in SUBSET Nat, S # {}
  PROVE  LeastOf(S) \in S /\ \A m \in S : LeastOf(S) <= m
<1> DEFINE less == WF!OpToRel(<, Nat)
<1>1. WF!IsWellFoundedOn(less, Nat)
  BY WF!NatLessThanWellFounded
<1>2. \A x, y \in Nat : y < x => <<y, x>> \in less
  BY DEF WF!OpToRel
<1> HIDE DEF less
<1>3. PICK x \in S : \A y \in S : ~ (<<y, x>> \in less)
  BY <1>1, WF!WFMin
<1>4. \A y \in S : ~ (y < x)
  BY <1>2, <1>3, Zenon
<1>5. \A y \in S : x <= y
  BY <1>4
<1> QED
  BY <1>5 DEF LeastOf

(* Fewer steps than the forecast leave the counter short of the target.    *)
LEMMA NotBeforeForecast ==
  ASSUME NEW s \in Nat, NEW target \in Cycles, NEW max \in Nat, NEW k \in Nat,
         k < StepsNeeded(s * CyclesPerStep, target, max)
  PROVE  (s + k) * CyclesPerStep < target
<1> DEFINE c == s * CyclesPerStep
           d == target - c
<1>1. CyclesPerStep \in Nat /\ Modulus \in Nat /\ target \in 0 .. Modulus - 1
  BY TimerAssumption DEF Cycles
<1>2. c \in Nat /\ (s + k) * CyclesPerStep = c + k * CyclesPerStep /\ k * CyclesPerStep \in Nat
  BY <1>1
<1>3. c < target
  BY <1>1, <1>2 DEF StepsNeeded
<1>4. CASE CyclesPerStep = 0
  BY <1>1, <1>2, <1>3, <1>4
<1>5. CASE CyclesPerStep # 0
  <2> DEFINE x == d + CyclesPerStep - 1
             y == x % Modulus
             n == y \div CyclesPerStep
  <2>1. StepsNeeded(c, target, max) = n
    BY <1>1, <1>2, <1>3, <1>5 DEF StepsNeeded
  <2>2. x \in Nat /\ Modulus \in Nat \ {0} /\ x = target - c + CyclesPerStep - 1
    BY <1>1, <1>2, <1>3, <1>5
  <2>3. y \in Nat /\ y <= x
    <3> HIDE DEF x
    <3>1. x = Modulus * (x \div Modulus) + (x % Modulus)
      BY <2>2, NaturalDivision
    <3>2. Modulus * (x \div Modulus) \in Nat /\ x % Modulus \in Nat
      BY <2>2, NaturalDivision
    <3> QED
      BY <2>2, <3>1, <3>2
  <2>4. n \in Nat /\ CyclesPerStep * n <= y
    <3> HIDE DEF y
    <3>1. y = CyclesPerStep * (y \div CyclesPerStep) + (y % CyclesPerStep)
          /\ y \div CyclesPerStep \in Nat /\ y % CyclesPerStep \in Nat
      BY <1>1, <1>5, <2>3, Division
    <3> QED
      BY <1>1, <2>3, <3>1
  <2>5. k + 1 <= n
    BY <2>1, <2>4
  <2>6. CyclesPerStep * (k + 1) <= CyclesPerStep * n
    <3> HIDE DEF n
    <3> QED
      BY <1>1, <2>4, <2>5
  <2>7. CyclesPerStep * (k + 1) = k * CyclesPerStep + CyclesPerStep
    BY <1>1
  <2>8. CyclesPerStep * n \in Nat
    <3> HIDE DEF n
    <3> QED
      BY <1>1, <2>4
  <2> HIDE DEF n, y
  <2> QED
    BY <1>1, <1>2, <2>2, <2>3, <2>4, <2>6, <2>7, <2>8
<1> QED
  BY <1>4, <1>5

(* At the forecast the counter has reached the target and not wrapped.     *)
LEMMA ReachedAtForecast ==
  ASSUME NEW s \in 0 .. MaxTick, NEW target \in Cycles, Fits(target), NEW max \in Nat,
         StepsNeeded(s * CyclesPerStep, target, max) # max
  PROVE  LET n == StepsNeeded(s * CyclesPerStep, target, max)
         IN  /\ n \in Nat /\ (s + n) * CyclesPerStep \in 0 .. Modulus - 1
             /\ (s + n) * CyclesPerStep >= target
<1> DEFINE c == s * CyclesPerStep
           d == target - c
           n == StepsNeeded(c, target, max)
<1>1. CyclesPerStep \in Nat /\ Modulus \in Nat /\ target \in 0 .. Modulus - 1 /\ s \in Nat
  BY TimerAssumption DEF Cycles
<1>2. c \in 0 .. Modulus - 1
  BY CyclesFit DEF Cycles
<1>3. CASE c >= target
  <2>1. n = 0
    BY <1>3 DEF StepsNeeded
  <2> QED
    BY <1>1, <1>2, <1>3, <2>1
<1>4. CASE ~(c >= target)
  <2> DEFINE x == d + CyclesPerStep - 1
             m == x \div CyclesPerStep
  <2>1. CyclesPerStep # 0
    BY <1>4 DEF StepsNeeded
  <2>2. x \in 0 .. Modulus - 1 /\ c + x < Modulus /\ Modulus \in Nat \ {0}
    BY <1>1, <1>2, <1>4, <2>1 DEF Fits
  <2>3. x % Modulus = x
    <3> HIDE DEF x
    <3> QED
      BY <2>2, RemainderOfSmall
  <2>4. n = m
    BY <1>4, <2>1, <2>3 DEF StepsNeeded
  <2>5. m \in Nat /\ CyclesPerStep * m <= x /\ x < CyclesPerStep * m + CyclesPerStep
    <3> HIDE DEF x
    <3>1. x = CyclesPerStep * (x \div CyclesPerStep) + (x % CyclesPerStep)
          /\ x \div CyclesPerStep \in Nat /\ x % CyclesPerStep \in 0 .. CyclesPerStep - 1
      BY <1>1, <2>1, <2>2, Division
    <3>2. CyclesPerStep * (x \div CyclesPerStep) \in Nat
      BY <1>1, <3>1
    <3> QED
      BY <1>1, <2>2, <3>1, <3>2
  <2>6. (s + m) * CyclesPerStep = c + CyclesPerStep * m /\ CyclesPerStep * m \in Nat
    <3> HIDE DEF m
    <3> QED
      BY <1>1, <2>5
  <2>7. c + CyclesPerStep * m < Modulus /\ c + CyclesPerStep * m >= target
    <3> HIDE DEF m
    <3> QED
      BY <1>1, <1>2, <2>2, <2>5, <2>6
  <2> HIDE DEF m, n, c
  <2> QED
    BY <1>1, <1>2, <2>4, <2>5, <2>6, <2>7 DEF n, c
<1> QED
  BY <1>3, <1>4

(* Which lines are high after k more steps.                                *)
LEMMA HighAfterIs ==
  ASSUME TimerInv, NEW k \in Nat
  PROVE  LET counter == ((now + k) * CyclesPerStep) % Modulus
         IN  HighAfter(k) <=>
               \/ timer.mmio_irq
               \/ timer.enabled /\ ~timer.fired /\ counter >= timer.compare
               \/ \E c \in Channels : Level(timer.channel[c], counter)
<1> DEFINE counter == ((now + k) * CyclesPerStep) % Modulus
           moved == [timer EXCEPT !.counter = CounterAt(timer, now + k), !.anchor = now + k]
<1>1. now \in Nat /\ now + k \in Nat /\ timer \in AnyTimer /\ InTime(timer, now)
  BY TimerAssumption DEF TimerInv, InTime
<1>2. CounterAt(timer, now + k) = counter
  BY <1>1, CounterIs
<1>3. counter \in Cycles
  <2>1. Modulus \in Nat \ {0} /\ (now + k) * CyclesPerStep \in Nat
    <3>1. MaxTick * CyclesPerStep \in Nat
      BY TimerAssumption
    <3> QED
      BY <1>1, <3>1, TimerAssumption
  <2> QED
    BY <2>1 DEF Cycles
<1>4. /\ moved \in AnyTimer /\ moved.counter = counter /\ moved.channel = timer.channel
      /\ moved.mmio_irq = timer.mmio_irq /\ moved.enabled = timer.enabled
      /\ moved.fired = timer.fired /\ moved.compare = timer.compare
  <2> HIDE DEF counter
  <2> QED
    BY <1>1, <1>2, <1>3 DEF AnyTimer
<1>5. SyncToSteps(timer, now + k) = UpdateIrqState(moved)
  BY DEF SyncToSteps
<1> HIDE DEF moved, counter
<1>6. HighAfter(k) <=> \/ moved.mmio_irq \/ Fires(moved)
                       \/ \E c \in Channels : Level(moved.channel[c], moved.counter)
  BY <1>4, <1>5, UpdateSettles DEF HighAfter
<1>7. HighAfter(k) <=> \/ timer.mmio_irq
                       \/ timer.enabled /\ ~timer.fired /\ counter >= timer.compare
                       \/ \E c \in Channels : Level(timer.channel[c], counter)
  BY <1>4, <1>6 DEF Fires
<1> QED
  BY <1>7 DEF counter

LEMMA NeedsNatural ==
  ASSUME NEW s \in 0 .. MaxTick, NEW target \in Cycles, NEW max \in Nat
  PROVE  StepsNeeded(s * CyclesPerStep, target, max) \in Nat
<1> DEFINE c == s * CyclesPerStep
<1>1. CyclesPerStep \in Nat /\ Modulus \in Nat \ {0} /\ target \in Nat /\ c \in Nat
  <2>1. c \in Cycles
    BY CyclesFit
  <2> QED
    BY <2>1, TimerAssumption DEF Cycles
<1>2. CASE c >= target \/ CyclesPerStep = 0
  BY <1>2 DEF StepsNeeded
<1>3. CASE ~(c >= target) /\ CyclesPerStep # 0
  <2> DEFINE x == target - c + CyclesPerStep - 1
  <2>1. x \in Nat /\ CyclesPerStep \in Nat \ {0}
    BY <1>1, <1>3
  <2>2. StepsNeeded(c, target, max) = (x % Modulus) \div CyclesPerStep
    BY <1>3 DEF StepsNeeded
  <2> HIDE DEF x
  <2>3. x % Modulus \in Nat
    BY <1>1, <2>1, NaturalDivision
  <2> QED
    BY <2>1, <2>2, <2>3, NaturalDivision
<1> QED
  BY <1>2, <1>3

(* The forecast while every line is low: the least of the cap and what     *)
(* each armed comparison needs.                                            *)
LEMMA ForecastIs ==
  ASSUME NEW t, NEW s \in 0 .. MaxTick, InTime(t, s),
         ~t.mmio_irq, \A c \in Channels : ~t.channel[c].irq_pending
  PROVE  LET n == StepsUntilIrq(t, s, NoDeadline)
             needs(target) == StepsNeeded(s * CyclesPerStep, target, NoDeadline)
         IN  /\ n \in Nat /\ n <= NoDeadline /\ NoDeadline \in Nat
             /\ t.enabled /\ ~t.fired => n <= needs(t.compare)
             /\ \A c \in Channels : Armed(t.channel[c]) => n <= needs(t.channel[c].cval)
             /\ \/ n = NoDeadline
                \/ t.enabled /\ ~t.fired /\ n = needs(t.compare)
                \/ \E c \in Channels : Armed(t.channel[c]) /\ n = needs(t.channel[c].cval)
<1> DEFINE needs(target) == StepsNeeded(s * CyclesPerStep, target, NoDeadline)
           mmio == IF t.enabled /\ ~t.fired THEN {needs(t.compare)} ELSE {}
           armed == {j \in Channels : Armed(t.channel[j])}
           S == {NoDeadline} \cup mmio \cup {needs(t.channel[k].cval) : k \in armed}
           n == StepsUntilIrq(t, s, NoDeadline)
<1>1. CounterAt(t, s) = s * CyclesPerStep /\ s * CyclesPerStep \in Cycles
  BY CounterInTime, CyclesFit
<1>2. n = LeastOf(S)
  BY <1>1 DEF StepsUntilIrq
<1>3. NoDeadline \in Nat
  BY TimerAssumption DEF NoDeadline
<1>4. \A target \in Cycles : needs(target) \in Nat
  BY <1>3, NeedsNatural
<1>5. t.compare \in Cycles /\ \A k \in Channels : t.channel[k].cval \in Cycles
  BY DEF InTime, AnyTimer, Channel
<1> HIDE DEF needs, n
<1>6. S \in SUBSET Nat /\ S # {}
  BY <1>3, <1>4, <1>5
<1>7. n \in S /\ \A m \in S : n <= m
  BY <1>2, <1>6, LeastOfNaturals
<1>8. /\ NoDeadline \in S
      /\ t.enabled /\ ~t.fired => needs(t.compare) \in S
      /\ \A c \in Channels : Armed(t.channel[c]) => needs(t.channel[c].cval) \in S
  OBVIOUS
<1>9. \/ n = NoDeadline
      \/ t.enabled /\ ~t.fired /\ n = needs(t.compare)
      \/ \E c \in Channels : Armed(t.channel[c]) /\ n = needs(t.channel[c].cval)
  BY <1>7
<1> HIDE DEF S
<1> QED
  BY <1>3, <1>6, <1>7, <1>8, <1>9 DEF needs, n

LEMMA DeadlineExact == TimerInv => DeadlineIsExact
<1> SUFFICES ASSUME TimerInv PROVE DeadlineIsExact
  OBVIOUS
<1> DEFINE n == StepsUntilIrq(timer, now, NoDeadline)
           at(k) == ((now + k) * CyclesPerStep) % Modulus
<1>1. now \in 0 .. MaxTick /\ now \in Nat /\ timer \in AnyTimer /\ LinesTrue(timer)
  BY TimerAssumption DEF TimerInv, InTime
<1>2. CyclesPerStep \in Nat /\ Modulus \in Nat \ {0}
  <2>1. MaxTick * CyclesPerStep \in Nat
    BY TimerAssumption
  <2> QED
    BY <2>1, TimerAssumption
<1>3. timer.compare \in Cycles /\ \A k \in Channels : timer.channel[k].cval \in Cycles
  BY <1>1 DEF AnyTimer, Channel
<1>4. timer.mmio_irq \in BOOLEAN
  BY <1>1 DEF AnyTimer
<1>5. CASE timer.mmio_irq \/ \E c \in Channels : timer.channel[c].irq_pending
  <2>1. n = 0
    BY <1>5 DEF StepsUntilIrq
  <2>2. HighAfter(0)
    <3>1. (now + 0) * CyclesPerStep = now * CyclesPerStep /\ now * CyclesPerStep \in 0 .. Modulus - 1
      BY <1>1, <1>2, CyclesFit DEF Cycles
    <3>2. at(0) = now * CyclesPerStep
      BY <1>2, <3>1, RemainderOfSmall
    <3>3. timer.counter <= now * CyclesPerStep /\ timer.counter \in Int
      <4>1. timer.anchor <= now /\ timer.anchor \in Nat /\ timer.counter = timer.anchor * CyclesPerStep
        BY <1>1 DEF TimerInv, InTime, AnyTimer
      <4> QED
        BY <1>1, <1>2, <4>1
    <3>4. \A c \in Channels : timer.channel[c].irq_pending => Level(timer.channel[c], at(0))
      <4> HIDE DEF at
      <4> SUFFICES ASSUME NEW c \in Channels, timer.channel[c].irq_pending
                   PROVE  Level(timer.channel[c], at(0))
        OBVIOUS
      <4>1. Level(timer.channel[c], timer.counter)
        BY <1>1 DEF LinesTrue
      <4>2. timer.channel[c].cval \in Int /\ at(0) \in Int
        BY <1>3, <3>1, <3>2 DEF Cycles
      <4> QED
        BY <3>2, <3>3, <4>1, <4>2 DEF Level
    <3> QED
      BY <1>5, <3>4, HighAfterIs
  <2> HIDE DEF n
  <2>3. 0 .. n - 1 = {}
    BY <2>1
  <2> QED
    BY <2>1, <2>2, <2>3 DEF DeadlineIsExact, n
<1>6. CASE ~timer.mmio_irq /\ \A c \in Channels : ~timer.channel[c].irq_pending
  <2> DEFINE needs(target) == StepsNeeded(now * CyclesPerStep, target, NoDeadline)
  <2>1. /\ n \in Nat /\ n <= NoDeadline /\ NoDeadline \in Nat
        /\ timer.enabled /\ ~timer.fired => n <= needs(timer.compare)
        /\ \A c \in Channels : Armed(timer.channel[c]) => n <= needs(timer.channel[c].cval)
        /\ \/ n = NoDeadline
           \/ timer.enabled /\ ~timer.fired /\ n = needs(timer.compare)
           \/ \E c \in Channels : Armed(timer.channel[c]) /\ n = needs(timer.channel[c].cval)
    BY <1>1, <1>6, ForecastIs DEF TimerInv
  <2> HIDE DEF n
  <2>2. ASSUME NEW k \in 0 .. n - 1 PROVE ~HighAfter(k)
    <3>1. k \in Nat /\ k < n
      BY <2>1
    <3>2. ASSUME NEW target \in Cycles, n <= needs(target) PROVE ~(at(k) >= target)
      <4>1. k < needs(target)
        <5>1. needs(target) \in Int
          BY <1>1, <2>1, NeedsNatural
        <5> HIDE DEF needs
        <5> QED
          BY <2>1, <3>1, <3>2, <5>1
      <4>2. (now + k) * CyclesPerStep < target
        BY <1>1, <2>1, <3>1, <4>1, NotBeforeForecast
      <4>3. (now + k) * CyclesPerStep \in 0 .. Modulus - 1
        <5>1. (now + k) * CyclesPerStep \in Nat
          BY <1>1, <1>2, <3>1
        <5> QED
          BY <1>2, <4>2, <5>1 DEF Cycles
      <4>4. at(k) = (now + k) * CyclesPerStep
        BY <1>2, <4>3, RemainderOfSmall
      <4> HIDE DEF at
      <4> QED
        BY <1>2, <4>2, <4>3, <4>4 DEF Cycles
    <3>3. ~(timer.enabled /\ ~timer.fired /\ at(k) >= timer.compare)
      BY <1>3, <2>1, <3>2
    <3>4. \A c \in Channels : ~Level(timer.channel[c], at(k))
      BY <1>3, <2>1, <3>2 DEF Level, Armed
    <3> QED
      BY <1>6, <3>1, <3>3, <3>4, HighAfterIs
  <2>3. ASSUME n < NoDeadline, Fits(timer.compare), \A k \in Channels : Fits(timer.channel[k].cval)
        PROVE  HighAfter(n)
    <3>1. ASSUME NEW target \in Cycles, Fits(target), n = needs(target) PROVE at(n) >= target
      <4>1. needs(target) # NoDeadline
        BY <2>1, <2>3, <3>1
      <4>2. (now + n) * CyclesPerStep \in 0 .. Modulus - 1 /\ (now + n) * CyclesPerStep >= target
        BY <1>1, <2>1, <3>1, <4>1, ReachedAtForecast
      <4>3. at(n) = (now + n) * CyclesPerStep
        BY <1>2, <4>2, RemainderOfSmall
      <4> QED
        BY <4>2, <4>3
    <3>2. n # NoDeadline
      BY <2>1, <2>3
    <3>3. \/ timer.enabled /\ ~timer.fired /\ at(n) >= timer.compare
          \/ \E c \in Channels : Level(timer.channel[c], at(n))
      BY <1>3, <2>1, <2>3, <3>1, <3>2 DEF Level, Armed
    <3> QED
      BY <2>1, <3>3, HighAfterIs
  <2> QED
    BY <2>2, <2>3 DEF DeadlineIsExact, n
<1> QED
  BY <1>4, <1>5, <1>6

(* The forecast is never late, and exact where the counter passes the      *)
(* compare values before it wraps, for any number of CPUs and cycles per   *)
(* step (steps_until_irq, SoC::run fast_forward_to_next_guest_event).      *)
THEOREM DeadlineCorrect == TimerSpec => [](TimerTypeOK /\ DeadlineIsExact)
<1>1. TimerInit => TimerInv
  BY TimerInitial
<1>2. TimerInv /\ [TimerNext]_<<timer, now>> => TimerInv'
  BY TimerStep
<1>3. TimerInv => TimerTypeOK
  BY TimerAssumption DEF TimerInv, InTime, AnyTimer, TimerTypeOK, Timer
<1>4. TimerInv => DeadlineIsExact
  BY DeadlineExact
<1> QED
  BY <1>1, <1>2, <1>3, <1>4, PTL DEF TimerSpec

-----------------------------------------------------------------------------
(* The forecast one step later.                                            *)

(* For a target within the bound on time the rounding does not overflow:   *)
(* after n steps, and not before, the counter is at or just past it.       *)
LEMMA NeedsIs ==
  ASSUME NEW s \in 0 .. MaxTick, NEW target \in Cycles, target <= MaxTick, NEW max,
         CyclesPerStep # 0, s * CyclesPerStep < target
  PROVE  LET n == StepsNeeded(s * CyclesPerStep, target, max)
         IN  /\ n \in Nat \ {0} /\ s + n <= target
             /\ target <= (s + n) * CyclesPerStep
             /\ (s + n) * CyclesPerStep < target + CyclesPerStep
<1> DEFINE c == s * CyclesPerStep
           x == target - c + CyclesPerStep - 1
           n == x \div CyclesPerStep
<1>1. CyclesPerStep \in Nat \ {0} /\ target \in Nat /\ c \in Nat /\ s \in Nat /\ MaxTick \in Nat /\ Modulus \in Nat
      /\ MaxTick * CyclesPerStep < Modulus /\ c < target
  <2>1. CyclesPerStep \in Nat \ {0} /\ s \in Nat
    BY TimerAssumption
  <2> QED
    BY <2>1, TimerAssumption DEF Cycles
<1>2. x \in Nat /\ x < Modulus
  <2>1. MaxTick >= 1
    BY <1>1
  <2>2. (MaxTick - 1) * (CyclesPerStep - 1) >= 0
    BY <1>1, <2>1
  <2>3. MaxTick * CyclesPerStep - MaxTick - CyclesPerStep + 1 >= 0
    BY <1>1, <2>2
  <2>4. MaxTick * CyclesPerStep \in Nat
    BY <1>1
  <2> HIDE DEF c
  <2> QED
    BY <1>1, <2>3, <2>4
<1>3. StepsNeeded(c, target, max) = n
  <2>1. x % Modulus = x
    <3> HIDE DEF x
    <3> QED
      BY <1>1, <1>2, RemainderOfSmall
  <2> QED
    BY <1>1, <2>1 DEF StepsNeeded
<1>4. n \in Nat /\ CyclesPerStep * n <= x /\ x < CyclesPerStep * n + CyclesPerStep /\ CyclesPerStep * n \in Nat
  <2> HIDE DEF x
  <2>1. x = CyclesPerStep * (x \div CyclesPerStep) + (x % CyclesPerStep)
        /\ x \div CyclesPerStep \in Nat /\ x % CyclesPerStep \in 0 .. CyclesPerStep - 1
    BY <1>1, <1>2, Division
  <2>2. CyclesPerStep * (x \div CyclesPerStep) \in Nat
    BY <1>1, <2>1
  <2> QED
    BY <1>1, <1>2, <2>1, <2>2
<1>5. (s + n) * CyclesPerStep = c + CyclesPerStep * n
  <2> HIDE DEF n
  <2> QED
    BY <1>1, <1>4
<1>6. target <= c + CyclesPerStep * n /\ c + CyclesPerStep * n < target + CyclesPerStep
  <2> HIDE DEF n, c
  <2> QED
    BY <1>1, <1>4
<1>7. n # 0
  <2> HIDE DEF n, c
  <2> SUFFICES ASSUME n = 0 PROVE FALSE
    OBVIOUS
  <2>1. CyclesPerStep * n = 0
    BY <1>1
  <2> QED
    BY <1>1, <1>6, <2>1
<1>8. s + n <= target
  <2> HIDE DEF n
  <2> SUFFICES ASSUME s + n >= target + 1 PROVE FALSE
    BY <1>1, <1>4
  <2>1. (s + n) * CyclesPerStep >= (target + 1) * CyclesPerStep
    BY <1>1, <1>4
  <2>2. (target + 1) * CyclesPerStep = target * CyclesPerStep + CyclesPerStep /\ target * CyclesPerStep >= target
    BY <1>1
  <2> HIDE DEF c
  <2>3. CyclesPerStep * n \in Nat /\ (s + n) * CyclesPerStep \in Nat /\ (target + 1) * CyclesPerStep \in Nat
        /\ target * CyclesPerStep \in Nat
    BY <1>1, <1>4
  <2> QED
    BY <1>1, <1>5, <1>6, <2>1, <2>2, <2>3
<1> HIDE DEF n
<1> QED
  BY <1>3, <1>4, <1>5, <1>6, <1>7, <1>8

(* A step later it takes one step fewer.                                   *)
LEMMA NeedsNext ==
  ASSUME NEW s \in Nat, s + 1 <= MaxTick, NEW target \in Cycles, target <= MaxTick, NEW max,
         CyclesPerStep # 0, s * CyclesPerStep < target
  PROVE  StepsNeeded((s + 1) * CyclesPerStep, target, max) = StepsNeeded(s * CyclesPerStep, target, max) - 1
<1> DEFINE n == StepsNeeded(s * CyclesPerStep, target, max)
           k == StepsNeeded((s + 1) * CyclesPerStep, target, max)
<1>1. CyclesPerStep \in Nat \ {0} /\ target \in Nat /\ MaxTick \in Nat /\ s \in 0 .. MaxTick /\ s + 1 \in 0 .. MaxTick
  BY TimerAssumption DEF Cycles
<1>2. n \in Nat \ {0} /\ target <= (s + n) * CyclesPerStep /\ (s + n) * CyclesPerStep < target + CyclesPerStep
  BY <1>1, NeedsIs
<1>3. CASE (s + 1) * CyclesPerStep >= target
  <2>1. k = 0
    BY <1>3 DEF StepsNeeded
  <2>2. ~(n >= 2)
    <3> HIDE DEF n
    <3> SUFFICES ASSUME n >= 2 PROVE FALSE
      OBVIOUS
    <3>1. (s + n) * CyclesPerStep >= (s + 2) * CyclesPerStep
      BY <1>1, <1>2
    <3>2. (s + 2) * CyclesPerStep = (s + 1) * CyclesPerStep + CyclesPerStep
      BY <1>1
    <3>3. (s + 1) * CyclesPerStep \in Nat /\ (s + n) * CyclesPerStep \in Nat
      BY <1>1, <1>2
    <3> QED
      BY <1>1, <1>2, <1>3, <3>1, <3>2, <3>3
  <2> HIDE DEF n, k
  <2> QED
    BY <1>2, <2>1, <2>2 DEF n, k
<1>4. CASE (s + 1) * CyclesPerStep < target
  <2>1. k \in Nat \ {0} /\ target <= (s + 1 + k) * CyclesPerStep /\ (s + 1 + k) * CyclesPerStep < target + CyclesPerStep
    BY <1>1, <1>4, NeedsIs
  <2> HIDE DEF n, k
  <2>2. ~(k + 1 >= n + 1)
    <3> SUFFICES ASSUME k + 1 >= n + 1 PROVE FALSE
      OBVIOUS
    <3>1. (s + 1 + k) * CyclesPerStep >= (s + n + 1) * CyclesPerStep
      BY <1>1, <1>2, <2>1
    <3>2. (s + n + 1) * CyclesPerStep = (s + n) * CyclesPerStep + CyclesPerStep
      BY <1>1, <1>2
    <3>3. (s + 1 + k) * CyclesPerStep \in Nat /\ (s + n) * CyclesPerStep \in Nat
      BY <1>1, <1>2, <2>1
    <3> QED
      BY <1>1, <1>2, <2>1, <3>1, <3>2, <3>3
  <2>3. ~(n >= k + 2)
    <3> SUFFICES ASSUME n >= k + 2 PROVE FALSE
      OBVIOUS
    <3>1. (s + n) * CyclesPerStep >= (s + k + 2) * CyclesPerStep
      BY <1>1, <1>2, <2>1
    <3>2. (s + k + 2) * CyclesPerStep = (s + 1 + k) * CyclesPerStep + CyclesPerStep
      BY <1>1, <2>1
    <3>3. (s + 1 + k) * CyclesPerStep \in Nat /\ (s + n) * CyclesPerStep \in Nat
      BY <1>1, <1>2, <2>1
    <3> QED
      BY <1>1, <1>2, <2>1, <3>1, <3>2, <3>3
  <2> QED
    BY <1>2, <2>1, <2>2, <2>3 DEF n, k
<1>5. (s + 1) * CyclesPerStep \in Int
  BY <1>1
<1> QED
  BY <1>1, <1>3, <1>4, <1>5

(* No line is high, and none would be after a sync, while the forecast is  *)
(* not zero.                                                               *)
LEMMA NothingYet ==
  ASSUME NEW t, NEW s \in 0 .. MaxTick, InTime(t, s), StepsUntilIrq(t, s, NoDeadline) # 0
  PROVE  /\ ~t.mmio_irq /\ \A k \in Channels : ~t.channel[k].irq_pending
         /\ t.enabled /\ ~t.fired => s * CyclesPerStep < t.compare
         /\ \A k \in Channels : Armed(t.channel[k]) => s * CyclesPerStep < t.channel[k].cval
<1> DEFINE n == StepsUntilIrq(t, s, NoDeadline)
           c == s * CyclesPerStep
           needs(target) == StepsNeeded(c, target, NoDeadline)
<1>1. ~t.mmio_irq /\ \A k \in Channels : ~t.channel[k].irq_pending
  BY DEF StepsUntilIrq
<1>2. /\ n \in Nat
      /\ t.enabled /\ ~t.fired => n <= needs(t.compare)
      /\ \A k \in Channels : Armed(t.channel[k]) => n <= needs(t.channel[k].cval)
  BY <1>1, ForecastIs
<1>3. t.compare \in Int /\ c \in Int /\ \A k \in Channels : t.channel[k].cval \in Int
  <2>1. t.compare \in Cycles /\ c \in Cycles /\ \A k \in Channels : t.channel[k].cval \in Cycles
    BY CyclesFit DEF InTime, AnyTimer, Channel
  <2> QED
    BY <2>1, TimerAssumption DEF Cycles
<1>4. ASSUME NEW target \in Int, n <= needs(target) PROVE c < target
  <2>1. ~(c >= target)
    <3> SUFFICES ASSUME c >= target PROVE FALSE
      OBVIOUS
    <3>1. needs(target) = 0
      BY DEF StepsNeeded
    <3> HIDE DEF needs, n
    <3>2. n = 0
      BY <1>2, <1>4, <3>1
    <3> QED
      BY <3>2 DEF n
  <2> HIDE DEF c
  <2> QED
    BY <1>3, <2>1
<1> HIDE DEF needs, n, c
<1>5. t.enabled /\ ~t.fired => c < t.compare
  BY <1>2, <1>3, <1>4
<1>6. \A k \in Channels : Armed(t.channel[k]) => c < t.channel[k].cval
  BY <1>2, <1>3, <1>4
<1> QED
  BY <1>1, <1>5, <1>6 DEF c

(* Every compare value lies within the bound on time.                      *)
InBound(t) == t.compare <= MaxTick /\ \A k \in Channels : t.channel[k].cval <= MaxTick

(* Guest time that moves to the forecast stays within the compare values.  *)
LEMMA ForecastBound ==
  ASSUME NEW t, NEW s \in 0 .. MaxTick, InTime(t, s), InBound(t),
         StepsUntilIrq(t, s, NoDeadline) \notin {0, NoDeadline}
  PROVE  \/ s + StepsUntilIrq(t, s, NoDeadline) <= t.compare
         \/ \E k \in Channels : s + StepsUntilIrq(t, s, NoDeadline) <= t.channel[k].cval
<1> DEFINE n == StepsUntilIrq(t, s, NoDeadline)
           c == s * CyclesPerStep
           needs(target) == StepsNeeded(c, target, NoDeadline)
<1>1. /\ ~t.mmio_irq /\ \A k \in Channels : ~t.channel[k].irq_pending
      /\ t.enabled /\ ~t.fired => c < t.compare
      /\ \A k \in Channels : Armed(t.channel[k]) => c < t.channel[k].cval
  BY NothingYet
<1>2. \/ t.enabled /\ ~t.fired /\ n = needs(t.compare)
      \/ \E k \in Channels : Armed(t.channel[k]) /\ n = needs(t.channel[k].cval)
  BY <1>1, ForecastIs
<1>3. t.compare \in Cycles /\ \A k \in Channels : t.channel[k].cval \in Cycles
  BY DEF InTime, AnyTimer, Channel
<1>4. ASSUME NEW target \in Cycles, target <= MaxTick, c < target, n = needs(target)
      PROVE  s + n <= target
  <2>1. CyclesPerStep # 0
    <3> SUFFICES ASSUME CyclesPerStep = 0 PROVE FALSE
      OBVIOUS
    <3>1. ~(c >= target)
      BY <1>4, CyclesFit, TimerAssumption DEF Cycles
    <3>2. needs(target) = NoDeadline
      BY <3>1 DEF StepsNeeded
    <3> QED
      BY <1>4, <3>2
  <2> QED
    BY <1>4, <2>1, NeedsIs
<1> HIDE DEF needs, n, c
<1> QED
  BY <1>1, <1>2, <1>3, <1>4 DEF n, InBound

(* A step later the forecast is one step nearer, until it is due.          *)
LEMMA ForecastNext ==
  ASSUME NEW t, NEW s \in Nat, s + 1 <= MaxTick, InTime(t, s), InBound(t), MaxTick < NoDeadline,
         StepsUntilIrq(t, s, NoDeadline) # 0
  PROVE  StepsUntilIrq(t, s + 1, NoDeadline) =
           IF StepsUntilIrq(t, s, NoDeadline) = NoDeadline THEN NoDeadline
           ELSE StepsUntilIrq(t, s, NoDeadline) - 1
<1> DEFINE n == StepsUntilIrq(t, s, NoDeadline)
           k == StepsUntilIrq(t, s + 1, NoDeadline)
           needs(target) == StepsNeeded(s * CyclesPerStep, target, NoDeadline)
           later(target) == StepsNeeded((s + 1) * CyclesPerStep, target, NoDeadline)
<1>1. s \in 0 .. MaxTick /\ s + 1 \in 0 .. MaxTick /\ InTime(t, s + 1) /\ MaxTick \in Nat /\ CyclesPerStep \in Nat
  BY TimerAssumption DEF InTime, AnyTimer
<1>2. /\ ~t.mmio_irq /\ \A j \in Channels : ~t.channel[j].irq_pending
      /\ t.enabled /\ ~t.fired => s * CyclesPerStep < t.compare
      /\ \A j \in Channels : Armed(t.channel[j]) => s * CyclesPerStep < t.channel[j].cval
  BY <1>1, NothingYet
<1>3. t.compare \in Cycles /\ \A j \in Channels : t.channel[j].cval \in Cycles
  BY DEF InTime, AnyTimer, Channel
<1>4. CASE CyclesPerStep = 0
  <2>1. k = n
    <3>1. CounterAt(t, s) = s * CyclesPerStep /\ CounterAt(t, s + 1) = (s + 1) * CyclesPerStep
      BY <1>1, CounterInTime
    <3>2. (s + 1) * CyclesPerStep = s * CyclesPerStep
      BY <1>1, <1>4
    <3> QED
      BY <3>1, <3>2 DEF StepsUntilIrq
  <2>2. n = NoDeadline
    <3> SUFFICES ASSUME n # NoDeadline PROVE FALSE
      OBVIOUS
    <3>1. s * CyclesPerStep = 0 /\ \A target \in Cycles : s * CyclesPerStep < target => needs(target) = NoDeadline
      BY <1>1, <1>4, TimerAssumption DEF StepsNeeded, Cycles
    <3>2. \/ t.enabled /\ ~t.fired /\ n = needs(t.compare)
          \/ \E j \in Channels : Armed(t.channel[j]) /\ n = needs(t.channel[j].cval)
      BY <1>1, <1>2, ForecastIs
    <3> HIDE DEF needs, n
    <3> QED
      BY <1>2, <1>3, <3>1, <3>2
  <2> QED
    BY <2>1, <2>2
<1>5. CASE CyclesPerStep # 0
  <2>1. ASSUME NEW target \in Cycles, target <= MaxTick, s * CyclesPerStep < target
        PROVE  /\ needs(target) \in Nat \ {0} /\ needs(target) <= MaxTick
               /\ later(target) = needs(target) - 1
    <3>1. needs(target) \in Nat \ {0} /\ s + needs(target) <= target
      BY <1>1, <1>5, <2>1, NeedsIs
    <3>2. later(target) = needs(target) - 1
      BY <1>5, <2>1, NeedsNext
    <3>3. target \in Nat
      BY TimerAssumption DEF Cycles
    <3> HIDE DEF needs, later
    <3> QED
      BY <1>1, <2>1, <3>1, <3>2, <3>3
  <2>2. /\ n \in Nat /\ n <= NoDeadline /\ NoDeadline \in Nat
        /\ t.enabled /\ ~t.fired => n <= needs(t.compare)
        /\ \A j \in Channels : Armed(t.channel[j]) => n <= needs(t.channel[j].cval)
        /\ \/ n = NoDeadline
           \/ t.enabled /\ ~t.fired /\ n = needs(t.compare)
           \/ \E j \in Channels : Armed(t.channel[j]) /\ n = needs(t.channel[j].cval)
    BY <1>1, <1>2, ForecastIs
  <2>3. /\ k \in Nat /\ k <= NoDeadline
        /\ t.enabled /\ ~t.fired => k <= later(t.compare)
        /\ \A j \in Channels : Armed(t.channel[j]) => k <= later(t.channel[j].cval)
        /\ \/ k = NoDeadline
           \/ t.enabled /\ ~t.fired /\ k = later(t.compare)
           \/ \E j \in Channels : Armed(t.channel[j]) /\ k = later(t.channel[j].cval)
    BY <1>1, <1>2, ForecastIs
  <2>4. /\ t.enabled /\ ~t.fired => /\ needs(t.compare) \in Nat \ {0} /\ needs(t.compare) <= MaxTick
                                    /\ later(t.compare) = needs(t.compare) - 1
        /\ \A j \in Channels : Armed(t.channel[j]) =>
              /\ needs(t.channel[j].cval) \in Nat \ {0} /\ needs(t.channel[j].cval) <= MaxTick
              /\ later(t.channel[j].cval) = needs(t.channel[j].cval) - 1
    BY <1>2, <1>3, <2>1 DEF InBound
  <2> HIDE DEF needs, later, n, k
  <2>5. CASE n = NoDeadline
    <3>1. ~(t.enabled /\ ~t.fired) /\ \A j \in Channels : ~Armed(t.channel[j])
      BY <1>1, <2>2, <2>4, <2>5
    <3> QED
      BY <2>3, <2>5, <3>1 DEF n, k
  <2>6. CASE n # NoDeadline
    <3>1. k <= n - 1 /\ n <= MaxTick
      BY <1>1, <2>2, <2>3, <2>4, <2>6
    <3>2. k # NoDeadline
      BY <1>1, <2>2, <2>3, <3>1
    <3>3. k >= n - 1
      BY <1>1, <2>2, <2>3, <2>4, <3>2
    <3>4. k = n - 1
      BY <2>2, <2>3, <3>1, <3>3
    <3> QED
      BY <2>6, <3>4 DEF n, k
  <2> QED
    BY <2>5, <2>6
<1> QED
  BY <1>4, <1>5

-----------------------------------------------------------------------------
(* What a sync leaves alone, and that a second one finds nothing to do.    *)

SameSettings(t, u) ==
  /\ u.compare = t.compare /\ u.enabled = t.enabled
  /\ \A k \in Channels : /\ u.channel[k].cval = t.channel[k].cval
                         /\ u.channel[k].enable = t.channel[k].enable
                         /\ u.channel[k].imask = t.channel[k].imask

LEMMA UpdateSettings ==
  ASSUME NEW t \in AnyTimer
  PROVE  SameSettings(t, UpdateIrqState(t)) /\ (UpdateIrqState(t).fired <=> t.fired \/ Fires(t))
<1> DEFINE level(c) == c.enable /\ ~c.imask /\ t.counter >= c.cval
           chans == [k \in Channels |-> [t.channel[k] EXCEPT !.irq_pending = level(t.channel[k])]]
           u == UpdateIrqState(t)
<1>1. u = [t EXCEPT !.mmio_irq = t.mmio_irq \/ Fires(t), !.fired = t.fired \/ Fires(t), !.channel = chans]
  BY DEF UpdateIrqState, AnyTimer, Fires
<1>2. ASSUME NEW k \in Channels
      PROVE  /\ chans[k].enable = t.channel[k].enable /\ chans[k].imask = t.channel[k].imask
             /\ chans[k].cval = t.channel[k].cval
  <2>1. t.channel[k] \in Channel
    BY DEF AnyTimer
  <2> QED
    BY <2>1 DEF Channel
<1> HIDE DEF chans, u
<1>3. u.compare = t.compare /\ u.enabled = t.enabled /\ u.channel = chans /\ (u.fired <=> t.fired \/ Fires(t))
  BY <1>1 DEF AnyTimer
<1> QED
  BY <1>2, <1>3 DEF SameSettings, u

LEMMA SyncLines ==
  ASSUME NEW t, NEW s \in 0 .. MaxTick, InTime(t, s)
  PROVE  LET u == SyncToSteps(t, s)
             c == s * CyclesPerStep
         IN  /\ SameSettings(t, u)
             /\ u.mmio_irq <=> t.mmio_irq \/ (t.enabled /\ ~t.fired /\ c >= t.compare)
             /\ t.fired => u.fired
             /\ u.mmio_irq => t.mmio_irq \/ u.fired
             /\ \A k \in Channels : u.channel[k].irq_pending <=> Level(t.channel[k], c)
<1> DEFINE c == s * CyclesPerStep
           moved == [t EXCEPT !.counter = CounterAt(t, s), !.anchor = s]
<1>1. CounterAt(t, s) = c /\ c \in Cycles /\ s \in Nat
  BY CounterInTime, CyclesFit, TimerAssumption
<1>2. /\ moved \in AnyTimer /\ moved.counter = c /\ SameSettings(t, moved) /\ moved.channel = t.channel
      /\ moved.mmio_irq = t.mmio_irq /\ moved.fired = t.fired /\ t.mmio_irq \in BOOLEAN
  <2> HIDE DEF c
  <2> QED
    BY <1>1 DEF InTime, AnyTimer, SameSettings
<1>3. SyncToSteps(t, s) = UpdateIrqState(moved)
  BY DEF SyncToSteps
<1> HIDE DEF moved, c
<1>4. Fires(moved) <=> t.enabled /\ ~t.mmio_irq /\ ~t.fired /\ c >= t.compare
  BY <1>2 DEF Fires, SameSettings
<1>5. SameSettings(t, SyncToSteps(t, s))
  BY <1>2, <1>3, UpdateSettings DEF SameSettings
<1> QED
  BY <1>2, <1>3, <1>4, <1>5, UpdateSettings, UpdateSettles DEF c

LEMMA SyncTwice ==
  ASSUME NEW t, NEW s \in 0 .. MaxTick, InTime(t, s)
  PROVE  LET u == SyncToSteps(t, s)
             v == SyncToSteps(u, s)
         IN  /\ v.mmio_irq <=> u.mmio_irq
             /\ \A k \in Channels : v.channel[k].irq_pending <=> u.channel[k].irq_pending
<1> DEFINE u == SyncToSteps(t, s)
           v == SyncToSteps(u, s)
           c == s * CyclesPerStep
<1>1. InTime(u, s)
  BY SyncInTime
<1>2. /\ SameSettings(t, u)
      /\ u.mmio_irq <=> t.mmio_irq \/ (t.enabled /\ ~t.fired /\ c >= t.compare)
      /\ t.fired => u.fired
      /\ \A k \in Channels : u.channel[k].irq_pending <=> Level(t.channel[k], c)
  BY SyncLines
<1> HIDE DEF u
<1>3. /\ v.mmio_irq <=> u.mmio_irq \/ (u.enabled /\ ~u.fired /\ c >= u.compare)
      /\ \A k \in Channels : v.channel[k].irq_pending <=> Level(u.channel[k], c)
  BY <1>1, SyncLines
<1> HIDE DEF v, c
<1> QED
  BY <1>2, <1>3 DEF SameSettings, Level, u, v
=============================================================================
