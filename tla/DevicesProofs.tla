---------------------------- MODULE DevicesProofs ----------------------------
(***************************************************************************)
(* The small components, each proved right for every size of its queues,   *)
(* registers and memory: the measuring mailbox, the block device, the      *)
(* clock, the keyboard port, the console, and the CPU's software step.     *)
(***************************************************************************)
EXTENDS TimerProofs, UartPl011, PerfMailbox, BlockMmio, RtcPl031, Pl050Kmi, SoftwareStep

-----------------------------------------------------------------------------
(* The measuring mailbox.                                                  *)

Counters == [steps : Int, events : Int]

PerfTypeOK ==
  /\ counters \in Counters /\ measured \in Counters
  /\ session \in [active : BOOLEAN, accumulated : Counters, start : Counters]

(* What the session would report is what was done since it began; outside  *)
(* a session nothing is measured.                                          *)
PerfInv == PerfTypeOK /\ PerfMeasuresSession

LEMMA PerfInitial == PerfInit => PerfInv
  BY DEF PerfInit, PerfInv, PerfTypeOK, Counters, PerfMeasuresSession, PerfResult, NoSession, Zero

LEMMA PerfStep == PerfInv /\ [PerfNext]_perf_vars => PerfInv'
<1> SUFFICES ASSUME PerfInv, [PerfNext]_perf_vars PROVE PerfInv'
  OBVIOUS
<1> USE DEF PerfInv, PerfTypeOK, Counters, PerfMeasuresSession, PerfResult, Plus, Minus, Zero, NoSession
<1>1. CASE PerfBegin
  BY <1>1 DEF PerfBegin
<1>2. CASE PerfEnd
  <2>1. session' = [active |-> FALSE, accumulated |-> session.accumulated, start |-> session.start]
    BY <1>2 DEF PerfEnd
  <2>2. counters' = counters /\ measured' = Zero
    BY <1>2 DEF PerfEnd
  <2> QED
    BY <2>1, <2>2
<1>3. CASE OtherCommand
  BY <1>3 DEF OtherCommand
<1>4. CASE Count
  <2>1. PICK what \in {"steps", "events"} :
          /\ counters' = [counters EXCEPT ![what] = @ + 1]
          /\ measured' = IF session.active THEN [measured EXCEPT ![what] = @ + 1] ELSE measured
          /\ session' = session
    BY <1>4 DEF Count
  <2>2. CASE what = "steps"
    <3>1. counters' = [steps |-> counters.steps + 1, events |-> counters.events]
      BY <2>1, <2>2
    <3>2. CASE session.active
      <4>1. measured' = [steps |-> measured.steps + 1, events |-> measured.events]
        BY <2>1, <2>2, <3>2
      <4>2. /\ measured.steps = session.accumulated.steps + (counters.steps - session.start.steps)
            /\ measured.events = session.accumulated.events + (counters.events - session.start.events)
        BY <3>2
      <4>3. PerfTypeOK'
        BY <2>1, <3>1, <4>1
      <4>4. measured' = Plus(session.accumulated, Minus(counters', session.start))
        BY <3>1, <4>1, <4>2
      <4> QED
        BY <2>1, <3>2, <4>3, <4>4
    <3>3. CASE ~session.active
      <4>1. measured' = measured
        BY <2>1, <3>3
      <4> QED
        BY <2>1, <3>1, <3>3, <4>1
    <3> QED
      BY <3>2, <3>3
  <2>3. CASE what = "events"
    <3>1. counters' = [steps |-> counters.steps, events |-> counters.events + 1]
      BY <2>1, <2>3
    <3>2. CASE session.active
      <4>1. measured' = [steps |-> measured.steps, events |-> measured.events + 1]
        BY <2>1, <2>3, <3>2
      <4>2. /\ measured.steps = session.accumulated.steps + (counters.steps - session.start.steps)
            /\ measured.events = session.accumulated.events + (counters.events - session.start.events)
        BY <3>2
      <4>3. PerfTypeOK'
        BY <2>1, <3>1, <4>1
      <4>4. measured' = Plus(session.accumulated, Minus(counters', session.start))
        BY <3>1, <4>1, <4>2
      <4> QED
        BY <2>1, <3>2, <4>3, <4>4
    <3>3. CASE ~session.active
      <4>1. measured' = measured
        BY <2>1, <3>3
      <4> QED
        BY <2>1, <3>1, <3>3, <4>1
    <3> QED
      BY <3>2, <3>3
  <2> QED
    BY <2>1, <2>2, <2>3
<1>5. CASE SaveAndLoadPerf
  <2>1. counters' = [steps |-> counters.steps, events |-> 0] /\ measured' = measured
    BY <1>5 DEF SaveAndLoadPerf
  <2>2. CASE session.active
    <3>1. session' = [active |-> TRUE, start |-> counters',
                      accumulated |-> Plus(session.accumulated, Minus(counters, session.start))]
      BY <1>5, <2>2 DEF SaveAndLoadPerf
    <3> QED
      BY <2>1, <2>2, <3>1
  <2>3. CASE ~session.active
    BY <1>5, <2>1, <2>3 DEF SaveAndLoadPerf
  <2> QED
    BY <2>2, <2>3
<1>6. CASE ResetPerf
  BY <1>6 DEF ResetPerf
<1>7. CASE UNCHANGED perf_vars
  BY <1>7 DEF perf_vars
<1>8. WriteCtrl => PerfBegin \/ PerfEnd \/ OtherCommand
  BY DEF WriteCtrl
<1> QED
  BY <1>1, <1>2, <1>3, <1>4, <1>5, <1>6, <1>7, <1>8 DEF PerfNext

(* A measurement reports exactly what the machine did between its begin    *)
(* and its end, however often it was saved and loaded in between, for      *)
(* every bound on the counters (perf_end, load_snapshot).                  *)
THEOREM PerfMeasures == PerfSpec => []PerfMeasuresSession
<1>1. PerfInit => PerfInv
  BY PerfInitial
<1>2. PerfInv /\ [PerfNext]_perf_vars => PerfInv'
  BY PerfStep
<1>3. PerfInv => PerfMeasuresSession
  BY DEF PerfInv
<1> QED
  BY <1>1, <1>2, <1>3, PTL DEF PerfSpec

-----------------------------------------------------------------------------
(* The block device.                                                       *)

BlockTypeOK ==
  /\ block.addr \in Nat /\ block.lba \in Nat /\ block.count \in Nat
  /\ block = [image |-> block.image, addr |-> block.addr, lba |-> block.lba,
              count |-> block.count, status |-> block.status]
  /\ block.image = [i \in ImageCells |-> block.image[i]]
  /\ block_ram = [c \in BufferRam |-> block_ram[c]]

LEMMA BlockInitial == BlockInit => BlockTypeOK
<1> SUFFICES ASSUME BlockInit PROVE BlockTypeOK
  OBVIOUS
<1>1. block = [image |-> [i \in ImageCells |-> i % 2], addr |-> 0, lba |-> 0, count |-> 0,
               status |-> "Ok"]
  BY DEF BlockInit, ResetBlockRegisters
<1>2. block_ram = [c \in BufferRam |-> 0]
  BY DEF BlockInit
<1> QED
  BY <1>1, <1>2 DEF BlockTypeOK

LEMMA BlockStep == BlockTypeOK /\ [BlockNext]_block_vars => BlockTypeOK'
<1> SUFFICES ASSUME BlockTypeOK, [BlockNext]_block_vars PROVE BlockTypeOK'
  OBVIOUS
<1> USE DEF BlockTypeOK
<1>1. CASE ReadBlocks
  BY <1>1 DEF ReadBlocks
<1>2. CASE WriteBlocks
  BY <1>2 DEF WriteBlocks
<1>3. CASE BadCommand
  BY <1>3 DEF BadCommand
<1>4. CASE WriteBlockRegister
  BY <1>4, BlockAssumption DEF WriteBlockRegister
<1>5. CASE GuestStores
  BY <1>5 DEF GuestStores
<1>6. CASE UNCHANGED block_vars
  BY <1>6 DEF block_vars
<1> QED
  BY <1>1, <1>2, <1>3, <1>4, <1>5, <1>6 DEF BlockNext

(* A range that the device accepts is a range of the image.                *)
LEMMA AcceptedInImage ==
  ASSUME NEW lba \in Nat, NEW count \in Nat, count <= ImageBlocks - lba
  PROVE  lba * BlockUnits + count * BlockUnits <= Padded(ImageBlocks * BlockUnits)
<1>1. ImageBlocks \in Nat /\ BlockUnits \in Nat \ {0}
  BY BlockAssumption
<1>2. lba * BlockUnits + count * BlockUnits = (lba + count) * BlockUnits
  BY <1>1
<1>3. (lba + count) * BlockUnits <= ImageBlocks * BlockUnits
  BY <1>1
<1>4. \A x \in Nat : x <= Padded(x)
  <2> SUFFICES ASSUME NEW x \in Nat PROVE x <= ((x + BlockUnits - 1) \div BlockUnits) * BlockUnits
    BY DEF Padded
  <2> QED
    BY <1>1
<1>5. ImageBlocks * BlockUnits \in Nat
  BY <1>1
<1> QED
  BY <1>1, <1>2, <1>3, <1>4, <1>5 DEF Padded

(* What a command does, from a well-formed device.                         *)
LEMMA CommandAllOrNothing ==
  ASSUME BlockTypeOK, Command
  PROVE  IF block'.status = "Ok"
         THEN InBufferRam(block.addr, Cells(block)) /\ Holds(block', block_ram')
         ELSE block_ram' = block_ram /\ block'.image = block.image
<1> DEFINE cells == Cells(block)
           off == StartUnit(block)
<1>1. BlockUnits \in Nat \ {0} /\ ImageBlocks \in Nat /\ BufferRam \subseteq Nat
  BY BlockAssumption
<1>2. cells \in Nat /\ off \in Nat
  BY <1>1 DEF BlockTypeOK, Cells, StartUnit
<1>3. /\ block'.status = TransferStatus(block) /\ block'.addr = block.addr
      /\ Cells(block') = cells /\ StartUnit(block') = off
  BY DEF Command, ReadBlocks, WriteBlocks, BlockTypeOK, Cells, StartUnit
<1>4. CASE TransferStatus(block) # "Ok"
  <2>1. CASE ReadBlocks
    <3>1. block_ram' = [c \in BufferRam |-> block_ram[c]]
      BY <1>4, <2>1 DEF ReadBlocks
    <3>2. block'.image = block.image
      BY <2>1 DEF ReadBlocks, BlockTypeOK
    <3> QED
      BY <1>3, <1>4, <3>1, <3>2 DEF BlockTypeOK
  <2>2. CASE WriteBlocks
    <3>1. block'.image = [i \in ImageCells |-> block.image[i]]
      BY <1>4, <2>2 DEF WriteBlocks, BlockTypeOK
    <3> QED
      BY <1>3, <1>4, <2>2, <3>1 DEF BlockTypeOK, WriteBlocks
  <2> QED
    BY <2>1, <2>2 DEF Command
<1>5. CASE TransferStatus(block) = "Ok"
  <2>1. InBufferRam(block.addr, cells) /\ block.count <= ImageBlocks - block.lba
    BY <1>1, <1>5 DEF TransferStatus, RangeStatus, NumBlocks, BlockTypeOK
  <2>2. off + cells <= Padded(ImageBlocks * BlockUnits)
    BY <2>1, AcceptedInImage DEF BlockTypeOK, Cells, StartUnit
  <2>3. Padded(ImageBlocks * BlockUnits) \in Int
    BY <1>1 DEF Padded
  <2>4. \A i \in 0 .. cells - 1 : block.addr + i \in BufferRam /\ off + i \in ImageCells
    <3> HIDE DEF cells, off
    <3>1. \A i \in 0 .. cells - 1 : off + i \in ImageCells
      BY <1>2, <2>2, <2>3 DEF ImageCells
    <3>2. \A i \in 0 .. cells - 1 : block.addr + i \in BufferRam
      BY <1>1, <1>2, <2>1, BlockAssumption DEF InBufferRam, BlockTypeOK
    <3> QED
      BY <3>1, <3>2
  <2>5. \A i \in 0 .. cells - 1 : block_ram'[block.addr + i] = block'.image[off + i]
    <3> SUFFICES ASSUME NEW i \in 0 .. cells - 1 PROVE block_ram'[block.addr + i] = block'.image[off + i]
      OBVIOUS
    <3> HIDE DEF cells, off
    <3>1. /\ block.addr + i \in block.addr .. block.addr + cells - 1
          /\ off + i \in off .. off + cells - 1
          /\ off + (block.addr + i) - block.addr = off + i
          /\ block.addr + (off + i) - off = block.addr + i
      BY <1>2 DEF BlockTypeOK
    <3>2. CASE ReadBlocks
      <4>1. block_ram'[block.addr + i] = block.image[off + (block.addr + i) - block.addr]
        BY <1>5, <2>4, <3>1, <3>2 DEF ReadBlocks, cells, off
      <4>2. block'.image = block.image
        BY <3>2 DEF ReadBlocks, BlockTypeOK
      <4> QED
        BY <3>1, <4>1, <4>2
    <3>3. CASE WriteBlocks
      <4>1. block_ram[block.addr + (off + i) - off] = block'.image[off + i]
        BY <1>5, <2>4, <3>1, <3>3 DEF WriteBlocks, cells, off, BlockTypeOK
      <4>2. block_ram' = block_ram
        BY <3>3 DEF WriteBlocks
      <4> QED
        BY <3>1, <4>1, <4>2
    <3> QED
      BY <3>2, <3>3 DEF Command
  <2> QED
    BY <1>3, <1>5, <2>1, <2>5 DEF Holds
<1> QED
  BY <1>4, <1>5

(* A command of the block device is all or nothing, whatever its registers *)
(* hold, for every block size, image and place of RAM (execute_command,    *)
(* valid_transfer_range).                                                  *)
THEOREM BlockCommandsAtomic == BlockSpec => BlockAllOrNothing
<1>1. BlockInit => BlockTypeOK
  BY BlockInitial
<1>2. BlockTypeOK /\ [BlockNext]_block_vars => BlockTypeOK'
  BY BlockStep
<1>3. BlockTypeOK => [Command => IF block'.status = "Ok"
                THEN InBufferRam(block.addr, Cells(block)) /\ Holds(block', block_ram')
                ELSE block_ram' = block_ram /\ block'.image = block.image]_block_vars
  BY CommandAllOrNothing
<1> QED
  BY <1>1, <1>2, <1>3, PTL DEF BlockSpec, BlockAllOrNothing

-----------------------------------------------------------------------------
(* The clock.                                                              *)

RtcRecord == [offset : Int, match : 0 .. RtcModulus - 1, enabled : BOOLEAN,
              frozen : 0 .. RtcModulus - 1, raw_pending : BOOLEAN, alarm_armed : BOOLEAN]

RtcTypeOK == rtc \in RtcRecord /\ host_now \in Nat /\ rtc_due \in BOOLEAN

(* The clock reads as a register's value.                                  *)
LEMMA SecondsInRange ==
  ASSUME NEW r \in RtcRecord, NEW t \in Nat
  PROVE  CurrentSeconds(r, t) \in 0 .. RtcModulus - 1
<1>1. RtcModulus \in Nat \ {0}
  BY RtcAssumption
<1>2. r.offset \in Int /\ r.frozen \in 0 .. RtcModulus - 1
  BY DEF RtcRecord
<1>3. (t + r.offset) % RtcModulus \in 0 .. RtcModulus - 1
  BY <1>1, <1>2
<1> QED
  BY <1>2, <1>3 DEF CurrentSeconds

(* Looking at the alarm only changes the alarm, and finds it when due.     *)
LEMMA RefreshKeepsTime ==
  ASSUME NEW r \in RtcRecord, NEW t \in Nat
  PROVE  LET s == RefreshAlarm(r, t)
         IN  /\ s \in RtcRecord
             /\ s.offset = r.offset /\ s.enabled = r.enabled /\ s.frozen = r.frozen
             /\ s.raw_pending <=> r.raw_pending \/ Due(r, t)
             /\ s.raw_pending => RefreshAlarm(s, t).raw_pending
  BY DEF RefreshAlarm, RtcRecord

(* A clock that is stopped or started is a clock.                          *)
LEMMA SwitchedInRange ==
  ASSUME NEW r \in RtcRecord, NEW t \in Nat
  PROVE  \A enable \in BOOLEAN :
           (CASE r.enabled /\ ~enable -> [r EXCEPT !.frozen = CurrentSeconds(r, t), !.enabled = enable]
              [] ~r.enabled /\ enable -> [r EXCEPT !.offset = r.frozen - t, !.enabled = enable]
              [] OTHER -> r) \in RtcRecord
<1>1. RtcModulus \in Nat \ {0}
  BY RtcAssumption
<1>2. CurrentSeconds(r, t) \in 0 .. RtcModulus - 1
  BY SecondsInRange
<1>3. /\ [r EXCEPT !.frozen = CurrentSeconds(r, t), !.enabled = FALSE] \in RtcRecord
      /\ [r EXCEPT !.offset = r.frozen - t, !.enabled = TRUE] \in RtcRecord
  <2>1. r.frozen - t \in Int
    BY <1>1 DEF RtcRecord
  <2>2. \A o \in Int : [r EXCEPT !.offset = o, !.enabled = TRUE] \in RtcRecord
    BY DEF RtcRecord
  <2>3. \A f \in 0 .. RtcModulus - 1 : [r EXCEPT !.frozen = f, !.enabled = FALSE] \in RtcRecord
    BY DEF RtcRecord
  <2> QED
    BY <1>2, <2>1, <2>2, <2>3
<1>4. r.enabled \in BOOLEAN
  BY DEF RtcRecord
<1> QED
  BY <1>3, <1>4, Zenon

LEMMA WritesInRange ==
  ASSUME NEW r \in RtcRecord, NEW t \in Nat
  PROVE  /\ \A value \in RtcTimes : WriteMr(r, t, value) \in RtcRecord
         /\ \A value \in RtcTimes : WriteLr(r, t, value) \in RtcRecord
         /\ \A enable \in BOOLEAN : WriteRtcCr(r, t, enable) \in RtcRecord
         /\ WriteRtcIcr(r) \in RtcRecord
<1>1. RtcTimes \subseteq 0 .. RtcModulus - 1 /\ RtcModulus \in Nat \ {0}
  BY RtcAssumption
<1>2. \A value \in RtcTimes :
        [r EXCEPT !.match = value, !.raw_pending = FALSE, !.alarm_armed = TRUE] \in RtcRecord
  BY <1>1 DEF RtcRecord
<1>3. \A value \in RtcTimes :
        (IF r.enabled THEN [r EXCEPT !.offset = value - t] ELSE [r EXCEPT !.frozen = value]) \in RtcRecord
  BY <1>1 DEF RtcRecord
<1>4. CurrentSeconds(r, t) \in 0 .. RtcModulus - 1
  BY SecondsInRange
<1>5. \A enable \in BOOLEAN :
        (CASE r.enabled /\ ~enable -> [r EXCEPT !.frozen = CurrentSeconds(r, t), !.enabled = enable]
           [] ~r.enabled /\ enable -> [r EXCEPT !.offset = r.frozen - t, !.enabled = enable]
           [] OTHER -> r) \in RtcRecord
  BY SwitchedInRange
<1>6. WriteRtcIcr(r) \in RtcRecord
  BY DEF WriteRtcIcr, RtcRecord
<1> QED
  BY <1>2, <1>3, <1>5, <1>6, RefreshKeepsTime DEF WriteMr, WriteLr, WriteRtcCr

RtcInv == RtcTypeOK /\ RtcAlarmSeen

LEMMA RtcInitial == RtcInit => RtcInv
<1> SUFFICES ASSUME RtcInit PROVE RtcInv
  OBVIOUS
<1>1. RtcModulus \in Nat \ {0}
  BY RtcAssumption
<1>2. PowerOnRtc \in RtcRecord
  BY <1>1 DEF PowerOnRtc, RtcRecord
<1> QED
  BY <1>2 DEF RtcInit, RtcInv, RtcTypeOK, RtcAlarmSeen

LEMMA RtcStep == RtcInv /\ [RtcNext]_rtc_vars => RtcInv'
<1> SUFFICES ASSUME RtcInv, [RtcNext]_rtc_vars PROVE RtcInv'
  OBVIOUS
<1>1. rtc \in RtcRecord /\ host_now \in Nat /\ rtc_due \in BOOLEAN
  BY DEF RtcInv, RtcTypeOK
<1>2. rtc_due /\ rtc.enabled => rtc.raw_pending \/ Due(rtc, host_now)
  BY <1>1, RefreshKeepsTime DEF RtcInv, RtcAlarmSeen
<1>3. CASE RtcTick
  <2>1. /\ host_now' \in Nat /\ rtc' = rtc /\ rtc_due' \in BOOLEAN
        /\ rtc_due' => \/ Due(rtc, host_now')
                       \/ rtc_due /\ CurrentSeconds(rtc, host_now') >= CurrentSeconds(rtc, host_now)
    BY <1>1, <1>3 DEF RtcTick, Due
  <2>2. rtc.match \in Int /\ CurrentSeconds(rtc, host_now) \in Int /\ CurrentSeconds(rtc, host_now') \in Int
    BY <1>1, <2>1, SecondsInRange, RtcAssumption DEF RtcRecord
  <2>3. rtc_due' /\ rtc.enabled => rtc.raw_pending \/ Due(rtc, host_now')
    BY <1>2, <2>1, <2>2 DEF Due
  <2>4. RtcAlarmSeen'
    BY <1>1, <2>1, <2>3, RefreshKeepsTime DEF RtcAlarmSeen
  <2> QED
    BY <1>1, <2>1, <2>4 DEF RtcInv, RtcTypeOK
<1>4. CASE ReadRtc
  <2>1. rtc' = RefreshAlarm(rtc, host_now) /\ host_now' = host_now /\ rtc_due' = rtc_due
    BY <1>4 DEF ReadRtc
  <2>2. rtc' \in RtcRecord /\ (rtc_due' /\ rtc'.enabled => rtc'.raw_pending)
    BY <1>1, <1>2, <2>1, RefreshKeepsTime
  <2> QED
    BY <1>1, <2>1, <2>2, RefreshKeepsTime DEF RtcInv, RtcTypeOK, RtcAlarmSeen
<1>5. CASE WriteRtc
  <2>1. rtc' \in RtcRecord
    BY <1>1, <1>5, WritesInRange DEF WriteRtc
  <2>2. host_now' = host_now /\ rtc_due' = (Due(rtc', host_now) \/ rtc'.raw_pending)
    BY <1>5 DEF WriteRtc
  <2>3. rtc_due' \in BOOLEAN
    BY <2>2
  <2>4. RtcAlarmSeen'
    BY <1>1, <2>1, <2>2, RefreshKeepsTime DEF RtcAlarmSeen
  <2> QED
    BY <1>1, <2>1, <2>2, <2>3, <2>4 DEF RtcInv, RtcTypeOK
<1>6. CASE LoadRtc
  <2>1. PICK later \in host_now .. MaxHostTime :
          host_now' = later /\ rtc' = RefreshAlarm(rtc, later) /\ rtc_due' = rtc'.raw_pending
    BY <1>6 DEF LoadRtc
  <2>2. later \in Nat
    BY <1>1, RtcAssumption
  <2>3. rtc' \in RtcRecord /\ rtc_due' \in BOOLEAN
    <3>1. rtc' \in RtcRecord
      BY <1>1, <2>1, <2>2, RefreshKeepsTime
    <3> QED
      BY <2>1, <3>1 DEF RtcRecord
  <2>4. rtc'.raw_pending => RefreshAlarm(rtc', later).raw_pending
    BY <1>1, <2>1, <2>2, RefreshKeepsTime
  <2> QED
    BY <2>1, <2>2, <2>3, <2>4 DEF RtcInv, RtcTypeOK, RtcAlarmSeen
<1>7. CASE UNCHANGED rtc_vars
  BY <1>7 DEF rtc_vars, RtcInv, RtcTypeOK, RtcAlarmSeen
<1> QED
  BY <1>3, <1>4, <1>5, <1>6, <1>7 DEF RtcNext

(* Time passes on the guest's clock as it does on the host's, whatever the *)
(* clock is set to; a stopped clock stands.                                *)
LEMMA TimePasses ==
  ASSUME NEW r \in RtcRecord, NEW t \in Nat, NEW u \in Nat
  PROVE  CurrentSeconds(r, u) =
           (CurrentSeconds(r, t) + (IF r.enabled THEN u - t ELSE 0)) % RtcModulus
<1>1. RtcModulus \in Nat \ {0} /\ r.offset \in Int /\ r.frozen \in 0 .. RtcModulus - 1
      /\ r.enabled \in BOOLEAN
  BY RtcAssumption DEF RtcRecord
<1>2. CASE r.enabled
  <2>1. (((t + r.offset) % RtcModulus) + (u - t)) % RtcModulus = ((t + r.offset) + (u - t)) % RtcModulus
    <3>1. t + r.offset \in Int /\ u - t \in Int
      BY <1>1
    <3> QED
      BY <1>1, <3>1, RemainderAdds
  <2>2. (t + r.offset) + (u - t) = u + r.offset
    BY <1>1
  <2> QED
    BY <1>2, <2>1, <2>2 DEF CurrentSeconds
<1>3. CASE ~r.enabled
  <2>1. r.frozen + 0 = r.frozen /\ r.frozen % RtcModulus = r.frozen
    BY <1>1, RemainderOfSmall
  <2> QED
    BY <1>3, <2>1 DEF CurrentSeconds
<1> QED
  BY <1>1, <1>2, <1>3

(* Starting and stopping the clock does not move it.                       *)
LEMMA SwitchingKeepsTime ==
  ASSUME NEW r \in RtcRecord, NEW t \in Nat, NEW enable \in BOOLEAN
  PROVE  CurrentSeconds(WriteRtcCr(r, t, enable), t) = CurrentSeconds(r, t)
<1> DEFINE switched == CASE r.enabled /\ ~enable -> [r EXCEPT !.frozen = CurrentSeconds(r, t), !.enabled = enable]
                         [] ~r.enabled /\ enable -> [r EXCEPT !.offset = r.frozen - t, !.enabled = enable]
                         [] OTHER -> r
<1>1. RtcModulus \in Nat \ {0} /\ r.offset \in Int /\ r.frozen \in 0 .. RtcModulus - 1
      /\ r.enabled \in BOOLEAN
  BY RtcAssumption DEF RtcRecord
<1>2. CurrentSeconds(switched, t) = CurrentSeconds(r, t)
  <2>1. CASE r.enabled /\ ~enable
    <3>1. switched = [r EXCEPT !.frozen = CurrentSeconds(r, t), !.enabled = enable]
      BY <2>1
    <3>2. ~switched.enabled /\ switched.frozen = CurrentSeconds(r, t)
      BY <2>1, <3>1 DEF RtcRecord
    <3> QED
      BY <3>2 DEF CurrentSeconds
  <2>2. CASE ~r.enabled /\ enable
    <3>1. switched = [r EXCEPT !.offset = r.frozen - t, !.enabled = enable]
      BY <2>2
    <3>2. switched.enabled /\ switched.offset = r.frozen - t
      BY <2>2, <3>1 DEF RtcRecord
    <3>3. t + (r.frozen - t) = r.frozen /\ r.frozen % RtcModulus = r.frozen
      BY <1>1, RemainderOfSmall
    <3> QED
      BY <2>2, <3>2, <3>3 DEF CurrentSeconds
  <2>3. CASE r.enabled <=> enable
    <3>1. switched = r
      BY <1>1, <2>3
    <3> QED
      BY <3>1
  <2> QED
    BY <1>1, <2>1, <2>2, <2>3
<1>3. /\ WriteRtcCr(r, t, enable).enabled = switched.enabled
      /\ WriteRtcCr(r, t, enable).offset = switched.offset
      /\ WriteRtcCr(r, t, enable).frozen = switched.frozen
  <2>1. WriteRtcCr(r, t, enable) = RefreshAlarm(switched, t)
    BY DEF WriteRtcCr
  <2>2. switched \in RtcRecord
    BY SwitchedInRange
  <2> HIDE DEF switched
  <2> QED
    BY <2>1, <2>2, RefreshKeepsTime
<1> QED
  BY <1>2, <1>3 DEF CurrentSeconds

(* The guest's clock follows host time across stops, starts, snapshots and *)
(* the wrap of its register, for every width of it; only a write of LR     *)
(* sets it (current_seconds, the CR and LR writes).                        *)
THEOREM RtcFollowsTime == RtcSpec => RtcTimeContinuous
<1>1. RtcInv /\ [RtcNext]_rtc_vars =>
        [LET before == CurrentSeconds(rtc, host_now)
             after  == CurrentSeconds(rtc', host_now')
         IN  \/ after = (before + (IF rtc.enabled THEN host_now' - host_now ELSE 0)) % RtcModulus
             \/ \E value \in RtcTimes : WriteLr(rtc, host_now, value) = rtc']_rtc_vars
  <2> SUFFICES ASSUME RtcInv, RtcNext, ~ \E value \in RtcTimes : WriteLr(rtc, host_now, value) = rtc'
               PROVE  CurrentSeconds(rtc', host_now') =
                        (CurrentSeconds(rtc, host_now)
                           + (IF rtc.enabled THEN host_now' - host_now ELSE 0)) % RtcModulus
    OBVIOUS
  <2>1. rtc \in RtcRecord /\ host_now \in Nat /\ host_now' \in Nat
    <3>1. rtc \in RtcRecord /\ host_now \in Nat /\ RtcInv'
      BY RtcStep DEF RtcInv, RtcTypeOK
    <3> QED
      BY <3>1 DEF RtcInv, RtcTypeOK
  <2>2. CurrentSeconds(rtc', host_now') = CurrentSeconds(rtc, host_now')
    <3>1. CASE RtcTick
      BY <3>1 DEF RtcTick
    <3>2. CASE ReadRtc
      BY <2>1, <3>2, RefreshKeepsTime DEF ReadRtc, CurrentSeconds
    <3>3. CASE LoadRtc
      BY <2>1, <3>3, RefreshKeepsTime DEF LoadRtc, CurrentSeconds
    <3>4. CASE WriteRtc
      <4>1. host_now' = host_now
        BY <3>4 DEF WriteRtc
      <4>2. ASSUME NEW value \in RtcTimes, rtc' = WriteMr(rtc, host_now, value)
            PROVE  CurrentSeconds(rtc', host_now) = CurrentSeconds(rtc, host_now)
        <5> DEFINE set == [rtc EXCEPT !.match = value, !.raw_pending = FALSE, !.alarm_armed = TRUE]
        <5>1. set \in RtcRecord /\ set.enabled = rtc.enabled /\ set.offset = rtc.offset
              /\ set.frozen = rtc.frozen
          BY <2>1, RtcAssumption DEF RtcRecord
        <5>2. rtc' = RefreshAlarm(set, host_now)
          BY <4>2 DEF WriteMr
        <5> HIDE DEF set
        <5> QED
          BY <2>1, <5>1, <5>2, RefreshKeepsTime DEF CurrentSeconds
      <4>3. ASSUME NEW enable \in BOOLEAN, rtc' = WriteRtcCr(rtc, host_now, enable)
            PROVE  CurrentSeconds(rtc', host_now) = CurrentSeconds(rtc, host_now)
        BY <2>1, <4>3, SwitchingKeepsTime
      <4>4. ASSUME rtc' = WriteRtcIcr(rtc)
            PROVE  CurrentSeconds(rtc', host_now) = CurrentSeconds(rtc, host_now)
        BY <2>1, <4>4 DEF WriteRtcIcr, CurrentSeconds, RtcRecord
      <4> QED
        BY <3>4, <4>1, <4>2, <4>3, <4>4 DEF WriteRtc
    <3> QED
      BY <3>1, <3>2, <3>3, <3>4 DEF RtcNext
  <2> QED
    BY <2>1, <2>2, TimePasses
<1>2. RtcInit => RtcInv
  BY RtcInitial
<1>3. RtcInv /\ [RtcNext]_rtc_vars => RtcInv'
  BY RtcStep
<1> QED
  BY <1>1, <1>2, <1>3, PTL DEF RtcSpec, RtcTimeContinuous

(* An alarm that came due is seen by the next read, however late, unless   *)
(* the clock wrapped, was stopped or set, or the alarm was rewritten in    *)
(* between (refresh_alarm_state on every read).                            *)
THEOREM RtcAlarmsSeen == RtcSpec => []RtcAlarmSeen
<1>1. RtcInit => RtcInv
  BY RtcInitial
<1>2. RtcInv /\ [RtcNext]_rtc_vars => RtcInv'
  BY RtcStep
<1>3. RtcInv => RtcAlarmSeen
  BY DEF RtcInv
<1> QED
  BY <1>1, <1>2, <1>3, PTL DEF RtcSpec

-----------------------------------------------------------------------------
(* The keyboard port.                                                      *)

Codes == Keys \cup Answers \cup ScanSets

KmiRecord ==
  [rx_fifo : Seq(Codes), cr : SUBSET {"en", "rxintr"}, last_tx : Commands \cup {"00"},
   scan_set : ScanSets, scanning : BOOLEAN,
   pending : {"None", "SetLeds", "SetScanSet", "SetTypematic", "SetAllLeds"}]

Answered(k) == \E i \in DOMAIN k.rx_fifo : k.rx_fifo[i] \in Answers
HasRoom(k)  == Len(k.rx_fifo) < KmiLimit

AtDefaults(k) == k.pending = "None" /\ k.scanning /\ k.scan_set = "02"

(* An answer that is owed is in the queue of an enabled port, and the      *)
(* first of two resets ends whatever command was half sent.                *)
KmiInv ==
  /\ kmi \in KmiRecord /\ kmi_owed \in BOOLEAN /\ kmi_resets \in 0 .. 2
  /\ kmi_told = KmiIrqPending(kmi)
  /\ kmi_owed => "en" \in kmi.cr /\ Answered(kmi)
  /\ kmi_resets # 0 => kmi.pending = "None"
  /\ kmi_resets = 2 => AtDefaults(kmi)

(* A byte that is queued joins the queue if there is room, and leaves the  *)
(* rest of the port alone.                                                 *)
LEMMA QueueKeeps ==
  ASSUME NEW k \in KmiRecord, NEW byte \in Codes
  PROVE  LET q == QueueResponse(k, byte)
         IN  /\ q \in KmiRecord
             /\ q.cr = k.cr /\ q.last_tx = k.last_tx /\ q.pending = k.pending
             /\ q.scan_set = k.scan_set /\ q.scanning = k.scanning
<1>1. (IF Len(k.rx_fifo) < KmiLimit THEN Append(k.rx_fifo, byte) ELSE k.rx_fifo) \in Seq(Codes)
  BY DEF KmiRecord
<1>2. <<>> \in Seq(Codes)
  OBVIOUS
<1>3. \A f \in Seq(Codes) :
        /\ [k EXCEPT !.rx_fifo = f] \in KmiRecord
        /\ [k EXCEPT !.rx_fifo = f].cr = k.cr
        /\ [k EXCEPT !.rx_fifo = f].last_tx = k.last_tx
        /\ [k EXCEPT !.rx_fifo = f].pending = k.pending
        /\ [k EXCEPT !.rx_fifo = f].scan_set = k.scan_set
        /\ [k EXCEPT !.rx_fifo = f].scanning = k.scanning
  BY DEF KmiRecord
<1>4. QueueResponse(k, byte) \in {[k EXCEPT !.rx_fifo = f] : f \in Seq(Codes)}
  <2> DEFINE f == IF Len(k.rx_fifo) < KmiLimit THEN Append(k.rx_fifo, byte) ELSE k.rx_fifo
  <2>1. QueueResponse(k, byte) = KmiUpdate([k EXCEPT !.rx_fifo = f])
    BY DEF QueueResponse, KmiRecord
  <2>2. KmiUpdate([k EXCEPT !.rx_fifo = f]) \in {[k EXCEPT !.rx_fifo = f], [k EXCEPT !.rx_fifo = <<>>]}
    BY DEF KmiUpdate, KmiRecord
  <2> QED
    BY <1>1, <1>2, <2>1, <2>2
<1>5. PICK f \in Seq(Codes) : QueueResponse(k, byte) = [k EXCEPT !.rx_fifo = f]
  BY <1>4
<1> QED
  BY <1>3, <1>5

LEMMA QueueAnswers ==
  ASSUME NEW k \in KmiRecord, NEW byte \in Codes, "en" \in k.cr
  PROVE  LET q == QueueResponse(k, byte)
         IN  /\ Answered(k) => Answered(q)
             /\ byte \in Answers /\ HasRoom(k) => Answered(q)
<1> DEFINE f == IF Len(k.rx_fifo) < KmiLimit THEN Append(k.rx_fifo, byte) ELSE k.rx_fifo
<1>1. QueueResponse(k, byte).rx_fifo = f
  BY DEF QueueResponse, KmiUpdate, KmiRecord
<1>2. k.rx_fifo \in Seq(Codes)
  BY DEF KmiRecord
<1>3. (\E i \in DOMAIN k.rx_fifo : k.rx_fifo[i] \in Answers) => \E i \in DOMAIN f : f[i] \in Answers
  BY <1>2
<1>4. byte \in Answers /\ HasRoom(k) => \E i \in DOMAIN f : f[i] \in Answers
  <2> SUFFICES ASSUME byte \in Answers, HasRoom(k) PROVE \E i \in DOMAIN f : f[i] \in Answers
    OBVIOUS
  <2>1. f = Append(k.rx_fifo, byte)
    BY DEF HasRoom
  <2>2. Len(k.rx_fifo) + 1 \in DOMAIN f /\ f[Len(k.rx_fifo) + 1] = byte
    BY <1>2, <2>1
  <2> QED
    BY <2>2
<1> QED
  BY <1>1, <1>3, <1>4 DEF Answered

(* The port after a byte from the host: still a port, and answering.       *)
Replies(k, q) ==
  /\ q \in KmiRecord /\ q.cr = k.cr
  /\ Answered(k) \/ HasRoom(k) => Answered(q)

LEMMA QueueReplies ==
  ASSUME NEW k \in KmiRecord, NEW byte \in Codes, "en" \in k.cr
  PROVE  /\ byte \in Answers => Replies(k, QueueResponse(k, byte))
         /\ \A j : Replies(j, k) => Replies(j, QueueResponse(k, byte))
  BY QueueKeeps, QueueAnswers DEF Replies

(* Fields other than the queue do not count for the answer.                *)
LEMMA RepliesAlike ==
  ASSUME NEW k \in KmiRecord, NEW j \in KmiRecord, j.rx_fifo = k.rx_fifo, j.cr = k.cr,
         NEW q, Replies(j, q)
  PROVE  Replies(k, q)
  BY DEF Replies, Answered, HasRoom

LEMMA FieldsInRange ==
  ASSUME NEW k \in KmiRecord
  PROVE  /\ \A p \in {"None", "SetLeds", "SetScanSet", "SetTypematic", "SetAllLeds"} :
              /\ [k EXCEPT !.pending = p] \in KmiRecord
              /\ [k EXCEPT !.pending = p].rx_fifo = k.rx_fifo
              /\ [k EXCEPT !.pending = p].cr = k.cr
              /\ [k EXCEPT !.pending = p].pending = p
              /\ [k EXCEPT !.pending = p].scan_set = k.scan_set
         /\ \A s \in BOOLEAN :
              /\ [k EXCEPT !.scanning = s] \in KmiRecord
              /\ [k EXCEPT !.scanning = s].rx_fifo = k.rx_fifo
              /\ [k EXCEPT !.scanning = s].cr = k.cr
         /\ \A s \in ScanSets :
              /\ [k EXCEPT !.scan_set = s] \in KmiRecord
              /\ [k EXCEPT !.scan_set = s].rx_fifo = k.rx_fifo
              /\ [k EXCEPT !.scan_set = s].cr = k.cr
              /\ [k EXCEPT !.scan_set = s].pending = k.pending
         /\ ResetDefaults(k) \in KmiRecord
         /\ ResetDefaults(k).rx_fifo = k.rx_fifo /\ ResetDefaults(k).cr = k.cr
         /\ AtDefaults(ResetDefaults(k))
<1>1. \A p \in {"None", "SetLeds", "SetScanSet", "SetTypematic", "SetAllLeds"} :
              /\ [k EXCEPT !.pending = p] \in KmiRecord
              /\ [k EXCEPT !.pending = p].rx_fifo = k.rx_fifo
              /\ [k EXCEPT !.pending = p].cr = k.cr
              /\ [k EXCEPT !.pending = p].pending = p
              /\ [k EXCEPT !.pending = p].scan_set = k.scan_set
  BY DEF KmiRecord
<1>2. \A s \in BOOLEAN :
              /\ [k EXCEPT !.scanning = s] \in KmiRecord
              /\ [k EXCEPT !.scanning = s].rx_fifo = k.rx_fifo
              /\ [k EXCEPT !.scanning = s].cr = k.cr
  BY DEF KmiRecord
<1>3. \A s \in ScanSets :
              /\ [k EXCEPT !.scan_set = s] \in KmiRecord
              /\ [k EXCEPT !.scan_set = s].rx_fifo = k.rx_fifo
              /\ [k EXCEPT !.scan_set = s].cr = k.cr
              /\ [k EXCEPT !.scan_set = s].pending = k.pending
  BY DEF KmiRecord
<1>4. /\ ResetDefaults(k) \in KmiRecord
      /\ ResetDefaults(k).rx_fifo = k.rx_fifo /\ ResetDefaults(k).cr = k.cr
      /\ AtDefaults(ResetDefaults(k))
  BY DEF KmiRecord, ResetDefaults, ScanSets, AtDefaults
<1> QED
  BY <1>1, <1>2, <1>3, <1>4

(* A byte that completes a command is acknowledged.                        *)
LEMMA ArgumentReplies ==
  ASSUME NEW k \in KmiRecord, NEW byte \in Commands, "en" \in k.cr
  PROVE  Replies(k, TakeArgument(k, byte)) /\ TakeArgument(k, byte).pending = "None"
<1> DEFINE finished == [k EXCEPT !.pending = "None"]
           acked    == QueueResponse(finished, "FA")
<1>1. "FA" \in Answers /\ "FA" \in Codes
  BY DEF Codes, Answers
<1>2. /\ finished \in KmiRecord /\ finished.rx_fifo = k.rx_fifo
      /\ finished.cr = k.cr /\ finished.pending = "None"
  BY FieldsInRange
<1>3. Replies(k, acked) /\ acked \in KmiRecord /\ "en" \in acked.cr /\ acked.pending = "None"
  <2> HIDE DEF finished
  <2>1. Replies(finished, acked) /\ acked.pending = "None"
    BY <1>1, <1>2, QueueReplies, QueueKeeps
  <2> QED
    BY <1>2, <2>1, RepliesAlike DEF Replies
<1>4. k.scan_set \in Codes
  BY DEF KmiRecord, Codes
<1>5. Replies(k, QueueResponse(acked, k.scan_set)) /\ QueueResponse(acked, k.scan_set).pending = "None"
  <2> HIDE DEF acked
  <2> QED
    BY <1>3, <1>4, QueueReplies, QueueKeeps
<1>6. \A s \in ScanSets : Replies(k, [acked EXCEPT !.scan_set = s]) /\ [acked EXCEPT !.scan_set = s].pending = "None"
  <2> HIDE DEF acked
  <2> SUFFICES ASSUME NEW s \in ScanSets
               PROVE  Replies(k, [acked EXCEPT !.scan_set = s]) /\ [acked EXCEPT !.scan_set = s].pending = "None"
    OBVIOUS
  <2> DEFINE set == [acked EXCEPT !.scan_set = s]
  <2>1. set \in KmiRecord /\ set.rx_fifo = acked.rx_fifo /\ set.cr = acked.cr /\ set.pending = acked.pending
    BY <1>3 DEF KmiRecord
  <2> HIDE DEF set
  <2>2. Replies(k, set) /\ set.pending = "None"
    BY <1>3, <2>1 DEF Replies, Answered
  <2> QED
    BY <2>2 DEF set
<1>7. TakeArgument(k, byte) \in {acked, QueueResponse(acked, k.scan_set)}
                                  \cup {[acked EXCEPT !.scan_set = s] : s \in ScanSets}
  BY DEF TakeArgument
<1> QED
  <2> HIDE DEF acked
  <2> QED
    BY <1>3, <1>5, <1>6, <1>7

(* Every command is answered.                                              *)
LEMMA CommandReplies ==
  ASSUME NEW k \in KmiRecord, NEW byte \in Commands, "en" \in k.cr, k.last_tx = byte
  PROVE  Replies(k, TakeCommand(k, byte))
<1>1. {"FA", "EE", "AB", "83", "AA", "FE"} \subseteq Answers /\ byte \in Answers /\ Answers \subseteq Codes
  BY DEF Codes, Answers
<1>2. \A b \in Answers : Replies(k, QueueResponse(k, b))
  BY <1>1, QueueReplies
<1>3. \A j \in KmiRecord, b \in Answers :
        j.rx_fifo = k.rx_fifo /\ j.cr = k.cr => Replies(k, QueueResponse(j, b))
  BY <1>1, QueueReplies, RepliesAlike
<1>4. \A j \in KmiRecord, b \in Answers : Replies(k, j) => Replies(k, QueueResponse(j, b))
  BY <1>1, QueueReplies DEF Replies
<1>5. \A p \in {"None", "SetLeds", "SetScanSet", "SetTypematic", "SetAllLeds"} : Replies(k, Await(k, p))
  <2> SUFFICES ASSUME NEW p \in {"None", "SetLeds", "SetScanSet", "SetTypematic", "SetAllLeds"}
               PROVE  Replies(k, QueueResponse([k EXCEPT !.pending = p], "FA"))
    BY DEF Await
  <2>1. /\ [k EXCEPT !.pending = p] \in KmiRecord
        /\ [k EXCEPT !.pending = p].rx_fifo = k.rx_fifo /\ [k EXCEPT !.pending = p].cr = k.cr
    BY FieldsInRange
  <2> QED
    BY <1>1, <1>3, <2>1
<1>6. CASE byte \in {"ED", "F0", "F3", "EA", "E8", "F8", "FA"}
  <2>1. TakeCommand(k, byte) \in {Await(k, "SetLeds"), Await(k, "SetScanSet"), Await(k, "SetTypematic"),
                                  Await(k, "SetAllLeds"), Await(k, "None")}
    BY <1>6 DEF TakeCommand
  <2> QED
    BY <1>5, <2>1
<1>7. CASE byte \in {"EE", "FE"} \/ byte \notin KnownCommands
  <2>1. TakeCommand(k, byte) \in {QueueResponse(k, b) : b \in {"EE", "FE", "FA", byte}}
    BY <1>7 DEF TakeCommand, KnownCommands
  <2> QED
    BY <1>1, <1>2, <2>1
<1>8. CASE byte = "F2"
  <2>1. Replies(k, QueueResponse(k, "FA"))
    BY <1>1, <1>2
  <2>2. Replies(k, QueueResponse(QueueResponse(k, "FA"), "AB"))
    BY <1>1, <1>4, <2>1 DEF Replies
  <2>3. Replies(k, QueueResponse(QueueResponse(QueueResponse(k, "FA"), "AB"), "83"))
    BY <1>1, <1>4, <2>2 DEF Replies
  <2> QED
    BY <1>8, <2>3 DEF TakeCommand
<1>9. CASE byte = "F4"
  <2>1. Replies(k, QueueResponse([k EXCEPT !.scanning = TRUE], "FA"))
    BY <1>1, <1>3, FieldsInRange
  <2> QED
    BY <1>9, <2>1 DEF TakeCommand
<1>10. CASE byte = "F5"
  <2> DEFINE d == ResetDefaults(k)
  <2>1. d \in KmiRecord /\ d.rx_fifo = k.rx_fifo /\ d.cr = k.cr
    BY FieldsInRange
  <2>2. TakeCommand(k, byte) = QueueResponse([d EXCEPT !.scanning = FALSE], "FA")
    BY <1>10 DEF TakeCommand
  <2> HIDE DEF d
  <2>3. /\ [d EXCEPT !.scanning = FALSE] \in KmiRecord
        /\ [d EXCEPT !.scanning = FALSE].rx_fifo = k.rx_fifo /\ [d EXCEPT !.scanning = FALSE].cr = k.cr
    BY <2>1, FieldsInRange
  <2> QED
    BY <1>1, <1>3, <2>2, <2>3
<1>11. CASE byte \in {"F6", "FF"}
  <2>1. Replies(k, QueueResponse(ResetDefaults(k), "FA"))
    BY <1>1, <1>3, FieldsInRange
  <2>2. Replies(k, QueueResponse(QueueResponse(ResetDefaults(k), "FA"), "AA"))
    BY <1>1, <1>4, <2>1 DEF Replies
  <2>3. TakeCommand(k, byte) \in {QueueResponse(ResetDefaults(k), "FA"),
                                  QueueResponse(QueueResponse(ResetDefaults(k), "FA"), "AA")}
    BY <1>11 DEF TakeCommand
  <2> QED
    BY <2>1, <2>2, <2>3
<1> QED
  BY <1>6, <1>7, <1>8, <1>9, <1>10, <1>11 DEF KnownCommands

(* A reset that is not an argument brings the defaults back.               *)
LEMMA ResetIsDefaults ==
  ASSUME NEW k \in KmiRecord
  PROVE  AtDefaults(TakeCommand(k, "FF"))
<1> DEFINE d == ResetDefaults(k)
           f == QueueResponse(d, "FA")
<1>1. d \in KmiRecord /\ AtDefaults(d)
  BY FieldsInRange
<1>2. "FA" \in Codes /\ "AA" \in Codes
  BY DEF Codes, Answers
<1>3. f \in KmiRecord /\ AtDefaults(f)
  <2> HIDE DEF d
  <2> QED
    BY <1>1, <1>2, QueueKeeps DEF AtDefaults
<1>4. AtDefaults(QueueResponse(f, "AA"))
  <2> HIDE DEF f
  <2> QED
    BY <1>2, <1>3, QueueKeeps DEF AtDefaults
<1>5. TakeCommand(k, "FF") = QueueResponse(f, "AA")
  BY DEF TakeCommand
<1> QED
  BY <1>4, <1>5

LEMMA UpdateKeeps ==
  ASSUME NEW k \in KmiRecord
  PROVE  LET q == KmiUpdate(k)
         IN  /\ q \in KmiRecord /\ q.cr = k.cr /\ q.pending = k.pending
             /\ q.scan_set = k.scan_set /\ q.scanning = k.scanning
<1>1. <<>> \in Seq(Codes)
  OBVIOUS
<1>2. /\ [k EXCEPT !.rx_fifo = <<>>] \in KmiRecord
      /\ [k EXCEPT !.rx_fifo = <<>>].cr = k.cr
      /\ [k EXCEPT !.rx_fifo = <<>>].pending = k.pending
      /\ [k EXCEPT !.rx_fifo = <<>>].scan_set = k.scan_set
      /\ [k EXCEPT !.rx_fifo = <<>>].scanning = k.scanning
  BY <1>1 DEF KmiRecord
<1>3. CASE "en" \in k.cr
  BY <1>3 DEF KmiUpdate
<1>4. CASE "en" \notin k.cr
  BY <1>2, <1>4 DEF KmiUpdate
<1> QED
  BY <1>3, <1>4

LEMMA PowerOnInRange == PowerOnKmi \in KmiRecord /\ ~KmiIrqPending(PowerOnKmi)
<1> DEFINE off == [rx_fifo |-> <<>>, cr |-> {}, last_tx |-> "00", scan_set |-> "02",
                   scanning |-> TRUE, pending |-> "None"]
<1>1. off \in KmiRecord /\ off.cr = {}
  <2>1. <<>> \in Seq(Codes) /\ "02" \in ScanSets
    BY DEF ScanSets
  <2> QED
    BY <2>1 DEF KmiRecord
<1>2. PowerOnKmi = ResetDefaults(off)
  BY DEF PowerOnKmi
<1> HIDE DEF off
<1>3. PowerOnKmi \in KmiRecord /\ PowerOnKmi.cr = {}
  BY <1>1, <1>2, FieldsInRange
<1> QED
  BY <1>3 DEF KmiIrqPending

LEMMA KmiInitial == KmiInit => KmiInv
<1> SUFFICES ASSUME KmiInit PROVE KmiInv
  OBVIOUS
<1>1. kmi \in KmiRecord /\ kmi_told = KmiIrqPending(kmi)
  BY PowerOnInRange DEF KmiInit, KmiIrqPending
<1>2. kmi_owed \in BOOLEAN /\ ~kmi_owed
  BY DEF KmiInit
<1>3. kmi_resets \in 0 .. 2 /\ ~(kmi_resets # 0) /\ ~(kmi_resets = 2)
  BY DEF KmiInit
<1> QED
  BY <1>1, <1>2, <1>3 DEF KmiInv

LEMMA KmiStep == KmiInv /\ [KmiNext]_kmi_vars => KmiInv'
<1> SUFFICES ASSUME KmiInv, [KmiNext]_kmi_vars PROVE KmiInv'
  OBVIOUS
<1>1. kmi \in KmiRecord /\ kmi_owed \in BOOLEAN /\ kmi_resets \in 0 .. 2
  BY DEF KmiInv
<1>2. CASE PressKey
  <2>1. PICK key \in Keys : KmiObserved(QueueResponse(kmi, key))
    BY <1>2 DEF PressKey
  <2>2. key \in Codes
    BY DEF Codes
  <2>3. kmi_owed' = kmi_owed /\ kmi_resets' = kmi_resets
    BY <1>2 DEF PressKey
  <2>4. kmi' \in KmiRecord /\ kmi'.cr = kmi.cr /\ kmi'.pending = kmi.pending
        /\ kmi'.scanning = kmi.scanning /\ kmi'.scan_set = kmi.scan_set
    BY <1>1, <2>1, <2>2, QueueKeeps DEF KmiObserved
  <2>5. kmi_owed => Answered(kmi')
    BY <1>1, <2>1, <2>2, QueueAnswers DEF KmiObserved, KmiInv
  <2> QED
    BY <2>1, <2>3, <2>4, <2>5 DEF KmiObserved, KmiInv, AtDefaults
<1>3. CASE ReadKmiData
  <2>1. kmi_owed' = FALSE /\ kmi_resets' = kmi_resets /\ kmi.rx_fifo # <<>>
        /\ kmi' = KmiUpdate([kmi EXCEPT !.rx_fifo = Tail(@)]) /\ kmi_told' = KmiIrqPending(kmi')
    BY <1>3 DEF ReadKmiData, KmiObserved
  <2>2. Tail(kmi.rx_fifo) \in Seq(Codes) /\ <<>> \in Seq(Codes)
    BY <1>1, <2>1 DEF KmiRecord
  <2>3. kmi' \in {[kmi EXCEPT !.rx_fifo = Tail(kmi.rx_fifo)], [kmi EXCEPT !.rx_fifo = <<>>]}
    BY <1>1, <2>1 DEF KmiUpdate, KmiRecord
  <2>4. kmi' \in KmiRecord /\ kmi'.pending = kmi.pending
        /\ kmi'.scanning = kmi.scanning /\ kmi'.scan_set = kmi.scan_set
    BY <1>1, <2>2, <2>3 DEF KmiRecord
  <2> QED
    BY <2>1, <2>4 DEF KmiInv, AtDefaults
<1>4. CASE WriteKmiData
  <2>1. PICK byte \in Commands :
          /\ KmiObserved(ProcessHostByte([kmi EXCEPT !.last_tx = byte], byte))
          /\ kmi_owed' = (kmi_owed \/ ("en" \in kmi.cr /\ Len(kmi.rx_fifo) < KmiLimit))
          /\ kmi_resets' = IF byte = "FF" /\ "en" \in kmi.cr THEN IF kmi_resets = 2 THEN 2 ELSE kmi_resets + 1
                           ELSE 0
    BY <1>4 DEF WriteKmiData
  <2> DEFINE k == [kmi EXCEPT !.last_tx = byte]
  <2>2. k \in KmiRecord /\ k.last_tx = byte /\ k.rx_fifo = kmi.rx_fifo /\ k.cr = kmi.cr
        /\ k.pending = kmi.pending /\ k.scanning = kmi.scanning /\ k.scan_set = kmi.scan_set
    BY <1>1 DEF KmiRecord
  <2>3. kmi' = ProcessHostByte(k, byte) /\ kmi_told' = KmiIrqPending(kmi')
    BY <2>1 DEF KmiObserved
  <2>4. kmi_owed' \in BOOLEAN /\ kmi_resets' \in 0 .. 2
    BY <1>1, <2>1
  <2> HIDE DEF k
  <2>5. CASE "en" \notin kmi.cr
    <3>1. kmi' = k /\ ~kmi_owed /\ kmi_resets' = 0 /\ ~kmi_owed'
      BY <2>1, <2>2, <2>3, <2>5 DEF ProcessHostByte, KmiInv
    <3> QED
      BY <2>2, <2>3, <2>4, <3>1 DEF KmiInv
  <2>6. CASE "en" \in kmi.cr
    <3>1. Replies(k, kmi')
      <4>1. CASE k.pending # "None"
        BY <2>2, <2>3, <2>6, <4>1, ArgumentReplies DEF ProcessHostByte
      <4>2. CASE k.pending = "None"
        BY <2>2, <2>3, <2>6, <4>2, CommandReplies DEF ProcessHostByte
      <4> QED
        BY <4>1, <4>2
    <3>2. kmi' \in KmiRecord /\ kmi'.cr = kmi.cr
      BY <2>2, <3>1 DEF Replies
    <3>3. kmi_owed' => Answered(kmi')
      BY <2>1, <2>2, <3>1 DEF Replies, KmiInv, Answered, HasRoom
    <3>4. kmi_resets' # 0 => kmi'.pending = "None"
      <4> SUFFICES ASSUME byte = "FF" PROVE kmi'.pending = "None"
        BY <2>1
      <4>1. CASE k.pending # "None"
        BY <2>2, <2>3, <2>6, <4>1, ArgumentReplies DEF ProcessHostByte
      <4>2. CASE k.pending = "None"
        BY <2>2, <2>3, <2>6, <4>2, ResetIsDefaults DEF ProcessHostByte, AtDefaults
      <4> QED
        BY <4>1, <4>2
    <3>5. kmi_resets' = 2 => AtDefaults(kmi')
      <4> SUFFICES ASSUME kmi_resets' = 2 PROVE AtDefaults(kmi')
        OBVIOUS
      <4>1. byte = "FF" /\ kmi_resets # 0
        BY <1>1, <2>1
      <4>2. k.pending = "None"
        BY <2>2, <4>1 DEF KmiInv
      <4> QED
        BY <2>2, <2>3, <2>6, <4>1, <4>2, ResetIsDefaults DEF ProcessHostByte
    <3> QED
      BY <2>3, <2>4, <2>6, <3>2, <3>3, <3>4, <3>5 DEF KmiInv
  <2> QED
    BY <2>5, <2>6
<1>5. CASE WriteKmiCr
  <2>1. PICK cr \in SUBSET {"en", "rxintr"} :
          /\ kmi' = KmiUpdate([kmi EXCEPT !.cr = cr]) /\ kmi_told' = KmiIrqPending(kmi')
          /\ kmi_owed' = (kmi_owed /\ "en" \in cr) /\ kmi_resets' = kmi_resets
    BY <1>5 DEF WriteKmiCr, KmiObserved
  <2> DEFINE k == [kmi EXCEPT !.cr = cr]
  <2>2. k \in KmiRecord /\ k.cr = cr /\ k.rx_fifo = kmi.rx_fifo
        /\ k.pending = kmi.pending /\ k.scanning = kmi.scanning /\ k.scan_set = kmi.scan_set
    BY <1>1 DEF KmiRecord
  <2>3. kmi' = KmiUpdate(k) /\ kmi_owed' \in BOOLEAN
    BY <1>1, <2>1
  <2> HIDE DEF k
  <2>4. kmi' \in KmiRecord /\ kmi'.cr = cr
        /\ kmi'.pending = kmi.pending /\ kmi'.scanning = kmi.scanning /\ kmi'.scan_set = kmi.scan_set
    BY <2>2, <2>3, UpdateKeeps
  <2>5. kmi_owed' => Answered(kmi')
    BY <2>1, <2>2, <2>3 DEF KmiUpdate, KmiInv, Answered
  <2> QED
    BY <1>1, <2>1, <2>3, <2>4, <2>5 DEF KmiInv, AtDefaults
<1>6. CASE KmiRestored
  <2>1. kmi' = KmiUpdate(kmi) /\ kmi_told' = KmiIrqPending(kmi')
        /\ kmi_owed' = kmi_owed /\ kmi_resets' = kmi_resets
    BY <1>6 DEF KmiRestored, KmiObserved
  <2>2. kmi' \in KmiRecord /\ kmi'.cr = kmi.cr
        /\ kmi'.pending = kmi.pending /\ kmi'.scanning = kmi.scanning /\ kmi'.scan_set = kmi.scan_set
    BY <1>1, <2>1, UpdateKeeps
  <2>3. kmi_owed' => Answered(kmi')
    BY <2>1 DEF KmiUpdate, KmiInv
  <2> QED
    BY <1>1, <2>1, <2>2, <2>3 DEF KmiInv, AtDefaults
<1>7. CASE KmiReset
  <2>1. kmi' = PowerOnKmi /\ kmi_told' = KmiIrqPending(kmi') /\ kmi_owed' = FALSE /\ kmi_resets' = 0
    BY <1>7 DEF KmiReset, KmiObserved
  <2>2. PowerOnKmi \in KmiRecord
    BY PowerOnInRange
  <2>3. kmi' \in KmiRecord
    BY <2>1, <2>2
  <2>4. kmi_resets' \in 0 .. 2 /\ ~(kmi_resets' # 0) /\ ~(kmi_resets' = 2)
    BY <2>1
  <2>5. kmi_owed' \in BOOLEAN /\ ~kmi_owed'
    BY <2>1
  <2> QED
    BY <2>1, <2>3, <2>4, <2>5 DEF KmiInv
<1>8. CASE UNCHANGED kmi_vars
  BY <1>8 DEF kmi_vars, KmiInv, KmiIrqPending, Answered, AtDefaults
<1> QED
  BY <1>2, <1>3, <1>4, <1>5, <1>6, <1>7, <1>8 DEF KmiNext

(* A driver and the keyboard stay in step, for every length of the queue:  *)
(* every byte to the enabled port is answered, the line shows it, and two  *)
(* resets in a row bring the defaults back (process_host_byte,             *)
(* queue_response).                                                        *)
THEOREM KmiInStep == KmiSpec => []KmiStaysInStep
<1>1. KmiInit => KmiInv
  BY KmiInitial
<1>2. KmiInv /\ [KmiNext]_kmi_vars => KmiInv'
  BY KmiStep
<1>3. KmiInv => KmiStaysInStep
  BY DEF KmiInv, KmiStaysInStep, AtDefaults, Answered, KmiIrqPending, KmiRecord
<1> QED
  BY <1>1, <1>2, <1>3, PTL DEF KmiSpec

-----------------------------------------------------------------------------
(* The console's patterns.                                                 *)

(* A window holds the last bytes sent, as many as the pattern has.         *)
WindowOf(w, pattern, bytes) ==
  /\ w \in Seq(Nat)
  /\ Len(w) = IF Len(bytes) < Len(pattern) THEN Len(bytes) ELSE Len(pattern)
  /\ \A i \in 1 .. Len(w) : w[i] = bytes[Len(bytes) - Len(w) + i]

CanReply == ReplyPattern # <<>> /\ ReplyText # <<>>

ConsoleOK(c, sent) ==
  /\ sent \in Seq(Nat)
  /\ c.stop \in BOOLEAN /\ c.armed \in BOOLEAN
  /\ StopPattern # <<>> => WindowOf(c.stop_window, StopPattern, sent)
  /\ c.armed => WindowOf(c.reply_window, ReplyPattern, sent)
  /\ c.stop <=> StopPattern # <<>> /\ SomePrefixEndsWith(sent, StopPattern)
  /\ c.armed <=> CanReply /\ ~SomePrefixEndsWith(sent, ReplyPattern)
  /\ c.replies = IF CanReply /\ SomePrefixEndsWith(sent, ReplyPattern) THEN 1 ELSE 0

UartInv == ConsoleOK(console, uart_sent)

LEMMA SubSeqIs ==
  ASSUME NEW s \in Seq(Nat), NEW m \in Int, NEW n \in Int, 1 <= m, n <= Len(s)
  PROVE  /\ SubSeq(s, m, n) \in Seq(Nat)
         /\ Len(SubSeq(s, m, n)) = IF m <= n THEN n - m + 1 ELSE 0
         /\ \A i \in 1 .. n - m + 1 : SubSeq(s, m, n)[i] = s[m + i - 1]
  OBVIOUS

LEMMA AppendIs ==
  ASSUME NEW s \in Seq(Nat), NEW byte \in Nat
  PROVE  /\ Append(s, byte) \in Seq(Nat) /\ Len(Append(s, byte)) = Len(s) + 1
         /\ \A i \in 1 .. Len(s) : Append(s, byte)[i] = s[i]
         /\ Append(s, byte)[Len(s) + 1] = byte
  OBVIOUS

LEMMA SameSequence ==
  ASSUME NEW s \in Seq(Nat), NEW t \in Seq(Nat), Len(s) = Len(t),
         \A i \in 1 .. Len(s) : s[i] = t[i]
  PROVE  s = t
  OBVIOUS

LEMMA SlideKeeps ==
  ASSUME NEW w, NEW pattern \in Seq(Nat), pattern # <<>>, NEW bytes \in Seq(Nat), NEW byte \in Nat,
         WindowOf(w, pattern, bytes)
  PROVE  WindowOf(Slide(w, pattern, byte), pattern, Append(bytes, byte))
<1> DEFINE grown == Append(w, byte)
           all == Append(bytes, byte)
           P == Len(pattern)
           L == Len(bytes)
           W == Len(w)
<1>1. P \in Nat \ {0} /\ L \in Nat /\ W \in Nat /\ w \in Seq(Nat)
  BY DEF WindowOf
<1>2. /\ grown \in Seq(Nat) /\ Len(grown) = W + 1 /\ grown[W + 1] = byte
      /\ \A i \in 1 .. W : grown[i] = w[i]
  BY <1>1, AppendIs
<1>3. /\ all \in Seq(Nat) /\ Len(all) = L + 1 /\ all[L + 1] = byte
      /\ \A i \in 1 .. L : all[i] = bytes[i]
  BY AppendIs
<1>4. /\ W = IF L < P THEN L ELSE P
      /\ \A i \in 1 .. W : w[i] = bytes[L - W + i]
  BY DEF WindowOf
<1> HIDE DEF grown, all, P, L, W
<1>5. \A i \in 1 .. W + 1 : grown[i] = all[L - W + i]
  <2> SUFFICES ASSUME NEW i \in 1 .. W + 1 PROVE grown[i] = all[L - W + i]
    OBVIOUS
  <2>1. CASE i = W + 1
    <3>1. L - W + i = L + 1
      BY <1>1, <2>1
    <3> QED
      BY <1>2, <1>3, <2>1, <3>1
  <2>2. CASE i # W + 1
    <3>1. i \in 1 .. W /\ L - W + i \in 1 .. L
      <4>1. W <= L
        BY <1>1, <1>4
      <4>2. i \in Int /\ 1 <= i /\ i <= W
        BY <1>1, <2>2
      <4> QED
        BY <1>1, <4>1, <4>2
    <3> QED
      BY <1>2, <1>3, <1>4, <3>1
  <2> QED
    BY <2>1, <2>2
<1>6. CASE W + 1 > P
  <2> DEFINE slid == SubSeq(grown, 2, W + 1)
  <2>1. W = P /\ ~(L + 1 < P)
    BY <1>1, <1>4, <1>6
  <2>2. Slide(w, pattern, byte) = slid
    <3>1. /\ Len(Append(w, byte)) > Len(pattern) /\ Len(Append(w, byte)) = W + 1
          /\ W + 1 - Len(pattern) + 1 = 2
      BY <1>1, <1>2, <1>6, <2>1 DEF grown, P
    <3>2. Slide(w, pattern, byte) = SubSeq(grown, W + 1 - Len(pattern) + 1, W + 1)
      <4>1. Slide(w, pattern, byte)
              = SubSeq(grown, Len(Append(w, byte)) - Len(pattern) + 1, Len(Append(w, byte)))
        BY <3>1 DEF Slide, grown
      <4> QED
        BY <1>1, <3>1, <4>1
    <3> QED
      BY <3>1, <3>2
  <2>3. W + 1 <= Len(grown) /\ W + 1 \in Int /\ grown \in Seq(Nat) /\ W + 1 - 2 + 1 = P /\ 2 <= W + 1
    BY <1>1, <1>2, <2>1
  <2>4. /\ slid \in Seq(Nat) /\ Len(slid) = P
        /\ \A i \in 1 .. P : slid[i] = grown[2 + i - 1]
    <3>1. /\ slid \in Seq(Nat)
          /\ Len(slid) = IF 2 <= W + 1 THEN W + 1 - 2 + 1 ELSE 0
          /\ \A i \in 1 .. W + 1 - 2 + 1 : slid[i] = grown[2 + i - 1]
      BY <1>1, <2>3, SubSeqIs
    <3> QED
      BY <2>3, <3>1
  <2>5. \A i \in 1 .. P : slid[i] = all[L + 1 - P + i]
    <3> SUFFICES ASSUME NEW i \in 1 .. P PROVE slid[i] = all[L + 1 - P + i]
      OBVIOUS
    <3> HIDE DEF slid
    <3>1. 2 + i - 1 = i + 1 /\ i + 1 \in 1 .. W + 1 /\ L - W + (i + 1) = L + 1 - P + i
      BY <1>1, <2>1
    <3>2. slid[i] = grown[i + 1]
      BY <2>4, <3>1
    <3>3. grown[i + 1] = all[L - W + (i + 1)]
      BY <1>5, <3>1
    <3> QED
      BY <3>1, <3>2, <3>3
  <2> HIDE DEF slid
  <2>6. WindowOf(slid, pattern, all)
    <3>1. Len(slid) = IF Len(all) < Len(pattern) THEN Len(all) ELSE Len(pattern)
      BY <1>3, <2>1, <2>4 DEF P
    <3>2. \A i \in 1 .. Len(slid) : slid[i] = all[Len(all) - Len(slid) + i]
      <4> SUFFICES ASSUME NEW i \in 1 .. Len(slid)
                   PROVE  slid[i] = all[Len(all) - Len(slid) + i]
        OBVIOUS
      <4>1. Len(slid) = P /\ Len(all) = L + 1
        BY <1>3, <2>4
      <4>2. slid[i] = all[L + 1 - P + i]
        BY <2>5, <4>1
      <4>3. Len(all) - Len(slid) + i = L + 1 - P + i
        BY <1>1, <4>1
      <4> QED
        BY Zenon, <4>2, <4>3
    <3> QED
      BY <2>4, <3>1, <3>2 DEF WindowOf
  <2> QED
    BY <2>2, <2>6 DEF all
<1>7. CASE ~(W + 1 > P)
  <2>1. Slide(w, pattern, byte) = grown
    BY <1>2, <1>7 DEF Slide, grown, P
  <2>2. W + 1 = IF L + 1 < P THEN L + 1 ELSE P
    BY <1>1, <1>4, <1>7
  <2>3. WindowOf(grown, pattern, all)
    <3>1. Len(grown) = IF Len(all) < Len(pattern) THEN Len(all) ELSE Len(pattern)
      BY <1>2, <1>3, <2>2 DEF P
    <3>2. \A i \in 1 .. Len(grown) : grown[i] = all[Len(all) - Len(grown) + i]
      <4>1. Len(grown) = W + 1 /\ Len(all) = L + 1
        BY <1>2, <1>3
      <4> SUFFICES ASSUME NEW i \in 1 .. Len(grown) PROVE grown[i] = all[Len(all) - Len(grown) + i]
        OBVIOUS
      <4>2. Len(all) - Len(grown) + i = L - W + i /\ i \in 1 .. W + 1
        BY <1>1, <4>1
      <4> QED
        BY <1>5, <4>2
    <3> QED
      BY <1>2, <3>1, <3>2 DEF WindowOf
  <2> QED
    BY <2>1, <2>3 DEF all
<1> QED
  BY <1>6, <1>7

(* The window is the pattern exactly when the bytes end with it.           *)
LEMMA WindowMatches ==
  ASSUME NEW w, NEW pattern \in Seq(Nat), NEW bytes \in Seq(Nat), WindowOf(w, pattern, bytes)
  PROVE  w = pattern <=> EndsWith(bytes, pattern)
<1> DEFINE P == Len(pattern)
           L == Len(bytes)
           tail == SubSeq(bytes, L - P + 1, L)
<1>1. P \in Nat /\ L \in Nat /\ w \in Seq(Nat) /\ Len(w) \in Nat
  BY DEF WindowOf
<1>2. CASE L < P
  <2>1. Len(w) # P
    BY <1>1, <1>2 DEF WindowOf
  <2> QED
    BY <1>1, <1>2, <2>1 DEF EndsWith
<1>3. CASE L >= P
  <2>1. Len(w) = P
    BY <1>1, <1>3 DEF WindowOf
  <2>2. 1 <= L - P + 1 /\ L <= Len(bytes) /\ L - P + 1 \in Int
    BY <1>1, <1>3
  <2>3. /\ tail \in Seq(Nat)
        /\ Len(tail) = IF L - P + 1 <= L THEN L - (L - P + 1) + 1 ELSE 0
        /\ \A i \in 1 .. L - (L - P + 1) + 1 : tail[i] = bytes[L - P + 1 + i - 1]
    BY <1>1, <2>2, SubSeqIs
  <2> HIDE DEF tail, P, L
  <2>4. Len(tail) = P /\ L - (L - P + 1) + 1 = P
    BY <1>1, <2>3
  <2>5. \A i \in 1 .. P : tail[i] = w[i]
    <3> SUFFICES ASSUME NEW i \in 1 .. P PROVE tail[i] = w[i]
      OBVIOUS
    <3>1. L - P + 1 + i - 1 = L - P + i
      BY <1>1
    <3>2. tail[i] = bytes[L - P + i]
      BY <2>3, <2>4, <3>1
    <3>3. w[i] = bytes[L - P + i]
      BY <2>1 DEF WindowOf, L
    <3> QED
      BY <3>2, <3>3
  <2>6. tail = w
    BY <1>1, <2>1, <2>3, <2>4, <2>5, SameSequence
  <2> QED
    BY <1>3, <2>6 DEF EndsWith, tail, L, P
<1> QED
  BY <1>1, <1>2, <1>3

(* One more byte can only bring in the pattern at the end.                 *)
LEMMA SomeAppend ==
  ASSUME NEW pattern \in Seq(Nat), NEW bytes \in Seq(Nat), NEW byte \in Nat
  PROVE  SomePrefixEndsWith(Append(bytes, byte), pattern) <=>
           SomePrefixEndsWith(bytes, pattern) \/ EndsWith(Append(bytes, byte), pattern)
<1> DEFINE all == Append(bytes, byte)
           L == Len(bytes)
<1>1. L \in Nat /\ all \in Seq(Nat) /\ Len(all) = L + 1 /\ \A i \in 1 .. L : all[i] = bytes[i]
  BY AppendIs
<1> HIDE DEF all
<1>2. \A n \in 0 .. L : SubSeq(all, 1, n) = SubSeq(bytes, 1, n)
  <2> SUFFICES ASSUME NEW n \in 0 .. L PROVE SubSeq(all, 1, n) = SubSeq(bytes, 1, n)
    OBVIOUS
  <2>1. n \in Int /\ n <= Len(all) /\ n <= Len(bytes) /\ n - 1 + 1 = n
    BY <1>1
  <2>2. /\ SubSeq(all, 1, n) \in Seq(Nat) /\ Len(SubSeq(all, 1, n)) = n
        /\ \A i \in 1 .. n : SubSeq(all, 1, n)[i] = all[i]
    BY <1>1, <2>1
  <2>3. /\ SubSeq(bytes, 1, n) \in Seq(Nat) /\ Len(SubSeq(bytes, 1, n)) = n
        /\ \A i \in 1 .. n : SubSeq(bytes, 1, n)[i] = bytes[i]
    BY <1>1, <2>1
  <2>4. \A i \in 1 .. n : all[i] = bytes[i]
    BY <1>1
  <2> QED
    BY <2>2, <2>3, <2>4, SameSequence
<1>3. SubSeq(all, 1, L + 1) = all
  BY <1>1
<1>4. \A n \in 0 .. L + 1 : n \in 0 .. L \/ n = L + 1
  BY <1>1
<1>5. 0 .. L \subseteq 0 .. L + 1 /\ L + 1 \in 0 .. L + 1
  BY <1>1
<1>6. SomePrefixEndsWith(all, pattern) <=> \E n \in 0 .. L + 1 : EndsWith(SubSeq(all, 1, n), pattern)
  BY <1>1 DEF SomePrefixEndsWith
<1>7. SomePrefixEndsWith(bytes, pattern) <=> \E n \in 0 .. L : EndsWith(SubSeq(bytes, 1, n), pattern)
  BY DEF SomePrefixEndsWith
<1> HIDE DEF L
<1>8. (\E n \in 0 .. L + 1 : EndsWith(SubSeq(all, 1, n), pattern)) <=>
        (\E n \in 0 .. L : EndsWith(SubSeq(bytes, 1, n), pattern)) \/ EndsWith(all, pattern)
  BY <1>2, <1>3, <1>4, <1>5, Zenon
<1> QED
  BY <1>6, <1>7, <1>8 DEF all

LEMMA NothingInNothing ==
  ASSUME NEW pattern \in Seq(Nat), pattern # <<>>
  PROVE  ~SomePrefixEndsWith(<<>>, pattern)
<1>1. Len(pattern) > 0 /\ Len(<<>>) = 0
  OBVIOUS
<1>2. \A n \in 0 .. 0 : SubSeq(<<>>, 1, n) = <<>>
  OBVIOUS
<1>3. ~EndsWith(<<>>, pattern)
  BY <1>1 DEF EndsWith
<1> QED
  BY <1>1, <1>2, <1>3 DEF SomePrefixEndsWith

(* A console whose windows were just cleared has seen nothing.             *)
LEMMA NewConsoleOK == ConsoleOK(NewConsole, <<>>)
<1>1. StopPattern \in Seq(Nat) /\ ReplyPattern \in Seq(Nat)
  BY UartAssumption
<1>2. /\ NewConsole.stop_window = <<>> /\ NewConsole.reply_window = <<>> /\ NewConsole.stop = FALSE
      /\ NewConsole.armed = CanReply /\ NewConsole.replies = 0
  BY DEF NewConsole, CanReply
<1>3. \A pattern \in Seq(Nat) : WindowOf(<<>>, pattern, <<>>)
  BY DEF WindowOf
<1>4. <<>> \in Seq(Nat)
  OBVIOUS
<1>5. /\ StopPattern # <<>> => ~SomePrefixEndsWith(<<>>, StopPattern)
      /\ CanReply => ~SomePrefixEndsWith(<<>>, ReplyPattern)
  BY <1>1, NothingInNothing DEF CanReply
<1>6. CanReply \in BOOLEAN
  BY DEF CanReply
<1> QED
  BY <1>1, <1>2, <1>3, <1>4, <1>5, <1>6 DEF ConsoleOK

(* A byte sent.                                                            *)
LEMMA SentInv ==
  ASSUME UartInv, NEW byte \in Nat, console' = AfterTx(console, byte), uart_sent' = Append(uart_sent, byte)
  PROVE  UartInv'
<1> DEFINE stop_window == IF StopPattern = <<>> THEN console.stop_window
                          ELSE Slide(console.stop_window, StopPattern, byte)
           reply_window == IF console.armed THEN Slide(console.reply_window, ReplyPattern, byte)
                           ELSE console.reply_window
           answers == console.armed /\ reply_window = ReplyPattern
           all == Append(uart_sent, byte)
<1>1. StopPattern \in Seq(Nat) /\ ReplyPattern \in Seq(Nat) /\ uart_sent \in Seq(Nat)
  BY UartAssumption DEF UartInv, ConsoleOK
<1>2. /\ console'.stop_window = stop_window /\ console'.reply_window = reply_window
      /\ console'.armed = (console.armed /\ ~answers)
      /\ console'.stop = (console.stop \/ (StopPattern # <<>> /\ stop_window = StopPattern))
      /\ console'.replies = IF answers THEN console.replies + 1 ELSE console.replies
  BY DEF AfterTx
<1>3. all \in Seq(Nat)
  BY <1>1, AppendIs
<1>4. ASSUME StopPattern # <<>>
      PROVE  /\ WindowOf(stop_window, StopPattern, all)
             /\ stop_window = StopPattern <=> EndsWith(all, StopPattern)
  <2>1. WindowOf(stop_window, StopPattern, all)
    BY <1>1, <1>4, SlideKeeps DEF UartInv, ConsoleOK
  <2> HIDE DEF stop_window, all
  <2> QED
    BY <1>1, <1>3, <2>1, WindowMatches
<1>5. ASSUME console.armed
      PROVE  /\ WindowOf(reply_window, ReplyPattern, all)
             /\ reply_window = ReplyPattern <=> EndsWith(all, ReplyPattern)
  <2>1. WindowOf(reply_window, ReplyPattern, all)
    BY <1>1, <1>5, SlideKeeps DEF UartInv, ConsoleOK, CanReply
  <2> HIDE DEF reply_window, all
  <2> QED
    BY <1>1, <1>3, <2>1, WindowMatches
<1>6. \A pattern \in Seq(Nat) : SomePrefixEndsWith(all, pattern) <=>
                                  SomePrefixEndsWith(uart_sent, pattern) \/ EndsWith(all, pattern)
  BY <1>1, SomeAppend
<1> HIDE DEF stop_window, reply_window, all
<1>7. console'.stop \in BOOLEAN /\ console'.armed \in BOOLEAN
  BY <1>2 DEF UartInv, ConsoleOK
<1>8. console'.stop <=> StopPattern # <<>> /\ SomePrefixEndsWith(all, StopPattern)
  BY <1>1, <1>2, <1>4, <1>6 DEF UartInv, ConsoleOK
<1>9. console'.armed <=> CanReply /\ ~SomePrefixEndsWith(all, ReplyPattern)
  BY <1>1, <1>2, <1>5, <1>6 DEF UartInv, ConsoleOK
<1>10. console'.replies = IF CanReply /\ SomePrefixEndsWith(all, ReplyPattern) THEN 1 ELSE 0
  <2>1. CASE console.armed
    <3>1. console.replies = 0 /\ CanReply /\ ~SomePrefixEndsWith(uart_sent, ReplyPattern)
      BY <2>1 DEF UartInv, ConsoleOK
    <3>2. answers <=> SomePrefixEndsWith(all, ReplyPattern)
      BY <1>1, <1>5, <1>6, <2>1, <3>1
    <3> QED
      BY <1>2, <3>1, <3>2
  <2>2. CASE ~console.armed
    <3>1. console'.replies = console.replies
      BY <1>2, <2>2
    <3>2. CanReply => SomePrefixEndsWith(uart_sent, ReplyPattern) /\ SomePrefixEndsWith(all, ReplyPattern)
      BY <1>1, <1>6, <2>2 DEF UartInv, ConsoleOK
    <3> QED
      BY <3>1, <3>2 DEF UartInv, ConsoleOK
  <2> QED
    BY <2>1, <2>2
<1>11. uart_sent' = all
  BY DEF all
<1>12. CanReply' = CanReply
  BY DEF CanReply
<1>13. /\ StopPattern # <<>> => WindowOf(console'.stop_window, StopPattern, all)
       /\ console'.armed => WindowOf(console'.reply_window, ReplyPattern, all)
  BY <1>2, <1>4, <1>5
<1> QED
  BY <1>3, <1>7, <1>8, <1>9, <1>10, <1>11, <1>12, <1>13 DEF UartInv, ConsoleOK, CanReply

(* The windows recognise a pattern exactly when the bytes sent contain it, *)
(* for every pattern, also one that begins again inside itself, and a      *)
(* pattern that has an answer is answered once (on_uart_tx).               *)
THEOREM PatternsSeen == UartSpec => []ConsoleSeesPatterns
<1>1. UartInit => UartInv
  BY NewConsoleOK DEF UartInit, UartInv
<1>2. UartInv /\ [UartNext]_uart_vars => UartInv'
  <2> SUFFICES ASSUME UartInv, [UartNext]_uart_vars PROVE UartInv'
    OBVIOUS
  <2>1. CASE WriteDr
    <3>1. PICK byte \in UartBytes : console' = AfterTx(console, byte) /\ uart_sent' = Append(uart_sent, byte)
      BY <2>1 DEF WriteDr
    <3>2. byte \in Nat
      BY UartAssumption
    <3> QED
      BY <3>1, <3>2, SentInv
  <2>2. CASE UartRestored
    <3>1. console' = NewConsole /\ uart_sent' = <<>>
      BY <2>2 DEF UartRestored
    <3> QED
      BY <3>1, NewConsoleOK DEF UartInv
  <2>3. CASE UNCHANGED <<console, uart_sent>>
    BY <2>3 DEF UartInv, ConsoleOK, CanReply, WindowOf
  <2> QED
    BY <2>1, <2>2, <2>3 DEF UartNext, HostTypes, DriverHandles, ReadDr, WriteIcr, WriteCr, WriteImsc,
                            DriverListens, uart_vars
<1>3. UartInv => ConsoleSeesPatterns
  BY DEF UartInv, ConsoleOK, ConsoleSeesPatterns, CanReply
<1> QED
  BY <1>1, <1>2, <1>3, PTL DEF UartSpec

-----------------------------------------------------------------------------
(* Software step: a step executes an instruction before it comes back, and *)
(* with interrupts masked no more than one.  Both rest on what PSTATE.SS,  *)
(* or its copy in SPSR_EL1 while the kernel runs, says of an armed step:   *)
(* it is still set as long as no instruction has completed, and clear once *)
(* one has.                                                                *)

Pstate == [el : {0, 1}, ss : BOOLEAN, i : BOOLEAN]

\* PSTATE.SS as the program has it, or will have it again.
ProgramSs == IF InEl0 THEN pstate.ss ELSE spsr.ss

StepTypeOK ==
  /\ mdscr_ss \in BOOLEAN /\ locked \in BOOLEAN
  /\ pstate \in Pstate /\ spsr \in Pstate
  /\ known \in BOOLEAN /\ pending \in BOOLEAN /\ armed \in BOOLEAN
  /\ done \in 0 .. 2

\* A step that has executed nothing is still to be executed.
StillArmed == armed /\ mdscr_ss /\ done = 0 => ProgramSs

\* A masked step that has executed an instruction is over.
StepOver == armed /\ ProgramMasks /\ done >= 1 => ~ProgramSs /\ done = 1

StepInv == StepTypeOK /\ StillArmed /\ StepOver

-----------------------------------------------------------------------------

\* The program runs when it is not stepping or PSTATE.SS is set
\* (maybe_take_software_step_before_instruction).
LEMMA RunningStep ==
  ASSUME StepInv, Runs
  PROVE  /\ StepActive => pstate.ss
         /\ ~StepActive \/ StepActiveNotPending
         /\ ProgramSs = pstate.ss
         /\ ProgramMasks => ~LooksInVain
BY DEF StepInv, StepTypeOK, Pstate, Runs, StepActive, StepActivePending,
       StepActiveNotPending, ProgramSs, ProgramMasks, InEl0, LooksInVain, Looks

\* Entry to an exception keeps the program's mask, and its PSTATE.SS as `saved'.
LEMMA EnterKeeps ==
  ASSUME StepInv, InEl0, NEW what, NEW saved \in BOOLEAN, Enter(what, saved)
  PROVE  /\ pstate' \in Pstate /\ spsr' \in Pstate
         /\ ~InEl0' /\ ProgramSs' = saved /\ ProgramMasks' = ProgramMasks
BY DEF StepInv, StepTypeOK, Pstate, Enter, ProgramSs, ProgramMasks, InEl0

\* The invariant holds when the kernel starts.
LEMMA StepInit == Init => StepInv
<1> SUFFICES ASSUME Init PROVE StepInv
  OBVIOUS
<1>1. PICK ss \in BOOLEAN, i \in UserIrqMask : spsr = [el |-> 0, ss |-> ss, i |-> i]
  BY DEF Init
<1>2. spsr \in Pstate /\ pstate \in Pstate
  BY <1>1, UserIrqMaskAssumption DEF Init, Pstate
<1>3. 0 \in 0 .. 2
  OBVIOUS
<1>4. mdscr_ss \in BOOLEAN /\ locked \in BOOLEAN /\ done = 0
  BY DEF Init
<1>5. known = FALSE /\ pending = FALSE /\ armed = FALSE
  BY DEF Init
<1>6. known \in BOOLEAN /\ pending \in BOOLEAN /\ armed \in BOOLEAN /\ ~armed
  BY <1>5
<1>7. done \in 0 .. 2
  BY <1>3, <1>4
<1> QED
  BY <1>2, <1>4, <1>6, <1>7, Zenon DEF StepInv, StepTypeOK, StillArmed, StepOver

\* Every call of step(), and everything the kernel does, keeps the invariant.
LEMMA StepNext ==
  ASSUME StepInv, [Next]_vars
  PROVE  StepInv'
<1> USE DEF StepInv
<1>1. CASE UNCHANGED vars
  BY <1>1 DEF vars, StepTypeOK, StillArmed, StepOver, ProgramSs, ProgramMasks, InEl0
<1>2. CASE StepIrq
  <2>1. pstate.ss \in BOOLEAN /\ ProgramSs = pstate.ss
    BY <1>2 DEF StepIrq, StepTypeOK, Pstate, ProgramSs
  <2>2. /\ pstate' \in Pstate /\ spsr' \in Pstate
        /\ ProgramSs' = ProgramSs /\ ProgramMasks' = ProgramMasks
    BY <1>2, <2>1, EnterKeeps DEF StepIrq
  <2> QED
    BY <1>2, <2>2 DEF StepIrq, StepTypeOK, StillArmed, StepOver
<1>3. CASE StepBefore
  <2>1. pstate.ss \in BOOLEAN /\ ProgramSs = pstate.ss
    BY <1>3 DEF StepBefore, StepTypeOK, Pstate, ProgramSs
  <2>2. /\ pstate' \in Pstate /\ spsr' \in Pstate
        /\ ProgramSs' = ProgramSs /\ ProgramMasks' = ProgramMasks
    BY <1>3, <2>1, EnterKeeps DEF StepBefore
  <2>3. known' \in BOOLEAN
    BY <1>3 DEF StepBefore, AfterLook
  <2> QED
    BY <1>3, <2>2, <2>3 DEF StepBefore, StepTypeOK, StillArmed, StepOver
<1>4. CASE Plain
  <2>0. Runs /\ InEl0 /\ known' \in BOOLEAN
    BY <1>4 DEF Plain, Runs, AfterLook
  <2>1. CASE Completes
    <3>1. Enter("step", FALSE) /\ StepActive /\ pstate.ss
      BY <1>4, <2>1 DEF Plain, Completes, StepActiveNotPending
    <3>2. /\ pstate' \in Pstate /\ spsr' \in Pstate
          /\ ProgramSs' = FALSE /\ ProgramMasks' = ProgramMasks
      BY <2>0, <3>1, EnterKeeps
    <3>3. done' = (IF done < 2 THEN done + 1 ELSE done)
      BY <1>4, <3>1 DEF Plain, Completed
    <3>4. ProgramSs
      BY <2>0, <3>1 DEF ProgramSs
    <3> QED
      BY <1>4, <2>0, <3>2, <3>3, <3>4 DEF Plain, StepTypeOK, StillArmed, StepOver
  <2>2. CASE ~Completes
    <3>1. UNCHANGED <<pstate, spsr>>
      BY <1>4, <2>2 DEF Plain
    <3>2. ProgramSs' = ProgramSs /\ ProgramMasks' = ProgramMasks /\ InEl0'
      BY <2>0, <3>1 DEF ProgramSs, ProgramMasks, InEl0
    <3>3. ProgramMasks => ~StepActive
      BY <2>0, <2>2, RunningStep DEF Completes
    <3>4. done' = IF ~StepActive THEN done ELSE IF done < 2 THEN done + 1 ELSE done
      BY <1>4 DEF Plain, Completed
    <3> QED
      BY <1>4, <2>0, <3>1, <3>2, <3>3, <3>4 DEF Plain, StepTypeOK, StillArmed, StepOver
  <2> QED
    BY <2>1, <2>2
<1>5. CASE Svc
  <2>0. Runs /\ InEl0 /\ known' \in BOOLEAN
    BY <1>5 DEF Svc, Runs, AfterLook
  <2>1. SavedSs("svc") \in BOOLEAN /\ (StepActive => ~SavedSs("svc"))
        /\ (~StepActive => SavedSs("svc") = pstate.ss)
    BY <2>0, RunningStep DEF SavedSs, StepActiveNotPending, StepTypeOK, Pstate
  <2>2. /\ pstate' \in Pstate /\ spsr' \in Pstate
        /\ ProgramSs' = SavedSs("svc") /\ ProgramMasks' = ProgramMasks
    BY <1>5, <2>0, <2>1, EnterKeeps DEF Svc
  <2>3. done' = IF ~StepActive THEN done ELSE IF done < 2 THEN done + 1 ELSE done
    BY <1>5 DEF Svc, Completed
  <2>4. ProgramSs = pstate.ss /\ (StepActive => pstate.ss)
    BY <2>0, RunningStep
  <2> QED
    BY <1>5, <2>0, <2>1, <2>2, <2>3, <2>4 DEF Svc, StepTypeOK, StillArmed, StepOver
<1>6. CASE Abort
  <2>0. Runs /\ InEl0 /\ known' \in BOOLEAN
    BY <1>6 DEF Abort, Runs, AfterLook
  <2>1. SavedSs("abort") = pstate.ss /\ pstate.ss \in BOOLEAN
    BY <2>0, RunningStep DEF SavedSs, StepActiveNotPending, StepTypeOK, Pstate
  <2>2. /\ pstate' \in Pstate /\ spsr' \in Pstate
        /\ ProgramSs' = pstate.ss /\ ProgramMasks' = ProgramMasks
    BY <1>6, <2>0, <2>1, EnterKeeps DEF Abort
  <2>3. ProgramSs = pstate.ss
    BY <2>0, RunningStep
  <2> QED
    BY <1>6, <2>0, <2>2, <2>3 DEF Abort, StepTypeOK, StillArmed, StepOver
<1>7. ASSUME NEW on \in BOOLEAN, WriteMdscr(on)
      PROVE  StepInv'
  <2>1. 0 \in 0 .. 2
    OBVIOUS
  <2>2. ~armed' /\ armed' \in BOOLEAN /\ done' \in 0 .. 2 /\ mdscr_ss' \in BOOLEAN
    BY <1>7, <2>1, Zenon DEF WriteMdscr
  <2>3. UNCHANGED <<locked, pstate, spsr, known, pending>>
    BY <1>7 DEF WriteMdscr
  <2> QED
    BY <2>2, <2>3, Zenon DEF StepTypeOK, StillArmed, StepOver
<1>8. ASSUME NEW on \in BOOLEAN, WriteOsLock(on)
      PROVE  StepInv'
  BY <1>8 DEF WriteOsLock, StepTypeOK, StillArmed, StepOver, ProgramSs, ProgramMasks, InEl0
<1>9. CASE Arm
  BY <1>9 DEF Arm, StepTypeOK, Pstate, StillArmed, StepOver, ProgramSs, ProgramMasks, InEl0
<1>10. CASE Eret
  <2>1. pstate'.el = spsr.el /\ pstate'.i = spsr.i /\ pstate'.ss = (mdscr_ss /\ spsr.ss)
    BY <1>10 DEF Eret, StepTypeOK, Pstate
  <2>2. pstate' \in Pstate
    BY <1>10 DEF Eret, StepTypeOK, Pstate
  <2>3. ~InEl0 /\ spsr' = spsr /\ UNCHANGED <<mdscr_ss, locked, known, pending, armed, done>>
    BY <1>10 DEF Eret
  <2>4. ProgramMasks' = ProgramMasks /\ ProgramSs \in BOOLEAN /\ ProgramSs = spsr.ss
    BY <2>1, <2>3 DEF ProgramMasks, ProgramSs, InEl0, StepTypeOK, Pstate
  <2>5. (ProgramSs' => ProgramSs) /\ (mdscr_ss /\ ProgramSs => ProgramSs')
    BY <2>1, <2>3 DEF ProgramSs, InEl0
  <2> QED
    BY <2>2, <2>3, <2>4, <2>5 DEF StepTypeOK, StillArmed, StepOver
<1>11. CASE ControllerChanges
  BY <1>11 DEF ControllerChanges, StepTypeOK, StillArmed, StepOver, ProgramSs, ProgramMasks, InEl0
<1> QED
  BY <1>1, <1>2, <1>3, <1>4, <1>5, <1>6, <1>7, <1>8, <1>9, <1>10, <1>11 DEF Next

\* The inductive invariant holds in every reachable state.
THEOREM StepInvariant == Spec => []StepInv
<1>1. StepInv /\ [Next]_vars => StepInv'
  BY StepNext
<1> QED
  BY <1>1, StepInit, PTL DEF Spec

(* In a program that masks interrupts a software step executes no second   *)
(* instruction, whatever faults, system calls and lock changes intervene   *)
(* (cpu.cpp, complete_software_step_after_instruction).                    *)
THEOREM MaskedStepCorrect == Spec => []MaskedStepsOne
<1>1. StepInv => MaskedStepsOne
  BY DEF StepInv, StepOver, StepTypeOK, MaskedStepsOne, StepsOne
<1> QED
  BY <1>1, StepInvariant, PTL

(* The step exception is taken only after an instruction has completed,    *)
(* masked or not: neither interrupts nor faults use a step up (cpu.cpp,    *)
(* captured_pstate_for_sync_exception, try_take_irq).                      *)
THEOREM NoEmptyStepCorrect == Spec => NoEmptyStep
<1>1. ASSUME StepInv, [Next]_vars
      PROVE  [armed /\ InEl0 /\ ~InEl0' /\ cause' = "step" => done' >= 1]_vars
  <2> SUFFICES ASSUME Next, armed, InEl0, ~InEl0', cause' = "step"
               PROVE  done' >= 1
    BY <1>1
  <2>1. done \in 0 .. 2
    BY <1>1 DEF StepInv, StepTypeOK
  <2>2. CASE StepBefore
    <3>1. mdscr_ss /\ ~ProgramSs /\ done' = done
      BY <2>2 DEF StepBefore, StepActivePending, StepActive, ProgramSs
    <3> QED
      BY <1>1, <2>1, <3>1 DEF StepInv, StillArmed
  <2>3. CASE Plain
    <3>1. Completes
      BY <2>3 DEF Plain, InEl0
    <3>2. StepActive
      BY <3>1 DEF Completes, StepActiveNotPending
    <3> QED
      BY <2>1, <2>3, <3>2 DEF Plain, Completed
  <2>4. ~StepIrq /\ ~Svc /\ ~Abort
    BY DEF StepIrq, Svc, Abort, Enter
  <2>5. ~Arm /\ ~Eret /\ ~ControllerChanges /\ \A on \in BOOLEAN : ~WriteMdscr(on) /\ ~WriteOsLock(on)
    BY DEF Arm, Eret, ControllerChanges, WriteMdscr, WriteOsLock, InEl0
  <2> QED
    BY <2>2, <2>3, <2>4, <2>5 DEF Next
<1> QED
  BY <1>1, StepInvariant, PTL DEF Spec, NoEmptyStep
=============================================================================
