------------------------------ MODULE RtcPl031 ------------------------------
(***************************************************************************)
(* The clock of src/src/rtc_pl031.cpp: guest time is host time plus an     *)
(* offset while the clock is enabled and a frozen value while it is not.   *)
(* The alarm is only looked at when a register is read or written, so it   *)
(* may come due some time before the device notices.                       *)
(***************************************************************************)
EXTENDS Integers

CONSTANTS
  RtcModulus,     \* 2^32, the width of the registers
  RtcTimes,       \* the values the guest writes to MR and LR
  MaxHostTime     \* bound on host time

ASSUME RtcAssumption ==
  /\ RtcModulus \in Nat \ {0}
  /\ RtcTimes \subseteq 0 .. RtcModulus - 1
  /\ MaxHostTime \in Nat

VARIABLES
  rtc,            \* the device
  host_now,       \* host_now_seconds
  rtc_due         \* the alarm came due since the guest last wrote a register and
                  \* the clock last wrapped

rtc_vars == <<rtc, host_now, rtc_due>>

CurrentSeconds(r, t) == IF r.enabled THEN (t + r.offset) % RtcModulus ELSE r.frozen

Due(r, t) == r.alarm_armed /\ r.enabled /\ CurrentSeconds(r, t) >= r.match

\* Mutant: the alarm only rings in its own second.
RefreshAlarm_Exact(r, t) ==
  IF r.raw_pending \/ ~Due(r, t) \/ CurrentSeconds(r, t) # r.match THEN r
  ELSE [r EXCEPT !.raw_pending = TRUE, !.alarm_armed = FALSE]

RefreshAlarm(r, t) ==
  IF r.raw_pending \/ ~Due(r, t) THEN r
  ELSE [r EXCEPT !.raw_pending = TRUE, !.alarm_armed = FALSE]

WriteMr(r, t, value) ==
  RefreshAlarm([r EXCEPT !.match = value, !.raw_pending = FALSE, !.alarm_armed = TRUE], t)

WriteLr(r, t, value) ==
  RefreshAlarm(IF r.enabled THEN [r EXCEPT !.offset = value - t] ELSE [r EXCEPT !.frozen = value], t)

\* Mutant: the clock is stopped without noting where.
WriteRtcCr_NotFrozen(r, t, enable) ==
  RefreshAlarm(IF ~r.enabled /\ enable THEN [r EXCEPT !.offset = r.frozen - t, !.enabled = enable]
               ELSE [r EXCEPT !.enabled = enable], t)

WriteRtcCr(r, t, enable) ==
  RefreshAlarm(CASE r.enabled /\ ~enable -> [r EXCEPT !.frozen = CurrentSeconds(r, t), !.enabled = enable]
                 [] ~r.enabled /\ enable -> [r EXCEPT !.offset = r.frozen - t, !.enabled = enable]
                 [] OTHER -> r, t)

WriteRtcIcr(r) == [r EXCEPT !.raw_pending = FALSE, !.alarm_armed = FALSE]

-----------------------------------------------------------------------------

PowerOnRtc == [offset |-> 0, match |-> 0, enabled |-> TRUE, frozen |-> 0,
               raw_pending |-> FALSE, alarm_armed |-> FALSE]

RtcInit == rtc = PowerOnRtc /\ host_now = 0 /\ rtc_due = FALSE

RtcTick ==
  /\ host_now < MaxHostTime
  /\ host_now' = host_now + 1
  /\ rtc_due' = \/ Due(rtc, host_now')
                \/ rtc_due /\ CurrentSeconds(rtc, host_now') >= CurrentSeconds(rtc, host_now)
  /\ UNCHANGED rtc

\* Any read; the guest sees what it leaves.
ReadRtc == rtc' = RefreshAlarm(rtc, host_now) /\ UNCHANGED <<host_now, rtc_due>>

WriteRtc ==
  /\ \/ \E value \in RtcTimes : rtc' = WriteMr(rtc, host_now, value)
     \/ \E value \in RtcTimes : rtc' = WriteLr(rtc, host_now, value)
     \/ \E enable \in BOOLEAN : rtc' = WriteRtcCr(rtc, host_now, enable)
     \/ rtc' = WriteRtcIcr(rtc)
  /\ rtc_due' = (Due(rtc', host_now) \/ rtc'.raw_pending)
  /\ UNCHANGED host_now

\* A snapshot is loaded, now or later: the host's clock has gone on (load_state).
LoadRtc ==
  \E later \in host_now .. MaxHostTime :
    /\ host_now' = later
    /\ rtc' = RefreshAlarm(rtc, later)
    /\ rtc_due' = rtc'.raw_pending

RtcNext == RtcTick \/ ReadRtc \/ WriteRtc \/ LoadRtc

RtcSpec == RtcInit /\ [][RtcNext]_rtc_vars

-----------------------------------------------------------------------------
(* Properties                                                              *)

(* The guest's clock never jumps: it follows host time, second by second   *)
(* across stops, starts, snapshots and 2^32, and stands while it is        *)
(* stopped; only a write of LR sets it (current_seconds, the CR and LR     *)
(* writes).                                                                *)
RtcTimeContinuous ==
  [][LET before == CurrentSeconds(rtc, host_now)
         after  == CurrentSeconds(rtc', host_now')
     IN  \/ after = (before + (IF rtc.enabled THEN host_now' - host_now ELSE 0)) % RtcModulus
         \/ \E value \in RtcTimes : WriteLr(rtc, host_now, value) = rtc']_rtc_vars

(* An alarm that came due is seen by the next read, however late, if the   *)
(* clock did not wrap and was not stopped, set or its alarm rewritten in   *)
(* between (refresh_alarm_state on every read).                            *)
RtcAlarmSeen == rtc_due /\ rtc.enabled => RefreshAlarm(rtc, host_now).raw_pending

=============================================================================
