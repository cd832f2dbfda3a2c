----------------------------- MODULE PerfMailbox -----------------------------
(***************************************************************************)
(* The measuring mailbox of src/src/perf_mailbox.cpp and the session the   *)
(* SoC keeps for it (perf_begin, perf_end, save_snapshot, load_snapshot    *)
(* and reset in src/src/soc.cpp).  Two counters stand for the many: steps, *)
(* which a snapshot carries, and events, which every load starts at zero.  *)
(* The case and argument registers are only stored and printed.            *)
(***************************************************************************)
EXTENDS Integers

CONSTANTS
  HalfModulus,    \* 2^32: registers are written in halves
  HalfValues,     \* the halves the guest writes
  MaxCount        \* bound on the counters and on what one session counts

VARIABLES
  mailbox,        \* the device
  session,        \* perf_session_
  counters,       \* collect_perf_counters
  measured        \* what has happened since the session began

perf_vars == <<mailbox, session, counters, measured>>

Zero == [steps |-> 0, events |-> 0]
Plus(a, b)  == [steps |-> a.steps + b.steps, events |-> a.events + b.events]
Minus(a, b) == [steps |-> a.steps - b.steps, events |-> a.events - b.events]

EmptyMailbox == [status |-> 0, result |-> Zero]
NoSession    == [active |-> FALSE, accumulated |-> Zero, start |-> Zero]

\* The status of an unknown command.
Dead == 5

\* A write of half of CTRL, which reads as zero, is that half alone.
CtrlValue(half, value) == IF half = "low" THEN value ELSE value * HalfModulus

PerfBegin ==
  /\ mailbox' = [mailbox EXCEPT !.status = 1]
  /\ session' = [active |-> TRUE, accumulated |-> Zero, start |-> counters]
  /\ measured' = Zero
  /\ UNCHANGED counters

PerfResult(s, now) == IF s.active THEN Plus(s.accumulated, Minus(now, s.start)) ELSE Zero

PerfEnd ==
  /\ mailbox' = [mailbox EXCEPT !.status = 2, !.result = PerfResult(session, counters)]
  /\ session' = [session EXCEPT !.active = FALSE]
  /\ measured' = Zero
  /\ UNCHANGED counters

\* Exit, flush and unknown commands leave the measurement alone.
OtherCommand ==
  /\ \E status \in {3, 4, Dead} : mailbox' = [mailbox EXCEPT !.status = status]
  /\ UNCHANGED <<session, counters, measured>>

WriteCtrl ==
  \E half \in {"low", "high"}, value \in HalfValues :
    CASE CtrlValue(half, value) = 1 -> PerfBegin
      [] CtrlValue(half, value) = 2 -> PerfEnd
      [] OTHER -> OtherCommand

\* The machine does something that is counted.
Count ==
  \E what \in {"steps", "events"} :
    /\ counters[what] < MaxCount /\ measured[what] < MaxCount
    /\ counters' = [counters EXCEPT ![what] = @ + 1]
    /\ measured' = IF session.active THEN [measured EXCEPT ![what] = @ + 1] ELSE measured
    /\ UNCHANGED <<mailbox, session>>

\* Mutant: the session goes on from the counters it began with.
SaveAndLoadPerf_StartKept ==
  /\ counters' = [counters EXCEPT !.events = 0]
  /\ session' = IF session.active
                THEN [session EXCEPT !.accumulated = Plus(@, Minus(counters, session.start))]
                ELSE NoSession
  /\ UNCHANGED <<mailbox, measured>>

\* save_snapshot adds what was counted so far to a copy of the session, and
\* load_snapshot starts the counters but the steps again, and the session with them.
SaveAndLoadPerf ==
  /\ counters' = [counters EXCEPT !.events = 0]
  /\ session' = IF session.active
                THEN [session EXCEPT !.accumulated = Plus(@, Minus(counters, session.start)),
                                     !.start = counters']
                ELSE NoSession
  /\ UNCHANGED <<mailbox, measured>>

ResetPerf ==
  /\ mailbox' = EmptyMailbox /\ session' = NoSession /\ counters' = Zero /\ measured' = Zero

PerfInit ==
  /\ mailbox = EmptyMailbox /\ session = NoSession /\ counters = Zero /\ measured = Zero

PerfNext == WriteCtrl \/ Count \/ SaveAndLoadPerf \/ ResetPerf

PerfSpec == PerfInit /\ [][PerfNext]_perf_vars

-----------------------------------------------------------------------------
(* Properties                                                              *)

(* A measurement reports exactly what the machine did between its begin    *)
(* and its end, also when it was saved in between and finished, from the   *)
(* snapshot, more than once; an end without a begin reports nothing        *)
(* (perf_end, load_snapshot).                                              *)
PerfMeasuresSession == PerfResult(session, counters) = measured
=============================================================================
