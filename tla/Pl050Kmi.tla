------------------------------ MODULE Pl050Kmi ------------------------------
(***************************************************************************)
(* The keyboard port of src/src/pl050_kmi.cpp: a PS/2 keyboard that sends  *)
(* key codes on its own and answers the bytes the host writes, both        *)
(* through one queue, which is emptied when the port is disabled.          *)
(***************************************************************************)
EXTENDS Integers, Sequences

CONSTANTS
  Keys,           \* key codes from the window (inject_rx)
  KmiLimit,       \* kMaxRxFifo
  Commands        \* the bytes the host writes to DATA

\* How a byte reads as a command; "00" to "03" are also scan set numbers.
KnownCommands ==
  {"ED", "EE", "F0", "F2", "F3", "F4", "F5", "F6", "F8", "FA", "EA", "E8", "FE", "FF"}
ScanSets == {"01", "02", "03"}

VARIABLES
  kmi,            \* the device
  kmi_told,       \* irq_pending when the observer was last called
  kmi_owed,       \* an enabled port was given a byte and nothing was taken or emptied since
  kmi_resets      \* FF bytes written in a row to the enabled port

kmi_vars == <<kmi, kmi_told, kmi_owed, kmi_resets>>

ResetDefaults(k) == [k EXCEPT !.scan_set = "02", !.scanning = TRUE, !.pending = "None"]

PowerOnKmi ==
  ResetDefaults([rx_fifo |-> <<>>, cr |-> {}, last_tx |-> "00", scan_set |-> "02",
                 scanning |-> TRUE, pending |-> "None"])

KmiIrqPending(k) == {"en", "rxintr"} \subseteq k.cr /\ k.rx_fifo # <<>>

\* A disabled port holds nothing.
KmiUpdate(k) == IF "en" \in k.cr THEN k ELSE [k EXCEPT !.rx_fifo = <<>>]

QueueResponse(k, byte) ==
  KmiUpdate([k EXCEPT !.rx_fifo = IF Len(@) < KmiLimit THEN Append(@, byte) ELSE @])

\* The byte completes a command that takes an argument.
TakeArgument(k, byte) ==
  LET acked == QueueResponse([k EXCEPT !.pending = "None"], "FA")
  IN  IF k.pending # "SetScanSet" THEN acked
      ELSE IF byte = "00" THEN QueueResponse(acked, k.scan_set)
      ELSE IF byte \in ScanSets THEN [acked EXCEPT !.scan_set = byte]
      ELSE acked

Await(k, command) == QueueResponse([k EXCEPT !.pending = command], "FA")

TakeCommand(k, byte) ==
  CASE byte = "ED" -> Await(k, "SetLeds")
    [] byte = "F0" -> Await(k, "SetScanSet")
    [] byte = "F3" -> Await(k, "SetTypematic")
    [] byte \in {"EA", "E8"} -> Await(k, "SetAllLeds")
    [] byte \in {"F8", "FA"} -> Await(k, "None")
    [] byte = "EE" -> QueueResponse(k, "EE")
    [] byte = "F2" -> QueueResponse(QueueResponse(QueueResponse(k, "FA"), "AB"), "83")
    [] byte = "F4" -> QueueResponse([k EXCEPT !.scanning = TRUE], "FA")
    [] byte = "F5" -> QueueResponse([ResetDefaults(k) EXCEPT !.scanning = FALSE], "FA")
    [] byte = "F6" -> QueueResponse(ResetDefaults(k), "FA")
    [] byte = "FE" -> QueueResponse(k, IF k.last_tx = "00" THEN "FE" ELSE k.last_tx)
    [] byte = "FF" -> QueueResponse(QueueResponse(ResetDefaults(k), "FA"), "AA")
    [] OTHER -> QueueResponse(k, "FA")

\* Mutant: an argument is not acknowledged.
ProcessHostByte_SilentArgument(k, byte) ==
  IF "en" \notin k.cr THEN k
  ELSE IF k.pending # "None" THEN [k EXCEPT !.pending = "None"]
  ELSE TakeCommand(k, byte)

ProcessHostByte(k, byte) ==
  IF "en" \notin k.cr THEN k
  ELSE IF k.pending # "None" THEN TakeArgument(k, byte)
  ELSE TakeCommand(k, byte)

-----------------------------------------------------------------------------

KmiInit == kmi = PowerOnKmi /\ kmi_told = FALSE /\ kmi_owed = FALSE /\ kmi_resets = 0

KmiObserved(k) == kmi' = k /\ kmi_told' = KmiIrqPending(k)

\* A key is pressed or released (inject_ps2_rx).
PressKey ==
  /\ kmi.scanning
  /\ \E key \in Keys : KmiObserved(QueueResponse(kmi, key))
  /\ UNCHANGED <<kmi_owed, kmi_resets>>

ReadKmiData ==
  /\ kmi.rx_fifo # <<>>
  /\ KmiObserved(KmiUpdate([kmi EXCEPT !.rx_fifo = Tail(@)]))
  /\ kmi_owed' = FALSE
  /\ UNCHANGED kmi_resets

\* A full queue has no room for the answer.
WriteKmiData ==
  \E byte \in Commands :
    /\ KmiObserved(ProcessHostByte([kmi EXCEPT !.last_tx = byte], byte))
    /\ kmi_owed' = (kmi_owed \/ ("en" \in kmi.cr /\ Len(kmi.rx_fifo) < KmiLimit))
    /\ kmi_resets' = IF byte = "FF" /\ "en" \in kmi.cr THEN IF kmi_resets = 2 THEN 2 ELSE kmi_resets + 1
                     ELSE 0

WriteKmiCr ==
  \E cr \in SUBSET {"en", "rxintr"} :
    /\ KmiObserved(KmiUpdate([kmi EXCEPT !.cr = cr]))
    /\ kmi_owed' = (kmi_owed /\ "en" \in cr)
    /\ UNCHANGED kmi_resets

\* load_state: the saved fields, and the line told again.
KmiRestored == KmiObserved(KmiUpdate(kmi)) /\ UNCHANGED <<kmi_owed, kmi_resets>>

\* A snapshot older than the keyboard: load_snapshot resets it and syncs every line.
KmiReset ==
  /\ KmiObserved(PowerOnKmi)
  /\ kmi_owed' = FALSE /\ kmi_resets' = 0

KmiNext == PressKey \/ ReadKmiData \/ WriteKmiData \/ WriteKmiCr \/ KmiRestored \/ KmiReset

KmiSpec == KmiInit /\ [][KmiNext]_kmi_vars

-----------------------------------------------------------------------------
(* Properties                                                              *)

Answers == {"FA", "EE", "AB", "83", "AA", "FE"} \cup Commands

(* A driver and the keyboard stay in step.  The line the SoC last saw is   *)
(* the line as it is, and after a byte to the enabled port an answer waits *)
(* in the queue, behind or between key codes, until the host takes a byte: *)
(* a driver that enabled the interrupt is called for it.  And two resets   *)
(* in a row bring the keyboard back to its defaults whatever command was   *)
(* half sent: the first may be taken as an argument, the second is not     *)
(* (process_host_byte, queue_response).                                    *)
KmiStaysInStep ==
  /\ kmi_told = KmiIrqPending(kmi)
  /\ kmi_owed => /\ \E i \in DOMAIN kmi.rx_fifo : kmi.rx_fifo[i] \in Answers
                 /\ "rxintr" \in kmi.cr => kmi_told
  /\ kmi_resets = 2 => kmi.pending = "None" /\ kmi.scanning /\ kmi.scan_set = "02"
=============================================================================
