----------------------------- MODULE UartPl011 -----------------------------
(***************************************************************************)
(* The serial port of src/src/uart_pl011.cpp, the console hooks the SoC    *)
(* hangs on its transmitter (on_uart_tx in src/src/soc.cpp), and a guest   *)
(* driver that reads bytes only when the interrupt line calls it.          *)
(*                                                                         *)
(* Left out: registers that are stored and read back without effect        *)
(* (IBRD, FBRD, LCRH, IFLS, DMACR), identification, counters and traces.   *)
(***************************************************************************)
EXTENDS Integers, Sequences
LOCAL INSTANCE SequencesExt

CONSTANTS
  UartBytes,      \* the bytes that travel
  FifoLimit,      \* 1024
  StopPattern,    \* stop_on_uart_pattern_
  ReplyPattern,   \* uart_tx_match_pattern_
  ReplyText,      \* uart_tx_match_reply_text_
  MaxTyped,       \* bound on the bytes the host types, replies included
  MaxSent         \* bound on the bytes the guest sends

ASSUME UartAssumption ==
  UartBytes \subseteq Nat /\ {StopPattern, ReplyPattern, ReplyText} \subseteq Seq(Nat)

VARIABLES
  uart,           \* the device
  uart_told,      \* irq_pending when the observer was last called
  console,        \* the SoC's windows over the bytes sent, and what they did
  uart_typed,     \* bytes the host has typed, replies included
  uart_sent       \* bytes the guest has sent since the windows were cleared

uart_vars == <<uart, uart_told, console, uart_typed, uart_sent>>

UartIrqPending(u) == u.ris \cap u.imsc # {}

\* Every path that may move the line ends here and calls the observer.
UpdateInterruptState(u) ==
  [u EXCEPT !.ris = (@ \ {"rx", "rt"}) \cup
                    (IF {"uart", "rx"} \subseteq u.cr /\ u.rx_fifo # <<>> THEN {"rx", "rt"} ELSE {})]

InjectRx(u, byte) ==
  UpdateInterruptState([u EXCEPT !.rx_fifo = IF Len(@) < FifoLimit THEN Append(@, byte) ELSE @])

\* Mutant: a full window is started again.
Slide_Restarts(window, pattern, byte) ==
  IF Len(window) = Len(pattern) THEN <<byte>> ELSE Append(window, byte)

\* The last Len(pattern) bytes sent.
Slide(window, pattern, byte) ==
  LET grown == Append(window, byte)
  IN  IF Len(grown) > Len(pattern) THEN SubSeq(grown, Len(grown) - Len(pattern) + 1, Len(grown))
      ELSE grown

NewConsole ==
  [stop_window |-> <<>>, reply_window |-> <<>>, armed |-> ReplyPattern # <<>> /\ ReplyText # <<>>,
   stop |-> FALSE, replies |-> 0]

\* on_uart_tx: the stop pattern, then the pattern that is answered once.
AfterTx(c, byte) ==
  LET stop_window  == IF StopPattern = <<>> THEN c.stop_window ELSE Slide(c.stop_window, StopPattern, byte)
      reply_window == IF c.armed THEN Slide(c.reply_window, ReplyPattern, byte) ELSE c.reply_window
      answers      == c.armed /\ reply_window = ReplyPattern
  IN  [stop_window  |-> stop_window,
       reply_window |-> reply_window,
       armed        |-> c.armed /\ ~answers,
       stop         |-> c.stop \/ (StopPattern # <<>> /\ stop_window = StopPattern),
       replies      |-> IF answers THEN c.replies + 1 ELSE c.replies]

InjectAll(text, u) == FoldLeft(InjectRx, u, text)

-----------------------------------------------------------------------------

PowerOnUart == [rx_fifo |-> <<>>, cr |-> {"uart", "rx"}, imsc |-> {}, ris |-> {}]

UartInit == uart = PowerOnUart /\ uart_told = FALSE /\ console = NewConsole
            /\ uart_typed = 0 /\ uart_sent = <<>>

\* The device changes and its observer looks at the line.
Observed(u) == uart' = u /\ uart_told' = UartIrqPending(u)

\* The host types a byte (inject_uart_rx).
HostTypes ==
  /\ uart_typed < MaxTyped
  /\ uart_typed' = uart_typed + 1
  /\ \E byte \in UartBytes : Observed(InjectRx(uart, byte))
  /\ UNCHANGED <<console, uart_sent>>

\* A read of DR from the handler, which the line has called.
ReadDr ==
  /\ uart.rx_fifo # <<>> /\ Observed(UpdateInterruptState([uart EXCEPT !.rx_fifo = Tail(@)]))
  /\ UNCHANGED <<console, uart_typed, uart_sent>>

DriverHandles == uart_told /\ ReadDr

\* Mutant: the acknowledged bits stay clear until the next byte.
WriteIcr_Forgets ==
  /\ \E bits \in SUBSET {"rx", "rt"} :
       LET u == [uart EXCEPT !.ris = @ \ bits] IN uart' = u /\ uart_told' = UartIrqPending(u)
  /\ UNCHANGED <<console, uart_typed, uart_sent>>

\* The handler acknowledges before it has taken every byte.
WriteIcr ==
  /\ \E bits \in SUBSET {"rx", "rt"} : Observed(UpdateInterruptState([uart EXCEPT !.ris = @ \ bits]))
  /\ UNCHANGED <<console, uart_typed, uart_sent>>

WriteCr ==
  /\ \E cr \in SUBSET {"uart", "rx"} : Observed(UpdateInterruptState([uart EXCEPT !.cr = cr]))
  /\ UNCHANGED <<console, uart_typed, uart_sent>>

WriteImsc ==
  /\ \E imsc \in SUBSET {"rx", "rt"} : Observed(UpdateInterruptState([uart EXCEPT !.imsc = imsc]))
  /\ UNCHANGED <<console, uart_typed, uart_sent>>

\* The driver turns reception and its interrupt on (again).
DriverListens ==
  /\ uart.cr # {"uart", "rx"} \/ "rx" \notin uart.imsc
  /\ Observed(UpdateInterruptState([uart EXCEPT !.cr = {"uart", "rx"}, !.imsc = {"rx"}]))
  /\ UNCHANGED <<console, uart_typed, uart_sent>>

\* The guest sends a byte; the reply is injected before the write returns.
WriteDr ==
  /\ Len(uart_sent) < MaxSent
  /\ \E byte \in UartBytes :
       LET c == AfterTx(console, byte)
       IN  /\ console' = c
           /\ uart_sent' = Append(uart_sent, byte)
           /\ IF c.replies > console.replies
              THEN /\ Observed(InjectAll(ReplyText, uart))
                   /\ uart_typed' = uart_typed + Len(ReplyText) /\ uart_typed' <= MaxTyped
              ELSE UNCHANGED <<uart, uart_told, uart_typed>>

\* save_snapshot and load_snapshot: the device comes back, the windows are cleared.
UartRestored ==
  /\ Observed(UpdateInterruptState(uart))
  /\ console' = NewConsole /\ uart_sent' = <<>>
  /\ UNCHANGED uart_typed

UartNext == HostTypes \/ DriverHandles \/ ReadDr \/ WriteIcr \/ WriteCr \/ WriteImsc
            \/ DriverListens \/ WriteDr \/ UartRestored

UartSpec == UartInit /\ [][UartNext]_uart_vars

(* The host's CPU loop runs the guest, and the guest's handler runs when   *)
(* the line is high.  A driver that stops listening listens again.         *)
UartFairness ==
  /\ SF_uart_vars(DriverHandles)
  /\ WF_uart_vars(DriverListens)

-----------------------------------------------------------------------------
(* Properties                                                              *)

(* Every byte that came is taken in the end: the queue drains again and    *)
(* again once the host stops typing (inject_rx, the DR read).              *)
UartDrains == []<>(uart.rx_fifo = <<>> \/ uart_typed < MaxTyped)

EndsWith(bytes, pattern) ==
  Len(bytes) >= Len(pattern) /\ SubSeq(bytes, Len(bytes) - Len(pattern) + 1, Len(bytes)) = pattern

SomePrefixEndsWith(bytes, pattern) ==
  \E n \in 0 .. Len(bytes) : EndsWith(SubSeq(bytes, 1, n), pattern)

(* The windows recognise a pattern exactly when the bytes sent since they  *)
(* were cleared contain it, overlapping beginnings included, and one that  *)
(* has an answer is answered once (on_uart_tx).                            *)
ConsoleSeesPatterns ==
  /\ console.stop <=> StopPattern # <<>> /\ SomePrefixEndsWith(uart_sent, StopPattern)
  /\ console.replies = 1 <=> /\ ReplyPattern # <<>> /\ ReplyText # <<>>
                             /\ SomePrefixEndsWith(uart_sent, ReplyPattern)
  /\ console.replies <= 1

=============================================================================
