----------------------------- MODULE MCDevices -----------------------------
(* The devices, each in a system of its own.                               *)
EXTENDS GenericTimer, UartPl011, Pl050Kmi, RtcPl031, BlockMmio, PerfMailbox, MCBlk, MCNet, Virtio

\* A pattern that begins again inside itself.
MCStopPattern == <<1, 1, 2>>
MCReplyPattern == <<2, 1>>
MCReplyText == <<1, 2>>

MCBufferRam == 2..5

\* A deadline in the past, and one ahead.
MCTvalValues == {-1, 2}

-----------------------------------------------------------------------------
(* The devices share nothing: one of them moves.                           *)
VARIABLE device
timer_vars == <<timer, now>>

\* A driver that has nothing more to do, of a device that does not move.
MCUartIdle == /\ uart = [PowerOnUart EXCEPT !.cr = {"uart", "rx"}, !.imsc = {"rx"}]
              /\ uart_told = FALSE /\ console = NewConsole /\ uart_typed = 0 /\ uart_sent = <<>>
MCBlkIdle == /\ blk_setup = [scripts |-> <<<<>>>>, layout |-> MCLayout, sound |-> FALSE, chains |-> <<>>]
             /\ blk = PowerOnBlk /\ blk_mem = <<>>
             /\ blk_driver = [script |-> 1, pc |-> 1, acked |-> FALSE, seen |-> 0]
MCNetIdle == /\ net_setup = [scripts |-> <<<<"idle">>>>] /\ net = AttachedNet(FALSE) /\ net_mem = <<>>
             /\ net_driver = [script |-> 1, pc |-> 1, acked |-> FALSE] /\ net_flow = [ok |-> TRUE]

MCInit ==
  /\ device \in {"timer", "uart", "kmi", "rtc", "block", "perf", "blk", "net"}
  /\ TimerInit /\ KmiInit /\ RtcInit /\ BlockInit /\ PerfInit
  /\ IF device = "uart" THEN UartInit ELSE MCUartIdle
  /\ IF device = "blk" THEN BlkInit ELSE MCBlkIdle
  /\ IF device = "net" THEN NetInit ELSE MCNetIdle

MCNext ==
  /\ UNCHANGED device
  /\ IF device = "timer" THEN TimerNext ELSE UNCHANGED timer_vars
  /\ IF device = "uart" THEN UartNext ELSE UNCHANGED uart_vars
  /\ IF device = "kmi" THEN KmiNext ELSE UNCHANGED kmi_vars
  /\ IF device = "rtc" THEN RtcNext ELSE UNCHANGED rtc_vars
  /\ IF device = "block" THEN BlockNext ELSE UNCHANGED block_vars
  /\ IF device = "perf" THEN PerfNext ELSE UNCHANGED perf_vars
  /\ IF device = "blk" THEN BlkNext ELSE UNCHANGED blk_vars
  /\ IF device = "net" THEN NetNext ELSE UNCHANGED net_vars

mc_vars == <<device, timer_vars, uart_vars, kmi_vars, rtc_vars, block_vars, perf_vars, blk_vars, net_vars>>

MCSpec == MCInit /\ [][MCNext]_mc_vars /\ UartFairness /\ BlkFairness
=============================================================================
