------------------------------ MODULE VirtioNet ------------------------------
(***************************************************************************)
(* The virtio network device: a receive and a transmit queue, the frames   *)
(* that wait for a receive buffer, and the width of the header in front of *)
(* a frame, which the device partly guesses from what the guest sends.     *)
(*                                                                         *)
(* A header is NetHdr or MrgHdr units of zeros.  A frame ends with a unit  *)
(* that is not zero and stands for its type and what follows; where the    *)
(* setup says so, it begins with a unit of zeros.  Frames carry numbers in *)
(* order, modulo FrameModulus, so that a lost, repeated or overtaken frame *)
(* shows.  The driver, and the host behind the back end, are the           *)
(* environment.                                                            *)
(***************************************************************************)
EXTENDS VirtioRing

CONSTANTS FrameModulus,   \* frame numbers are 1..FrameModulus
          MaxPending,     \* bound on the frames that wait
          NetSetups       \* guest memory, scripts and buffers to try

ASSUME NetAssumption == {FrameModulus, MaxPending} \subseteq Nat \ {0}

Rx == 0
Tx == 1
NetHdr == 1     \* kVirtioNetHdrSize
MrgHdr == 2     \* kVirtioNetMrgRxbufHdrSize

\* A driver stops its queues by a reset, or one after the other.
NetStops ==
  {<<<<"Status", 0>>>>,
   <<<<"QueueSel", Tx>>, <<"QueueReady", 0>>, <<"QueueSel", Rx>>, <<"QueueReady", 0>>>>}

\* A script stops both queues, empties the rings, and programs the queues at its end.
SoundNetScript(script, layouts) ==
  LET start == Len(script) - 2 * ProgramLength
  IN /\ script \in Seq(STRING \X Nat)
     /\ \E stop \in NetStops :
          /\ \A k \in DOMAIN stop : script[k] = stop[k]
          /\ \A k \in (Len(stop) + 1)..start : script[k][1] # "QueueReady"
          /\ \E k \in (Len(stop) + 1)..start : script[k][1] = "EmptyRings"
     /\ \A q \in {Rx, Tx}, k \in 1..ProgramLength :
          script[start + q * ProgramLength + k] = Program(q, layouts[q])[k]

\* The driver keeps its queues apart from each other and from its buffers.
ASSUME NetSetupAssumption ==
  \A u \in NetSetups :
    LET kept == QueueCells(u.layouts[Rx]) \cup QueueCells(u.layouts[Tx])
    IN /\ u.mem = [c \in RamCells |-> u.mem[c]] /\ 1 \in DOMAIN u.scripts
       /\ \A k \in DOMAIN u.scripts : SoundNetScript(u.scripts[k], u.layouts)
       /\ u.lead \in BOOLEAN
       /\ QueueCells(u.layouts[Rx]) \cap QueueCells(u.layouts[Tx]) = {}
       /\ \A q \in {Rx, Tx} :
            /\ SoundLayout(u.layouts[q]) /\ SoundTable(u.layouts[q], u.mem, kept)
            /\ SoundHeads(u.layouts[q], u.heads[q])
            /\ \A h \in u.heads[q] : u.frame_cell[q][h] \notin kept

VARIABLES net_setup,    \* never changes
          net,          \* the device
          net_mem,      \* guest memory
          net_driver,   \* the guest driver
          net_flow      \* numbers of the frames sent and expected

net_vars == <<net_setup, net, net_mem, net_driver, net_flow>>

-----------------------------------------------------------------------------
(* Registers                                                               *)

AttachedNet(loopback) ==
  [loopback |-> loopback, regs |-> ResetRegisters, queues |-> [q \in {Rx, Tx} |-> ResetQueue],
   pending |-> <<>>, guest_header |-> NetHdr, interrupt_status |-> 0,
   config_generation |-> 1, told |-> FALSE]

\* A reset keeps the frames that wait.
ResetNet(dev) ==
  SetInterrupt([dev EXCEPT !.regs = ResetRegisters, !.guest_header = NetHdr,
                           !.queues = [q \in {Rx, Tx} |-> ResetQueue]], 0)

WriteNetQueue(dev, reg, value) ==
  IF dev.regs.queue_sel \notin {Rx, Tx} THEN dev
  ELSE [dev EXCEPT !.queues[dev.regs.queue_sel] = WriteQueueRegister(@, reg, value)]

WriteNetRegister(dev, reg, value) ==
  CASE reg = "InterruptAck" -> SetInterrupt(dev, IF value % 2 = 1 THEN 0 ELSE dev.interrupt_status)
    [] reg = "Status" -> IF value = 0 THEN ResetNet(dev) ELSE [dev EXCEPT !.regs.status = value]
    [] reg \in CommonRegisters -> [dev EXCEPT !.regs = WriteCommonRegister(@, reg, value)]
    [] OTHER -> WriteNetQueue(dev, reg, value)

ReadNetQueue(dev, reg) ==
  IF dev.regs.queue_sel \in {Rx, Tx} THEN ReadQueueRegister(dev.queues[dev.regs.queue_sel], reg) ELSE 0

ReadNetRegister(dev, reg) ==
  CASE reg = "InterruptStatus" -> dev.interrupt_status
    [] reg = "Status" -> dev.regs.status
    [] reg = "QueueSel" -> dev.regs.queue_sel
    [] reg = "QueueNumMax" -> IF dev.regs.queue_sel \in {Rx, Tx} THEN QueueSize ELSE 0
    [] OTHER -> ReadNetQueue(dev, reg)

\* driver_features has VIRTIO_NET_F_MRG_RXBUF: the only bit of word 0 kept here.
Negotiated(regs) == IF regs.driver_features[1] = 1 THEN MrgHdr ELSE NetHdr

ActiveHeader(dev) ==
  IF Negotiated(dev.regs) > dev.guest_header THEN Negotiated(dev.regs) ELSE dev.guest_header

(* load_state of what save_state wrote: the width is taken from the        *)
(* features, the observer is not called, and SoC brings the lines up to    *)
(* date.                                                                   *)
NetLoadAccepts(dev) ==
  /\ Len(dev.pending) <= 1024
  /\ dev.regs.device_features_sel <= 1 /\ dev.regs.driver_features_sel <= 1
  /\ dev.regs.queue_sel \in {Rx, Tx} /\ \A q \in {Rx, Tx} : dev.queues[q].num <= QueueSize

NetLoad(dev) == [dev EXCEPT !.guest_header = Negotiated(dev.regs), !.told = dev.interrupt_status # 0]

-----------------------------------------------------------------------------
(* Transmission                                                            *)

\* A type of 0x0600 or more.
LooksLikeEthernetFrame(bytes) == bytes # <<>> /\ Last(bytes) # 0

DetectTxHeader(own, segments, bytes) ==
  IF \/ own.guest_header = MrgHdr /\ Len(bytes) >= MrgHdr
     \/ Negotiated(own.regs) = MrgHdr /\ Len(bytes) >= MrgHdr
     \/ /\ segments[1].len >= MrgHdr /\ Len(bytes) >= MrgHdr
        /\ \A k \in 1..MrgHdr : bytes[k] = 0
        /\ LooksLikeEthernetFrame(SubSeq(bytes, MrgHdr + 1, Len(bytes)))
  THEN MrgHdr ELSE NetHdr

ChainBytes(mem, segments) ==
  EachSegment(LAMBDA bytes, d : bytes \o [k \in 1..d.len |-> mem[d.addr + k - 1]], <<>>, segments)

\* Mutant: a frame goes before those that wait.
SendFrame_Front(own, segments, bytes) ==
  With(DetectTxHeader(own, segments, bytes), LAMBDA hdr :
    LET frame == SubSeq(bytes, hdr + 1, Len(bytes))
    IN [own EXCEPT !.guest_header = hdr,
                   !.regs.driver_features[1] = IF hdr = MrgHdr THEN 1 ELSE @,
                   !.pending = IF own.loopback THEN <<frame>> \o @ ELSE @,
                   !.sent = Append(@, frame)])

\* The frame leaves before its used element is written.
SendFrame(own, segments, bytes) ==
  With(DetectTxHeader(own, segments, bytes), LAMBDA hdr :
    LET frame == SubSeq(bytes, hdr + 1, Len(bytes))
    IN [own EXCEPT !.guest_header = hdr,
                   !.regs.driver_features[1] = IF hdr = MrgHdr THEN 1 ELSE @,
                   !.pending = IF own.loopback THEN Append(@, frame) ELSE @,
                   !.sent = Append(@, frame)])

\* A chain that cannot be sent stays at the front of the ring.
ServeTx(s, head) ==
  With(Chain(s.q, s.mem, head), LAMBDA segments :
    IF \/ segments = <<>>
       \/ \E k \in DOMAIN segments : segments[k].write \/ ~InRam(segments[k].addr, segments[k].len)
       \/ TotalLength(segments) < NetHdr
    THEN [s EXCEPT !.stop = TRUE]
    ELSE With(SendFrame(s.own, segments, ChainBytes(s.mem, segments)), LAMBDA own :
              Complete([s EXCEPT !.own = own], head, 0)))

-----------------------------------------------------------------------------
(* Reception                                                               *)

\* One segment of the payload; r.at counts the units written.
WritePayload(r, d) ==
  LET rest == Len(r.payload) - r.at
      chunk == IF d.len < rest THEN d.len ELSE rest
  IN IF r.failed \/ ~InRam(d.addr, chunk) THEN [r EXCEPT !.failed = TRUE]
     ELSE [r EXCEPT !.mem = Copy(@, d.addr, r.payload, r.at + 1, chunk), !.at = @ + chunk]

\* The header of a merged buffer counts one buffer in its last unit.
Payload(hdr, frame) == (IF hdr = MrgHdr THEN <<0, 1>> ELSE <<0>>) \o frame

\* The frame at the front is dropped only once the used element is written.
Delivered(s, head, r) ==
  LET t == [s EXCEPT !.mem = r.mem, !.own.pending = Tail(@)]
      u == Complete(t, head, Len(r.payload))
  IN IF r.failed THEN [s EXCEPT !.mem = r.mem, !.stop = TRUE]
     ELSE IF u.q.used_idx = s.q.used_idx THEN [u EXCEPT !.own = s.own] ELSE u

(* A frame waits at the front until a buffer takes it: a chain that cannot *)
(* hold it stops the queue.                                                *)
Deliver(s, head, payload, segments) ==
  IF \/ segments = <<>> \/ \E k \in DOMAIN segments : ~segments[k].write
     \/ TotalLength(segments) < Len(payload)
  THEN [s EXCEPT !.stop = TRUE]
  ELSE With(EachSegment(WritePayload, [mem |-> s.mem, payload |-> payload, at |-> 0, failed |-> FALSE],
                        segments),
            LAMBDA r : Delivered(s, head, r))

ServeRx(hdr, s, head) ==
  IF s.own.pending = <<>> THEN [s EXCEPT !.stop = TRUE]
  ELSE With(Chain(s.q, s.mem, head),
            LAMBDA segments : Deliver(s, head, Payload(hdr, s.own.pending[1]), segments))

\* One chain of queue q.
ServeNet(q, hdr, s, head) == IF q = Tx THEN ServeTx(s, head) ELSE ServeRx(hdr, s, head)

(* process_tx and process_rx on the device: [dev, mem, sent, completed].   *)
Own(dev) ==
  [regs |-> dev.regs, guest_header |-> dev.guest_header, loopback |-> dev.loopback,
   pending |-> dev.pending, sent |-> <<>>]

Served(r, q, s) ==
  [dev |-> [r.dev EXCEPT !.regs = s.own.regs, !.guest_header = s.own.guest_header,
                         !.pending = s.own.pending, !.queues[q] = s.q],
   mem |-> s.mem, sent |-> r.sent \o s.own.sent, completed |-> r.completed \/ s.any_completed]

ServeQueue(r, q) ==
  With(ServeRing(LoopStart(r.dev.queues[q], r.mem, Own(r.dev)),
                 LAMBDA s, head : ServeNet(q, ActiveHeader(r.dev), s, head)),
       LAMBDA s : Served(r, q, s))

ProcessTx(r) == ServeQueue(r, Tx)
ProcessRx(r) == IF r.dev.pending = <<>> THEN r ELSE ServeQueue(r, Rx)

Quiet(dev, mem) == [dev |-> dev, mem |-> mem, sent |-> <<>>, completed |-> FALSE]

\* Mutant: a transmission does not look at the receive queue.
NetProcess_TxAlone(queue, dev, mem) ==
  IF queue = Tx THEN ProcessTx(Quiet(dev, mem)) ELSE ProcessRx(Quiet(dev, mem))

\* process_queue; a transmission may make a loopback frame deliverable.
NetProcess(queue, dev, mem) ==
  CASE queue = Tx -> With(ProcessTx(Quiet(dev, mem)), ProcessRx)
    [] queue = Rx -> ProcessRx(Quiet(dev, mem))
    [] OTHER -> Quiet(dev, mem)

-----------------------------------------------------------------------------
(* The environment and the steps                                           *)

NetScript == net_setup.scripts[net_driver.script]
NetRunning == net_driver.pc > Len(NetScript)
RxLayout == net_setup.layouts[Rx]
TxLayout == net_setup.layouts[Tx]
Succ(n) == (n % FrameModulus) + 1

\* The frame with number n, as it leaves the guest.
Frame(n) == (IF net_setup.lead THEN <<0>> ELSE <<>>) \o <<n>>

NetInit ==
  /\ net_setup \in NetSetups
  /\ net = AttachedNet(net_setup.loopback)
  /\ net_mem = net_setup.mem
  /\ net_driver = [script |-> 1, pc |-> 1, acked |-> FALSE, seen |-> [q \in {Rx, Tx} |-> 0],
                   kick |-> [q \in {Rx, Tx} |-> FALSE]]
  /\ net_flow = [rx_next |-> 1, rx_due |-> 1, tx_next |-> 1, tx_due |-> 1, ok |-> TRUE]

\* What the device did reaches memory, the interrupt and the other side.
Apply(r) ==
  LET sent == r.sent
      n == Len(sent)
      due(k) == ((net_flow.tx_due + k - 2) % FrameModulus) + 1
  IN /\ net_mem' = r.mem
     /\ net' = IF r.completed THEN SetInterrupt(r.dev, 1) ELSE r.dev
     /\ net_flow' = [net_flow EXCEPT
          !.ok = @ /\ \A k \in 1..n : sent[k] = Frame(due(k)),
          !.tx_due = due(n + 1),
          !.rx_next = IF net.loopback THEN due(n + 1) ELSE @]

\* Restarting its queues, the driver gives up the frames that were in them.
NetDriverWrite ==
  /\ ~NetRunning
  /\ LET w == NetScript[net_driver.pc]
     IN IF w[1] = "EmptyRings"
        THEN /\ net_mem' = [c \in RamCells |->
                  IF c \in RingCells(RxLayout) \cup RingCells(TxLayout) THEN 0 ELSE net_mem[c]]
             /\ net_driver' = [net_driver EXCEPT !.pc = @ + 1, !.acked = FALSE,
                  !.seen = [q \in {Rx, Tx} |-> 0], !.kick = [q \in {Rx, Tx} |-> FALSE]]
             /\ net_flow' = [net_flow EXCEPT
                  !.tx_next = net_flow.tx_due,
                  !.rx_due = IF net.pending = <<>> THEN net_flow.rx_next ELSE Last(net.pending[1])]
             /\ UNCHANGED net
        ELSE /\ net' = WriteNetRegister(net, w[1], w[2])
             /\ net_driver' = [net_driver EXCEPT !.pc = @ + 1]
             /\ UNCHANGED <<net_mem, net_flow>>
  /\ UNCHANGED net_setup

\* The first script starts the driver, the others restart it.
NetDriverRestart ==
  /\ NetRunning
  /\ \E k \in DOMAIN net_setup.scripts \ {1} : net_driver' = [net_driver EXCEPT !.script = k, !.pc = 1]
  /\ UNCHANGED <<net_setup, net, net_mem, net_flow>>

\* The entries of queue q that the driver has offered and not collected.
NetInFlight(q) ==
  LET layout == net_setup.layouts[q]
      seen == net_driver.seen[q]
  IN {net_mem[AvailCell(layout, seen + k)] :
        k \in 0..(((net_mem[AvailIdxCell(layout)] - seen) % IndexModulus) - 1)}

\* Offers buffer head of queue q, with cells written in it.
OfferBuffer(q, head, contents) ==
  LET layout == net_setup.layouts[q]
      idx == net_mem[AvailIdxCell(layout)]
  IN /\ NetRunning /\ head \notin NetInFlight(q)
     /\ net_mem' = [c \in RamCells |->
          CASE c = AvailIdxCell(layout) -> (idx + 1) % IndexModulus
            [] c = AvailCell(layout, idx) -> head
            [] c \in DOMAIN contents -> contents[c]
            [] OTHER -> net_mem[c]]
     /\ net_driver' = [net_driver EXCEPT !.kick[q] = TRUE]
     /\ UNCHANGED <<net_setup, net>>

OfferRx(head) == OfferBuffer(Rx, head, [c \in {} |-> 0]) /\ UNCHANGED net_flow

\* Bound: no more than MaxPending frames are on their way or wait.
OfferTx(head) ==
  /\ Len(net.pending) + Cardinality(NetInFlight(Tx)) < MaxPending
  /\ OfferBuffer(Tx, head, [c \in {net_setup.frame_cell[Tx][head]} |-> net_flow.tx_next])
  /\ net_flow' = [net_flow EXCEPT !.tx_next = Succ(@)]

NetNotify(q) ==
  /\ NetRunning
  /\ \E r \in {NetProcess(q, net, net_mem)} : Apply(r)
  /\ net_driver' = [net_driver EXCEPT !.kick[q] = FALSE]
  /\ UNCHANGED net_setup

\* enqueue_rx_frame: the back end hands over a frame from the host, whose first
\* unit is not zero here.
HostFrame ==
  /\ ~net.loopback /\ Len(net.pending) < MaxPending
  /\ \E r \in {ProcessRx(Quiet([net EXCEPT !.pending = Append(@, <<net_flow.rx_next>>)], net_mem))} :
       /\ net_mem' = r.mem
       /\ net' = IF r.completed THEN SetInterrupt(r.dev, 1) ELSE r.dev
  /\ net_flow' = [net_flow EXCEPT !.rx_next = Succ(@)]
  /\ UNCHANGED <<net_setup, net_driver>>

NetAck ==
  /\ NetRunning /\ ReadNetRegister(net, "InterruptStatus") # 0
  /\ net' = WriteNetRegister(net, "InterruptAck", 1)
  /\ net_driver' = [net_driver EXCEPT !.acked = TRUE]
  /\ UNCHANGED <<net_setup, net_mem, net_flow>>

\* The handler collects from either ring until both are empty.
NetCollect(q) ==
  LET layout == net_setup.layouts[q]
      used == UsedCell(layout, net_driver.seen[q])
  IN /\ NetRunning /\ net_driver.acked
     /\ net_mem[UsedIdxCell(layout)] # net_driver.seen[q]
     /\ net_driver' = [net_driver EXCEPT !.seen[q] = (@ + 1) % IndexModulus]
     /\ net_mem' = [c \in RamCells |->
          IF c \in {AvailCell(layout, net_driver.seen[q]), used, used + 1, net_setup.frame_cell[q][net_mem[used]]}
          THEN 0 ELSE net_mem[c]]
     /\ net_flow' = IF q = Rx THEN [net_flow EXCEPT !.rx_due = Succ(@)] ELSE net_flow
     /\ UNCHANGED <<net_setup, net>>

NetHandlerEnds ==
  /\ NetRunning /\ net_driver.acked
  /\ \A q \in {Rx, Tx} : net_mem[UsedIdxCell(net_setup.layouts[q])] = net_driver.seen[q]
  /\ net_driver' = [net_driver EXCEPT !.acked = FALSE]
  /\ UNCHANGED <<net_setup, net, net_mem, net_flow>>

NetRestore ==
  /\ NetLoadAccepts(net)
  /\ net' = NetLoad(net)
  /\ UNCHANGED <<net_setup, net_mem, net_driver, net_flow>>

NetNext ==
  \/ NetDriverWrite \/ NetDriverRestart \/ NetAck \/ NetHandlerEnds \/ HostFrame \/ NetRestore
  \/ \E head \in net_setup.heads[Rx] : OfferRx(head)
  \/ \E head \in net_setup.heads[Tx] : OfferTx(head)
  \/ \E q \in {Rx, Tx} : NetNotify(q) \/ NetCollect(q)

NetSpec == NetInit /\ [][NetNext]_net_vars

-----------------------------------------------------------------------------
(* Properties                                                              *)

\* The device's queues and the waiting frames keep their ranges.
NetTypeOK ==
  /\ \A q \in {Rx, Tx} :
       /\ net.queues[q].num \in 0..QueueSize
       /\ {net.queues[q].last_avail, net.queues[q].used_idx} \subseteq 0..(IndexModulus - 1)
  /\ net.guest_header \in {NetHdr, MrgHdr} /\ net.interrupt_status \in {0, 1}
  /\ \A k \in DOMAIN net.pending : net.pending[k] # <<>> /\ Last(net.pending[k]) \in 1..FrameModulus

NetEntries(cell(_), i, j) ==
  [k \in 1..((j - i) % IndexModulus) |-> net_mem[cell((i + k - 1) % IndexModulus)]]

NetOffered(q) ==
  LET layout == net_setup.layouts[q]
      entry(i) == AvailCell(layout, i)
  IN IF net.queues[q].ready
     THEN NetEntries(entry, net.queues[q].last_avail, net_mem[AvailIdxCell(layout)]) ELSE <<>>

NetReturned(q) ==
  LET layout == net_setup.layouts[q]
      entry(i) == UsedCell(layout, i)
  IN IF net.queues[q].ready
     THEN NetEntries(entry, net_driver.seen[q], net_mem[UsedIdxCell(layout)]) ELSE <<>>

RxQueue == INSTANCE BufferQueue WITH
  Buffers <- 0..(QueueSize - 1), offered <- NetOffered(Rx), returned <- NetReturned(Rx)
TxQueue == INSTANCE BufferQueue WITH
  Buffers <- 0..(QueueSize - 1), offered <- NetOffered(Tx), returned <- NetReturned(Tx)

\* Both rings implement the queue a driver relies on.
NetRingsAreQueues == RxQueue!Spec /\ TxQueue!Spec

(* No frame is lost, repeated or overtaken: what the driver has received   *)
(* and not yet read, followed by what waits for a buffer, are the frames   *)
(* from the next one the driver expects to the last one sent; and what     *)
(* left for the other side came in order.  Frames in a queue the driver    *)
(* stops are its own loss.                                                 *)
NetFramesInOrder ==
  LET delivered == [k \in DOMAIN NetReturned(Rx) |->
                      net_mem[net_setup.frame_cell[Rx][NetReturned(Rx)[k]]]]
      frames == delivered \o [k \in DOMAIN net.pending |-> Last(net.pending[k])]
  IN /\ net_flow.ok
     /\ NetRunning =>
          /\ \A k \in DOMAIN frames : frames[k] = ((net_flow.rx_due + k - 2) % FrameModulus) + 1
          /\ net_flow.rx_next = ((net_flow.rx_due + Len(frames) - 1) % FrameModulus) + 1

(* The driver is told of every buffer that came back, and the SoC of every *)
(* change of the interrupt.                                                *)
NetDriverTold ==
  /\ (\E q \in {Rx, Tx} : NetReturned(q) # <<>>) => net.interrupt_status # 0 \/ net_driver.acked
  /\ net.told = (net.interrupt_status # 0)

\* Every receive buffer takes any frame that may come, behind the long header.
Roomy(u) ==
  \A h \in u.heads[Rx] :
    LET buffer == Chain(u.layouts[Rx], u.mem, h)
    IN /\ buffer # <<>> /\ \A k \in DOMAIN buffer : buffer[k].write /\ InRam(buffer[k].addr, buffer[k].len)
       /\ TotalLength(buffer) >= MrgHdr + 1
       /\ \A g \in u.heads[Tx] :
            u.loopback => TotalLength(buffer) >= MrgHdr + TotalLength(Chain(u.layouts[Tx], u.mem, g))

(* A frame never waits while a receive buffer does, unless the driver has  *)
(* yet to notify the device of that buffer.                                *)
NetNoFrameStuck ==
  NetRunning /\ net.pending # <<>> /\ NetOffered(Rx) # <<>> => net_driver.kick[Rx]

=============================================================================
