------------------------------ MODULE VirtioBlk ------------------------------
(***************************************************************************)
(* The virtio block device: its registers, and the request loop that one   *)
(* write to QueueNotify runs to its end.  The guest driver is the          *)
(* environment: it programs the queue by a script of register writes,      *)
(* offers descriptor chains, notifies, and collects used elements once the *)
(* interrupt has told it to.                                               *)
(*                                                                         *)
(* The disk is a sequence of units, SectorUnits of them to a sector, so    *)
(* that a transfer may fail to be a whole number of sectors.               *)
(***************************************************************************)
EXTENDS VirtioRing

CONSTANTS SectorUnits,     \* kSectorSize
          DiskUnits,       \* image_.size(), a multiple of SectorUnits
          OffsetModulus,   \* byte offsets are 64 bits wide: 2^64
          IdUnits,         \* the 20 bytes GetId returns
          DataValues,      \* what the driver stores in a buffer
          BlkSetups        \* guest memory, scripts and chains to try

ASSUME BlkAssumption ==
  /\ {SectorUnits, DiskUnits, OffsetModulus, IdUnits} \subseteq Nat \ {0}
  /\ DiskUnits % SectorUnits = 0 /\ DiskUnits < OffsetModulus

\* A script stops the queue first, empties the rings, and programs it at its end.
SoundScript(script, layout) ==
  LET start == Len(script) - ProgramLength
  IN /\ script \in Seq(STRING \X Nat) /\ start >= 2
     /\ script[1] \in {<<"Status", 0>>, <<"QueueReady", 0>>}
     /\ \A k \in 2..start : script[k][1] # "QueueReady"
     /\ \E k \in 2..start : script[k][1] = "EmptyRings"
     /\ \A k \in 1..ProgramLength : script[start + k] = Program(0, layout)[k]

\* The driver of a sound setup keeps its buffers apart from its queue.
ASSUME BlkSetupAssumption ==
  \A u \in BlkSetups :
    /\ u.sound \in BOOLEAN /\ u.mem = [c \in RamCells |-> u.mem[c]] /\ 1 \in DOMAIN u.scripts
    /\ u.sound =>
         /\ SoundLayout(u.layout) /\ SoundTable(u.layout, u.mem, QueueCells(u.layout))
         /\ SoundHeads(u.layout, DOMAIN u.chains)
         /\ \A k \in DOMAIN u.scripts : SoundScript(u.scripts[k], u.layout)
         /\ \A h \in DOMAIN u.chains :
              (u.chains[h].data \cup u.chains[h].status) \cap QueueCells(u.layout) = {}

VARIABLES blk_setup,   \* the driver's memory layout; never changes
          blk,         \* the device
          blk_mem,     \* guest memory
          blk_driver   \* the guest driver

blk_vars == <<blk_setup, blk, blk_mem, blk_driver>>

-----------------------------------------------------------------------------
(* Registers                                                               *)

DiskCells == 0..(DiskUnits - 1)

\* told is the interrupt level the state change observer last saw.
PowerOnBlk ==
  [regs |-> ResetRegisters, queue |-> ResetQueue, interrupt_status |-> 0,
   config_generation |-> 1, disk |-> [c \in DiskCells |-> 0], told |-> FALSE]

\* A write of zero to Status.
ResetBlk(dev) ==
  SetInterrupt([dev EXCEPT !.regs = ResetRegisters, !.queue = ResetQueue], 0)

WriteBlkRegister(dev, reg, value) ==
  CASE reg = "InterruptAck" -> SetInterrupt(dev, IF value % 2 = 1 THEN 0 ELSE dev.interrupt_status)
    [] reg = "Status" -> IF value = 0 THEN ResetBlk(dev) ELSE [dev EXCEPT !.regs.status = value]
    [] reg \in CommonRegisters -> [dev EXCEPT !.regs = WriteCommonRegister(@, reg, value)]
    [] OTHER -> IF dev.regs.queue_sel # 0 THEN dev
                ELSE [dev EXCEPT !.queue = WriteQueueRegister(@, reg, value)]

\* A register read; the features are those of a device that has an image.
ReadBlkRegister(dev, reg) ==
  CASE reg = "DeviceId" -> 2
    [] reg = "DeviceFeatures" -> CASE dev.regs.device_features_sel = 0 -> 64   \* BLK_SIZE
                                   [] dev.regs.device_features_sel = 1 -> 1    \* VERSION_1
                                   [] OTHER -> 0
    [] reg = "QueueNumMax" -> IF dev.regs.queue_sel = 0 THEN QueueSize ELSE 0
    [] reg = "InterruptStatus" -> dev.interrupt_status
    [] reg = "Status" -> dev.regs.status
    [] reg = "ConfigGeneration" -> dev.config_generation
    [] reg = "Capacity" -> DiskUnits \div SectorUnits
    [] reg = "QueueSel" -> dev.regs.queue_sel
    [] OTHER -> IF dev.regs.queue_sel = 0 THEN ReadQueueRegister(dev.queue, reg) ELSE 0

\* What load_state accepts of what save_state wrote.
BlkLoadAccepts(dev) ==
  /\ dev.regs.queue_sel = 0 /\ dev.queue.num <= QueueSize
  /\ dev.regs.device_features_sel <= 1 /\ dev.regs.driver_features_sel <= 1

-----------------------------------------------------------------------------
(* One request                                                             *)

Ok == 0
IoErr == 1
Unsupported == 2
NoStatus == 255     \* what the driver puts there; the device never does
IdData == -1        \* the identification string

\* The status descriptor is the last one; the status byte may not be RAM.
Finish(r, chain, status, len) ==
  LET cell == Last(chain).addr
  IN IF InRam(cell, 1) THEN [mem |-> [r.mem EXCEPT ![cell] = status], disk |-> r.disk, len |-> len]
     ELSE [mem |-> r.mem, disk |-> r.disk, len |-> 1]

\* Mutant: the device writes a segment it may only read.
CopyIn_ReadOnlyToo(r, d) ==
  IF r.failed \/ ~InRam(d.addr, d.len) THEN [r EXCEPT !.failed = TRUE]
  ELSE [r EXCEPT !.mem = Copy(@, d.addr, r.disk, r.at, d.len), !.at = @ + d.len]

\* kReqTypeIn: one segment, from the disk to the guest.
CopyIn(r, d) ==
  IF r.failed \/ ~d.write \/ ~InRam(d.addr, d.len) THEN [r EXCEPT !.failed = TRUE]
  ELSE [r EXCEPT !.mem = Copy(@, d.addr, r.disk, r.at, d.len), !.at = @ + d.len]

\* Mutant: every segment goes to the start of the transfer.
CopyOut_SameOffset(r, d) ==
  IF r.failed \/ d.write \/ ~InRam(d.addr, d.len) THEN [r EXCEPT !.failed = TRUE]
  ELSE [r EXCEPT !.disk = Copy(@, r.at, r.mem, d.addr, d.len)]

\* kReqTypeOut: one segment, from the guest to the disk.
CopyOut(r, d) ==
  IF r.failed \/ d.write \/ ~InRam(d.addr, d.len) THEN [r EXCEPT !.failed = TRUE]
  ELSE [r EXCEPT !.disk = Copy(@, r.at, r.mem, d.addr, d.len), !.at = @ + d.len]

\* kReqTypeGetId: as much of the identification as the segment takes; an empty
\* segment ends the copy.
CopyId(r, d) ==
  LET chunk == IF d.len < IdUnits - r.at THEN d.len ELSE IdUnits - r.at
  IN IF r.failed \/ r.ended THEN r
     ELSE IF ~d.write THEN [r EXCEPT !.failed = TRUE]
     ELSE IF chunk = 0 THEN [r EXCEPT !.ended = TRUE]
     ELSE IF ~InRam(d.addr, chunk) THEN [r EXCEPT !.failed = TRUE]
     ELSE [r EXCEPT !.mem = [c \in DOMAIN @ |-> IF c \in d.addr..(d.addr + chunk - 1)
                                                THEN IdData ELSE @[c]],
                    !.at = @ + chunk]

\* The segments of a request.
CopySegment(type, r, d) ==
  CASE type = "in" -> CopyIn(r, d) [] type = "out" -> CopyOut(r, d) [] OTHER -> CopyId(r, d)
CopySegments(type, start, segments) ==
  EachSegment(LAMBDA r, d : CopySegment(type, r, d), start, segments)

\* Where a transfer starts, and whether it may.
ImageOffset(sector) == (sector * SectorUnits) % OffsetModulus
Transferable(sector, total) ==
  /\ total % SectorUnits = 0
  /\ ImageOffset(sector) <= DiskUnits /\ total <= DiskUnits - ImageOffset(sector)

(* The request of a well-formed chain: header [type, sector], segments,    *)
(* status.  An I/O error leaves the used length at zero.                   *)
Execute(mem, disk, header, chain) ==
  LET segments == Front(chain)
      total == TotalLength(segments)
      transfer == header.type \in {"in", "out"}
      start == [mem |-> mem, disk |-> disk, failed |-> FALSE, ended |-> FALSE,
                at |-> IF transfer THEN ImageOffset(header.sector) ELSE 0]
      copied == CopySegments(header.type, start, segments)
      error(r) == Finish(r, chain, IoErr, 0)
  IN CASE transfer /\ Transferable(header.sector, total) ->
            With(copied, LAMBDA r :
                 IF r.failed THEN error(r)
                 ELSE Finish(r, chain, Ok, IF header.type = "in" THEN total + 1 ELSE 1))
       [] header.type = "get_id" /\ segments # <<>> ->
            With(copied, LAMBDA r :
                 IF r.failed \/ r.at < IdUnits THEN error(r) ELSE Finish(r, chain, Ok, IdUnits + 1))
       [] header.type = "flush" -> Finish(start, chain, Ok, 1)
       [] header.type = "other" -> Finish(start, chain, Unsupported, 1)
       [] OTHER -> error(start)

\* process_request: a chain that is not a request is returned untouched.
ProcessRequest(q, mem, disk, head) ==
  LET hdr == mem[q.desc + head]
      untouched == [mem |-> mem, disk |-> disk, len |-> 1]
  IN IF /\ Readable(q, mem, head)
        /\ hdr.len >= 1 /\ ~hdr.write /\ HasNext(hdr)
        /\ InRam(hdr.addr, 1)
     THEN With(Chain(q, mem, hdr.next), LAMBDA chain :
               IF chain # <<>> /\ Last(chain).write /\ Last(chain).len > 0
               THEN Execute(mem, disk, mem[hdr.addr], chain) ELSE untouched)
     ELSE untouched

\* Mutant: a chain that cannot be walked ends the loop.
ServeRequest_StopsAtBroken(s, head) ==
  IF Chain(s.q, s.mem, head) = <<>> THEN [s EXCEPT !.stop = TRUE]
  ELSE With(ProcessRequest(s.q, s.mem, s.own, head), LAMBDA r :
            Complete([s EXCEPT !.mem = r.mem, !.own = r.disk], head, r.len))

ServeRequest(s, head) ==
  With(ProcessRequest(s.q, s.mem, s.own, head), LAMBDA r :
       Complete([s EXCEPT !.mem = r.mem, !.own = r.disk], head, r.len))

ProcessQueue(dev, mem) == ServeRing(LoopStart(dev.queue, mem, dev.disk), ServeRequest)

-----------------------------------------------------------------------------
(* The guest driver and the steps                                          *)

Script == blk_setup.scripts[blk_driver.script]
Running == blk_driver.pc > Len(Script)
Layout == blk_setup.layout

BlkInit ==
  /\ blk_setup \in BlkSetups
  /\ blk = PowerOnBlk
  /\ blk_mem = blk_setup.mem
  /\ blk_driver = [script |-> 1, pc |-> 1, acked |-> FALSE, seen |-> 0]

\* The driver empties its rings, or writes the next register of its script.
DriverWrite ==
  /\ ~Running
  /\ LET w == Script[blk_driver.pc]
     IN IF w[1] = "EmptyRings"
        THEN /\ blk_mem' = [c \in RamCells |-> IF c \in RingCells(Layout) THEN 0 ELSE blk_mem[c]]
             /\ blk_driver' = [blk_driver EXCEPT !.pc = @ + 1, !.acked = FALSE, !.seen = 0]
             /\ UNCHANGED blk
        ELSE /\ blk' = WriteBlkRegister(blk, w[1], w[2])
             /\ blk_driver' = [blk_driver EXCEPT !.pc = @ + 1]
             /\ UNCHANGED blk_mem
  /\ UNCHANGED blk_setup

DriverRestart ==
  /\ Running
  /\ \E k \in DOMAIN blk_setup.scripts :
       blk_driver' = [blk_driver EXCEPT !.script = k, !.pc = 1]
  /\ UNCHANGED <<blk_setup, blk, blk_mem>>

At(c) == IF InRam(c, 1) THEN blk_mem[c] ELSE 0

\* Entries the driver has offered and not collected.
InFlight ==
  LET idx == At(AvailIdxCell(Layout))
  IN {At(AvailCell(Layout, blk_driver.seen + k)) :
        k \in 0..(((idx - blk_driver.seen) % IndexModulus) - 1)}

(* Offers a chain: fresh data in its buffers, then the ring entry, then    *)
(* the index.                                                              *)
DriverOffer(head, value) ==
  /\ Running /\ head \notin InFlight
  /\ LET idx == At(AvailIdxCell(Layout))
     IN blk_mem' = [c \in RamCells |->
          CASE c = AvailIdxCell(Layout) -> (idx + 1) % IndexModulus
            [] c = AvailCell(Layout, idx) -> head
            [] c \in blk_setup.chains[head].data -> value
            [] c \in blk_setup.chains[head].status -> NoStatus
            [] OTHER -> blk_mem[c]]
  /\ UNCHANGED <<blk_setup, blk, blk_driver>>

\* The write to QueueNotify: the whole loop, then one interrupt.
BlkNotify ==
  /\ Running
  /\ \E s \in {ProcessQueue(blk, blk_mem)} :
       /\ blk_mem' = s.mem
       /\ LET dev == [blk EXCEPT !.queue = s.q, !.disk = s.own]
          IN blk' = IF s.any_completed THEN SetInterrupt(dev, 1) ELSE dev
  /\ UNCHANGED <<blk_setup, blk_driver>>

\* The driver's interrupt handler acknowledges before it reads the ring.
DriverAck ==
  /\ Running /\ ReadBlkRegister(blk, "InterruptStatus") # 0
  /\ blk' = WriteBlkRegister(blk, "InterruptAck", 1)
  /\ blk_driver' = [blk_driver EXCEPT !.acked = TRUE]
  /\ UNCHANGED <<blk_setup, blk_mem>>

\* It clears the ring cells it is done with.
DriverCollect ==
  /\ Running /\ blk_driver.acked
  /\ IF At(UsedIdxCell(Layout)) = blk_driver.seen
     THEN blk_driver' = [blk_driver EXCEPT !.acked = FALSE] /\ UNCHANGED blk_mem
     ELSE /\ blk_driver' = [blk_driver EXCEPT !.seen = (@ + 1) % IndexModulus]
          /\ LET used == UsedCell(Layout, blk_driver.seen)
             IN blk_mem' = [c \in RamCells |->
                  IF c \in {AvailCell(Layout, blk_driver.seen), used, used + 1} THEN 0 ELSE blk_mem[c]]
  /\ UNCHANGED <<blk_setup, blk>>

(* The machine is saved and a new one loads the snapshot; the driver is    *)
(* part of what is saved.  A state that load_state rejects ends there.     *)
BlkRestore ==
  /\ BlkLoadAccepts(blk)
  /\ blk' = [PowerOnBlk EXCEPT !.regs = blk.regs, !.queue = blk.queue, !.disk = blk.disk,
               !.interrupt_status = blk.interrupt_status, !.told = blk.interrupt_status # 0,
               !.config_generation = blk.config_generation]
  /\ UNCHANGED <<blk_setup, blk_mem, blk_driver>>

BlkNext ==
  \/ DriverWrite \/ DriverRestart \/ DriverAck \/ DriverCollect
  \/ \E head \in DOMAIN blk_setup.chains, value \in DataValues : DriverOffer(head, value)
  \/ BlkNotify
  \/ BlkRestore

(* The driver finishes what it started: it notifies, its handler runs, and *)
(* its scripts end.                                                        *)
BlkFairness ==
  WF_blk_vars(BlkNotify) /\ WF_blk_vars(DriverAck) /\ WF_blk_vars(DriverCollect)
  /\ WF_blk_vars(DriverWrite)

BlkSpec == BlkInit /\ [][BlkNext]_blk_vars /\ BlkFairness

-----------------------------------------------------------------------------
(* Properties                                                              *)

Heads == 0..(QueueSize - 1)

\* The device's registers, its queue and the disk keep their ranges.
BlkTypeOK ==
  /\ blk.queue.num \in 0..QueueSize /\ blk.queue.ready \in BOOLEAN
  /\ {blk.queue.last_avail, blk.queue.used_idx} \subseteq 0..(IndexModulus - 1)
  /\ blk.interrupt_status \in {0, 1}
  /\ blk.disk \in [DiskCells -> DataValues \cup {0}] /\ DOMAIN blk_mem = RamCells
  /\ blk_driver.seen \in 0..(IndexModulus - 1)

\* A ring's entries from index i up to index j.
Entries(cell(_), i, j) ==
  [k \in 1..((j - i) % IndexModulus) |-> blk_mem[cell((i + k - 1) % IndexModulus)]]

\* The rings as the device and the driver see them, while the queue is live.
Live == blk_setup.sound /\ blk.queue.ready
Offered ==
  LET entry(i) == AvailCell(Layout, i)
  IN IF Live THEN Entries(entry, blk.queue.last_avail, blk_mem[AvailIdxCell(Layout)]) ELSE <<>>
Returned ==
  LET entry(i) == UsedCell(Layout, i)
  IN IF Live THEN Entries(entry, blk_driver.seen, blk_mem[UsedIdxCell(Layout)]) ELSE <<>>

BlkQueue == INSTANCE BufferQueue WITH Buffers <- Heads, offered <- Offered, returned <- Returned

(* The rings in guest memory implement the queue a driver relies on: every *)
(* chain comes back once and in order, through wrapping indices, failing   *)
(* requests, restarts of the driver and snapshots.                         *)
BlkRingIsQueue == BlkQueue!Spec

(* While used elements the driver has not collected are published, either  *)
(* the interrupt is pending or the driver's handler is already running;    *)
(* and the level the SoC was last told is the level of the interrupt.      *)
BlkDriverTold ==
  /\ Returned # <<>> => blk.interrupt_status # 0 \/ blk_driver.acked
  /\ blk.told = (blk.interrupt_status # 0)

(* The driver never waits for ever: again and again either none of its     *)
(* chains is in flight, or its handler has one to collect.  Chains come    *)
(* back in order, so every chain does, the malformed ones too.             *)
BlkChainsReturn ==
  []<>(~blk_setup.sound \/ InFlight = {} \/ (blk_driver.acked /\ Returned # <<>>))

\* The heads a notification may serve.
Unserved ==
  {At(AvailCell(blk.queue, blk.queue.last_avail + k)) :
     k \in 0..(((At(AvailIdxCell(blk.queue)) - blk.queue.last_avail) % IndexModulus) - 1)}

\* What a request names: the sector in its header times the sector's size.
FirstUnit(header) == header.sector * SectorUnits

\* Memory cells, and units of the disk, that their chains give to the device.
MayWrite(c) ==
  \E h \in Unserved :
    LET chain == Chain(blk.queue, blk_mem, h) IN \E k \in DOMAIN chain : c \in GivenBy(chain[k])
MayStore(c) ==
  \E h \in Unserved :
    /\ Chain(blk.queue, blk_mem, h) # <<>>
    /\ LET header == At(blk_mem[blk.queue.desc + h].addr)
           total == TotalLength(Tail(Front(Chain(blk.queue, blk_mem, h))))
       IN header.type = "out" /\ c \in FirstUnit(header)..(FirstUnit(header) + total - 1)

(* A notification writes nothing but the used ring and the cells that the  *)
(* published chains mark writable, also when chains loop and when buffers  *)
(* or rings are outside RAM;                                               *)
MemoryWritesGiven ==
  BlkNotify /\ Usable(blk.queue) =>
    \A c \in RamCells : blk_mem'[c] # blk_mem[c] =>
      \/ c = UsedIdxCell(blk.queue)
      \/ \E i \in 0..(blk.queue.num - 1) : c - UsedCell(blk.queue, i) \in {0, 1}
      \/ MayWrite(c)
(* and it changes the disk only within the sectors that a published write  *)
(* names (process_request).                                                *)
DiskWritesGiven ==
  BlkNotify /\ Usable(blk.queue) =>
    \A c \in DiskCells : blk'.disk[c] # blk.disk[c] => MayStore(c)
BlkWritesOnlyGiven == [][MemoryWritesGiven /\ DiskWritesGiven]_blk_vars

\* A driver writes its headers once, and gives none of them to the device to write.
HeaderCells(u) ==
  {u.mem[u.layout.desc + h].addr :
     h \in {g \in DOMAIN u.chains :
              LET d == u.mem[u.layout.desc + g] IN ~d.write /\ InRam(d.addr, 1)}}
HeadersKept(u) ==
  /\ \A c \in HeaderCells(u) : u.mem[c].sector \in Nat
  /\ HeaderCells(u) \cap QueueCells(u.layout) = {}
  /\ \A h \in DOMAIN u.chains : HeaderCells(u) \cap (u.chains[h].data \cup u.chains[h].status) = {}
  /\ SoundTable(u.layout, u.mem, HeaderCells(u))

\* The sectors it writes have a byte offset of 64 bits.
SectorsFit(u) ==
  \A c \in HeaderCells(u) : u.mem[c].type = "out" => FirstUnit(u.mem[c]) < OffsetModulus

(* The cells of memory and the units of the disk that a request of setup u *)
(* brings together, unit by unit in the order of its segments.             *)
Transfers(u, h) ==
  LET chain == Chain(u.layout, u.mem, h)
      segments == Tail(Front(chain))
      header == u.mem[chain[1].addr]
      before(k) == TotalLength(SubSeq(segments, 1, k - 1))
  IN IF Len(chain) < 3 \/ header.type \notin {"in", "out"} THEN {}
     ELSE UNION {{<<segments[k].addr + i, FirstUnit(header) + before(k) + i>> :
                    i \in 0..(segments[k].len - 1)} : k \in DOMAIN segments}

(* A request whose status becomes OK has been carried out in full: the     *)
(* sectors it names exist, and they and the buffers, segment by segment,   *)
(* hold the same data (process_request).                                   *)
BlkOkIsDone ==
  [][BlkNotify =>
       LET became(h) == \E c \in blk_setup.chains[h].status : blk_mem[c] # Ok /\ blk_mem'[c] = Ok
       IN \A h \in DOMAIN blk_setup.chains :
            became(h) /\ (\A g \in DOMAIN blk_setup.chains \ {h} : ~became(g)) =>
              \A t \in Transfers(blk_setup, h) :
                t[1] \in RamCells /\ t[2] \in DiskCells /\ blk_mem'[t[1]] = blk'.disk[t[2]]]_blk_vars

=============================================================================
