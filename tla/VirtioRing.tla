----------------------------- MODULE VirtioRing -----------------------------
(***************************************************************************)
(* The split virtqueue as both virtio devices of the machine handle it.    *)
(*                                                                         *)
(* Guest memory is a function from cells to contents: a cell holds one     *)
(* index, one ring entry, one descriptor, one request header or one unit   *)
(* of data.  An access succeeds exactly when all its cells are RAM, which  *)
(* is what Bus::ram_ptr and Bus::write_ram_buffer decide.                  *)
(***************************************************************************)
EXTENDS Integers, Sequences, SequencesExt

CONSTANTS FirstRamCell,    \* RAM is FirstRamCell..LastRamCell
          LastRamCell,
          IndexModulus,    \* ring indices are 16 bits wide: 2^16
          AddressHalf,     \* queue addresses are written in halves: 2^32
          QueueSize        \* kQueueSize, the largest queue

ASSUME RingAssumption ==
  /\ {FirstRamCell, LastRamCell} \subseteq Nat \ {0}
  /\ {IndexModulus, AddressHalf, QueueSize} \subseteq Nat \ {0}
  /\ QueueSize <= IndexModulus

\* F(v), with v evaluated once.
With(v, F(_)) == CHOOSE y \in {F(x) : x \in {v}} : TRUE

RamCells == FirstRamCell..LastRamCell

\* An access to n cells from a on; an empty access touches nothing.
InRam(a, n) == n = 0 \/ (a >= FirstRamCell /\ a + n - 1 <= LastRamCell)

\* dst with n cells from d on replaced by those of src from s on.
Copy(dst, d, src, s, n) ==
  [c \in DOMAIN dst |-> IF c \in d..(d + n - 1) THEN src[s + (c - d)] ELSE dst[c]]

-----------------------------------------------------------------------------
(* QueueState and the registers that set it.                               *)

ResetQueue ==
  [num |-> 0, ready |-> FALSE, desc |-> 0, avail |-> 0, used |-> 0,
   last_avail |-> 0, used_idx |-> 0]

Usable(q) == q.ready /\ q.num # 0 /\ q.desc # 0 /\ q.avail # 0 /\ q.used # 0

WithLow(addr, value) == addr - (addr % AddressHalf) + (value % AddressHalf)
WithHigh(addr, value) == (addr % AddressHalf) + value * AddressHalf

\* Mutant: stopping a queue keeps its indices.
WriteQueueRegister_KeepsIndices(q, reg, value) ==
  CASE reg = "QueueNum"      -> [q EXCEPT !.num = value]
    [] reg = "QueueReady"    -> [q EXCEPT !.ready = value # 0]
    [] reg = "QueueDescLow"  -> [q EXCEPT !.desc = WithLow(@, value)]
    [] reg = "QueueAvailLow" -> [q EXCEPT !.avail = WithLow(@, value)]
    [] reg = "QueueUsedLow"  -> [q EXCEPT !.used = WithLow(@, value)]
    [] reg = "QueueUsedHigh" -> [q EXCEPT !.used = WithHigh(@, value)]
    [] OTHER -> q

\* A write to a register of the selected queue.
WriteQueueRegister(q, reg, value) ==
  CASE reg = "QueueNum"       -> [q EXCEPT !.num = IF value < QueueSize THEN value ELSE QueueSize]
    [] reg = "QueueReady"     -> IF value # 0 THEN [q EXCEPT !.ready = TRUE]
                                 ELSE [q EXCEPT !.ready = FALSE, !.last_avail = 0, !.used_idx = 0]
    [] reg = "QueueDescLow"   -> [q EXCEPT !.desc = WithLow(@, value)]
    [] reg = "QueueDescHigh"  -> [q EXCEPT !.desc = WithHigh(@, value)]
    [] reg = "QueueAvailLow"  -> [q EXCEPT !.avail = WithLow(@, value)]
    [] reg = "QueueAvailHigh" -> [q EXCEPT !.avail = WithHigh(@, value)]
    [] reg = "QueueUsedLow"   -> [q EXCEPT !.used = WithLow(@, value)]
    [] reg = "QueueUsedHigh"  -> [q EXCEPT !.used = WithHigh(@, value)]
    [] OTHER                  -> q

QueueRegisters ==
  {"QueueNum", "QueueReady", "QueueDescLow", "QueueDescHigh", "QueueAvailLow",
   "QueueAvailHigh", "QueueUsedLow", "QueueUsedHigh"}

ReadQueueRegister(q, reg) ==
  CASE reg = "QueueNum"       -> q.num
    [] reg = "QueueReady"     -> IF q.ready THEN 1 ELSE 0
    [] reg = "QueueDescLow"   -> q.desc % AddressHalf
    [] reg = "QueueDescHigh"  -> q.desc \div AddressHalf
    [] reg = "QueueAvailLow"  -> q.avail % AddressHalf
    [] reg = "QueueAvailHigh" -> q.avail \div AddressHalf
    [] reg = "QueueUsedLow"   -> q.used % AddressHalf
    [] reg = "QueueUsedHigh"  -> q.used \div AddressHalf
    [] OTHER                  -> 0

-----------------------------------------------------------------------------
(* The registers that both devices have.                                   *)

ResetRegisters ==
  [device_features_sel |-> 0, driver_features_sel |-> 0, driver_features |-> <<0, 0>>,
   guest_page_size |-> 4096, queue_sel |-> 0, status |-> 0]

CommonRegisters ==
  {"DeviceFeaturesSel", "DriverFeaturesSel", "DriverFeatures", "GuestPageSize", "QueueSel"}

\* The two words of the driver's features are written one at a time.
WriteCommonRegister(regs, reg, value) ==
  CASE reg = "DeviceFeaturesSel" -> [regs EXCEPT !.device_features_sel = value]
    [] reg = "DriverFeaturesSel" -> [regs EXCEPT !.driver_features_sel = value]
    [] reg = "DriverFeatures" ->
         [regs EXCEPT !.driver_features[IF regs.driver_features_sel = 0 THEN 1 ELSE 2] = value]
    [] reg = "GuestPageSize" -> [regs EXCEPT !.guest_page_size = value]
    [] reg = "QueueSel" -> [regs EXCEPT !.queue_sel = value]

\* Mutant: the observer is told of new interrupts only.
SetInterrupt_RaiseOnly(dev, value) ==
  [dev EXCEPT !.interrupt_status = value, !.told = @ \/ value # 0]

\* raise_interrupt and clear_interrupt call the observer when a bit changes.
SetInterrupt(dev, value) ==
  IF value = dev.interrupt_status THEN dev
  ELSE [dev EXCEPT !.interrupt_status = value, !.told = value # 0]

-----------------------------------------------------------------------------
(* The rings: avail is flags, index, entries; used is flags, index, and    *)
(* two cells for an element.                                               *)

AvailIdxCell(q) == q.avail + 1
AvailCell(q, idx) == q.avail + 2 + (idx % q.num)
UsedIdxCell(q) == q.used + 1
UsedCell(q, idx) == q.used + 2 + 2 * (idx % q.num)
RingCells(q) == (q.avail..(q.avail + 1 + q.num)) \cup (q.used..(q.used + 1 + 2 * q.num))

\* read_descriptor succeeds, and the descriptor is not an indirect one.
Readable(q, mem, i) == i < q.num /\ InRam(q.desc + i, 1) /\ ~mem[q.desc + i].indirect

HasNext(d) == d.next # -1

(* The descriptors from index i on, at most q.num of them; empty when one  *)
(* cannot be used or when the chain does not end.                          *)
Chain(q, mem, i) ==
  LET walk[n \in 1..q.num] ==
        IF n = 1 THEN IF Readable(q, mem, i) THEN <<mem[q.desc + i]>> ELSE <<>>
        ELSE With(walk[n - 1], LAMBDA w :
               IF w = <<>> \/ ~HasNext(Last(w)) THEN w
               ELSE IF Readable(q, mem, Last(w).next)
                    THEN Append(w, mem[q.desc + Last(w).next]) ELSE <<>>)
  IN With(walk[q.num], LAMBDA w : IF w # <<>> /\ HasNext(Last(w)) THEN <<>> ELSE w)

\* What Step makes of r, one segment after the other.
EachSegment(Step(_, _), start, segments) ==
  LET after[k \in 0..Len(segments)] ==
        IF k = 0 THEN start ELSE With(after[k - 1], LAMBDA r : Step(r, segments[k]))
  IN  after[Len(segments)]

TotalLength(segments) == EachSegment(LAMBDA n, d : n + d.len, 0, segments)

(* The state of the loop over the available ring: the queue, the memory,   *)
(* what the device keeps (own), whether the loop has ended, and whether a  *)
(* used index was published.                                               *)
LoopStart(q, mem, own) ==
  [q |-> q, mem |-> mem, own |-> own, stop |-> FALSE, any_completed |-> FALSE]

\* Writes the used element, advances both indices, publishes the used index.
Complete(s, head, len) ==
  LET e == UsedCell(s.q, s.q.used_idx)
      q == [s.q EXCEPT !.last_avail = (@ + 1) % IndexModulus,
                       !.used_idx = (@ + 1) % IndexModulus]
      element == IF InRam(e, 2) THEN [s.mem EXCEPT ![e] = head, ![e + 1] = len]
                 ELSE IF InRam(e, 1) THEN [s.mem EXCEPT ![e] = head] ELSE s.mem
  IN CASE ~InRam(e, 2) -> [s EXCEPT !.mem = element, !.stop = TRUE]
       [] InRam(e, 2) /\ ~InRam(UsedIdxCell(q), 1) ->
            [s EXCEPT !.mem = element, !.q = q, !.stop = TRUE]
       [] OTHER ->
            [s EXCEPT !.mem = [element EXCEPT ![UsedIdxCell(q)] = q.used_idx],
                      !.q = q, !.any_completed = TRUE]

(* The loop itself: Serve(s, head) handles one available entry.  The index *)
(* the driver published is read once, before the loop.                     *)
ServeRing(s, Serve(_, _)) ==
  LET avail_idx == s.mem[AvailIdxCell(s.q)]
      step(t) ==
        IF t.stop \/ t.q.last_avail = avail_idx THEN t
        ELSE IF ~InRam(AvailCell(t.q, t.q.last_avail), 1) THEN [t EXCEPT !.stop = TRUE]
        ELSE Serve(t, t.mem[AvailCell(t.q, t.q.last_avail)])
      after[n \in 0..(IndexModulus - 1)] ==
        IF n = 0 THEN s ELSE With(after[n - 1], step)
  IN IF Usable(s.q) /\ InRam(AvailIdxCell(s.q), 1) THEN after[IndexModulus - 1] ELSE s

-----------------------------------------------------------------------------
(* What the rings and a driver must be for a queue to work.                *)

TableCells(layout) == layout.desc..(layout.desc + layout.num - 1)
QueueCells(layout) == TableCells(layout) \cup RingCells(layout)

\* The cells a descriptor gives to the device.
GivenBy(d) == IF d.write THEN d.addr..(d.addr + d.len - 1) ELSE {}

\* The table and the rings are apart and in RAM, and a ring's size divides 2^16.
SoundLayout(layout) ==
  /\ layout.num \in 1..QueueSize /\ IndexModulus % layout.num = 0
  /\ {layout.desc, layout.avail, layout.used} \subseteq Nat \ {0}
  /\ QueueCells(layout) \subseteq RamCells
  /\ TableCells(layout) \cap RingCells(layout) = {}
  /\ layout.avail + 1 + layout.num < layout.used \/ layout.used + 1 + 2 * layout.num < layout.avail

\* Of the table in mem: no descriptor gives the device a cell that it keeps its queues in.
SoundTable(layout, mem, kept) ==
  \A c \in TableCells(layout) :
    /\ {mem[c].addr, mem[c].len} \subseteq Nat /\ mem[c].next \in Nat \cup {-1}
    /\ GivenBy(mem[c]) \cap kept = {}

\* The heads a driver offers: it never has so many that the indices meet again.
SoundHeads(layout, heads) == heads \subseteq 0..(layout.num - 1) /\ heads # 0..(IndexModulus - 1)

\* The register writes by which a driver programs a queue.
Program(queue, layout) ==
  <<<<"QueueSel", queue>>, <<"QueueNum", layout.num>>,
    <<"QueueDescHigh", layout.desc \div AddressHalf>>, <<"QueueDescLow", layout.desc % AddressHalf>>,
    <<"QueueAvailHigh", layout.avail \div AddressHalf>>, <<"QueueAvailLow", layout.avail % AddressHalf>>,
    <<"QueueUsedHigh", layout.used \div AddressHalf>>, <<"QueueUsedLow", layout.used % AddressHalf>>,
    <<"QueueReady", 1>>>>
ProgramLength == 9
=============================================================================
