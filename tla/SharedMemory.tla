---------------------------- MODULE SharedMemory ----------------------------
(***************************************************************************)
(* RAM as the cores of src/src/cpu.cpp and the devices share it: stores,   *)
(* exclusive loads and stores, device writes, and the instructions each    *)
(* core keeps decoded.  A cell is the unit a store may be cut into and     *)
(* holds one instruction; the caches in front of the page table are those  *)
(* of Mmu and are taken here as coherent.  A core runs an instruction at a *)
(* time and no other agent runs meanwhile (SoC::run).                      *)
(***************************************************************************)
EXTENDS Integers, FiniteSets, Sequences
LOCAL INSTANCE SequencesExt

CONSTANTS
  Agents,         \* the cores, cpus_
  PageCells,      \* cells of a page, and of a cache line
  VirtualPages,   \* the virtual pages 0 .. VirtualPages - 1
  RamFrames,      \* the physical pages that are RAM
  Holes,          \* and those with nothing behind them: the bus answers no
  Contents,       \* what a cell may hold
  Zero,           \* one of them
  DecodePages     \* kDecodeCachePages

VARIABLES
  mem,            \* RAM, by physical cell
  map,            \* the page table: frame and writability of each virtual page
  core,           \* monitor, event register and wait state of each core
  decoded,        \* each core's decoded pages
  predecode,      \* predecode_enabled_, the same on all cores
  link            \* what really happened to the cells of each core's last LDXR

shared_vars == <<mem, map, core, decoded, predecode, link>>

Frames == RamFrames \cup Holes

\* Physical memory has a lowest RAM page; a pair of cells fits into a page.
ASSUME SharedAssumption ==
  /\ PageCells \in Nat \ {0} /\ PageCells % 2 = 0
  /\ VirtualPages \in Nat \ {0}
  /\ DecodePages \in Nat \ {0}
  /\ Frames \subseteq Nat
  /\ \E f \in RamFrames : \A g \in RamFrames : f <= g
  /\ Zero \in Contents

RamCells == {f * PageCells + i : f \in RamFrames, i \in 0 .. PageCells - 1}
VirtualCells == 0 .. VirtualPages * PageCells - 1
PageOf(cell) == cell \div PageCells
CellsFrom(first, size) == first .. first + size - 1

NoMonitor == [valid |-> FALSE, pas |-> <<>>]
NoPage == [valid |-> FALSE]
\* Ghost: the cells loaded, whether another wrote one, whether the core gave them up.
NoLink == [cells |-> {}, spoiled |-> FALSE, undone |-> FALSE]

-----------------------------------------------------------------------------
(* Translation of an access, byte by byte                                  *)

Pa(va) == map[PageOf(va)].frame * PageCells + (va % PageCells)
Pas(va, size) == [i \in 1 .. size |-> Pa(va + i - 1)]
CanWrite(va, size) == \A a \in CellsFrom(va, size) : map[PageOf(a)].writable
OnePage(va, size) == (va % PageCells) + size <= PageCells

-----------------------------------------------------------------------------
(* The decode cache                                                        *)

NoDecode == [i \in 0 .. DecodePages - 1 |-> NoPage]
InvalidateAll(d) == NoDecode
InvalidateVa(d, vas) ==
  [i \in DOMAIN d |-> IF d[i].valid /\ d[i].va \in {PageOf(a) : a \in vas} THEN NoPage ELSE d[i]]
InvalidatePa(d, pas) ==
  [i \in DOMAIN d |-> IF d[i].valid /\ d[i].frame \in {PageOf(a) : a \in pas} THEN NoPage ELSE d[i]]

\* Mutant: only the page the store was made through is dropped, not its aliases.
OnCodeWrite_VaOnly(d, vas, pas) == IF predecode THEN InvalidateVa(d, vas) ELSE d

OnCodeWrite(d, vas, pas) == IF predecode THEN InvalidatePa(InvalidateVa(d, vas), pas) ELSE d

\* lookup_decoded: take the page over if it is another's, then the slot if it
\* is empty or holds another word.  (decode_last_page_ finds the same page.)
Decode(d, va) ==
  LET at   == PageOf(va) % DecodePages
      mine == d[at].valid /\ d[at].va = PageOf(va) /\ d[at].frame = PageOf(Pa(va))
      page == IF mine THEN d[at]
              ELSE [valid |-> TRUE, va |-> PageOf(va), frame |-> PageOf(Pa(va)),
                    raws |-> [i \in 0 .. PageCells - 1 |-> "none"]]
  IN  [d EXCEPT ![at] = [page EXCEPT !.raws[va % PageCells] = mem[Pa(va)]]]

-----------------------------------------------------------------------------
(* What a write does to the others                                         *)

Overlaps(m, pas) == m.valid /\ \E i \in DOMAIN m.pas : m.pas[i] \in pas

\* Mutant: the reservation goes without an event.
Notified_Silent(c, pas) == IF Overlaps(core[c].monitor, pas) THEN [core[c] EXCEPT !.monitor = NoMonitor] ELSE core[c]

\* notify_external_memory_write, for all the parts of one write at once.
Notified(c, pas) ==
  IF Overlaps(core[c].monitor, pas)
  THEN [core[c] EXCEPT !.monitor = NoMonitor, !.event = TRUE]
  ELSE core[c]

\* What core c did itself that may end its reservation.
Undo(l) == [l EXCEPT !.undone = @ \/ l.cells # {}]

\* Which reservations a write of these cells by a core, or a device, really spoils.
Spoil(l, writers, pas) ==
  [c \in Agents |-> IF c \in writers THEN Undo(l[c])
                    ELSE [l[c] EXCEPT !.spoiled = @ \/ l[c].cells \cap pas # {}]]

\* mmu_write_value, raw_mmu_write_pair_atomic and DC ZVA: a write in parts, each
\* made on the bus and announced before the next.  It stops at the first part
\* the bus refuses; the core's own reservation goes only when all are done.
WriteParts(c, va, parts, value) ==
  LET pa(i) == {Pa(va + k) : k \in parts[i]}
      bad   == {i \in DOMAIN parts : ~(pa(i) \subseteq RamCells)}
      done  == {i \in DOMAIN parts : \A b \in bad : i < b}
      pas   == UNION {pa(i) : i \in done}
      vas   == UNION {{va + k : k \in parts[i]} : i \in done}
  IN  /\ mem' = [a \in DOMAIN mem |-> IF a \in pas THEN value ELSE mem[a]]
      /\ decoded' = [k \in Agents |-> IF k = c THEN OnCodeWrite(decoded[c], vas, pas)
                                      ELSE InvalidatePa(decoded[k], pas)]
      /\ core' = [k \in Agents |-> IF k # c THEN Notified(k, pas)
                                   ELSE IF bad = {} THEN [core[c] EXCEPT !.monitor = NoMonitor] ELSE core[c]]
      /\ link' = Spoil(link, {c}, pas)

\* One access within a page, single cells across a page boundary.
Parts(va, size) ==
  IF OnePage(va, size) THEN <<0 .. size - 1>> ELSE [i \in 1 .. size |-> {i - 1}]

-----------------------------------------------------------------------------
(* Instructions and other events                                           *)

Running(c) == ~core[c].waiting

\* A store.  One that faults in translation changes nothing.
Store(c) ==
  /\ Running(c)
  /\ \E size \in {1, 2}, va \in VirtualCells, value \in Contents :
       /\ va + size - 1 \in VirtualCells
       /\ CanWrite(va, size)
       /\ WriteParts(c, va, Parts(va, size), value)
  /\ UNCHANGED <<map, predecode>>

\* DC ZVA: a whole line, in doublewords.
ZeroLine(c) ==
  /\ Running(c)
  /\ \E page \in 0 .. VirtualPages - 1 :
       /\ CanWrite(page * PageCells, PageCells)
       /\ WriteParts(c, page * PageCells, [i \in 1 .. PageCells |-> {i - 1}], Zero)
  /\ UNCHANGED <<map, predecode>>

\* LDXR and LDXP: strictly aligned, so within a page.
LoadExclusive(c) ==
  /\ Running(c)
  /\ \E size \in {1, 2}, va \in VirtualCells :
       /\ va % size = 0 /\ va + size - 1 \in VirtualCells
       /\ Pa(va) \in RamCells
       /\ core' = [core EXCEPT ![c].monitor = [valid |-> TRUE, pas |-> Pas(va, size)],
                               ![c].status = "none"]
       /\ link' = [link EXCEPT ![c] = [NoLink EXCEPT !.cells = {Pa(a) : a \in CellsFrom(va, size)}]]
  /\ UNCHANGED <<mem, map, decoded, predecode>>

\* Mutant: the address alone is compared, not what it now translates to.
MonitorMatches_Va(c, va, size) ==
  core[c].monitor.valid /\ Len(core[c].monitor.pas) = size /\ core[c].monitor.pas[1] % PageCells = va % PageCells

MonitorMatches(c, va, size) ==
  core[c].monitor.valid /\ Len(core[c].monitor.pas) = size /\ core[c].monitor.pas = Pas(va, size)

\* Does check_exclusive_monitor get to translate, and fail?
StoreExclusiveFaults(c, va, size) ==
  /\ core[c].monitor.valid /\ Len(core[c].monitor.pas) = size
  /\ ~CanWrite(va, size)

\* STXR and STXP.  A fault leaves no reservation; neither does a failure.
StoreExclusive(c) ==
  /\ Running(c)
  /\ \E size \in {1, 2}, va \in VirtualCells, value \in Contents :
       /\ va % size = 0 /\ va + size - 1 \in VirtualCells
       /\ \/ /\ StoreExclusiveFaults(c, va, size)
             /\ core' = [core EXCEPT ![c].monitor = NoMonitor]
             /\ link' = [link EXCEPT ![c] = Undo(@)]
             /\ UNCHANGED <<mem, decoded>>
          \/ /\ ~StoreExclusiveFaults(c, va, size) /\ ~MonitorMatches(c, va, size)
             /\ core' = [core EXCEPT ![c].monitor = NoMonitor, ![c].status = "failed"]
             /\ link' = [link EXCEPT ![c].cells = {},
                                     ![c].undone = @ \/ {Pa(a) : a \in CellsFrom(va, size)} # link[c].cells]
             /\ UNCHANGED <<mem, decoded>>
          \/ /\ ~StoreExclusiveFaults(c, va, size) /\ MonitorMatches(c, va, size)
             /\ LET pas == {Pa(a) : a \in CellsFrom(va, size)} IN
                /\ mem' = [a \in DOMAIN mem |-> IF a \in pas THEN value ELSE mem[a]]
                /\ decoded' = [k \in Agents |-> IF k = c THEN OnCodeWrite(decoded[c], CellsFrom(va, size), pas)
                                                ELSE InvalidatePa(decoded[k], pas)]
                /\ core' = [k \in Agents |->
                     IF k # c THEN Notified(k, pas)
                     ELSE [core[c] EXCEPT !.monitor = NoMonitor, !.status = "stored"]]
                /\ link' = [Spoil(link, {c}, pas) EXCEPT ![c].cells = {}, ![c].undone = pas # link[c].cells]
  /\ UNCHANGED <<map, predecode>>

\* CLREX, or an interrupt and its ERET.
ForgetReservation(c) ==
  /\ Running(c)
  /\ core' = [core EXCEPT ![c].monitor = NoMonitor]
  /\ link' = [link EXCEPT ![c] = Undo(@)]
  /\ UNCHANGED <<mem, map, decoded, predecode>>

\* A core that has had its event looks again before it counts on another.
Wfe(c) ==
  /\ Running(c)
  /\ core' = [core EXCEPT ![c].event = FALSE, ![c].waiting = ~core[c].event]
  /\ link' = IF core[c].event THEN [link EXCEPT ![c] = Undo(@)] ELSE link
  /\ UNCHANGED <<mem, map, decoded, predecode>>

\* The step that finds the event register set.
Wake(c) ==
  /\ core[c].waiting /\ core[c].event
  /\ core' = [core EXCEPT ![c].event = FALSE, ![c].waiting = FALSE]
  /\ link' = [link EXCEPT ![c] = Undo(@)]
  /\ UNCHANGED <<mem, map, decoded, predecode>>

\* SEV, of any core: every core is signalled.
Sev(c) ==
  /\ Running(c)
  /\ core' = [k \in Agents |-> [core[k] EXCEPT !.event = TRUE]]
  /\ UNCHANGED <<mem, map, decoded, predecode, link>>

Fetch(c) ==
  /\ Running(c) /\ predecode
  /\ \E va \in VirtualCells :
       /\ Pa(va) \in RamCells
       /\ decoded' = [decoded EXCEPT ![c] = Decode(@, va)]
  /\ UNCHANGED <<mem, map, core, predecode, link>>

\* IC IVAU: by address on this core, everything on the others.
InvalidateLine(c) ==
  /\ Running(c)
  /\ \E va \in VirtualCells :
       decoded' = [k \in Agents |-> IF k = c THEN InvalidateVa(decoded[c], {va}) ELSE InvalidateAll(decoded[k])]
  /\ UNCHANGED <<mem, map, core, predecode, link>>

\* IC IALLU, IC IALLUIS, TLBI VMALLE1 or ASIDE1.
InvalidateInstructions(c) ==
  /\ Running(c)
  /\ decoded' = [k \in Agents |-> InvalidateAll(decoded[k])]
  /\ UNCHANGED <<mem, map, core, predecode, link>>

\* The kernel changes a mapping and broadcasts the TLBI that goes with it.
Remap(c) ==
  /\ Running(c)
  /\ \E page \in DOMAIN map, frame \in Frames, writable \in BOOLEAN :
       /\ map[page] # [frame |-> frame, writable |-> writable]
       /\ map' = [map EXCEPT ![page] = [frame |-> frame, writable |-> writable]]
       /\ decoded' = [k \in Agents |-> InvalidateVa(decoded[k], {page * PageCells})]
  /\ UNCHANGED <<mem, core, predecode, link>>

\* Bus::write_ram_buffer: a device writes RAM in one piece, and all cores hear.
DeviceWrite ==
  /\ \E first \in RamCells, size \in 1 .. PageCells + 1, value \in Contents :
       LET pas == CellsFrom(first, size) IN
       /\ pas \subseteq RamCells
       /\ mem' = [a \in DOMAIN mem |-> IF a \in pas THEN value ELSE mem[a]]
       /\ decoded' = [k \in Agents |-> InvalidatePa(decoded[k], pas)]
       /\ core' = [k \in Agents |-> Notified(k, pas)]
       /\ link' = Spoil(link, {}, pas)
  /\ UNCHANGED <<map, predecode>>

SetPredecode(on) == predecode' = on /\ decoded' = [k \in Agents |-> InvalidateAll(decoded[k])]
TogglePredecode == SetPredecode(~predecode) /\ UNCHANGED <<mem, map, core, link>>

\* save_state and load_state: the monitor and the wait state come back, what
\* was decoded does not.
SnapshotCores ==
  /\ decoded' = [k \in Agents |-> InvalidateAll(decoded[k])]
  /\ UNCHANGED <<mem, map, core, predecode, link>>

SharedInit ==
  /\ mem = [a \in RamCells |-> Zero]
  /\ map = [p \in 0 .. VirtualPages - 1 |-> [frame |-> CHOOSE f \in RamFrames : \A g \in RamFrames : f <= g, writable |-> TRUE]]
  /\ core = [c \in Agents |-> [monitor |-> NoMonitor, event |-> FALSE, waiting |-> FALSE, status |-> "none"]]
  /\ decoded = [c \in Agents |-> NoDecode]
  /\ predecode = TRUE
  /\ link = [c \in Agents |-> NoLink]

\* Data shared under exclusives.
LockNext ==
  \/ \E c \in Agents : \/ Store(c) \/ ZeroLine(c) \/ LoadExclusive(c) \/ StoreExclusive(c)
                       \/ ForgetReservation(c) \/ Wfe(c) \/ Wake(c) \/ Sev(c) \/ Remap(c)
  \/ DeviceWrite

\* Code that is written, by whoever, and run.
CodeNext ==
  \/ \E c \in Agents : \/ Store(c) \/ ZeroLine(c) \/ Fetch(c) \/ InvalidateLine(c)
                       \/ InvalidateInstructions(c) \/ Remap(c)
  \/ DeviceWrite \/ TogglePredecode \/ SnapshotCores

SharedSpec == SharedInit /\ [][LockNext \/ CodeNext]_shared_vars

-----------------------------------------------------------------------------
(* Properties                                                              *)

(* A store exclusive reports success exactly when it may.  No update is    *)
(* lost: it succeeds only when no other core and no device has written any *)
(* of its bytes since the load, and they are the physical bytes the load   *)
(* read, whatever the kernel mapped there meanwhile.  And no reservation   *)
(* is lost for nothing: it fails only when another agent wrote one of its  *)
(* bytes, or this core stored, faulted, cleared or returned from an        *)
(* exception in between, so two cores that lock different words do not     *)
(* hold each other up (check_exclusive_monitor,                            *)
(* exclusive_monitor_overlaps, on_external_ram_write).                     *)
ExclusiveIsAtomic ==
  \A c \in Agents :
    /\ core[c].status = "stored" => ~link[c].spoiled /\ ~link[c].undone
    /\ core[c].status = "failed" => link[c].spoiled \/ link[c].undone

(* A core that loads a lock exclusively and waits for an event does not    *)
(* sleep through the store that releases it, even when the store comes     *)
(* between the load and the WFE: the cleared reservation is an event       *)
(* (notify_external_memory_write, WFE).                                    *)
ReleaseWakesWaiter ==
  \A c \in Agents :
    core[c].waiting /\ link[c].cells # {} /\ link[c].spoiled /\ ~link[c].undone => core[c].event

(* What a core has decoded is what memory holds, through whichever virtual *)
(* page, core or device the code was written: the comparison with the      *)
(* fetched word never has to find a difference (on_code_write,             *)
(* invalidate_decode_pa, set_predecode_enabled).                           *)
DecodedIsMemory ==
  \A c \in Agents, i \in 0 .. DecodePages - 1 :
    LET d == decoded[c][i] IN
    predecode /\ d.valid => \A k \in DOMAIN d.raws :
      d.raws[k] = "none" \/ d.raws[k] = mem[d.frame * PageCells + k]
=============================================================================
