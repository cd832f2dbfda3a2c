---------------------------- MODULE MemoryProofs ----------------------------
(***************************************************************************)
(* Proofs about memory as the cores see it.                                *)
(*                                                                         *)
(* Shared memory, for any number of cores, any page size of whole cell     *)
(* pairs, any mapping, and locks and code together: exclusives are atomic  *)
(* and fail only for a cause, a core that waits for a lock is woken by its *)
(* release, and what is decoded is what memory holds.                      *)
(*                                                                         *)
(* Translation, for any page tables, any kernel that changes them, any     *)
(* number of cores and any size of the TLB: what a core has cached is what *)
(* a walk would find or still waits for its invalidation, and a snapshot   *)
(* keeps what the TLB answers.                                             *)
(***************************************************************************)
EXTENDS SharedMemory, Mmu, TLAPS

\* A reservation is of one cell, or of two in a row.
Run(p, n) == [i \in 1 .. n |-> p + i - 1]
Runs == {r \in Seq(Nat) : \E p \in Nat, n \in {1, 2} : r = Run(p, n)}
Reservations == [valid : {TRUE}, pas : Runs]
Monitors == {NoMonitor} \cup Reservations
Core == [monitor : Monitors, event : BOOLEAN, waiting : BOOLEAN, status : {"none", "stored", "failed"}]
Link == [cells : SUBSET Nat, spoiled : BOOLEAN, undone : BOOLEAN]
Mappings == [0 .. VirtualPages - 1 -> [frame : Frames, writable : BOOLEAN]]
Slots == 0 .. DecodePages - 1
DecodedPages == [valid : {TRUE}, va : Nat, frame : RamFrames,
                 raws : [0 .. PageCells - 1 -> Contents \cup {"none"}]]

\* What the variables are; of the decoded pages DecodeInv says it.
SharedTypeOK ==
  /\ mem \in [RamCells -> Contents]
  /\ map \in Mappings
  /\ core \in [Agents -> Core]
  /\ link \in [Agents -> Link]
  /\ predecode \in BOOLEAN

\* A decoded page agrees with the memory m.
TruePage(d, m) ==
  \/ d = NoPage
  \/ /\ d \in DecodedPages
     /\ \A k \in 0 .. PageCells - 1 : d.raws[k] = "none" \/ d.raws[k] = m[d.frame * PageCells + k]
TrueCache(d, m) == DOMAIN d = Slots /\ d = [i \in Slots |-> d[i]] /\ \A i \in Slots : TruePage(d[i], m)

DecodeInv ==
  /\ decoded = [c \in Agents |-> decoded[c]]
  /\ \A c \in Agents : TrueCache(decoded[c], mem)
  /\ ~predecode => \A c \in Agents : decoded[c] = NoDecode

\* How a reservation, the core's report and what really happened belong
\* together.  The last part is what a core relies on before it waits.
Linked(c, l) ==
  /\ c.monitor.valid => /\ \E p \in Nat, n \in {1, 2} :
                             c.monitor.pas = Run(p, n) /\ l.cells = p .. p + n - 1
                        /\ ~l.spoiled
  /\ ~c.monitor.valid /\ l.cells # {} => l.spoiled \/ l.undone
  /\ c.status # "none" => l.cells = {}
  /\ c.status = "stored" => ~l.spoiled /\ ~l.undone
  /\ c.status = "failed" => l.spoiled \/ l.undone
  /\ l.cells # {} /\ l.spoiled /\ ~l.undone => c.event

LinkInv == \A c \in Agents : Linked(core[c], link[c])

SharedInv == SharedTypeOK /\ DecodeInv /\ LinkInv

-----------------------------------------------------------------------------
(* Cells and pages                                                         *)

\* A cell is its page and its place in the page, in one way.
LEMMA CellOfPage ==
  ASSUME NEW f \in Nat, NEW i \in 0 .. PageCells - 1
  PROVE  /\ f * PageCells + i \in Nat
         /\ PageOf(f * PageCells + i) = f
         /\ (f * PageCells + i) % PageCells = i
<1>1. PageCells \in Nat \ {0}
  BY SharedAssumption
<1>2. f * PageCells + i \in Nat
  BY <1>1
<1>3. (f * PageCells + i) \div PageCells = f
  BY <1>1
<1>4. (f * PageCells + i) % PageCells = i
  BY <1>1
<1> QED
  BY <1>2, <1>3, <1>4 DEF PageOf

\* A virtual cell lies in a page of the table.
LEMMA PageOfVa ==
  ASSUME NEW va \in VirtualCells
  PROVE  va \in Nat /\ PageOf(va) \in 0 .. VirtualPages - 1 /\ va % PageCells \in 0 .. PageCells - 1
<1>1. PageCells \in Nat \ {0} /\ VirtualPages \in Nat \ {0}
  BY SharedAssumption
<1>2. va \in Nat /\ va < VirtualPages * PageCells
  BY <1>1 DEF VirtualCells
<1>3. /\ va = PageCells * (va \div PageCells) + (va % PageCells)
      /\ va % PageCells \in 0 .. PageCells - 1
      /\ va \div PageCells \in Nat
  BY <1>1, <1>2
<1>4. va \div PageCells < VirtualPages
  BY <1>1, <1>2, <1>3
<1> QED
  BY <1>1, <1>2, <1>3, <1>4 DEF PageOf

\* A RAM cell lies in a RAM page, and the cells of a RAM page are RAM.
LEMMA RamCell ==
  /\ \A a \in RamCells : a \in Nat /\ PageOf(a) \in RamFrames
  /\ \A f \in RamFrames, i \in 0 .. PageCells - 1 : f * PageCells + i \in RamCells
<1>1. RamFrames \subseteq Nat
  BY SharedAssumption DEF Frames
<1>2. ASSUME NEW a \in RamCells
      PROVE  a \in Nat /\ PageOf(a) \in RamFrames
  <2>1. PICK f \in RamFrames, i \in 0 .. PageCells - 1 : a = f * PageCells + i
    BY DEF RamCells
  <2> QED
    BY <1>1, <2>1, CellOfPage
<1> QED
  BY <1>2 DEF RamCells

\* A translated cell keeps its place in the page.
LEMMA PaPlace ==
  ASSUME map \in Mappings, NEW va \in VirtualCells
  PROVE  /\ Pa(va) \in Nat
         /\ PageOf(Pa(va)) = map[PageOf(va)].frame
         /\ Pa(va) = map[PageOf(va)].frame * PageCells + (va % PageCells)
<1>1. map[PageOf(va)].frame \in Nat
  BY PageOfVa, SharedAssumption DEF Mappings
<1> QED
  BY <1>1, PageOfVa, CellOfPage DEF Pa

\* An aligned exclusive does not leave its page, so its cells are in a row.
LEMMA AlignedRun ==
  ASSUME map \in Mappings, NEW size \in {1, 2}, NEW va \in VirtualCells,
         va % size = 0, va + size - 1 \in VirtualCells
  PROVE  /\ Pa(va) \in Nat
         /\ Pas(va, size) = Run(Pa(va), size)
         /\ {Pa(a) : a \in CellsFrom(va, size)} = Pa(va) .. Pa(va) + size - 1
<1>1. Pa(va) \in Nat /\ va \in Nat
  BY PaPlace, PageOfVa
<1>2. CASE size = 1
  <2>1. CellsFrom(va, size) = {va}
    BY <1>1, <1>2 DEF CellsFrom
  <2>2. Pas(va, size) = Run(Pa(va), size)
    BY <1>1, <1>2 DEF Pas, Run
  <2> QED
    BY <1>1, <1>2, <2>1, <2>2
<1>3. CASE size = 2
  <2>1. CellsFrom(va, size) = {va, va + 1} /\ va + 1 \in VirtualCells
    BY <1>1, <1>3 DEF CellsFrom
  <2>2. PageOf(va + 1) = PageOf(va) /\ (va + 1) % PageCells = (va % PageCells) + 1
    <3> DEFINE q == va \div PageCells
               r == va % PageCells
    <3>1. PageCells \in Nat \ {0} /\ PageCells % 2 = 0
      BY SharedAssumption
    <3>2. va = PageCells * q + r /\ r \in 0 .. PageCells - 1 /\ q \in Nat
      BY <1>1, <3>1
    <3>3. PageCells = 2 * (PageCells \div 2) /\ va = 2 * (va \div 2)
      BY <1>1, <1>3, <3>1
    <3> DEFINE h == PageCells \div 2
               k == va \div 2
    <3>4. h \in Nat /\ k \in Nat
      BY <1>1, <3>1
    <3> HIDE DEF q, r, h, k
    <3>5. r = 2 * (k - h * q)
      BY <3>1, <3>2, <3>3, <3>4 DEF h, k
    <3>6. h * q \in Nat
      BY <3>2, <3>4
    <3>7. r + 1 \in 0 .. PageCells - 1
      BY <3>1, <3>2, <3>3, <3>4, <3>5, <3>6 DEF h
    <3>8. va + 1 = q * PageCells + (r + 1)
      BY <3>1, <3>2, <1>1
    <3>9. PageOf(va + 1) = q /\ (va + 1) % PageCells = r + 1
      BY <3>2, <3>7, <3>8, CellOfPage
    <3> QED
      BY <3>9 DEF q, r, PageOf
  <2>3. Pa(va + 1) = Pa(va) + 1
    <3> DEFINE f == map[PageOf(va)].frame * PageCells
    <3>1. map[PageOf(va)].frame \in Nat /\ PageCells \in Nat
      BY PageOfVa, SharedAssumption DEF Mappings
    <3>2. f \in Nat /\ va % PageCells \in Nat
      BY <3>1, PageOfVa
    <3>3. Pa(va) = f + (va % PageCells) /\ Pa(va + 1) = f + ((va % PageCells) + 1)
      BY <2>2 DEF Pa
    <3> HIDE DEF f
    <3> QED
      BY <3>2, <3>3
  <2>4. Pas(va, size) = Run(Pa(va), size)
    <3>1. \A i \in 1 .. 2 : Pa(va + i - 1) = Pa(va) + i - 1
      BY <1>1, <2>3
    <3> QED
      BY <1>3, <3>1 DEF Pas, Run
  <2>5. Pa(va) .. Pa(va) + size - 1 = {Pa(va), Pa(va) + 1}
    BY <1>1, <1>3
  <2> QED
    BY <1>1, <2>1, <2>3, <2>4, <2>5
<1> QED
  BY <1>2, <1>3

-----------------------------------------------------------------------------
(* Decoded pages                                                           *)

\* An empty cache is true of any memory.
LEMMA NothingDecoded ==
  ASSUME NEW m
  PROVE  TrueCache(NoDecode, m)
BY SharedAssumption DEF TrueCache, TruePage, NoDecode, Slots

\* Dropping the page of an address leaves what is true.
LEMMA InvalidateVaTrue ==
  ASSUME NEW d, NEW m, TrueCache(d, m), NEW vas
  PROVE  TrueCache(InvalidateVa(d, vas), m) /\ (d = NoDecode => InvalidateVa(d, vas) = NoDecode)
<1>1. TrueCache(InvalidateVa(d, vas), m)
  BY DEF TrueCache, TruePage, InvalidateVa
<1>2. d = NoDecode => InvalidateVa(d, vas) = NoDecode
  BY DEF InvalidateVa, NoDecode, NoPage
<1> QED
  BY <1>1, <1>2

\* What memory is after a write of some cells.
Overwritten(m, pas, value) == [a \in DOMAIN m |-> IF a \in pas THEN value ELSE m[a]]

\* Dropping the pages that hold the cells of a write leaves what is true after it.
LEMMA InvalidatePaTrue ==
  ASSUME NEW d, NEW m \in [RamCells -> Contents], TrueCache(d, m), NEW pas, NEW value
  PROVE  /\ TrueCache(InvalidatePa(d, pas), Overwritten(m, pas, value))
         /\ d = NoDecode => InvalidatePa(d, pas) = NoDecode
<1> DEFINE e == InvalidatePa(d, pas)
           n == Overwritten(m, pas, value)
<1>1. DOMAIN e = Slots /\ e = [i \in Slots |-> e[i]]
  BY DEF TrueCache, InvalidatePa
<1>2. ASSUME NEW i \in Slots
      PROVE  TruePage(e[i], n)
  <2>1. CASE e[i] = NoPage
    BY <2>1 DEF TruePage
  <2>2. CASE e[i] # NoPage
    <3>1. e[i] = d[i] /\ ~(d[i].valid /\ d[i].frame \in {PageOf(a) : a \in pas}) /\ d[i] # NoPage
      BY <2>2 DEF InvalidatePa, TrueCache
    <3>2. d[i] \in DecodedPages /\ TruePage(d[i], m)
      BY <3>1 DEF TrueCache, TruePage
    <3>3. d[i].frame \in RamFrames /\ d[i].frame \in Nat /\ d[i].frame \notin {PageOf(a) : a \in pas}
      BY <3>1, <3>2, SharedAssumption DEF DecodedPages, Frames
    <3>4. ASSUME NEW k \in 0 .. PageCells - 1
          PROVE  n[d[i].frame * PageCells + k] = m[d[i].frame * PageCells + k]
      <4> DEFINE a == d[i].frame * PageCells + k
      <4>1. a \in RamCells /\ PageOf(a) = d[i].frame
        BY <3>3, RamCell, CellOfPage
      <4> HIDE DEF a
      <4>2. a \notin pas
        BY <3>3, <4>1
      <4>3. n[a] = m[a]
        BY <4>1, <4>2 DEF Overwritten
      <4> QED
        BY <4>3 DEF a
    <3> QED
      BY <3>1, <3>2, <3>4 DEF TruePage
  <2> QED
    BY <2>1, <2>2
<1>3. d = NoDecode => e = NoDecode
  BY DEF InvalidatePa, NoDecode, NoPage
<1> QED
  BY <1>1, <1>2, <1>3 DEF TrueCache

\* So does on_code_write, when nothing is decoded while predecoding is off.
LEMMA OnCodeWriteTrue ==
  ASSUME mem \in [RamCells -> Contents],
         NEW d, TrueCache(d, mem), ~predecode => d = NoDecode, NEW vas, NEW pas, NEW value
  PROVE  /\ TrueCache(OnCodeWrite(d, vas, pas), Overwritten(mem, pas, value))
         /\ d = NoDecode => OnCodeWrite(d, vas, pas) = NoDecode
<1>1. CASE predecode
  BY <1>1, InvalidateVaTrue, InvalidatePaTrue DEF OnCodeWrite
<1>2. CASE ~predecode
  BY <1>2, NothingDecoded DEF OnCodeWrite
<1> QED
  BY <1>1, <1>2

\* What lookup_decoded stores is the word memory holds.
LEMMA DecodeTrue ==
  ASSUME mem \in [RamCells -> Contents], map \in Mappings,
         NEW d, TrueCache(d, mem), NEW va \in VirtualCells, Pa(va) \in RamCells
  PROVE  TrueCache(Decode(d, va), mem)
<1> DEFINE at   == PageOf(va) % DecodePages
           f    == PageOf(Pa(va))
           k    == va % PageCells
           mine == d[at].valid /\ d[at].va = PageOf(va) /\ d[at].frame = f
           none == [valid |-> TRUE, va |-> PageOf(va), frame |-> f,
                    raws |-> [i \in 0 .. PageCells - 1 |-> "none"]]
           page == IF mine THEN d[at] ELSE none
           new  == [page EXCEPT !.raws[k] = mem[Pa(va)]]
<1>1. /\ at \in Slots /\ k \in 0 .. PageCells - 1 /\ PageOf(va) \in Nat
      /\ f \in RamFrames /\ Pa(va) = f * PageCells + k /\ mem[Pa(va)] \in Contents
  <2>1. PageOf(va) \in Nat /\ k \in 0 .. PageCells - 1
    BY PageOfVa, SharedAssumption
  <2>2. at \in Slots
    BY <2>1, SharedAssumption DEF Slots
  <2> QED
    BY <2>1, <2>2, RamCell, PaPlace
<1>2. Decode(d, va) = [d EXCEPT ![at] = new]
  BY DEF Decode
<1>3. TruePage(page, mem) /\ page # NoPage /\ page.frame = f
  <2>1. CASE mine
    <3>1. page = d[at] /\ d[at].valid /\ d[at].frame = f /\ TruePage(d[at], mem)
      BY <1>1, <2>1 DEF TrueCache
    <3>2. NoPage.valid = FALSE
      BY DEF NoPage
    <3> HIDE DEF page, at, f
    <3> QED
      BY <3>1, <3>2
  <2>2. CASE ~mine
    <3>1. none \in DecodedPages /\ none.frame = f /\ none.raws = [i \in 0 .. PageCells - 1 |-> "none"]
      BY <1>1 DEF DecodedPages
    <3>2. none.valid = TRUE /\ NoPage.valid = FALSE
      BY DEF NoPage
    <3>3. page = none
      BY <2>2
    <3> HIDE DEF none, page, f
    <3> QED
      BY <3>1, <3>2, <3>3 DEF TruePage
  <2> QED
    BY <2>1, <2>2
<1> HIDE DEF page, at, f, k
<1>4. page \in DecodedPages /\ \A i \in 0 .. PageCells - 1 : page.raws[i] = "none" \/ page.raws[i] = mem[f * PageCells + i]
  BY <1>3 DEF TruePage
<1>5. new \in DecodedPages /\ new.frame = f /\ new.raws = [page.raws EXCEPT ![k] = mem[Pa(va)]]
  BY <1>1, <1>3, <1>4 DEF DecodedPages
<1>6. TruePage(new, mem)
  BY <1>1, <1>4, <1>5 DEF TruePage, DecodedPages
<1> HIDE DEF new
<1> QED
  BY <1>1, <1>2, <1>6 DEF TrueCache

-----------------------------------------------------------------------------
(* Reservations                                                            *)

\* A core and its history fit together.
Fits(c, l) == c \in Core /\ l \in Link /\ Linked(c, l)

LEMMA MonitorType ==
  /\ NoMonitor \in Monitors /\ NoMonitor.valid = FALSE
  /\ \A m \in Monitors : m.valid \in BOOLEAN /\ (~m.valid => m = NoMonitor)
<1>1. NoMonitor \in Monitors /\ NoMonitor.valid = FALSE
  BY DEF Monitors, NoMonitor
<1>2. ASSUME NEW m \in Reservations
      PROVE  m.valid = TRUE
  BY DEF Reservations
<1> QED
  BY <1>1, <1>2 DEF Monitors

\* What a core does itself, whether or not its reservation survives.
LEMMA UndoFits ==
  ASSUME NEW c, NEW l, Fits(c, l),
         NEW d \in Core, d.status = c.status, d.monitor = c.monitor \/ d.monitor = NoMonitor
  PROVE  Fits(d, Undo(l))
<1>1. /\ Undo(l) \in Link /\ Undo(l).cells = l.cells /\ Undo(l).spoiled = l.spoiled
      /\ Undo(l).undone = (l.undone \/ l.cells # {})
  BY DEF Undo, Link, Fits
<1>2. c \in Core /\ l \in Link /\ Linked(c, l)
  BY DEF Fits
<1>3. NoMonitor.valid = FALSE
  BY DEF NoMonitor
<1>4. Linked(d, Undo(l))
  BY <1>1, <1>2, <1>3 DEF Linked
<1> QED
  BY <1>1, <1>4 DEF Fits

\* The cells of a monitor are those of a run.
LEMMA RunCells ==
  ASSUME NEW p \in Nat, NEW n \in {1, 2}
  PROVE  /\ Run(p, n) \in Seq(Nat) /\ Len(Run(p, n)) = n /\ DOMAIN Run(p, n) = 1 .. n
         /\ \A i \in 1 .. n : Run(p, n)[i] \in p .. p + n - 1
         /\ \A a \in p .. p + n - 1 : \E i \in 1 .. n : Run(p, n)[i] = a
         /\ p \in p .. p + n - 1
<1>1. CASE n = 1
  BY <1>1 DEF Run
<1>2. CASE n = 2
  BY <1>2 DEF Run
<1> QED
  BY <1>1, <1>2

\* A run has one beginning and one length.
LEMMA RunOnce ==
  ASSUME NEW p \in Nat, NEW n \in {1, 2}, NEW q \in Nat, NEW m \in {1, 2}, Run(p, n) = Run(q, m)
  PROVE  n = m /\ p = q
<1>0. 1 .. n = 1 .. m
  BY DEF Run
<1>1. n = m
  BY <1>0
<1>2. Run(p, n)[1] = p /\ Run(q, m)[1] = q
  BY DEF Run
<1> QED
  BY <1>1, <1>2

\* A write that overlaps a reservation is one of its cells.
LEMMA OverlapIsShared ==
  ASSUME NEW m, NEW p \in Nat, NEW n \in {1, 2}, m.valid, m.pas = Run(p, n), NEW pas
  PROVE  Overlaps(m, pas) <=> (p .. p + n - 1) \cap pas # {}
<1> DEFINE cells == p .. p + n - 1
<1>1. DOMAIN m.pas = 1 .. n
  BY DEF Run
<1>2. Overlaps(m, pas) <=> \E i \in 1 .. n : Run(p, n)[i] \in pas
  BY <1>1 DEF Overlaps
<1>3. /\ \A i \in 1 .. n : Run(p, n)[i] \in cells
      /\ \A a \in cells : \E i \in 1 .. n : Run(p, n)[i] = a
  BY RunCells
<1> HIDE DEF cells
<1> QED
  BY <1>2, <1>3 DEF cells

\* What another core or a device writes: a reservation it takes away is an event.
SpoiledBy(l, pas) == [l EXCEPT !.spoiled = @ \/ l.cells \cap pas # {}]

LEMMA OthersFit ==
  ASSUME NEW k \in Agents, NEW l, Fits(core[k], l), NEW pas
  PROVE  Fits(Notified(k, pas), SpoiledBy(l, pas))
<1> DEFINE c == core[k]
           s == SpoiledBy(l, pas)
           d == Notified(k, pas)
<1>1. /\ s \in Link /\ s.cells = l.cells /\ s.undone = l.undone
      /\ s.spoiled = (l.spoiled \/ l.cells \cap pas # {})
  BY DEF SpoiledBy, Link, Fits
<1>2. c \in Core /\ l \in Link /\ Linked(c, l) /\ c.monitor \in Monitors
  BY DEF Fits, Core
<1>3. CASE Overlaps(c.monitor, pas)
  <2>1. d \in Core /\ d.monitor = NoMonitor /\ d.event = TRUE /\ d.status = c.status
    BY <1>2, <1>3, MonitorType DEF Notified, Core
  <2>2. c.monitor.valid
    BY <1>3 DEF Overlaps
  <2>3. PICK p \in Nat, n \in {1, 2} : c.monitor.pas = Run(p, n) /\ l.cells = p .. p + n - 1
    BY <1>2, <2>2 DEF Linked
  <2>4. l.cells \cap pas # {}
    BY <1>3, <2>2, <2>3, OverlapIsShared
  <2>5. NoMonitor.valid = FALSE
    BY DEF NoMonitor
  <2>6. Linked(d, s)
    BY <1>1, <1>2, <2>1, <2>4, <2>5 DEF Linked
  <2> QED
    BY <1>1, <2>1, <2>6 DEF Fits
<1>4. CASE ~Overlaps(c.monitor, pas)
  <2>1. d = c
    BY <1>4 DEF Notified
  <2>2. c.monitor.valid => l.cells \cap pas = {}
    <3> SUFFICES ASSUME c.monitor.valid
                 PROVE  l.cells \cap pas = {}
      OBVIOUS
    <3>1. PICK p \in Nat, n \in {1, 2} : c.monitor.pas = Run(p, n) /\ l.cells = p .. p + n - 1
      BY <1>2 DEF Linked
    <3> QED
      BY <1>4, <3>1, OverlapIsShared
  <2>3. Linked(c, s)
    BY <1>1, <1>2, <2>2 DEF Linked
  <2> QED
    BY <1>1, <1>2, <2>1, <2>3 DEF Fits
<1> QED
  BY <1>3, <1>4

\* LDXR begins a new history.
LEMMA LoadFits ==
  ASSUME NEW c \in Core, NEW p \in Nat, NEW n \in {1, 2}
  PROVE  Fits([c EXCEPT !.monitor = [valid |-> TRUE, pas |-> Run(p, n)], !.status = "none"],
              [NoLink EXCEPT !.cells = p .. p + n - 1])
<1> DEFINE m == [valid |-> TRUE, pas |-> Run(p, n)]
           d == [c EXCEPT !.monitor = m, !.status = "none"]
           l == [NoLink EXCEPT !.cells = p .. p + n - 1]
<1>1. m \in Monitors /\ m.valid = TRUE /\ m.pas = Run(p, n)
  <2>1. Run(p, n) \in Runs
    BY RunCells DEF Runs
  <2>2. m \in Reservations
    BY <2>1 DEF Reservations
  <2> QED
    BY <2>2 DEF Monitors
<1> HIDE DEF m
<1>2. d \in Core /\ d.monitor = m /\ d.status = "none"
  BY <1>1 DEF Core
<1> DEFINE cells == p .. p + n - 1
<1>3. cells \subseteq Nat
  OBVIOUS
<1> HIDE DEF cells
<1>4. l \in Link /\ l.cells = p .. p + n - 1 /\ l.spoiled = FALSE /\ l.undone = FALSE
  BY <1>3 DEF NoLink, Link, cells
<1> HIDE DEF d, l
<1>5. Linked(d, l)
  BY <1>1, <1>2, <1>4 DEF Linked
<1> QED
  BY <1>2, <1>4, <1>5 DEF Fits, d, l, m

\* Equal cells are the same run.
LEMMA SameRun ==
  ASSUME NEW p \in Nat, NEW n \in {1, 2}, NEW q \in Nat, NEW m \in {1, 2},
         p .. p + n - 1 = q .. q + m - 1
  PROVE  p = q /\ n = m
<1>1. /\ p \in p .. p + n - 1 /\ p + n - 1 \in p .. p + n - 1
      /\ q \in q .. q + m - 1 /\ q + m - 1 \in q .. q + m - 1
  OBVIOUS
<1>2. /\ p >= q /\ p + n - 1 <= q + m - 1
      /\ q >= p /\ q + m - 1 <= p + n - 1
  BY <1>1
<1> QED
  BY <1>2

\* A store exclusive that the monitor refuses has been interfered with.
LEMMA FailFits ==
  ASSUME map \in Mappings, NEW c \in Agents, NEW l, Fits(core[c], l),
         NEW size \in {1, 2}, NEW va \in VirtualCells, va % size = 0, va + size - 1 \in VirtualCells,
         ~MonitorMatches(c, va, size),
         NEW pas, pas = Pa(va) .. Pa(va) + size - 1,
         NEW d \in Core, d.monitor = NoMonitor, d.status = "failed",
         NEW k \in Link, k.cells = {}, k.spoiled = l.spoiled, k.undone = (l.undone \/ pas # l.cells)
  PROVE  Fits(d, k)
<1>1. core[c] \in Core /\ l \in Link /\ Linked(core[c], l)
  BY DEF Fits
<1>2. d \in Core /\ d.monitor = NoMonitor /\ d.status = "failed" /\ NoMonitor.valid = FALSE
  BY MonitorType
<1>3. k \in Link /\ k.cells = {} /\ k.spoiled = l.spoiled /\ k.undone = (l.undone \/ pas # l.cells)
  OBVIOUS
<1>4. Pa(va) \in Nat /\ Pas(va, size) = Run(Pa(va), size)
  BY AlignedRun
<1>5. pas # l.cells \/ l.spoiled \/ l.undone
  <2>1. CASE core[c].monitor.valid
    <3>1. PICK p \in Nat, n \in {1, 2} : core[c].monitor.pas = Run(p, n) /\ l.cells = p .. p + n - 1
      BY <1>1, <2>1 DEF Linked
    <3>2. ASSUME pas = l.cells
          PROVE  FALSE
      <4>1. p .. p + n - 1 = Pa(va) .. Pa(va) + size - 1
        BY <1>4, <3>1, <3>2
      <4>2. p = Pa(va) /\ n = size
        BY <1>4, <4>1, SameRun
      <4>3. core[c].monitor.pas = Run(Pa(va), size) /\ Len(Run(Pa(va), size)) = size
        BY <1>4, <3>1, <4>2, RunCells
      <4> QED
        BY <1>4, <2>1, <4>3 DEF MonitorMatches
    <3> QED
      BY <3>2
  <2>2. CASE ~core[c].monitor.valid
    <3>1. Pa(va) \in pas
      BY <1>4, RunCells
    <3>2. l.cells # {} => l.spoiled \/ l.undone
      BY <1>1, <2>2 DEF Linked
    <3> QED
      BY <3>1, <3>2
  <2> QED
    BY <2>1, <2>2
<1>6. k.spoiled \/ k.undone
  BY <1>3, <1>5
<1>7. Linked(d, k)
  BY <1>2, <1>3, <1>6 DEF Linked
<1> QED
  BY <1>2, <1>3, <1>7 DEF Fits

\* One that it lets through has not.
LEMMA StoreFits ==
  ASSUME map \in Mappings, NEW c \in Agents, NEW l, Fits(core[c], l),
         NEW size \in {1, 2}, NEW va \in VirtualCells, va % size = 0, va + size - 1 \in VirtualCells,
         MonitorMatches(c, va, size),
         NEW pas, pas = Pa(va) .. Pa(va) + size - 1,
         NEW d \in Core, d.monitor = NoMonitor, d.status = "stored",
         NEW k \in Link, k.cells = {}, k.spoiled = l.spoiled, k.undone = (pas # l.cells)
  PROVE  Fits(d, k)
<1>1. core[c] \in Core /\ l \in Link /\ Linked(core[c], l)
  BY DEF Fits
<1>2. d \in Core /\ d.monitor = NoMonitor /\ d.status = "stored" /\ NoMonitor.valid = FALSE
  BY MonitorType
<1>3. k \in Link /\ k.cells = {} /\ k.spoiled = l.spoiled /\ k.undone = (pas # l.cells)
  OBVIOUS
<1>4. Pa(va) \in Nat /\ Pas(va, size) = Run(Pa(va), size)
  BY AlignedRun
<1>5. core[c].monitor.valid /\ core[c].monitor.pas = Run(Pa(va), size)
  BY <1>4 DEF MonitorMatches
<1>6. PICK p \in Nat, n \in {1, 2} : core[c].monitor.pas = Run(p, n) /\ l.cells = p .. p + n - 1
  BY <1>1, <1>5 DEF Linked
<1>7. n = size /\ p = Pa(va)
  <2>1. Run(p, n) = Run(Pa(va), size) /\ Pa(va) \in Nat
    BY <1>4, <1>5, <1>6
  <2> QED
    BY <2>1, RunOnce, Zenon
<1>8. pas = l.cells
  BY <1>4, <1>6, <1>7
<1>9. ~l.spoiled
  BY <1>1, <1>5 DEF Linked
<1>10. Linked(d, k)
  BY <1>2, <1>3, <1>8, <1>9 DEF Linked
<1> QED
  BY <1>2, <1>3, <1>10 DEF Fits

-----------------------------------------------------------------------------
(* Steps                                                                   *)

\* Every core that fits is all there is to say of the cores.
LEMMA CoresFit ==
  ASSUME core' = [k \in Agents |-> core'[k]], link' = [k \in Agents |-> link'[k]],
         \A k \in Agents : Fits(core'[k], link'[k])
  PROVE  core' \in [Agents -> Core] /\ link' \in [Agents -> Link] /\ LinkInv'
BY DEF Fits, LinkInv

\* A write, by whomever.
LEMMA WriteKeepsDecoded ==
  ASSUME SharedTypeOK, DecodeInv, NEW pas, NEW vas, NEW value \in Contents,
         mem' = Overwritten(mem, pas, value), predecode' = predecode,
         decoded' = [k \in Agents |-> decoded'[k]],
         \A k \in Agents : \/ decoded'[k] = OnCodeWrite(decoded[k], vas, pas)
                           \/ decoded'[k] = InvalidatePa(decoded[k], pas)
  PROVE  mem' \in [RamCells -> Contents] /\ DecodeInv'
<1>1. mem \in [RamCells -> Contents]
  BY DEF SharedTypeOK
<1>2. mem' \in [RamCells -> Contents]
  BY <1>1 DEF Overwritten
<1>3. ASSUME NEW k \in Agents
      PROVE  TrueCache(decoded'[k], mem') /\ (decoded[k] = NoDecode => decoded'[k] = NoDecode)
  <2>1. TrueCache(decoded[k], mem) /\ (~predecode => decoded[k] = NoDecode)
    BY DEF DecodeInv
  <2> QED
    BY <1>1, <2>1, OnCodeWriteTrue, InvalidatePaTrue
<1> QED
  BY <1>2, <1>3 DEF DecodeInv

\* Memory stays and some pages are dropped, or one is added while predecoding is on.
LEMMA DecodedChanges ==
  ASSUME DecodeInv, mem' = mem,
         decoded' = [k \in Agents |-> decoded'[k]],
         \A k \in Agents : TrueCache(decoded'[k], mem),
         \/ \A k \in Agents : decoded'[k] = NoDecode
         \/ predecode' = predecode /\ (~predecode => \A k \in Agents : decoded'[k] = NoDecode)
  PROVE  DecodeInv'
BY DEF DecodeInv

\* Neither memory nor what is decoded changes.
LEMMA DecodedStays ==
  ASSUME DecodeInv, UNCHANGED <<mem, decoded, predecode>>
  PROVE  DecodeInv'
BY DEF DecodeInv

\* A write in parts by one core, complete or not.
LEMMA WritePartsKeeps ==
  ASSUME SharedInv, NEW c \in Agents, NEW va, NEW parts, NEW value \in Contents,
         WriteParts(c, va, parts, value), UNCHANGED <<map, predecode>>
  PROVE  SharedInv'
<1> DEFINE pa(i) == {Pa(va + k) : k \in parts[i]}
           bad  == {i \in DOMAIN parts : ~(pa(i) \subseteq RamCells)}
           done == {i \in DOMAIN parts : \A b \in bad : i < b}
           pas  == UNION {pa(i) : i \in done}
           vas  == UNION {{va + k : k \in parts[i]} : i \in done}
<1>1. /\ mem' = Overwritten(mem, pas, value)
      /\ decoded' = [k \in Agents |-> IF k = c THEN OnCodeWrite(decoded[c], vas, pas)
                                      ELSE InvalidatePa(decoded[k], pas)]
      /\ core' = [k \in Agents |-> IF k # c THEN Notified(k, pas)
                                   ELSE IF bad = {} THEN [core[c] EXCEPT !.monitor = NoMonitor] ELSE core[c]]
      /\ link' = Spoil(link, {c}, pas)
  BY DEF WriteParts, Overwritten
<1> HIDE DEF pas, vas, bad
<1>2. mem' \in [RamCells -> Contents] /\ DecodeInv'
  BY <1>1, WriteKeepsDecoded DEF SharedInv
<1>3. ASSUME NEW k \in Agents
      PROVE  Fits(core'[k], link'[k])
  <2>1. Fits(core[k], link[k])
    BY DEF SharedInv, SharedTypeOK, LinkInv, Fits
  <2>2. CASE k = c
    <3>1. /\ link'[c] = Undo(link[c])
          /\ core'[c] = core[c] \/ core'[c] = [core[c] EXCEPT !.monitor = NoMonitor]
      BY <1>1 DEF Spoil
    <3>2. /\ core'[c] \in Core /\ core'[c].status = core[c].status
          /\ core'[c].monitor = core[c].monitor \/ core'[c].monitor = NoMonitor
      BY <2>1, <2>2, <3>1, MonitorType DEF Fits, Core
    <3> QED
      BY <2>1, <2>2, <3>1, <3>2, UndoFits
  <2>3. CASE k # c
    <3>1. core'[k] = Notified(k, pas) /\ link'[k] = SpoiledBy(link[k], pas)
      BY <1>1, <2>3 DEF Spoil, SpoiledBy
    <3> QED
      BY <2>1, <3>1, OthersFit
  <2> QED
    BY <2>2, <2>3
<1>4. core' = [k \in Agents |-> core'[k]] /\ link' = [k \in Agents |-> link'[k]]
  BY <1>1 DEF Spoil
<1> QED
  BY <1>2, <1>3, <1>4, CoresFit DEF SharedInv, SharedTypeOK

\* One core changes itself, by what Undo allows, and nothing else.
LEMMA CoreUndoes ==
  ASSUME SharedInv, NEW c \in Agents, NEW d \in Core,
         d.status = core[c].status, d.monitor = core[c].monitor \/ d.monitor = NoMonitor,
         core' = [core EXCEPT ![c] = d], link' = [link EXCEPT ![c] = Undo(@)],
         UNCHANGED <<mem, map, decoded, predecode>>
  PROVE  SharedInv'
<1>1. ASSUME NEW k \in Agents
      PROVE  Fits(core'[k], link'[k])
  <2>1. Fits(core[k], link[k])
    BY DEF SharedInv, SharedTypeOK, LinkInv, Fits
  <2>2. CASE k = c
    <3>1. core'[c] = d /\ link'[c] = Undo(link[c])
      BY DEF SharedInv, SharedTypeOK
    <3> QED
      BY <2>1, <2>2, <3>1, UndoFits
  <2>3. CASE k # c
    BY <2>1, <2>3 DEF SharedInv, SharedTypeOK
  <2> QED
    BY <2>2, <2>3
<1>2. core' = [k \in Agents |-> core'[k]] /\ link' = [k \in Agents |-> link'[k]]
  BY DEF SharedInv, SharedTypeOK
<1>3. DecodeInv'
  BY DecodedStays DEF SharedInv
<1> QED
  BY <1>1, <1>2, <1>3, CoresFit DEF SharedInv, SharedTypeOK

LEMMA StoreStep ==
  ASSUME SharedInv, NEW c \in Agents, Store(c)
  PROVE  SharedInv'
BY WritePartsKeeps DEF Store

LEMMA ZeroLineStep ==
  ASSUME SharedInv, NEW c \in Agents, ZeroLine(c)
  PROVE  SharedInv'
BY WritePartsKeeps, SharedAssumption DEF ZeroLine

LEMMA LoadExclusiveStep ==
  ASSUME SharedInv, NEW c \in Agents, LoadExclusive(c)
  PROVE  SharedInv'
<1>1. PICK size \in {1, 2}, va \in VirtualCells :
        /\ va % size = 0 /\ va + size - 1 \in VirtualCells
        /\ core' = [core EXCEPT ![c].monitor = [valid |-> TRUE, pas |-> Pas(va, size)],
                                ![c].status = "none"]
        /\ link' = [link EXCEPT ![c] = [NoLink EXCEPT !.cells = {Pa(a) : a \in CellsFrom(va, size)}]]
  BY DEF LoadExclusive
<1>2. UNCHANGED <<mem, map, decoded, predecode>>
  BY DEF LoadExclusive
<1>3. /\ Pa(va) \in Nat /\ Pas(va, size) = Run(Pa(va), size)
      /\ {Pa(a) : a \in CellsFrom(va, size)} = Pa(va) .. Pa(va) + size - 1
  BY <1>1, AlignedRun DEF SharedInv, SharedTypeOK
<1>4. ASSUME NEW k \in Agents
      PROVE  Fits(core'[k], link'[k])
  <2>1. Fits(core[k], link[k])
    BY DEF SharedInv, SharedTypeOK, LinkInv, Fits
  <2>2. CASE k = c
    <3>1. core'[c] = [core[c] EXCEPT !.monitor = [valid |-> TRUE, pas |-> Run(Pa(va), size)], !.status = "none"]
      BY <1>1, <1>3 DEF SharedInv, SharedTypeOK, Core
    <3>2. link'[c] = [NoLink EXCEPT !.cells = Pa(va) .. Pa(va) + size - 1]
      BY <1>1, <1>3 DEF SharedInv, SharedTypeOK
    <3>3. core[c] \in Core
      BY <2>1, <2>2 DEF Fits
    <3>4. Fits([core[c] EXCEPT !.monitor = [valid |-> TRUE, pas |-> Run(Pa(va), size)], !.status = "none"],
               [NoLink EXCEPT !.cells = Pa(va) .. Pa(va) + size - 1])
      BY <1>3, <3>3, LoadFits, Zenon
    <3> QED
      BY <2>2, <3>1, <3>2, <3>4, Zenon
  <2>3. CASE k # c
    BY <1>1, <2>1, <2>3 DEF SharedInv, SharedTypeOK
  <2> QED
    BY <2>2, <2>3
<1>5. core' = [k \in Agents |-> core'[k]] /\ link' = [k \in Agents |-> link'[k]]
  BY <1>1 DEF SharedInv, SharedTypeOK
<1>6. DecodeInv'
  BY <1>2, DecodedStays DEF SharedInv
<1> QED
  BY <1>2, <1>4, <1>5, <1>6, CoresFit DEF SharedInv, SharedTypeOK

LEMMA StoreExclusiveStep ==
  ASSUME SharedInv, NEW c \in Agents, StoreExclusive(c)
  PROVE  SharedInv'
<1>1. UNCHANGED <<map, predecode>>
  BY DEF StoreExclusive
<1>2. PICK size \in {1, 2}, va \in VirtualCells, value \in Contents :
        /\ va % size = 0 /\ va + size - 1 \in VirtualCells
        /\ \/ /\ StoreExclusiveFaults(c, va, size)
              /\ core' = [core EXCEPT ![c].monitor = NoMonitor]
              /\ link' = [link EXCEPT ![c] = Undo(@)]
              /\ UNCHANGED <<mem, decoded>>
           \/ /\ ~StoreExclusiveFaults(c, va, size) /\ ~MonitorMatches(c, va, size)
              /\ core' = [core EXCEPT ![c].monitor = NoMonitor, ![c].status = "failed"]
              /\ link' = [link EXCEPT ![c].cells = {},
                                      ![c].undone = @ \/ {Pa(a) : a \in CellsFrom(va, size)} # link[c].cells]
              /\ UNCHANGED <<mem, decoded>>
           \/ /\ ~StoreExclusiveFaults(c, va, size) /\ MonitorMatches(c, va, size)
              /\ LET pas == {Pa(a) : a \in CellsFrom(va, size)} IN
                 /\ mem' = [a \in DOMAIN mem |-> IF a \in pas THEN value ELSE mem[a]]
                 /\ decoded' = [k \in Agents |-> IF k = c THEN OnCodeWrite(decoded[c], CellsFrom(va, size), pas)
                                                 ELSE InvalidatePa(decoded[k], pas)]
                 /\ core' = [k \in Agents |->
                      IF k # c THEN Notified(k, pas)
                      ELSE [core[c] EXCEPT !.monitor = NoMonitor, !.status = "stored"]]
                 /\ link' = [Spoil(link, {c}, pas) EXCEPT ![c].cells = {}, ![c].undone = pas # link[c].cells]
  BY Zenon DEF StoreExclusive
<1> DEFINE pas == {Pa(a) : a \in CellsFrom(va, size)}
<1>3. \A k \in Agents : Fits(core[k], link[k])
  BY DEF SharedInv, SharedTypeOK, LinkInv, Fits
<1>4. /\ core = [k \in Agents |-> core[k]] /\ link = [k \in Agents |-> link[k]]
      /\ core[c] \in Core /\ link[c] \in Link /\ map \in Mappings
  BY DEF SharedInv, SharedTypeOK
<1>8. va % size = 0 /\ va + size - 1 \in VirtualCells /\ map \in Mappings
  BY <1>2, <1>4
<1>5. CASE /\ core' = [core EXCEPT ![c].monitor = NoMonitor]
           /\ link' = [link EXCEPT ![c] = Undo(@)]
           /\ UNCHANGED <<mem, decoded>>
  <2> DEFINE d == [core[c] EXCEPT !.monitor = NoMonitor]
  <2>1. core' = [core EXCEPT ![c] = d]
    BY <1>4, <1>5
  <2>2. d \in Core /\ d.status = core[c].status /\ d.monitor = NoMonitor
    BY <1>4, MonitorType DEF Core
  <2> HIDE DEF d
  <2> QED
    BY <1>1, <1>5, <2>1, <2>2, CoreUndoes
<1>6. CASE /\ ~MonitorMatches(c, va, size)
           /\ core' = [core EXCEPT ![c].monitor = NoMonitor, ![c].status = "failed"]
           /\ link' = [link EXCEPT ![c].cells = {}, ![c].undone = @ \/ pas # link[c].cells]
           /\ UNCHANGED <<mem, decoded>>
  <2>1. ASSUME NEW k \in Agents
        PROVE  Fits(core'[k], link'[k])
    <3>1. CASE k = c
      <4>1. /\ core'[c] = [core[c] EXCEPT !.monitor = NoMonitor, !.status = "failed"]
            /\ link'[c] = [link[c] EXCEPT !.cells = {}, !.undone = @ \/ pas # link[c].cells]
        BY <1>4, <1>6
      <4>2. pas = Pa(va) .. Pa(va) + size - 1 /\ Fits(core[c], link[c])
        BY <1>3, <1>8, AlignedRun
      <4>3. ~MonitorMatches(c, va, size)
        BY <1>6
      <4> HIDE DEF pas
      <4>4. /\ core'[c] \in Core /\ core'[c].monitor = NoMonitor
            /\ core'[c].status = "failed"
        BY <1>4, <4>1, MonitorType DEF Core
      <4>5. /\ link'[c] \in Link /\ link'[c].cells = {} /\ link'[c].spoiled = link[c].spoiled
            /\ link'[c].undone = (link[c].undone \/ pas # link[c].cells)
        BY <1>4, <4>1 DEF Link
      <4>6. Fits(core'[c], link'[c])
        BY <1>8, <4>2, <4>3, <4>4, <4>5, FailFits
      <4> QED
        BY <3>1, <4>6
    <3>2. CASE k # c
      BY <1>3, <1>4, <1>6, <3>2
    <3> QED
      BY <3>1, <3>2
  <2>2. core' = [k \in Agents |-> core'[k]] /\ link' = [k \in Agents |-> link'[k]]
    BY <1>4, <1>6
  <2>3. DecodeInv'
    BY <1>1, <1>6, DecodedStays DEF SharedInv
  <2> QED
    BY <1>1, <1>6, <2>1, <2>2, <2>3, CoresFit DEF SharedInv, SharedTypeOK
<1>7. CASE /\ MonitorMatches(c, va, size)
           /\ mem' = [a \in DOMAIN mem |-> IF a \in pas THEN value ELSE mem[a]]
           /\ decoded' = [k \in Agents |-> IF k = c THEN OnCodeWrite(decoded[c], CellsFrom(va, size), pas)
                                           ELSE InvalidatePa(decoded[k], pas)]
           /\ core' = [k \in Agents |->
                IF k # c THEN Notified(k, pas)
                ELSE [core[c] EXCEPT !.monitor = NoMonitor, !.status = "stored"]]
           /\ link' = [Spoil(link, {c}, pas) EXCEPT ![c].cells = {}, ![c].undone = pas # link[c].cells]
  <2>1. ASSUME NEW k \in Agents
        PROVE  Fits(core'[k], link'[k])
    <3>1. CASE k = c
      <4>1. core'[c] = [core[c] EXCEPT !.monitor = NoMonitor, !.status = "stored"]
        BY <1>7
      <4>2. link'[c] = [link[c] EXCEPT !.cells = {}, !.undone = pas # link[c].cells]
        BY <1>4, <1>7 DEF Spoil, Undo, Link
      <4>3. pas = Pa(va) .. Pa(va) + size - 1 /\ Fits(core[c], link[c])
        BY <1>3, <1>8, AlignedRun
      <4>4. MonitorMatches(c, va, size)
        BY <1>7
      <4> HIDE DEF pas
      <4>5. /\ core'[c] \in Core /\ core'[c].monitor = NoMonitor
            /\ core'[c].status = "stored"
        BY <1>4, <4>1, MonitorType DEF Core
      <4>6. /\ link'[c] \in Link /\ link'[c].cells = {} /\ link'[c].spoiled = link[c].spoiled
            /\ link'[c].undone = (pas # link[c].cells)
        BY <1>4, <4>2 DEF Link
      <4>7. Fits(core'[c], link'[c])
        BY <1>8, <4>3, <4>4, <4>5, <4>6, StoreFits
      <4> QED
        BY <3>1, <4>7
    <3>2. CASE k # c
      <4>1. core'[k] = Notified(k, pas) /\ link'[k] = SpoiledBy(link[k], pas)
        BY <1>7, <3>2 DEF Spoil, SpoiledBy
      <4> QED
        BY <1>3, <4>1, OthersFit
    <3> QED
      BY <3>1, <3>2
  <2>2. core' = [k \in Agents |-> core'[k]] /\ link' = [k \in Agents |-> link'[k]]
    BY <1>7 DEF Spoil
  <2> HIDE DEF pas
  <2>3. mem' \in [RamCells -> Contents] /\ DecodeInv'
    BY <1>1, <1>7, WriteKeepsDecoded DEF SharedInv, Overwritten
  <2> QED
    BY <1>1, <2>1, <2>2, <2>3, CoresFit DEF SharedInv, SharedTypeOK
<1> QED
  BY <1>2, <1>5, <1>6, <1>7, Zenon

LEMMA ForgetReservationStep ==
  ASSUME SharedInv, NEW c \in Agents, ForgetReservation(c)
  PROVE  SharedInv'
<1> DEFINE d == [core[c] EXCEPT !.monitor = NoMonitor]
<1>1. core \in [Agents -> Core] /\ core[c] \in Core
  BY DEF SharedInv, SharedTypeOK
<1>2. d \in Core /\ d.status = core[c].status /\ d.monitor = NoMonitor
  BY <1>1, MonitorType DEF Core
<1>3. core' = [core EXCEPT ![c] = d]
  BY <1>1 DEF ForgetReservation
<1> HIDE DEF d
<1> QED
  BY <1>2, <1>3, CoreUndoes DEF ForgetReservation

LEMMA WfeStep ==
  ASSUME SharedInv, NEW c \in Agents, Wfe(c)
  PROVE  SharedInv'
<1> DEFINE d == [core[c] EXCEPT !.event = FALSE, !.waiting = ~core[c].event]
<1>1. core \in [Agents -> Core] /\ core[c] \in Core /\ link \in [Agents -> Link]
  BY DEF SharedInv, SharedTypeOK
<1>2. d \in Core /\ d.status = core[c].status /\ d.monitor = core[c].monitor /\ d.event = FALSE
  BY <1>1 DEF Core
<1>3. core' = [core EXCEPT ![c] = d] /\ UNCHANGED <<mem, map, decoded, predecode>>
  BY <1>1 DEF Wfe
<1> HIDE DEF d
<1>4. CASE core[c].event
  BY <1>2, <1>3, <1>4, CoreUndoes DEF Wfe
<1>5. CASE ~core[c].event
  <2>1. link' = link
    BY <1>5 DEF Wfe
  <2>2. ASSUME NEW k \in Agents
        PROVE  Fits(core'[k], link'[k])
    <3>1. Fits(core[k], link[k])
      BY DEF SharedInv, SharedTypeOK, LinkInv, Fits
    <3>2. CASE k = c
      <4>1. core'[c] = d /\ link'[c] = link[c]
        BY <1>1, <1>3, <2>1
      <4>2. Linked(d, link[c])
        BY <1>2, <1>5, <3>1, <3>2 DEF Fits, Linked
      <4> QED
        BY <1>2, <3>1, <3>2, <4>1, <4>2 DEF Fits
    <3>3. CASE k # c
      BY <1>1, <1>3, <2>1, <3>1, <3>3
    <3> QED
      BY <3>2, <3>3
  <2>3. core' = [k \in Agents |-> core'[k]] /\ link' = [k \in Agents |-> link'[k]]
    BY <1>1, <1>3, <2>1
  <2>4. DecodeInv'
    BY <1>3, DecodedStays DEF SharedInv
  <2> QED
    BY <1>3, <2>2, <2>3, <2>4, CoresFit DEF SharedInv, SharedTypeOK
<1> QED
  BY <1>4, <1>5

LEMMA WakeStep ==
  ASSUME SharedInv, NEW c \in Agents, Wake(c)
  PROVE  SharedInv'
<1> DEFINE d == [core[c] EXCEPT !.event = FALSE, !.waiting = FALSE]
<1>1. core \in [Agents -> Core] /\ core[c] \in Core
  BY DEF SharedInv, SharedTypeOK
<1>2. d \in Core /\ d.status = core[c].status /\ d.monitor = core[c].monitor
  BY <1>1 DEF Core
<1>3. core' = [core EXCEPT ![c] = d]
  BY <1>1 DEF Wake
<1> HIDE DEF d
<1> QED
  BY <1>2, <1>3, CoreUndoes DEF Wake

\* An event more harms nobody.
LEMMA SevStep ==
  ASSUME SharedInv, NEW c \in Agents, Sev(c)
  PROVE  SharedInv'
<1>1. ASSUME NEW k \in Agents
      PROVE  Fits(core'[k], link'[k])
  <2>1. Fits(core[k], link[k])
    BY DEF SharedInv, SharedTypeOK, LinkInv, Fits
  <2>2. core'[k] = [core[k] EXCEPT !.event = TRUE] /\ link'[k] = link[k]
    BY DEF Sev
  <2>3. /\ core'[k] \in Core /\ core'[k].monitor = core[k].monitor
        /\ core'[k].status = core[k].status /\ core'[k].event = TRUE
    BY <2>1, <2>2 DEF Fits, Core
  <2> QED
    BY <2>1, <2>2, <2>3 DEF Fits, Linked
<1>2. core' = [k \in Agents |-> core'[k]] /\ link' = [k \in Agents |-> link'[k]]
  BY DEF Sev, SharedInv, SharedTypeOK
<1>3. DecodeInv'
  BY DecodedStays DEF Sev, SharedInv
<1> QED
  BY <1>1, <1>2, <1>3, CoresFit DEF Sev, SharedInv, SharedTypeOK

\* The cores and what they have loaded stay; so does what they have to do with each other.
LEMMA OnlyDecodedChanges ==
  ASSUME SharedInv, UNCHANGED <<mem, core, link>>, map' \in Mappings, predecode' \in BOOLEAN, DecodeInv'
  PROVE  SharedInv'
<1>1. LinkInv'
  BY DEF SharedInv, LinkInv
<1> QED
  BY <1>1 DEF SharedInv, SharedTypeOK

LEMMA FetchStep ==
  ASSUME SharedInv, NEW c \in Agents, Fetch(c)
  PROVE  SharedInv'
<1>1. PICK va \in VirtualCells : Pa(va) \in RamCells /\ decoded' = [decoded EXCEPT ![c] = Decode(@, va)]
  BY DEF Fetch
<1>2. /\ UNCHANGED <<mem, map, core, predecode, link>> /\ predecode
      /\ mem \in [RamCells -> Contents] /\ map \in Mappings /\ predecode \in BOOLEAN
  BY DEF Fetch, SharedInv, SharedTypeOK
<1>3. decoded = [k \in Agents |-> decoded[k]] /\ \A k \in Agents : TrueCache(decoded[k], mem)
  BY DEF SharedInv, DecodeInv
<1>4. decoded' = [k \in Agents |-> IF k = c THEN Decode(decoded[c], va) ELSE decoded[k]]
  BY <1>1, <1>3
<1>5. ASSUME NEW k \in Agents
      PROVE  TrueCache(decoded'[k], mem)
  <2>1. TrueCache(Decode(decoded[c], va), mem)
    BY <1>1, <1>2, <1>3, DecodeTrue
  <2> QED
    BY <1>3, <1>4, <2>1
<1>6. DecodeInv'
  BY <1>2, <1>4, <1>5 DEF DecodeInv
<1> QED
  BY <1>2, <1>6, OnlyDecodedChanges

LEMMA InvalidateLineStep ==
  ASSUME SharedInv, NEW c \in Agents, InvalidateLine(c)
  PROVE  SharedInv'
<1>1. PICK va \in VirtualCells :
        decoded' = [k \in Agents |-> IF k = c THEN InvalidateVa(decoded[c], {va}) ELSE InvalidateAll(decoded[k])]
  BY DEF InvalidateLine
<1>2. /\ UNCHANGED <<mem, map, core, predecode, link>>
      /\ map \in Mappings /\ predecode \in BOOLEAN
  BY DEF InvalidateLine, SharedInv, SharedTypeOK
<1>3. ASSUME NEW k \in Agents
      PROVE  TrueCache(decoded'[k], mem) /\ (~predecode => decoded'[k] = NoDecode)
  <2>1. TrueCache(decoded[k], mem) /\ (~predecode => decoded[k] = NoDecode)
    BY DEF SharedInv, DecodeInv
  <2>2. CASE k = c
    BY <1>1, <2>1, <2>2, InvalidateVaTrue
  <2>3. CASE k # c
    BY <1>1, <2>3, NothingDecoded DEF InvalidateAll
  <2> QED
    BY <2>2, <2>3
<1>4. decoded' = [k \in Agents |-> decoded'[k]]
  BY <1>1
<1>5. DecodeInv'
  BY <1>2, <1>3, <1>4 DEF DecodeInv
<1> QED
  BY <1>2, <1>5, OnlyDecodedChanges

LEMMA RemapStep ==
  ASSUME SharedInv, NEW c \in Agents, Remap(c)
  PROVE  SharedInv'
<1>1. PICK page \in DOMAIN map, frame \in Frames, writable \in BOOLEAN :
        /\ map' = [map EXCEPT ![page] = [frame |-> frame, writable |-> writable]]
        /\ decoded' = [k \in Agents |-> InvalidateVa(decoded[k], {page * PageCells})]
  BY DEF Remap
<1>2. UNCHANGED <<mem, core, predecode, link>> /\ map \in Mappings /\ predecode \in BOOLEAN
  BY DEF Remap, SharedInv, SharedTypeOK
<1>3. map' \in Mappings
  BY <1>1, <1>2 DEF Mappings
<1>4. ASSUME NEW k \in Agents
      PROVE  TrueCache(decoded'[k], mem) /\ (~predecode => decoded'[k] = NoDecode)
  <2>1. TrueCache(decoded[k], mem) /\ (~predecode => decoded[k] = NoDecode)
    BY DEF SharedInv, DecodeInv
  <2> QED
    BY <1>1, <2>1, InvalidateVaTrue
<1>5. decoded' = [k \in Agents |-> decoded'[k]]
  BY <1>1
<1>6. DecodeInv'
  BY <1>2, <1>4, <1>5 DEF DecodeInv
<1> QED
  BY <1>2, <1>3, <1>6, OnlyDecodedChanges

\* Whatever forgets all that is decoded.
LEMMA AllForgottenStep ==
  ASSUME SharedInv, UNCHANGED <<mem, map, core, link>>, predecode' \in BOOLEAN,
         decoded' = [k \in Agents |-> InvalidateAll(decoded[k])]
  PROVE  SharedInv'
<1>1. \A k \in Agents : decoded'[k] = NoDecode /\ TrueCache(NoDecode, mem)
  BY NothingDecoded DEF InvalidateAll
<1>2. DecodeInv'
  BY <1>1 DEF DecodeInv
<1>3. map' \in Mappings
  BY DEF SharedInv, SharedTypeOK
<1> QED
  BY <1>2, <1>3, OnlyDecodedChanges

LEMMA DeviceWriteStep ==
  ASSUME SharedInv, DeviceWrite
  PROVE  SharedInv'
<1>1. PICK first \in RamCells, size \in 1 .. PageCells + 1, value \in Contents :
        LET pas == CellsFrom(first, size) IN
        /\ mem' = [a \in DOMAIN mem |-> IF a \in pas THEN value ELSE mem[a]]
        /\ decoded' = [k \in Agents |-> InvalidatePa(decoded[k], pas)]
        /\ core' = [k \in Agents |-> Notified(k, pas)]
        /\ link' = Spoil(link, {}, pas)
  BY DEF DeviceWrite
<1> DEFINE pas == CellsFrom(first, size)
<1>2. UNCHANGED <<map, predecode>>
  BY DEF DeviceWrite
<1>3. /\ mem' = Overwritten(mem, pas, value)
      /\ decoded' = [k \in Agents |-> InvalidatePa(decoded[k], pas)]
      /\ core' = [k \in Agents |-> Notified(k, pas)]
      /\ link' = [k \in Agents |-> SpoiledBy(link[k], pas)]
  BY <1>1 DEF Overwritten, Spoil, SpoiledBy
<1> HIDE DEF pas
<1>4. mem' \in [RamCells -> Contents] /\ DecodeInv'
  BY <1>2, <1>3, WriteKeepsDecoded DEF SharedInv
<1>5. ASSUME NEW k \in Agents
      PROVE  Fits(core'[k], link'[k])
  <2>1. Fits(core[k], link[k])
    BY DEF SharedInv, SharedTypeOK, LinkInv, Fits
  <2> QED
    BY <1>3, <2>1, OthersFit
<1>6. core' = [k \in Agents |-> core'[k]] /\ link' = [k \in Agents |-> link'[k]]
  BY <1>3
<1> QED
  BY <1>2, <1>4, <1>5, <1>6, CoresFit DEF SharedInv, SharedTypeOK

LEMMA SharedInitInv ==
  ASSUME SharedInit
  PROVE  SharedInv
<1>1. PICK f \in RamFrames : f = CHOOSE e \in RamFrames : \A g \in RamFrames : e <= g
  BY SharedAssumption
<1>2. map = [p \in 0 .. VirtualPages - 1 |-> [frame |-> f, writable |-> TRUE]]
  BY <1>1 DEF SharedInit
<1>3. map \in Mappings
  BY <1>1, <1>2 DEF Mappings, Frames
<1>4. \A c \in Agents : Fits(core[c], link[c])
  BY DEF SharedInit, Fits, Core, Link, Linked, Monitors, NoMonitor, NoLink
<1>5. core = [c \in Agents |-> core[c]] /\ link = [c \in Agents |-> link[c]]
  BY DEF SharedInit
<1>6. core \in [Agents -> Core] /\ link \in [Agents -> Link] /\ LinkInv
  BY <1>4, <1>5 DEF Fits, LinkInv
<1>7. DecodeInv
  BY NothingDecoded DEF SharedInit, DecodeInv
<1>8. mem \in [RamCells -> Contents] /\ predecode \in BOOLEAN
  BY SharedAssumption DEF SharedInit
<1> QED
  BY <1>3, <1>6, <1>7, <1>8 DEF SharedInv, SharedTypeOK

\* Every step of a core or a device, and a stutter, keeps the invariant.
LEMMA SharedNextInv ==
  ASSUME SharedInv, [LockNext \/ CodeNext]_shared_vars
  PROVE  SharedInv'
<1>1. CASE UNCHANGED shared_vars
  <2>1. UNCHANGED <<mem, map, core, decoded, predecode, link>>
    BY <1>1 DEF shared_vars
  <2>2. DecodeInv'
    BY <2>1, DecodedStays DEF SharedInv
  <2> QED
    BY <2>1, <2>2, OnlyDecodedChanges DEF SharedInv, SharedTypeOK
<1>2. ASSUME NEW c \in Agents, Store(c) \/ ZeroLine(c)
      PROVE  SharedInv'
  BY <1>2, StoreStep, ZeroLineStep
<1>3. ASSUME NEW c \in Agents, LoadExclusive(c) \/ StoreExclusive(c) \/ ForgetReservation(c)
      PROVE  SharedInv'
  BY <1>3, LoadExclusiveStep, StoreExclusiveStep, ForgetReservationStep
<1>4. ASSUME NEW c \in Agents, Wfe(c) \/ Wake(c) \/ Sev(c)
      PROVE  SharedInv'
  BY <1>4, WfeStep, WakeStep, SevStep
<1>5. ASSUME NEW c \in Agents, Fetch(c) \/ InvalidateLine(c) \/ Remap(c)
      PROVE  SharedInv'
  BY <1>5, FetchStep, InvalidateLineStep, RemapStep
<1>6. ASSUME NEW c \in Agents, InvalidateInstructions(c)
      PROVE  SharedInv'
  BY <1>6, AllForgottenStep DEF InvalidateInstructions, SharedInv, SharedTypeOK
<1>7. CASE DeviceWrite
  BY <1>7, DeviceWriteStep
<1>8. CASE TogglePredecode
  BY <1>8, AllForgottenStep DEF TogglePredecode, SetPredecode, SharedInv, SharedTypeOK
<1>9. CASE SnapshotCores
  BY <1>9, AllForgottenStep DEF SnapshotCores, SharedInv, SharedTypeOK
<1> QED
  BY <1>1, <1>2, <1>3, <1>4, <1>5, <1>6, <1>7, <1>8, <1>9 DEF LockNext, CodeNext

\* The invariant of the proof holds for ever: the types, that no core has
\* anything false decoded, and what a reservation says of the cells behind it.
THEOREM SharedInvHolds == SharedSpec => []SharedInv
<1>1. SharedInit => SharedInv
  BY SharedInitInv
<1>2. SharedInv /\ [LockNext \/ CodeNext]_shared_vars => SharedInv'
  BY SharedNextInv
<1> QED
  BY <1>1, <1>2, PTL DEF SharedSpec

\* However many cores, devices and remappings come between a load exclusive
\* and its store exclusive, the store succeeds only when nobody else has
\* written what the load read, and fails only for a cause
\* (check_exclusive_monitor, on_external_ram_write).
THEOREM ExclusivesAreAtomic == SharedSpec => []ExclusiveIsAtomic
<1>1. SharedInv => ExclusiveIsAtomic
  BY DEF SharedInv, LinkInv, Linked, ExclusiveIsAtomic
<1> QED
  BY <1>1, SharedInvHolds, PTL

\* No core sleeps in WFE through the store that releases what it loaded
\* exclusively, whoever makes it and however it is cut into parts
\* (notify_external_memory_write, WFE).
THEOREM ReleasesWakeWaiters == SharedSpec => []ReleaseWakesWaiter
<1>1. SharedInv => ReleaseWakesWaiter
  BY DEF SharedInv, LinkInv, Linked, ReleaseWakesWaiter
<1> QED
  BY <1>1, SharedInvHolds, PTL

\* With any number of virtual pages sharing slots of the decode cache, and
\* frames mapped more than once, nothing decoded differs from memory
\* (on_code_write, invalidate_decode_pa, lookup_decoded).
THEOREM DecodedMatchesMemory == SharedSpec => []DecodedIsMemory
<1>1. ASSUME SharedInv, NEW c \in Agents, NEW i \in 0 .. DecodePages - 1, decoded[c][i].valid
      PROVE  \A k \in DOMAIN decoded[c][i].raws :
               \/ decoded[c][i].raws[k] = "none"
               \/ decoded[c][i].raws[k] = mem[decoded[c][i].frame * PageCells + k]
  <2> DEFINE d == decoded[c][i]
  <2>1. TruePage(d, mem)
    BY <1>1 DEF SharedInv, DecodeInv, TrueCache, Slots
  <2>2. d # NoPage
    BY <1>1 DEF NoPage
  <2>3. /\ d \in DecodedPages
        /\ \A k \in 0 .. PageCells - 1 : d.raws[k] = "none" \/ d.raws[k] = mem[d.frame * PageCells + k]
    BY <2>1, <2>2 DEF TruePage
  <2>4. DOMAIN d.raws = 0 .. PageCells - 1
    BY <2>3 DEF DecodedPages
  <2> QED
    BY <2>3, <2>4
<1>2. SharedInv => DecodedIsMemory
  BY <1>1 DEF DecodedIsMemory
<1> QED
  BY <1>2, SharedInvHolds, PTL

-----------------------------------------------------------------------------
(* Translation caches                                                      *)

WF == INSTANCE WellFoundedInduction

SetIds == 0 .. Sets - 1
WayIds == 0 .. Ways - 1

\* The translation state of a core whose entries are in A.
MmusOf(A) ==
  [asid : Asids, mair : {<<"normal", "device">>, <<"device", "normal">>}, data : A, fetch : A,
   next : [SetIds -> WayIds], sets : [SetIds -> [WayIds -> A]]]

LEMMA SizesNatural == Sets \in Nat \ {0} /\ Ways \in Nat \ {0} /\ 0 \in SetIds /\ 0 \in WayIds
<1>1. Sets \in Nat \ {0} /\ Ways \in Nat \ {0}
  BY MmuAssumption
<1> QED
  BY <1>1 DEF SetIds, WayIds

\* A set of natural numbers that is not empty has a least element.
LEMMA SmallestOf ==
  ASSUME NEW S \in SUBSET Nat, S # {}
  PROVE  \E x \in S : \A y \in S : x <= y
<1> DEFINE less == WF!OpToRel(<, Nat)
<1>1. WF!IsWellFoundedOn(less, Nat)
  BY WF!NatLessThanWellFounded
<1>2. \A x, y \in Nat : y < x => <<y, x>> \in less
  BY DEF WF!OpToRel
<1> HIDE DEF less
<1>3. PICK x \in S : \A y \in S : ~ (<<y, x>> \in less)
  BY <1>1, WF!WFMin
<1>4. \A y \in S : x <= y
  <2> TAKE y \in S
  <2>1. x \in Nat /\ y \in Nat
    OBVIOUS
  <2>2. ~ (y < x)
    BY <1>2, <1>3, <2>1, Zenon
  <2> QED
    BY <2>1, <2>2
<1> QED
  BY <1>4

\* Induction, for a set of numbers.
LEMMA Inductive ==
  ASSUME NEW S, 0 \in S, \A n \in Nat : n \in S => n + 1 \in S
  PROVE  \A n \in Nat : n \in S
<1> SUFFICES ASSUME NEW k \in Nat, k \notin S
             PROVE  FALSE
  OBVIOUS
<1> DEFINE Out == {n \in Nat : n \notin S}
<1>1. PICK m \in Out : \A n \in Out : m <= n
  <2>1. Out \in SUBSET Nat /\ Out # {}
    OBVIOUS
  <2> QED
    BY <2>1, SmallestOf, Zenon
<1>2. m \in Nat /\ m # 0
  OBVIOUS
<1>3. m - 1 \in Nat /\ m - 1 \notin Out
  BY <1>1, <1>2
<1>4. (m - 1) + 1 \in S
  BY <1>3
<1>5. (m - 1) + 1 = m
  BY <1>2
<1> QED
  BY <1>4, <1>5

LEMMA FirstWay ==
  ASSUME NEW S \in SUBSET WayIds, S # {}
  PROVE  First(S) \in S /\ \A v \in S : First(S) <= v
<1>1. S \in SUBSET Nat
  BY SizesNatural DEF WayIds
<1>2. \E w \in S : \A v \in S : w <= v
  BY <1>1, SmallestOf
<1> QED
  BY <1>2 DEF First

LEMMA SetIndexIn == \A va \in Vas : SetIndex(va) \in SetIds
<1> SUFFICES ASSUME NEW va \in Vas PROVE SetIndex(va) \in SetIds
  OBVIOUS
<1>1. va.page \in Nat
  BY MmuAssumption DEF Vas
<1> QED
  BY <1>1, SizesNatural DEF SetIndex, SetIds

\* The set and the way of a position of the saved list.
LEMMA PositionIn ==
  \A k \in 1 .. Sets * Ways :
    LET q == (k - 1) \div Ways
        r == (k - 1) % Ways
    IN  q \in SetIds /\ r \in WayIds /\ k - 1 = q * Ways + r
<1> SUFFICES ASSUME NEW k \in 1 .. Sets * Ways
             PROVE  LET q == (k - 1) \div Ways
                        r == (k - 1) % Ways
                    IN  q \in SetIds /\ r \in WayIds /\ k - 1 = q * Ways + r
  OBVIOUS
<1>1. Sets \in Nat \ {0} /\ Ways \in Nat \ {0}
  BY SizesNatural
<1> DEFINE j == k - 1
           q == j \div Ways
           r == j % Ways
<1>2. j \in Nat /\ j < Sets * Ways
  BY <1>1
<1> HIDE DEF j
<1>3. q \in Int /\ r \in 0 .. Ways - 1 /\ j = Ways * q + r
  BY <1>1, <1>2
<1> HIDE DEF q, r
<1>4. q >= 0
  <2> SUFFICES ASSUME q <= -1 PROVE FALSE
    BY <1>3
  <2>1. Ways * q <= Ways * (-1)
    BY <1>1, <1>3
  <2> QED
    BY <2>1, <1>1, <1>2, <1>3
<1>5. q < Sets
  <2> SUFFICES ASSUME q >= Sets PROVE FALSE
    BY <1>1, <1>3
  <2>1. Ways * q >= Ways * Sets
    BY <1>1, <1>3
  <2> QED
    BY <2>1, <1>1, <1>2, <1>3
<1>6. q \in SetIds /\ r \in WayIds /\ j = q * Ways + r
  BY <1>1, <1>3, <1>4, <1>5 DEF SetIds, WayIds
<1> QED
  BY <1>6 DEF q, r, j

\* Where an entry goes: over its like, into the first free way, or over another one.
Placed(m, e, at) ==
  LET set == m.sets[SetIndex(e.va)]
  IN  \/ set[at].valid /\ Alike(set[at], e)
      \/ /\ \A w \in WayIds : ~(set[w].valid /\ Alike(set[w], e))
         /\ \/ ~set[at].valid /\ \A w \in WayIds : w < at => set[w].valid
            \/ \A w \in WayIds : set[w].valid

Inserted(m, e, at, n) ==
  [m EXCEPT !.data = e, !.fetch = NoEntry, !.next = n, !.sets[SetIndex(e.va)][at] = e]

LEMMA InsertIs ==
  ASSUME NEW A, NoEntry \in A, NEW m \in MmusOf(A), NEW e \in A, SetIndex(e.va) \in SetIds
  PROVE  \E at \in WayIds, n \in [SetIds -> WayIds] :
           Insert(m, e) = Inserted(m, e, at, n) /\ Placed(m, e, at)
<1> DEFINE s == SetIndex(e.va)
           set == m.sets[s]
           like == {w \in DOMAIN set : set[w].valid /\ Alike(set[w], e)}
           free == {w \in DOMAIN set : ~set[w].valid}
           at == IF like # {} THEN First(like) ELSE IF free # {} THEN First(free) ELSE m.next[s] % Ways
           n == [m.next EXCEPT ![s] = IF like = {} /\ free = {} THEN (@ + 1) % Ways ELSE @]
<1>1. DOMAIN set = WayIds /\ m.next[s] \in WayIds /\ m.next \in [SetIds -> WayIds] /\ s \in SetIds
  BY DEF MmusOf
<1>2. /\ like # {} => First(like) \in like
      /\ free # {} => First(free) \in free /\ \A v \in free : First(free) <= v
  BY <1>1, FirstWay
<1>3. m.next[s] % Ways \in WayIds /\ (m.next[s] + 1) % Ways \in WayIds
  BY <1>1, SizesNatural DEF WayIds
<1>4. at \in WayIds /\ n \in [SetIds -> WayIds]
  BY <1>1, <1>2, <1>3
<1>5. Insert(m, e) = Inserted(m, e, at, n)
  <2>1. Insert(m, e) = [m EXCEPT !.data = e, !.fetch = NoEntry, !.sets[s][at] = e,
                                 !.next[s] = IF like = {} /\ free = {} THEN (@ + 1) % Ways ELSE @]
    BY DEF Insert
  <2> HIDE DEF at, like, free
  <2> QED
    BY <2>1 DEF MmusOf, Inserted
<1>6. Placed(m, e, at)
  <2>1. CASE like # {}
    BY <2>1, <1>2 DEF Placed
  <2>2. CASE like = {} /\ free # {}
    <3> HIDE DEF free, like
    <3>1. at \in free /\ \A w \in WayIds : w < at => w \notin free
      BY <2>2, <1>2, <1>1, <1>4, SizesNatural DEF WayIds
    <3> QED
      BY <3>1, <2>2, <1>1 DEF Placed, free, like
  <2>3. CASE like = {} /\ free = {}
    BY <2>3, <1>1 DEF Placed
  <2> QED
    BY <2>1, <2>2, <2>3
<1> QED
  BY <1>4, <1>5, <1>6

LEMMA InsertKeeps ==
  ASSUME NEW A, NoEntry \in A, NEW m \in MmusOf(A), NEW e \in A, SetIndex(e.va) \in SetIds
  PROVE  Insert(m, e) \in MmusOf(A) /\ Insert(m, e).asid = m.asid /\ Insert(m, e).mair = m.mair
<1> DEFINE s == SetIndex(e.va)
<1>0. \E at \in WayIds, n \in [SetIds -> WayIds] :
        Insert(m, e) = Inserted(m, e, at, n) /\ Placed(m, e, at)
  BY InsertIs
<1>1. PICK at \in WayIds, n \in [SetIds -> WayIds] : Insert(m, e) = Inserted(m, e, at, n)
  BY <1>0, Zenon
<1> DEFINE sets == [m.sets EXCEPT ![s][at] = e]
<1>2. m.sets \in [SetIds -> [WayIds -> A]]
  BY DEF MmusOf
<1>3. sets \in [SetIds -> [WayIds -> A]]
  BY <1>2
<1>4. Insert(m, e) = [m EXCEPT !.data = e, !.fetch = NoEntry, !.next = n, !.sets = sets]
  BY <1>1 DEF Inserted
<1> HIDE DEF sets, s
<1> QED
  BY <1>3, <1>4 DEF MmusOf

\* Every entry is in the set of its page, and no set has two alike.
Tidy(m) ==
  \A s \in SetIds, w \in WayIds : m.sets[s][w].valid =>
    /\ SetIndex(m.sets[s][w].va) = s
    /\ \A v \in WayIds : m.sets[s][v].valid /\ Alike(m.sets[s][v], m.sets[s][w]) => v = w

LEMMA AlikeSame ==
  ASSUME NEW d, NEW e, Alike(d, e)
  PROVE  Alike(e, d) /\ \A f : Alike(d, f) <=> Alike(e, f)
BY DEF Alike

\* What an insertion does to the sets.
LEMMA InsertSets ==
  ASSUME NEW A, NoEntry \in A, NEW m \in MmusOf(A), NEW e \in A, SetIndex(e.va) \in SetIds
  PROVE  \E at \in WayIds :
           /\ Placed(m, e, at)
           /\ \A s \in SetIds, w \in WayIds :
                Insert(m, e).sets[s][w] = IF s = SetIndex(e.va) /\ w = at THEN e ELSE m.sets[s][w]
<1>1. \E at \in WayIds, n \in [SetIds -> WayIds] :
        Insert(m, e) = Inserted(m, e, at, n) /\ Placed(m, e, at)
  BY InsertIs
<1>2. PICK at \in WayIds, n \in [SetIds -> WayIds] : Insert(m, e) = Inserted(m, e, at, n) /\ Placed(m, e, at)
  BY <1>1, Zenon
<1> DEFINE sets == [m.sets EXCEPT ![SetIndex(e.va)][at] = e]
<1>3. m.sets \in [SetIds -> [WayIds -> A]]
  BY DEF MmusOf
<1>4. Inserted(m, e, at, n).sets = sets
  <2>1. Inserted(m, e, at, n) = [m EXCEPT !.data = e, !.fetch = NoEntry, !.next = n, !.sets = sets]
    BY DEF Inserted
  <2> HIDE DEF sets
  <2> QED
    BY <2>1 DEF MmusOf
<1>5. ASSUME NEW s \in SetIds, NEW w \in WayIds
      PROVE  sets[s][w] = IF s = SetIndex(e.va) /\ w = at THEN e ELSE m.sets[s][w]
  BY <1>3
<1> HIDE DEF sets
<1> QED
  BY <1>2, <1>4, <1>5

LEMMA InsertTidy ==
  ASSUME NEW A, NoEntry \in A, NEW m \in MmusOf(A), NEW e \in A, SetIndex(e.va) \in SetIds,
         Tidy(m), e.valid
  PROVE  Tidy(Insert(m, e))
<1> DEFINE n == Insert(m, e)
           q == SetIndex(e.va)
<1>1. \E at \in WayIds :
        /\ Placed(m, e, at)
        /\ \A s \in SetIds, w \in WayIds : n.sets[s][w] = IF s = q /\ w = at THEN e ELSE m.sets[s][w]
  BY InsertSets
<1>2. PICK at \in WayIds :
        /\ Placed(m, e, at)
        /\ \A s \in SetIds, w \in WayIds : n.sets[s][w] = IF s = q /\ w = at THEN e ELSE m.sets[s][w]
  BY <1>1, Zenon
<1>3. ASSUME NEW w \in WayIds, w # at, m.sets[q][w].valid PROVE ~Alike(m.sets[q][w], e)
  <2>1. CASE m.sets[q][at].valid /\ Alike(m.sets[q][at], e)
    BY <1>3, <2>1, AlikeSame DEF Tidy
  <2> QED
    BY <1>2, <1>3, <2>1 DEF Placed
<1> HIDE DEF n
<1> SUFFICES ASSUME NEW s \in SetIds, NEW w \in WayIds, n.sets[s][w].valid
             PROVE  /\ SetIndex(n.sets[s][w].va) = s
                    /\ \A v \in WayIds : n.sets[s][v].valid /\ Alike(n.sets[s][v], n.sets[s][w]) => v = w
  BY DEF Tidy, n
<1> HIDE DEF q
<1>4. CASE s # q
  <2>1. \A v \in WayIds : n.sets[s][v] = m.sets[s][v]
    BY <1>2, <1>4
  <2> QED
    BY <2>1 DEF Tidy
<1>5. CASE s = q /\ w = at
  <2>1. n.sets[s][w] = e /\ \A v \in WayIds : v # w => n.sets[s][v] = m.sets[q][v]
    BY <1>2, <1>5
  <2> QED
    BY <1>3, <1>5, <2>1 DEF q
<1>6. CASE s = q /\ w # at
  <2>1. /\ n.sets[s][w] = m.sets[q][w] /\ n.sets[s][at] = e
        /\ \A v \in WayIds : v # at => n.sets[s][v] = m.sets[q][v]
    BY <1>2, <1>6
  <2>2. ~Alike(m.sets[q][w], e)
    BY <1>3, <1>6, <2>1
  <2> QED
    BY <1>6, <2>1, <2>2, AlikeSame DEF Tidy
<1> QED
  BY <1>4, <1>5, <1>6

LEMMA FlushAllKeeps ==
  ASSUME NEW A, NoEntry \in A, NEW m \in MmusOf(A)
  PROVE  FlushAll(m) \in MmusOf({NoEntry}) /\ FlushAll(m).asid = m.asid /\ FlushAll(m).mair = m.mair
BY SizesNatural DEF FlushAll, MmusOf

\* Entries that are replaced one by one.
Replaced(m, kept) ==
  [m EXCEPT !.data = kept[@], !.fetch = kept[@],
            !.sets = [s \in DOMAIN @ |-> [w \in DOMAIN @[s] |-> kept[@[s][w]]]]]

LEMMA MapKeeps ==
  ASSUME NEW A, NEW B, NEW kept \in [A -> B], NEW m \in MmusOf(A)
  PROVE  /\ Replaced(m, kept) \in MmusOf(B)
         /\ Replaced(m, kept).asid = m.asid /\ Replaced(m, kept).mair = m.mair
<1>1. m.sets \in [SetIds -> [WayIds -> A]] /\ m.data \in A /\ m.fetch \in A
  BY DEF MmusOf
<1>2. [s \in DOMAIN m.sets |-> [w \in DOMAIN m.sets[s] |-> kept[m.sets[s][w]]]] \in [SetIds -> [WayIds -> B]]
  BY <1>1
<1>3. kept[m.data] \in B /\ kept[m.fetch] \in B
  BY <1>1
<1> DEFINE sets == [s \in DOMAIN m.sets |-> [w \in DOMAIN m.sets[s] |-> kept[m.sets[s][w]]]]
<1> HIDE DEF sets
<1>4. [m EXCEPT !.data = kept[@], !.fetch = kept[@], !.sets = sets] \in MmusOf(B)
  BY <1>2, <1>3 DEF MmusOf, sets
<1> QED
  BY <1>4 DEF MmusOf, sets, Replaced

\* What is left when entries are dropped.
LEMMA FlushAsidKeeps ==
  ASSUME NEW A, NoEntry \in A, NEW m \in MmusOf(A), NEW asid
  PROVE  /\ FlushAsid(m, asid) \in MmusOf({e \in A : e.valid => e.global \/ e.asid # asid})
         /\ FlushAsid(m, asid).asid = m.asid /\ FlushAsid(m, asid).mair = m.mair
<1> DEFINE B == {e \in A : e.valid => e.global \/ e.asid # asid}
           kept == [e \in A |-> IF e.valid /\ ~e.global /\ e.asid = asid THEN NoEntry ELSE e]
<1>1. kept \in [A -> B]
  BY DEF NoEntry
<1>2. FlushAsid(m, asid) = Replaced(m, kept)
  <2>1. m.sets \in [SetIds -> [WayIds -> A]] /\ m.data \in A /\ m.fetch \in A
    BY DEF MmusOf
  <2> QED
    BY <2>1 DEF FlushAsid, Drop, Replaced
<1> HIDE DEF B, kept
<1>3. FlushAsid(m, asid) \in MmusOf(B) /\ FlushAsid(m, asid).asid = m.asid /\ FlushAsid(m, asid).mair = m.mair
  BY <1>1, <1>2, MapKeeps
<1> QED
  BY <1>3 DEF B

LEMMA FlushVaKeeps ==
  ASSUME NEW A, NoEntry \in A, NEW m \in MmusOf(A), NEW va, NEW asid
  PROVE  /\ FlushVa(m, va, asid) \in MmusOf({e \in A : e.valid => ~(Covers(e, va) /\ MatchesAsid(e, asid))})
         /\ FlushVa(m, va, asid).asid = m.asid /\ FlushVa(m, va, asid).mair = m.mair
<1> DEFINE B == {e \in A : e.valid => ~(Covers(e, va) /\ MatchesAsid(e, asid))}
           kept == [e \in A |-> IF e.valid /\ Covers(e, va) /\ MatchesAsid(e, asid) THEN NoEntry ELSE e]
<1>1. kept \in [A -> B]
  BY DEF NoEntry
<1>2. FlushVa(m, va, asid) = Replaced(m, kept)
  <2>1. m.sets \in [SetIds -> [WayIds -> A]] /\ m.data \in A /\ m.fetch \in A
    BY DEF MmusOf
  <2> QED
    BY <2>1 DEF FlushVa, Drop, Replaced
<1> HIDE DEF B, kept
<1>3. FlushVa(m, va, asid) \in MmusOf(B) /\ FlushVa(m, va, asid).asid = m.asid /\ FlushVa(m, va, asid).mair = m.mair
  BY <1>1, <1>2, MapKeeps
<1> QED
  BY <1>3 DEF B

LEMMA FlushVaAllAsidsKeeps ==
  ASSUME NEW A, NoEntry \in A, NEW m \in MmusOf(A), NEW va
  PROVE  /\ FlushVaAllAsids(m, va) \in MmusOf({e \in A : e.valid => ~Covers(e, va)})
         /\ FlushVaAllAsids(m, va).asid = m.asid /\ FlushVaAllAsids(m, va).mair = m.mair
<1> DEFINE B == {e \in A : e.valid => ~Covers(e, va)}
           kept == [e \in A |-> IF e.valid /\ Covers(e, va) THEN NoEntry ELSE e]
<1>1. kept \in [A -> B]
  BY DEF NoEntry
<1>2. FlushVaAllAsids(m, va) = Replaced(m, kept)
  <2>1. m.sets \in [SetIds -> [WayIds -> A]] /\ m.data \in A /\ m.fetch \in A
    BY DEF MmusOf
  <2> QED
    BY <2>1 DEF FlushVaAllAsids, Drop, Replaced
<1> HIDE DEF B, kept
<1>3. FlushVaAllAsids(m, va) \in MmusOf(B) /\ FlushVaAllAsids(m, va).asid = m.asid /\ FlushVaAllAsids(m, va).mair = m.mair
  BY <1>1, <1>2, MapKeeps
<1> QED
  BY <1>3 DEF B

LEMMA CachedAre ==
  ASSUME NEW A, NEW m \in MmusOf(A)
  PROVE  CachedIn(m) \subseteq {e \in A : e.valid}
<1>1. m.sets \in [SetIds -> [WayIds -> A]] /\ m.data \in A /\ m.fetch \in A
  BY DEF MmusOf
<1>2. \A s \in SetIds, w \in WayIds : m.sets[s][w] \in A
  BY <1>1
<1> QED
  BY <1>1, <1>2 DEF CachedIn, SetIds, WayIds

LEMMA MmusGrow ==
  ASSUME NEW A, NEW B, A \subseteq B, NEW m \in MmusOf(A)
  PROVE  m \in MmusOf(B)
BY DEF MmusOf

LEMMA LookupIn ==
  ASSUME NEW A, NoEntry \in A, NEW m \in MmusOf(A), NEW va \in Vas, NEW asid
  PROVE  Lookup(m, va, asid) \in A
<1> DEFINE set  == m.sets[SetIndex(va)]
           here == {w \in DOMAIN set : set[w].valid /\ set[w].va = va}
           own  == {w \in here : ~set[w].global /\ set[w].asid = asid}
           any  == {w \in here : set[w].global}
<1>1. set \in [WayIds -> A]
  BY SetIndexIn DEF MmusOf
<1>2. own \in SUBSET WayIds /\ any \in SUBSET WayIds
  BY <1>1
<1>3. Lookup(m, va, asid) = IF own # {} THEN set[First(own)] ELSE IF any # {} THEN set[First(any)] ELSE NoEntry
  BY DEF Lookup
<1> HIDE DEF set, own, any
<1>4. /\ own # {} => First(own) \in WayIds
      /\ any # {} => First(any) \in WayIds
  BY <1>2, FirstWay
<1> QED
  BY <1>1, <1>3, <1>4

-----------------------------------------------------------------------------
(* What the caches hold                                                    *)

\* The translations of the present tables.
Present(t) == {Mapped(t, x[1], x[2]) : x \in {y \in Vas \X Asids : Mapping(t, y[1], y[2]).ok}}

\* A translation as a core with this MAIR caches it.
As(d, mair) == EntryOf(d.va, d.asid, d, mair[d.attr])
Held(known, mair) == {NoEntry} \cup {As(d, mair) : d \in known}
Known == stale \cup Present(tables)

\* An entry made from the result of some walk, before MAIR.
IsTranslation(d) == \E va \in Vas, asid \in Asids : \E r : d = EntryOf(va, asid, r, "any")

TlbInv ==
  /\ mmu = [c \in Cores |-> mmu[c]]
  /\ \A c \in Cores : mmu[c] \in MmusOf(Held(Known, mmu[c].mair))
  /\ \A d \in stale : IsTranslation(d)

LEMMA KnownAre == ASSUME TlbInv PROVE \A d \in Known : IsTranslation(d)
<1> SUFFICES ASSUME NEW d \in Present(tables) PROVE IsTranslation(d)
  BY DEF Known, TlbInv
<1>1. PICK x \in Vas \X Asids : d = Mapped(tables, x[1], x[2])
  BY DEF Present
<1>2. x[1] \in Vas /\ x[2] \in Asids
  BY <1>1
<1> QED
  BY <1>1, <1>2 DEF IsTranslation, Mapped

\* What MAIR says of an entry changes nothing else of it.
LEMMA AsIs ==
  ASSUME NEW d, IsTranslation(d), NEW mair
  PROVE  LET e == As(d, mair)
         IN  /\ e.valid /\ e.va = d.va /\ e.asid = d.asid /\ e.global = d.global /\ e.level = d.level
             /\ e.va \in Vas /\ e.asid \in Asids
             /\ e.memory = mair[e.attr] /\ EntryOf(e.va, e.asid, e, "any") = d
<1>0. PICK va \in Vas, asid \in Asids : \E r : d = EntryOf(va, asid, r, "any")
  BY DEF IsTranslation
<1>1. PICK r : d = EntryOf(va, asid, r, "any")
  BY <1>0
<1> DEFINE e == As(d, mair)
<1>2. e = EntryOf(va, asid, r, mair[r.attr])
  <2>1. d.attr = r.attr
    BY <1>1 DEF EntryOf
  <2> QED
    BY <1>1, <2>1 DEF As, EntryOf
<1>3. EntryOf(e.va, e.asid, e, "any") = EntryOf(va, asid, r, "any")
  BY <1>2 DEF EntryOf
<1>4. /\ e.valid /\ e.va = d.va /\ e.asid = d.asid /\ e.global = d.global /\ e.level = d.level
      /\ e.va = va /\ e.asid = asid /\ e.memory = mair[e.attr]
  BY <1>1, <1>2 DEF EntryOf
<1> QED
  BY <1>1, <1>3, <1>4

LEMMA TlbInvCoherent == ASSUME TlbInv PROVE TlbCoherent
<1> SUFFICES ASSUME NEW c \in Cores, NEW e \in Cached(c)
             PROVE  /\ e.memory = mmu[c].mair[e.attr]
                    /\ \/ /\ Mapping(tables, e.va, e.asid).ok
                          /\ EntryOf(e.va, e.asid, e, "any") = Mapped(tables, e.va, e.asid)
                       \/ EntryOf(e.va, e.asid, e, "any") \in stale
  BY DEF TlbCoherent
<1> DEFINE mair == mmu[c].mair
<1>1. e \in Held(Known, mair) /\ e.valid
  BY CachedAre DEF Cached, TlbInv
<1>2. PICK d \in Known : e = As(d, mair)
  BY <1>1 DEF Held, NoEntry
<1>3. /\ e.va = d.va /\ e.asid = d.asid /\ e.memory = mair[e.attr] /\ EntryOf(e.va, e.asid, e, "any") = d
  BY <1>2, KnownAre, AsIs
<1>4. CASE d \in Present(tables)
  <2>1. PICK x \in Vas \X Asids : Mapping(tables, x[1], x[2]).ok /\ d = Mapped(tables, x[1], x[2])
    BY <1>4 DEF Present
  <2>2. d.va = x[1] /\ d.asid = x[2]
    BY <2>1 DEF Mapped, EntryOf
  <2> QED
    BY <1>3, <2>1, <2>2
<1> QED
  BY <1>2, <1>3, <1>4 DEF Known

\* A translation that succeeds says what any walk would find there.
LEMMA WalkAgrees ==
  ASSUME NEW t, NEW va, NEW asid, NEW access, NEW checks, checks.access_flag = TRUE,
         Walk(RegimeOf(va, asid), t, va, access, Kernel, checks).ok
  PROVE  Mapping(t, va, asid)
           = Walk(RegimeOf(va, asid), t, va, access, Kernel, checks)
<1> DEFINE regime == RegimeOf(va, asid)
           w == Descend(regime, t, va)
           nochecks == [Checks EXCEPT !.permissions = FALSE]
<1>1. checks.access_flag = nochecks.access_flag /\ ~nochecks.permissions
  BY DEF Checks
<1> HIDE DEF nochecks, regime
<1>2. /\ regime.size_ok /\ regime.granule_ok /\ ~regime.epd
  BY DEF regime, RegimeOf, Regime
<1>3. ASSUME NEW x, NEW y PROVE ~Fault(x, y).ok
  BY DEF Fault
<1>4. /\ ~(va.page >= regime.pages \/ regime.base \notin IpsPages) /\ w.fault = "none"
      /\ Walk(regime, t, va, access, Kernel, checks) = Leaf(regime, w.leaf, w.level, w.inherited, va, access, Kernel, checks)
  <2> HIDE DEF w
  <2> QED
    BY <1>2, <1>3 DEF Walk, regime, w
<1>5. Mapping(t, va, asid) = Leaf(regime, w.leaf, w.level, w.inherited, va, "read", Kernel, nochecks)
  <2> HIDE DEF w
  <2> QED
    BY <1>4, <1>2 DEF Walk, Mapping, w, regime, nochecks
<1> HIDE DEF w
<1>6. Leaf(regime, w.leaf, w.level, w.inherited, va, access, Kernel, checks)
        = LeafResult(regime, w.leaf, w.level, w.inherited, va)
  BY <1>3, <1>4 DEF Leaf, regime
<1>7. Leaf(regime, w.leaf, w.level, w.inherited, va, access, Kernel, checks)
        = Leaf(regime, w.leaf, w.level, w.inherited, va, "read", Kernel, nochecks)
  BY <1>1, <1>3, <1>4 DEF Leaf, regime
<1> QED
  BY <1>4, <1>5, <1>7 DEF regime

\* The entries of a snapshot, put back one by one.
LEMMA LoadingIs ==
  ASSUME NEW m
  PROVE  /\ Loading(m)[0] = FlushAll(m)
         /\ \A k \in 1 .. Sets * Ways : Loading(m)[k] = LoadEntry(Loading(m)[k - 1], SavedEntries(m)[k])
         /\ Sets * Ways \in Nat
<1> DEFINE last == Sets * Ways
           saved == SavedEntries(m)
           after(l, k) == IF k = 0 THEN FlushAll(m) ELSE LoadEntry(l[k - 1], saved[k])
           IsLoading(l) == l = [k \in 0 .. last |-> after(l, k)]
           Holds(n) == n <= last => \E l : l = [k \in 0 .. n |-> after(l, k)]
<1>1. last \in Nat
  BY SizesNatural
<1> HIDE DEF last, saved
<1>2. Holds(0)
  <2> DEFINE l == [k \in 0 .. 0 |-> FlushAll(m)]
  <2>1. l = [k \in 0 .. 0 |-> after(l, k)]
    OBVIOUS
  <2> QED
    BY <2>1
<1>3. ASSUME NEW n \in Nat, Holds(n) PROVE Holds(n + 1)
  <2> SUFFICES ASSUME n + 1 <= last PROVE \E l : l = [k \in 0 .. n + 1 |-> after(l, k)]
    OBVIOUS
  <2>1. PICK g : g = [k \in 0 .. n |-> after(g, k)]
    BY <1>1, <1>3
  <2> DEFINE l == [k \in 0 .. n + 1 |-> IF k = n + 1 THEN LoadEntry(g[n], saved[n + 1]) ELSE g[k]]
  <2>2. \A k \in 0 .. n + 1 : l[k] = after(l, k)
    <3> TAKE k \in 0 .. n + 1
    <3>1. CASE k = n + 1
      <4>1. l[k] = LoadEntry(g[n], saved[k]) /\ l[k - 1] = g[n] /\ k # 0
        BY <3>1
      <4> QED
        BY <4>1
    <3>2. CASE k # n + 1
      <4>1. l[k] = after(g, k)
        BY <3>2, <2>1
      <4>2. k # 0 => l[k - 1] = g[k - 1]
        BY <3>2
      <4> QED
        BY <4>1, <4>2
    <3> QED
      BY <3>1, <3>2
  <2>3. l = [k \in 0 .. n + 1 |-> l[k]]
    OBVIOUS
  <2> HIDE DEF l
  <2>4. l = [k \in 0 .. n + 1 |-> after(l, k)]
    BY <2>2, <2>3
  <2> QED
    BY <2>4
<1>4. \A n \in Nat : Holds(n)
  <2> DEFINE S == {n \in Nat : Holds(n)}
  <2>1. 0 \in S
    BY <1>2
  <2>2. \A n \in Nat : n \in S => n + 1 \in S
    BY <1>3
  <2> HIDE DEF S, Holds
  <2>3. \A n \in Nat : n \in S
    BY <2>1, <2>2, Inductive
  <2> QED
    BY <2>3 DEF S
<1>5. \E l : IsLoading(l)
  BY <1>1, <1>4
<1>6. Loading(m) = CHOOSE l : IsLoading(l)
  BY DEF Loading, last, saved
<1>7. IsLoading(Loading(m))
  BY <1>5, <1>6
<1> QED
  BY <1>1, <1>7 DEF last, saved

\* Entry after entry, the TLB put back is one of the same core, with entries of the same kind.
LEMMA LoadingKeeps ==
  ASSUME NEW A, NoEntry \in A, \A e \in A : e.valid => SetIndex(e.va) \in SetIds, NEW m \in MmusOf(A)
  PROVE  \A k \in 0 .. Sets * Ways :
           /\ Loading(m)[k] \in MmusOf(A) /\ Loading(m)[k].asid = m.asid /\ Loading(m)[k].mair = m.mair
<1> DEFINE last == Sets * Ways
           Fine(n) == n \in MmusOf(A) /\ n.asid = m.asid /\ n.mair = m.mair
           S == {k \in Nat : k <= last => Fine(Loading(m)[k])}
<1>1. /\ Loading(m)[0] = FlushAll(m)
      /\ \A k \in 1 .. last : Loading(m)[k] = LoadEntry(Loading(m)[k - 1], SavedEntries(m)[k])
      /\ last \in Nat
  BY LoadingIs, Zenon
<1>2. \A k \in 1 .. last : SavedEntries(m)[k] \in A
  <2> SUFFICES ASSUME NEW k \in 1 .. last PROVE SavedEntries(m)[k] \in A
    OBVIOUS
  <2>1. (k - 1) \div Ways \in SetIds /\ (k - 1) % Ways \in WayIds
    BY SizesNatural, PositionIn
  <2>2. m.sets \in [SetIds -> [WayIds -> A]]
    BY DEF MmusOf
  <2> QED
    BY <2>1, <2>2 DEF SavedEntries
<1> HIDE DEF last
<1>3. 0 \in S
  <2>1. FlushAll(m) \in MmusOf({NoEntry}) /\ FlushAll(m).asid = m.asid /\ FlushAll(m).mair = m.mair
    BY FlushAllKeeps
  <2>2. FlushAll(m) \in MmusOf(A)
    BY <2>1, MmusGrow
  <2> QED
    BY <1>1, <2>1, <2>2
<1>4. ASSUME NEW k \in Nat, k \in S PROVE k + 1 \in S
  <2> SUFFICES ASSUME k + 1 <= last PROVE Fine(Loading(m)[k + 1])
    OBVIOUS
  <2> DEFINE l == Loading(m)[k]
             e == SavedEntries(m)[k + 1]
  <2>1. Fine(l)
    BY <1>1, <1>4
  <2>2. Loading(m)[k + 1] = LoadEntry(l, e) /\ e \in A
    BY <1>1, <1>2
  <2>3. ASSUME e.valid PROVE Fine(Insert(l, e))
    <3>1. SetIndex(e.va) \in SetIds
      BY <2>2, <2>3
    <3> HIDE DEF e, l
    <3> QED
      BY <2>1, <2>2, <3>1, InsertKeeps
  <2> HIDE DEF e, l, Fine
  <2> QED
    BY <2>1, <2>2, <2>3 DEF LoadEntry
<1>5. \A k \in Nat : k \in S
  <2> HIDE DEF S
  <2> QED
    BY <1>3, <1>4, Inductive
<1> QED
  BY <1>5, <1>1 DEF last

LEMMA LoadKeeps ==
  ASSUME NEW A, NoEntry \in A, \A e \in A : e.valid => SetIndex(e.va) \in SetIds, NEW m \in MmusOf(A)
  PROVE  SaveAndLoad(m) \in MmusOf(A) /\ SaveAndLoad(m).asid = m.asid /\ SaveAndLoad(m).mair = m.mair
<1> DEFINE last == Sets * Ways
           loaded == Loading(m)[last]
<1>1. last \in 0 .. last
  BY SizesNatural
<1>2. loaded \in MmusOf(A) /\ loaded.asid = m.asid /\ loaded.mair = m.mair
  BY <1>1, LoadingKeeps
<1>3. SaveAndLoad(m) = [loaded EXCEPT !.data = NoEntry]
  BY DEF SaveAndLoad
<1> HIDE DEF loaded
<1> QED
  BY <1>2, <1>3 DEF MmusOf

-----------------------------------------------------------------------------
(* Every step keeps the invariant                                          *)

LEMMA Holding ==
  ASSUME TlbInv, NEW c \in Cores
  PROVE  /\ mmu[c] \in MmusOf(Held(Known, mmu[c].mair)) /\ NoEntry \in Held(Known, mmu[c].mair)
         /\ mmu[c].asid \in Asids
         /\ \A e \in Held(Known, mmu[c].mair) : e.valid => SetIndex(e.va) \in SetIds
<1>1. mmu[c] \in MmusOf(Held(Known, mmu[c].mair)) /\ NoEntry \in Held(Known, mmu[c].mair)
  BY DEF TlbInv, Held
<1>2. ASSUME NEW e \in Held(Known, mmu[c].mair), e.valid PROVE SetIndex(e.va) \in SetIds
  <2>1. PICK d \in Known : e = As(d, mmu[c].mair)
    BY <1>2 DEF Held, NoEntry
  <2>2. e.va \in Vas
    BY <2>1, KnownAre, AsIs
  <2> QED
    BY <2>2, SetIndexIn
<1> QED
  BY <1>1, <1>2 DEF MmusOf

LEMMA TranslateKeeps ==
  ASSUME TlbInv, NEW c \in Cores, NEW va \in Vas, NEW access, NEW checks, checks.access_flag = TRUE
  PROVE  LET n == AfterTranslate(mmu[c], va, access, Kernel, checks)
         IN  /\ n \in MmusOf(Held(Known, mmu[c].mair)) /\ n.mair = mmu[c].mair /\ n.asid = mmu[c].asid
             /\ Tidy(mmu[c]) => Tidy(n)
<1> DEFINE m == mmu[c]
           known == Known
<1>0. m \in MmusOf(Held(known, m.mair)) /\ m.asid \in Asids /\ Present(tables) \subseteq known
  BY Holding DEF Known
<1> HIDE DEF m, known
<1> DEFINE A == Held(known, m.mair)
           hot == IF access = "fetch" THEN m.fetch ELSE m.data
           hit == Lookup(m, va, m.asid)
           r == Walk(RegimeOf(va, m.asid), tables, va, access, Kernel, checks)
           e == EntryOf(va, m.asid, r, m.mair[r.attr])
           n == AfterTranslate(m, va, access, Kernel, checks)
<1>1. NoEntry \in A
  BY DEF Held
<1>2. hit \in A
  BY <1>0, <1>1, LookupIn
<1>3. ASSUME r.ok PROVE e \in A
  <2>1. Mapping(tables, va, m.asid) = r /\ Mapping(tables, va, m.asid).ok
    BY <1>3, WalkAgrees
  <2>2. Mapped(tables, va, m.asid) \in Present(tables)
    <3>1. <<va, m.asid>> \in {y \in Vas \X Asids : Mapping(tables, y[1], y[2]).ok}
      BY <1>0, <2>1
    <3> QED
      BY <3>1 DEF Present
  <2>3. e = As(Mapped(tables, va, m.asid), m.mair)
    <3> HIDE DEF r
    <3> QED
      BY <2>1 DEF As, Mapped, EntryOf
  <2> QED
    BY <1>0, <2>2, <2>3 DEF Held
<1>4. e.va = va
  BY DEF EntryOf
<1>5. ASSUME r.ok PROVE Insert(m, e) \in MmusOf(A) /\ Insert(m, e).asid = m.asid /\ Insert(m, e).mair = m.mair
  <2>1. SetIndex(e.va) \in SetIds
    BY <1>4, SetIndexIn
  <2>2. e \in A
    BY <1>3, <1>5
  <2> HIDE DEF e, r, A
  <2> QED
    BY <1>0, <1>1, <2>1, <2>2, InsertKeeps DEF A
<1>6. [m EXCEPT !.fetch = hit] \in MmusOf(A) /\ [m EXCEPT !.data = hit] \in MmusOf(A)
  <2> HIDE DEF hit, A
  <2> QED
    BY <1>0, <1>2 DEF MmusOf, A
<1>7. n \in {m, [m EXCEPT !.fetch = hit], [m EXCEPT !.data = hit]} \/ (r.ok /\ n = Insert(m, e))
  <2>1. n = IF hot.valid /\ hot.va = va /\ MatchesAsid(hot, m.asid) THEN m
            ELSE IF hit.valid THEN IF access = "fetch" THEN [m EXCEPT !.fetch = hit] ELSE [m EXCEPT !.data = hit]
            ELSE IF r.ok THEN Insert(m, e) ELSE m
    BY Zenon DEF AfterTranslate
  <2> HIDE DEF n, hit, r, e, hot
  <2> QED
    BY <2>1, Zenon
<1> HIDE DEF n, hit, r, e, A
<1>8. n \in MmusOf(A) /\ n.mair = m.mair /\ n.asid = m.asid
  BY <1>0, <1>5, <1>6, <1>7 DEF MmusOf, A
<1>9. ASSUME Tidy(m) PROVE Tidy(n)
  <2>1. ASSUME r.ok PROVE Tidy(Insert(m, e))
    <3>1. e.valid /\ SetIndex(e.va) \in SetIds
      BY <1>4, SetIndexIn DEF e, EntryOf
    <3>2. e \in A
      BY <1>3, <2>1
    <3> QED
      BY <1>0, <1>1, <1>9, <3>1, <3>2, InsertTidy DEF A
  <2>2. [m EXCEPT !.fetch = hit].sets = m.sets /\ [m EXCEPT !.data = hit].sets = m.sets
    BY <1>0 DEF MmusOf
  <2>3. Tidy([m EXCEPT !.fetch = hit]) /\ Tidy([m EXCEPT !.data = hit])
    BY <1>9, <2>2 DEF Tidy
  <2> QED
    BY <1>7, <1>9, <2>1, <2>3
<1> QED
  BY <1>8, <1>9 DEF n, A, m, known

\* A step that changes only what one core has cached.
LEMMA OneCore ==
  ASSUME TlbInv, UNCHANGED <<tables, stale, stores>>, NEW c \in Cores, NEW m,
         mmu' = [mmu EXCEPT ![c] = m], m \in MmusOf(Held(Known, m.mair))
  PROVE  TlbInv'
<1>1. Known' = Known
  BY DEF Known, Present, Mapped, Mapping
<1>2. mmu' = [k \in Cores |-> mmu'[k]] /\ mmu'[c] = m /\ \A k \in Cores \ {c} : mmu'[k] = mmu[k]
  BY DEF TlbInv
<1>3. ASSUME NEW k \in Cores PROVE mmu'[k] \in MmusOf(Held(Known', mmu'[k].mair))
  BY <1>1, <1>2 DEF TlbInv
<1>4. \A d \in stale' : IsTranslation(d)
  BY DEF TlbInv
<1> QED
  BY <1>2, <1>3, <1>4 DEF TlbInv

LEMMA TranslateInv == ASSUME TlbInv, NEW c \in Cores, Translate(c) PROVE TlbInv'
<1>1. PICK va \in Vas, access \in {"read", "fetch"}, permissions \in BOOLEAN :
        mmu' = [mmu EXCEPT ![c] = AfterTranslate(@, va, access, Kernel, [Checks EXCEPT !.permissions = permissions])]
  BY DEF Translate
<1> DEFINE m == AfterTranslate(mmu[c], va, access, Kernel, [Checks EXCEPT !.permissions = permissions])
<1> DEFINE asking == [Checks EXCEPT !.permissions = permissions]
<1>2. asking.access_flag = TRUE
  BY DEF Checks
<1> HIDE DEF m, asking
<1>3. m \in MmusOf(Held(Known, mmu[c].mair)) /\ m.mair = mmu[c].mair
  BY <1>2, TranslateKeeps DEF m, asking
<1>4. mmu' = [mmu EXCEPT ![c] = m]
  BY <1>1 DEF m
<1>5. UNCHANGED <<tables, stale, stores>>
  BY DEF Translate
<1> QED
  BY <1>3, <1>4, <1>5, OneCore

LEMMA SwitchSpaceInv == ASSUME TlbInv, NEW c \in Cores, SwitchSpace(c) PROVE TlbInv'
<1>1. PICK asid \in Asids : mmu' = [mmu EXCEPT ![c] = [@ EXCEPT !.asid = asid]]
  BY DEF SwitchSpace
<1> DEFINE m == [mmu[c] EXCEPT !.asid = asid]
<1>2. m \in MmusOf(Held(Known, m.mair))
  BY Holding DEF MmusOf
<1>3. UNCHANGED <<tables, stale, stores>> /\ mmu' = [mmu EXCEPT ![c] = m]
  BY <1>1 DEF SwitchSpace
<1> HIDE DEF m
<1> QED
  BY <1>2, <1>3, OneCore

LEMMA WriteMairInv == ASSUME TlbInv, NEW c \in Cores, WriteMair(c) PROVE TlbInv'
<1> DEFINE mair == mmu[c].mair
           n == [mmu[c] EXCEPT !.mair = <<mair[2], mair[1]>>]
           m == FlushAll(n)
<1>1. n \in MmusOf(Held(Known, mmu[c].mair)) /\ NoEntry \in Held(Known, mmu[c].mair)
  BY Holding DEF MmusOf
<1>2. m \in MmusOf({NoEntry})
  <2> HIDE DEF n
  <2> QED
    BY <1>1, FlushAllKeeps
<1>3. m \in MmusOf(Held(Known, m.mair))
  <2>1. {NoEntry} \subseteq Held(Known, m.mair)
    BY DEF Held
  <2> HIDE DEF m
  <2> QED
    BY <1>2, <2>1, MmusGrow
<1>4. UNCHANGED <<tables, stale, stores>> /\ mmu' = [mmu EXCEPT ![c] = m]
  BY DEF WriteMair
<1> HIDE DEF m
<1> QED
  BY <1>3, <1>4, OneCore

LEMMA StoreDescriptorInv == ASSUME TlbInv, StoreDescriptor PROVE TlbInv'
<1>1. PICK t : /\ tables' = t
               /\ stale' = stale \cup {Mapped(tables, x[1], x[2]) :
                             x \in {y \in Vas \X Asids : /\ Mapping(tables, y[1], y[2]).ok
                                                         /\ Mapping(t, y[1], y[2]) # Mapping(tables, y[1], y[2])}}
               /\ UNCHANGED mmu
  BY DEF StoreDescriptor
<1> DEFINE left == {y \in Vas \X Asids : /\ Mapping(tables, y[1], y[2]).ok
                                         /\ Mapping(t, y[1], y[2]) # Mapping(tables, y[1], y[2])}
<1>2. Known \subseteq Known'
  <2>1. ASSUME NEW d \in Present(tables) PROVE d \in stale' \cup Present(t)
    <3>1. PICK x \in Vas \X Asids : Mapping(tables, x[1], x[2]).ok /\ d = Mapped(tables, x[1], x[2])
      BY DEF Present
    <3>2. CASE Mapping(t, x[1], x[2]) = Mapping(tables, x[1], x[2])
      <4>1. Mapping(t, x[1], x[2]).ok /\ d = Mapped(t, x[1], x[2])
        BY <3>1, <3>2 DEF Mapped
      <4> QED
        BY <4>1 DEF Present
    <3>3. CASE Mapping(t, x[1], x[2]) # Mapping(tables, x[1], x[2])
      <4>1. x \in left
        BY <3>1, <3>3
      <4> HIDE DEF left
      <4> QED
        BY <4>1, <3>1, <1>1 DEF left
    <3> QED
      BY <3>2, <3>3
  <2>2. Known' = stale' \cup Present(t)
    BY <1>1 DEF Known, Present, Mapped, Mapping
  <2>3. stale \subseteq stale'
    BY <1>1
  <2> QED
    BY <2>1, <2>2, <2>3 DEF Known
<1>3. ASSUME NEW c \in Cores PROVE mmu'[c] \in MmusOf(Held(Known', mmu'[c].mair))
  <2>1. Held(Known, mmu[c].mair) \subseteq Held(Known', mmu[c].mair)
    BY <1>2 DEF Held
  <2>2. mmu[c] \in MmusOf(Held(Known', mmu[c].mair))
    BY <2>1, Holding, MmusGrow
  <2> QED
    BY <2>2, <1>1
<1>4. ASSUME NEW d \in stale' PROVE IsTranslation(d)
  <2>1. CASE d \in stale
    BY <2>1 DEF TlbInv
  <2>2. CASE d \notin stale
    <3>1. PICK x \in left : d = Mapped(tables, x[1], x[2])
      BY <2>2, <1>1
    <3>2. x[1] \in Vas /\ x[2] \in Asids
      OBVIOUS
    <3> QED
      BY <3>1, <3>2 DEF IsTranslation, Mapped
  <2> QED
    BY <2>1, <2>2
<1> QED
  BY <1>1, <1>3, <1>4 DEF TlbInv

\* An invalidation that drops the same entries from every core and from the stale ones.
LEMMA InvalidateInv ==
  ASSUME TlbInv, UNCHANGED <<tables, stores>>, NEW f, NEW B,
         mmu' = [k \in Cores |-> f[k]], B \subseteq stale, stale' = B,
         \A k \in Cores : f[k].mair = mmu[k].mair /\ f[k] \in MmusOf(Held(B \cup Present(tables), mmu[k].mair))
  PROVE  TlbInv'
<1>1. Known' = B \cup Present(tables)
  BY DEF Known, Present, Mapped, Mapping
<1>2. \A k \in Cores : mmu'[k] = f[k]
  OBVIOUS
<1>3. ASSUME NEW k \in Cores PROVE mmu'[k] \in MmusOf(Held(Known', mmu'[k].mair))
  BY <1>1, <1>2
<1>4. \A d \in stale' : IsTranslation(d)
  BY DEF TlbInv
<1>5. mmu' = [k \in Cores |-> mmu'[k]]
  OBVIOUS
<1> QED
  BY <1>3, <1>4, <1>5 DEF TlbInv

LEMMA TlbiVmalle1Inv == ASSUME TlbInv, NEW c \in Cores, TlbiVmalle1(c) PROVE TlbInv'
<1> DEFINE f == [k \in Cores |-> FlushAll(mmu[k])]
<1>1. mmu' = [k \in Cores |-> f[k]] /\ stale' = {} /\ UNCHANGED <<tables, stores>>
  BY DEF TlbiVmalle1, TlbiOn
<1>2. ASSUME NEW k \in Cores
      PROVE  f[k].mair = mmu[k].mair /\ f[k] \in MmusOf(Held({} \cup Present(tables), mmu[k].mair))
  <2>1. FlushAll(mmu[k]) \in MmusOf({NoEntry}) /\ FlushAll(mmu[k]).mair = mmu[k].mair
    BY Holding, FlushAllKeeps
  <2>2. {NoEntry} \subseteq Held({} \cup Present(tables), mmu[k].mair)
    BY DEF Held
  <2> QED
    BY <2>1, <2>2, MmusGrow
<1> HIDE DEF f
<1> QED
  BY <1>1, <1>2, InvalidateInv

LEMMA TlbiVae1Inv == ASSUME TlbInv, NEW c \in Cores, TlbiVae1(c) PROVE TlbInv'
<1>1. PICK va \in Vas, asid \in Asids :
        /\ mmu' = [k \in Cores |-> FlushVa(mmu[k], va, asid)]
        /\ stale' = {d \in stale : ~(Covers(d, va) /\ MatchesAsid(d, asid))}
        /\ UNCHANGED <<tables, stores>>
  BY DEF TlbiVae1, TlbiOn, Reaches, Covers
<1> DEFINE f == [k \in Cores |-> FlushVa(mmu[k], va, asid)]
           B == {d \in stale : ~(Covers(d, va) /\ MatchesAsid(d, asid))}
<1>2. ASSUME NEW k \in Cores
      PROVE  f[k].mair = mmu[k].mair /\ f[k] \in MmusOf(Held(B \cup Present(tables), mmu[k].mair))
  <2> DEFINE A == Held(Known, mmu[k].mair)
             now == FlushVa(mmu[k], va, asid)
             held == Held(B \cup Present(tables), mmu[k].mair)
             left == {e \in A : e.valid => ~(Covers(e, va) /\ MatchesAsid(e, asid))}
  <2>1. now \in MmusOf(left) /\ now.mair = mmu[k].mair
    BY Holding, FlushVaKeeps
  <2>2. left \subseteq held
    <3> SUFFICES ASSUME NEW e \in left, e # NoEntry PROVE e \in held
      BY DEF Held
    <3>1. PICK d \in Known : e = As(d, mmu[k].mair)
      BY DEF Held
    <3>2. e.valid /\ e.va = d.va /\ e.asid = d.asid /\ e.global = d.global /\ e.level = d.level
      BY <3>1, KnownAre, AsIs
    <3>3. ~(Covers(d, va) /\ MatchesAsid(d, asid))
      BY <3>2 DEF Covers, MatchesAsid
    <3>4. d \in B \cup Present(tables)
      BY <3>3 DEF Known
    <3> HIDE DEF B
    <3> QED
      BY <3>1, <3>4 DEF Held
  <2>3. f[k] = now
    OBVIOUS
  <2> HIDE DEF left, A, B, f, now, held
  <2>4. now \in MmusOf(held)
    BY <2>1, <2>2, MmusGrow
  <2> QED
    BY <2>1, <2>3, <2>4 DEF held
<1> HIDE DEF f
<1>3. mmu' = [k \in Cores |-> f[k]] /\ stale' = B /\ B \subseteq stale /\ UNCHANGED <<tables, stores>>
  BY <1>1 DEF f
<1> HIDE DEF B
<1> QED
  BY <1>2, <1>3, InvalidateInv

LEMMA TlbiVaae1Inv == ASSUME TlbInv, NEW c \in Cores, TlbiVaae1(c) PROVE TlbInv'
<1>1. PICK va \in Vas :
        /\ mmu' = [k \in Cores |-> FlushVaAllAsids(mmu[k], va)]
        /\ stale' = {d \in stale : ~Covers(d, va)}
        /\ UNCHANGED <<tables, stores>>
  BY DEF TlbiVaae1, TlbiOn, Reaches, Covers
<1> DEFINE f == [k \in Cores |-> FlushVaAllAsids(mmu[k], va)]
           B == {d \in stale : ~Covers(d, va)}
<1>2. ASSUME NEW k \in Cores
      PROVE  f[k].mair = mmu[k].mair /\ f[k] \in MmusOf(Held(B \cup Present(tables), mmu[k].mair))
  <2> DEFINE A == Held(Known, mmu[k].mair)
             now == FlushVaAllAsids(mmu[k], va)
             held == Held(B \cup Present(tables), mmu[k].mair)
             left == {e \in A : e.valid => ~Covers(e, va)}
  <2>1. now \in MmusOf(left) /\ now.mair = mmu[k].mair
    BY Holding, FlushVaAllAsidsKeeps
  <2>2. left \subseteq held
    <3> SUFFICES ASSUME NEW e \in left, e # NoEntry PROVE e \in held
      BY DEF Held
    <3>1. PICK d \in Known : e = As(d, mmu[k].mair)
      BY DEF Held
    <3>2. e.valid /\ e.va = d.va /\ e.level = d.level
      BY <3>1, KnownAre, AsIs
    <3>3. ~Covers(d, va)
      BY <3>2 DEF Covers
    <3>4. d \in B \cup Present(tables)
      BY <3>3 DEF Known
    <3> HIDE DEF B
    <3> QED
      BY <3>1, <3>4 DEF Held
  <2>3. f[k] = now
    OBVIOUS
  <2> HIDE DEF left, A, B, f, now, held
  <2>4. now \in MmusOf(held)
    BY <2>1, <2>2, MmusGrow
  <2> QED
    BY <2>1, <2>3, <2>4 DEF held
<1> HIDE DEF f
<1>3. mmu' = [k \in Cores |-> f[k]] /\ stale' = B /\ B \subseteq stale /\ UNCHANGED <<tables, stores>>
  BY <1>1 DEF f
<1> HIDE DEF B
<1> QED
  BY <1>2, <1>3, InvalidateInv

LEMMA TlbiAside1Inv == ASSUME TlbInv, NEW c \in Cores, TlbiAside1(c) PROVE TlbInv'
<1>1. PICK asid \in Asids :
        /\ mmu' = [k \in Cores |-> FlushAsid(mmu[k], asid)]
        /\ stale' = {d \in stale : ~(~d.global /\ d.asid = asid)}
        /\ UNCHANGED <<tables, stores>>
  BY DEF TlbiAside1, TlbiOn
<1> DEFINE f == [k \in Cores |-> FlushAsid(mmu[k], asid)]
           B == {d \in stale : ~(~d.global /\ d.asid = asid)}
<1>2. ASSUME NEW k \in Cores
      PROVE  f[k].mair = mmu[k].mair /\ f[k] \in MmusOf(Held(B \cup Present(tables), mmu[k].mair))
  <2> DEFINE A == Held(Known, mmu[k].mair)
             now == FlushAsid(mmu[k], asid)
             held == Held(B \cup Present(tables), mmu[k].mair)
             left == {e \in A : e.valid => e.global \/ e.asid # asid}
  <2>1. now \in MmusOf(left) /\ now.mair = mmu[k].mair
    BY Holding, FlushAsidKeeps
  <2>2. left \subseteq held
    <3> SUFFICES ASSUME NEW e \in left, e # NoEntry PROVE e \in held
      BY DEF Held
    <3>1. PICK d \in Known : e = As(d, mmu[k].mair)
      BY DEF Held
    <3>2. e.valid /\ e.asid = d.asid /\ e.global = d.global
      BY <3>1, KnownAre, AsIs
    <3>3. ~(~d.global /\ d.asid = asid)
      BY <3>2
    <3>4. d \in B \cup Present(tables)
      BY <3>3 DEF Known
    <3> HIDE DEF B
    <3> QED
      BY <3>1, <3>4 DEF Held
  <2>3. f[k] = now
    OBVIOUS
  <2> HIDE DEF left, A, B, f, now, held
  <2>4. now \in MmusOf(held)
    BY <2>1, <2>2, MmusGrow
  <2> QED
    BY <2>1, <2>3, <2>4 DEF held
<1> HIDE DEF f
<1>3. mmu' = [k \in Cores |-> f[k]] /\ stale' = B /\ B \subseteq stale /\ UNCHANGED <<tables, stores>>
  BY <1>1 DEF f
<1> HIDE DEF B
<1> QED
  BY <1>2, <1>3, InvalidateInv

LEMMA SnapshotInv == ASSUME TlbInv, Snapshot PROVE TlbInv'
<1> DEFINE f == [k \in Cores |-> SaveAndLoad(mmu[k])]
           B == stale
<1>1. mmu' = [k \in Cores |-> f[k]] /\ stale' = B /\ B \subseteq stale /\ UNCHANGED <<tables, stores>>
  BY DEF Snapshot
<1>2. ASSUME NEW k \in Cores
      PROVE  f[k].mair = mmu[k].mair /\ f[k] \in MmusOf(Held(B \cup Present(tables), mmu[k].mair))
  <2>1. SaveAndLoad(mmu[k]) \in MmusOf(Held(Known, mmu[k].mair)) /\ SaveAndLoad(mmu[k]).mair = mmu[k].mair
    BY Holding, LoadKeeps
  <2> QED
    BY <2>1 DEF Known
<1> HIDE DEF f, B
<1> QED
  BY <1>1, <1>2, InvalidateInv

LEMMA TlbInvInit == MmuInit => TlbInv
<1> SUFFICES ASSUME MmuInit PROVE TlbInv
  OBVIOUS
<1>1. ASSUME NEW asid \in Asids PROVE NewMmu(asid) \in MmusOf({NoEntry})
  BY SizesNatural DEF NewMmu, MmusOf, SetIds, WayIds
<1>2. ASSUME NEW c \in Cores PROVE mmu[c] \in MmusOf(Held(Known, mmu[c].mair))
  <2>1. PICK asid \in Asids : mmu[c] = NewMmu(asid)
    BY DEF MmuInit
  <2>2. {NoEntry} \subseteq Held(Known, mmu[c].mair)
    BY DEF Held
  <2> QED
    BY <1>1, <2>1, <2>2, MmusGrow
<1> QED
  BY <1>2 DEF MmuInit, TlbInv

LEMMA TlbInvNext == TlbInv /\ [MmuNext]_mmu_vars => TlbInv'
<1> SUFFICES ASSUME TlbInv, [MmuNext]_mmu_vars PROVE TlbInv'
  OBVIOUS
<1>1. CASE UNCHANGED mmu_vars
  BY <1>1 DEF mmu_vars, TlbInv, Known, Present, Mapped, Mapping
<1>2. CASE StoreDescriptor
  BY <1>2, StoreDescriptorInv
<1>3. CASE Snapshot
  BY <1>3, SnapshotInv
<1>4. ASSUME NEW c \in Cores, CoreStep(c) PROVE TlbInv'
  <2>1. CASE Translate(c)
    BY <2>1, TranslateInv
  <2>2. CASE SwitchSpace(c)
    BY <2>2, SwitchSpaceInv
  <2>3. CASE WriteMair(c)
    BY <2>3, WriteMairInv
  <2>4. CASE TlbiVmalle1(c)
    BY <2>4, TlbiVmalle1Inv
  <2>5. CASE TlbiVae1(c)
    BY <2>5, TlbiVae1Inv
  <2>6. CASE TlbiVaae1(c)
    BY <2>6, TlbiVaae1Inv
  <2>7. CASE TlbiAside1(c)
    BY <2>7, TlbiAside1Inv
  <2> QED
    BY <1>4, <2>1, <2>2, <2>3, <2>4, <2>5, <2>6, <2>7 DEF CoreStep, Invalidate
<1> QED
  BY <1>1, <1>2, <1>3, <1>4 DEF MmuNext

(* No core uses a translation that the kernel has replaced and             *)
(* invalidated, whatever the page tables, the size of the TLB, the         *)
(* number of cores and the changes the kernel makes (the TLB of            *)
(* src/src/cpu.cpp, the broadcasts of src/src/soc.cpp).                    *)
THEOREM TlbCoherentHolds == MmuSpec => []TlbCoherent
<1>1. MmuInit => TlbInv
  BY TlbInvInit
<1>2. TlbInv /\ [MmuNext]_mmu_vars => TlbInv'
  BY TlbInvNext
<1>3. TlbInv => TlbCoherent
  BY TlbInvCoherent
<1> QED
  BY <1>1, <1>2, <1>3, PTL DEF MmuSpec

-----------------------------------------------------------------------------
(* A snapshot keeps the TLB                                                *)

LEMMA FewerTidy ==
  ASSUME NEW m, NEW n, Tidy(m),
         \A s \in SetIds, w \in WayIds : n.sets[s][w] \in {m.sets[s][w], NoEntry}
  PROVE  Tidy(n)
<1> SUFFICES ASSUME NEW s \in SetIds, NEW w \in WayIds, n.sets[s][w].valid
             PROVE  /\ SetIndex(n.sets[s][w].va) = s
                    /\ \A v \in WayIds : n.sets[s][v].valid /\ Alike(n.sets[s][v], n.sets[s][w]) => v = w
  BY DEF Tidy
<1>1. \A v \in WayIds : n.sets[s][v].valid => n.sets[s][v] = m.sets[s][v]
  BY DEF NoEntry
<1> QED
  BY <1>1 DEF Tidy

\* A lookup sees which entries a set has, not where they are.
LEMMA SameLookup ==
  ASSUME NEW A, NoEntry \in A, NEW m \in MmusOf(A), NEW n \in MmusOf(A), Tidy(m), Tidy(n),
         NEW va \in Vas, NEW asid,
         \A e : e.valid => ((\E w \in WayIds : m.sets[SetIndex(va)][w] = e)
                              <=> (\E w \in WayIds : n.sets[SetIndex(va)][w] = e))
  PROVE  Lookup(m, va, asid) = Lookup(n, va, asid)
<1> DEFINE q == SetIndex(va)
           Own(e) == e.valid /\ e.va = va /\ ~e.global /\ e.asid = asid
           Any(e) == e.valid /\ e.va = va /\ e.global
           own(l) == {w \in WayIds : Own(l.sets[q][w])}
           any(l) == {w \in WayIds : Any(l.sets[q][w])}
<1>1. q \in SetIds
  BY SetIndexIn
<1> HIDE DEF q
<1>2. ASSUME NEW l \in MmusOf(A)
      PROVE  /\ Lookup(l, va, asid) = IF own(l) # {} THEN l.sets[q][First(own(l))]
                                      ELSE IF any(l) # {} THEN l.sets[q][First(any(l))] ELSE NoEntry
             /\ own(l) # {} => First(own(l)) \in own(l)
             /\ any(l) # {} => First(any(l)) \in any(l)
  <2> DEFINE set == l.sets[SetIndex(va)]
             here == {w \in DOMAIN set : set[w].valid /\ set[w].va = va}
             own1 == {w \in here : ~set[w].global /\ set[w].asid = asid}
             any1 == {w \in here : set[w].global}
  <2>1. DOMAIN set = WayIds
    BY SetIndexIn DEF MmusOf
  <2>2. own1 = own(l) /\ any1 = any(l)
    BY <2>1 DEF q
  <2>3. Lookup(l, va, asid) = IF own1 # {} THEN set[First(own1)] ELSE IF any1 # {} THEN set[First(any1)] ELSE NoEntry
    BY DEF Lookup
  <2>4. set = l.sets[q]
    BY DEF q
  <2> HIDE DEF set, own1, any1
  <2>5. own(l) \in SUBSET WayIds /\ any(l) \in SUBSET WayIds
    OBVIOUS
  <2> HIDE DEF own, any
  <2> QED
    BY <2>2, <2>3, <2>4, <2>5, FirstWay
<1>3. ASSUME NEW l, NEW k, l \in {m, n}, k \in {m, n}, NEW w \in own(l)
      PROVE  \E v \in own(k) : k.sets[q][v] = l.sets[q][w]
  BY <1>3 DEF q
<1>4. ASSUME NEW l, NEW k, l \in {m, n}, k \in {m, n}, NEW w \in any(l)
      PROVE  \E v \in any(k) : k.sets[q][v] = l.sets[q][w]
  BY <1>4 DEF q
<1>5. ASSUME NEW l \in {m, n}, NEW w \in own(l), NEW v \in own(l) PROVE w = v
  BY <1>1 DEF Tidy, Alike
<1>6. ASSUME NEW l \in {m, n}, NEW w \in any(l), NEW v \in any(l) PROVE w = v
  BY <1>1 DEF Tidy, Alike
<1> HIDE DEF own, any
<1>7. CASE own(m) # {}
  <2>1. PICK v \in own(n) : n.sets[q][v] = m.sets[q][First(own(m))]
    BY <1>2, <1>3, <1>7
  <2>2. own(n) # {} /\ First(own(n)) = v
    BY <1>2, <1>5, <2>1
  <2> QED
    BY <1>2, <1>7, <2>1, <2>2
<1>8. CASE own(m) = {} /\ any(m) # {}
  <2>1. PICK v \in any(n) : n.sets[q][v] = m.sets[q][First(any(m))]
    BY <1>2, <1>4, <1>8
  <2>2. any(n) # {} /\ First(any(n)) = v /\ own(n) = {}
    BY <1>2, <1>3, <1>6, <1>8, <2>1
  <2> QED
    BY <1>2, <1>8, <2>1, <2>2
<1>9. CASE own(m) = {} /\ any(m) = {}
  <2>1. own(n) = {} /\ any(n) = {}
    BY <1>3, <1>4, <1>9
  <2> QED
    BY <1>2, <1>9, <2>1
<1> QED
  BY <1>7, <1>8, <1>9

\* A position of the saved list belongs to one way of one set.
LEMMA PositionOf ==
  ASSUME NEW s \in SetIds, NEW w \in WayIds
  PROVE  /\ s * Ways + w \in Nat /\ s * Ways + w < Sets * Ways
         /\ \A q \in SetIds, r \in WayIds : s * Ways + w = q * Ways + r => s = q /\ w = r
<1>1. Sets \in Nat \ {0} /\ Ways \in Nat \ {0} /\ s \in Nat /\ w \in Nat /\ s <= Sets - 1 /\ w < Ways
  BY SizesNatural DEF SetIds, WayIds
<1>2. s * Ways <= (Sets - 1) * Ways /\ s * Ways \in Nat
  BY <1>1
<1>3. (Sets - 1) * Ways = Sets * Ways - Ways
  BY <1>1
<1>4. ASSUME NEW q \in SetIds, NEW r \in WayIds, s * Ways + w = q * Ways + r PROVE s = q /\ w = r
  <2>1. q \in Nat /\ r \in Nat /\ r < Ways
    BY SizesNatural DEF SetIds, WayIds
  <2>2. CASE s < q
    <3>1. (s + 1) * Ways <= q * Ways /\ (s + 1) * Ways = s * Ways + Ways
      BY <1>1, <2>1, <2>2
    <3> QED
      BY <1>1, <1>2, <1>4, <2>1, <3>1
  <2>3. CASE q < s
    <3>1. (q + 1) * Ways <= s * Ways /\ (q + 1) * Ways = q * Ways + Ways /\ q * Ways \in Nat
      BY <1>1, <2>1, <2>3
    <3> QED
      BY <1>1, <1>2, <1>4, <2>1, <3>1
  <2> QED
    BY <1>1, <1>2, <1>4, <2>1, <2>2, <2>3
<1> QED
  BY <1>1, <1>2, <1>3, <1>4

\* After k positions the loaded TLB l has the valid entries of m at the positions
\* before k, and the ways of each set are filled from the first on.
PutBack(m, l, k) ==
  /\ Tidy(l)
  /\ \A s \in SetIds : \A e : e.valid =>
       ((\E w \in WayIds : l.sets[s][w] = e) <=> (\E w \in WayIds : s * Ways + w < k /\ m.sets[s][w] = e))
  /\ \A s \in SetIds : \E f \in 0 .. Ways :
       /\ f = 0 \/ s * Ways + f <= k
       /\ \A w \in WayIds : l.sets[s][w].valid <=> w < f

LEMMA PutBackStarts ==
  ASSUME NEW A, NoEntry \in A, NEW m \in MmusOf(A)
  PROVE  PutBack(m, FlushAll(m), 0)
<1> DEFINE l == FlushAll(m)
<1>1. \A s \in SetIds, w \in WayIds : l.sets[s][w] = NoEntry
  <2>1. l \in MmusOf({NoEntry})
    BY FlushAllKeeps
  <2> HIDE DEF l
  <2> QED
    BY <2>1 DEF MmusOf
<1> HIDE DEF l
<1>2. ~NoEntry.valid
  BY DEF NoEntry
<1>3. Tidy(l)
  BY <1>1, <1>2 DEF Tidy
<1>4. ASSUME NEW s \in SetIds, NEW e, e.valid
      PROVE  (\E w \in WayIds : l.sets[s][w] = e) <=> (\E w \in WayIds : s * Ways + w < 0 /\ m.sets[s][w] = e)
  BY <1>1, <1>2, <1>4, PositionOf
<1>5. ASSUME NEW s \in SetIds
      PROVE  \E f \in 0 .. Ways : (f = 0 \/ s * Ways + f <= 0) /\ \A w \in WayIds : l.sets[s][w].valid <=> w < f
  <2>1. \A w \in WayIds : l.sets[s][w].valid <=> w < 0
    BY <1>1, <1>2, SizesNatural DEF WayIds
  <2>2. 0 \in 0 .. Ways
    BY SizesNatural
  <2> QED
    BY <2>1, <2>2
<1> QED
  BY <1>3, <1>4, <1>5 DEF PutBack, l

LEMMA PutBackGoesOn ==
  ASSUME NEW A, NoEntry \in A, NEW m \in MmusOf(A), NEW l \in MmusOf(A), Tidy(m),
         NEW q \in SetIds, NEW r \in WayIds, PutBack(m, l, q * Ways + r)
  PROVE  PutBack(m, LoadEntry(l, m.sets[q][r]), q * Ways + r + 1)
<1> DEFINE e == m.sets[q][r]
           k == q * Ways + r
           n == LoadEntry(l, e)
<1>1. k \in Nat /\ \A s \in SetIds, w \in WayIds :
                     /\ s * Ways \in Nat
                     /\ s * Ways + w < k + 1 <=> s * Ways + w < k \/ (s = q /\ w = r)
  <2>1. k \in Nat
    BY PositionOf
  <2>2. ASSUME NEW s \in SetIds, NEW w \in WayIds
        PROVE  /\ s * Ways \in Nat
               /\ s * Ways + w < k + 1 <=> s * Ways + w < k \/ (s = q /\ w = r)
    <3>1. s * Ways + w \in Nat /\ (s * Ways + w = k => s = q /\ w = r)
      BY PositionOf
    <3>2. s * Ways \in Nat
      BY SizesNatural DEF SetIds
    <3> QED
      BY <2>1, <3>1, <3>2
  <2> QED
    BY <2>1, <2>2
<1>2. e \in A
  BY DEF MmusOf
<1>3. CASE ~e.valid
  <2>1. n = l
    BY <1>3 DEF LoadEntry
  <2> HIDE DEF n
  <2>2. ASSUME NEW s \in SetIds, NEW d, d.valid
        PROVE  (\E w \in WayIds : l.sets[s][w] = d) <=> (\E w \in WayIds : s * Ways + w < k + 1 /\ m.sets[s][w] = d)
    <3>1. (\E w \in WayIds : l.sets[s][w] = d) <=> (\E w \in WayIds : s * Ways + w < k /\ m.sets[s][w] = d)
      BY <2>2 DEF PutBack
    <3>2. \A w \in WayIds : m.sets[s][w] = d => ~(s = q /\ w = r)
      BY <1>3, <2>2
    <3> HIDE DEF k
    <3> QED
      BY <1>1, <3>1, <3>2
  <2>3. ASSUME NEW s \in SetIds
        PROVE  \E f \in 0 .. Ways : (f = 0 \/ s * Ways + f <= k + 1) /\ \A w \in WayIds : l.sets[s][w].valid <=> w < f
    <3>1. PICK f \in 0 .. Ways : (f = 0 \/ s * Ways + f <= k) /\ \A w \in WayIds : l.sets[s][w].valid <=> w < f
      BY DEF PutBack
    <3>2. s * Ways \in Nat /\ f \in Nat /\ k \in Nat
      BY <1>1, SizesNatural
    <3> HIDE DEF k
    <3>3. f = 0 \/ s * Ways + f <= k + 1
      BY <3>1, <3>2
    <3> QED
      BY <3>1, <3>3
  <2>4. Tidy(l)
    BY DEF PutBack
  <2>5. PutBack(m, l, k + 1)
    BY <2>2, <2>3, <2>4 DEF PutBack
  <2> QED
    BY <2>1, <2>5 DEF n
<1>4. CASE e.valid
  <2>1. n = Insert(l, e) /\ SetIndex(e.va) = q
    BY <1>4 DEF LoadEntry, Tidy
  <2>2. Tidy(l)
    BY DEF PutBack
  <2>3. \E at \in WayIds :
          /\ Placed(l, e, at)
          /\ \A s \in SetIds, w \in WayIds :
               Insert(l, e).sets[s][w] = IF s = SetIndex(e.va) /\ w = at THEN e ELSE l.sets[s][w]
    <3> HIDE DEF e
    <3> QED
      BY <1>2, <2>1, InsertSets
  <2>4. PICK at \in WayIds :
          /\ Placed(l, e, at)
          /\ \A s \in SetIds, w \in WayIds : n.sets[s][w] = IF s = q /\ w = at THEN e ELSE l.sets[s][w]
    <3> HIDE DEF e, n
    <3> QED
      BY <2>1, <2>3
  <2>5. ASSUME NEW w \in WayIds, l.sets[q][w].valid PROVE ~Alike(l.sets[q][w], e)
    <3>1. PICK v \in WayIds : q * Ways + v < k /\ m.sets[q][v] = l.sets[q][w]
      BY <2>5 DEF PutBack
    <3>2. v # r
      BY <1>1, <3>1
    <3> QED
      BY <1>4, <2>5, <3>1, <3>2 DEF Tidy
  <2>6. PICK f \in 0 .. Ways : (f = 0 \/ q * Ways + f <= k) /\ \A w \in WayIds : l.sets[q][w].valid <=> w < f
    BY DEF PutBack
  <2>7. f \in WayIds /\ f <= r
    <3>1. q * Ways \in Nat /\ r \in Nat /\ r < Ways
      BY <1>1, SizesNatural DEF WayIds
    <3> QED
      BY <2>6, <3>1, SizesNatural DEF WayIds
  <2>8. at = f
    <3>1. ~l.sets[q][f].valid
      BY <2>6, <2>7, SizesNatural DEF WayIds
    <3>2. ~l.sets[q][at].valid /\ \A w \in WayIds : w < at => l.sets[q][w].valid
      BY <2>1, <2>4, <2>5, <2>7, <3>1 DEF Placed
    <3>3. at \in Nat /\ f \in Nat
      BY SizesNatural DEF WayIds
    <3> QED
      BY <2>6, <2>7, <3>1, <3>2, <3>3
  <2> HIDE DEF n
  <2>9. ASSUME NEW s \in SetIds, NEW d, d.valid
        PROVE  (\E w \in WayIds : n.sets[s][w] = d) <=> (\E w \in WayIds : s * Ways + w < k + 1 /\ m.sets[s][w] = d)
    <3>1. (\E w \in WayIds : l.sets[s][w] = d) <=> (\E w \in WayIds : s * Ways + w < k /\ m.sets[s][w] = d)
      BY <2>9 DEF PutBack
    <3>2. (\E w \in WayIds : s * Ways + w < k + 1 /\ m.sets[s][w] = d)
            <=> (\E w \in WayIds : s * Ways + w < k /\ m.sets[s][w] = d) \/ (s = q /\ d = e)
      BY <1>1
    <3>3. (\E w \in WayIds : n.sets[s][w] = d) <=> (\E w \in WayIds : l.sets[s][w] = d) \/ (s = q /\ d = e)
      <4>1. ~l.sets[q][at].valid
        BY <2>6, <2>8, SizesNatural DEF WayIds
      <4> HIDE DEF e
      <4> QED
        BY <2>4, <2>9, <4>1
    <3> HIDE DEF k, e
    <3> QED
      BY <3>1, <3>2, <3>3
  <2>10. ASSUME NEW s \in SetIds
         PROVE  \E g \in 0 .. Ways : (g = 0 \/ s * Ways + g <= k + 1) /\ \A w \in WayIds : n.sets[s][w].valid <=> w < g
    <3>1. CASE s = q
      <4>1. f + 1 \in 0 .. Ways /\ s * Ways + (f + 1) <= k + 1
        <5>1. q * Ways \in Nat /\ r \in Nat /\ r < Ways
          BY <1>1, SizesNatural DEF WayIds
        <5> QED
          BY <2>7, <3>1, <5>1, SizesNatural DEF WayIds
      <4>2. \A w \in WayIds : n.sets[s][w].valid <=> w < f + 1
        <5> TAKE w \in WayIds
        <5>1. w \in Nat /\ f \in Nat
          BY <2>7, SizesNatural DEF WayIds
        <5>2. CASE w = f
          BY <1>4, <2>4, <2>8, <3>1, <5>1, <5>2
        <5>3. CASE w # f
          BY <2>4, <2>6, <2>8, <3>1, <5>1, <5>3
        <5> QED
          BY <5>2, <5>3
      <4> QED
        BY <4>1, <4>2
    <3>2. CASE s # q
      <4>1. PICK g \in 0 .. Ways : (g = 0 \/ s * Ways + g <= k) /\ \A w \in WayIds : l.sets[s][w].valid <=> w < g
        BY DEF PutBack
      <4>2. s * Ways \in Nat /\ g \in Nat /\ k \in Nat
        BY <1>1, SizesNatural
      <4>3. \A w \in WayIds : n.sets[s][w].valid <=> w < g
        BY <2>4, <3>2, <4>1
      <4> HIDE DEF k
      <4>4. g = 0 \/ s * Ways + g <= k + 1
        BY <4>1, <4>2
      <4> QED
        BY <4>3, <4>4
    <3> QED
      BY <3>1, <3>2
  <2>11. Tidy(n)
    <3> HIDE DEF e
    <3> QED
      BY <1>2, <1>4, <2>1, <2>2, InsertTidy
  <2> HIDE DEF e, k
  <2>12. PutBack(m, n, k + 1)
    BY <2>9, <2>10, <2>11 DEF PutBack
  <2> QED
    BY <2>12 DEF n, k, e
<1> QED
  BY <1>3, <1>4

LEMMA SavedAgain ==
  ASSUME NEW A, NoEntry \in A, \A e \in A : e.valid => SetIndex(e.va) \in SetIds, NEW m \in MmusOf(A), Tidy(m)
  PROVE  \A k \in 0 .. Sets * Ways : PutBack(m, Loading(m)[k], k)
<1> DEFINE last == Sets * Ways
           S == {k \in Nat : k <= last => PutBack(m, Loading(m)[k], k)}
<1>1. /\ Loading(m)[0] = FlushAll(m)
      /\ \A k \in 1 .. last : Loading(m)[k] = LoadEntry(Loading(m)[k - 1], SavedEntries(m)[k])
      /\ last \in Nat
  BY LoadingIs, Zenon
<1>2. 0 \in S
  BY <1>1, PutBackStarts
<1>3. ASSUME NEW k \in Nat, k \in S PROVE k + 1 \in S
  <2> SUFFICES ASSUME k + 1 <= last PROVE PutBack(m, Loading(m)[k + 1], k + 1)
    OBVIOUS
  <2> DEFINE l == Loading(m)[k]
             q == k \div Ways
             r == k % Ways
  <2>1. k + 1 \in 1 .. last /\ (k + 1) - 1 = k /\ k \in 0 .. last
    BY <1>1
  <2>2. q \in SetIds /\ r \in WayIds /\ k = q * Ways + r
    BY <2>1, PositionIn
  <2>3. SavedEntries(m)[k + 1] = m.sets[q][r]
    BY <2>1 DEF SavedEntries
  <2>4. Loading(m)[k + 1] = LoadEntry(l, m.sets[q][r])
    BY <1>1, <2>1, <2>3
  <2>5. l \in MmusOf(A) /\ PutBack(m, l, k)
    BY <1>3, <2>1, LoadingKeeps
  <2> HIDE DEF l, q, r
  <2> QED
    BY <2>2, <2>4, <2>5, PutBackGoesOn
<1>4. \A k \in Nat : k \in S
  <2> HIDE DEF S
  <2> QED
    BY <1>2, <1>3, Inductive
<1> QED
  BY <1>1, <1>4

\* The last translations are not in the TLB.
LEMMA LoadedSets ==
  ASSUME NEW A, NEW m \in MmusOf(A)
  PROVE  [m EXCEPT !.data = NoEntry].sets = m.sets
BY DEF MmusOf

LEMMA SnapshotLookup ==
  ASSUME NEW A, NoEntry \in A, \A e \in A : e.valid => SetIndex(e.va) \in SetIds, NEW m \in MmusOf(A), Tidy(m)
  PROVE  /\ Tidy(SaveAndLoad(m))
         /\ \A va \in Vas : \A asid : Lookup(SaveAndLoad(m), va, asid) = Lookup(m, va, asid)
<1> DEFINE last == Sets * Ways
           l == Loading(m)[last]
           n == SaveAndLoad(m)
<1>1. last \in 0 .. last
  BY SizesNatural
<1>2. l \in MmusOf(A) /\ PutBack(m, l, last)
  BY <1>1, LoadingKeeps, SavedAgain
<1>3. n.sets = l.sets
  <2>1. n = [l EXCEPT !.data = NoEntry]
    BY DEF SaveAndLoad
  <2> HIDE DEF l, n
  <2> QED
    BY <1>2, <2>1, LoadedSets
<1>4. n \in MmusOf(A)
  BY LoadKeeps
<1> HIDE DEF l, n
<1>5. Tidy(n)
  BY <1>2, <1>3 DEF PutBack, Tidy
<1>6. ASSUME NEW va \in Vas, NEW asid PROVE Lookup(n, va, asid) = Lookup(m, va, asid)
  <2> DEFINE q == SetIndex(va)
  <2>1. q \in SetIds
    BY SetIndexIn
  <2>2. ASSUME NEW e, e.valid
        PROVE  (\E w \in WayIds : n.sets[q][w] = e) <=> (\E w \in WayIds : m.sets[q][w] = e)
    <3>1. (\E w \in WayIds : l.sets[q][w] = e) <=> (\E w \in WayIds : q * Ways + w < last /\ m.sets[q][w] = e)
      BY <1>2, <2>1, <2>2 DEF PutBack
    <3>2. \A w \in WayIds : q * Ways + w < last
      BY <2>1, PositionOf
    <3> HIDE DEF q, last
    <3> QED
      BY <1>3, <3>1, <3>2
  <2> QED
    BY <1>4, <1>5, <2>2, SameLookup
<1> QED
  BY <1>5, <1>6 DEF n

TidyInv == \A c \in Cores : Tidy(mmu[c])

LEMMA TidyKeeps ==
  ASSUME TlbInv, TidyInv
  PROVE  SnapshotKeepsTlb
<1> SUFFICES ASSUME NEW c \in Cores, NEW va \in Vas, NEW asid \in Asids
             PROVE  Lookup(SaveAndLoad(mmu[c]), va, asid) = Lookup(mmu[c], va, asid)
  BY DEF SnapshotKeepsTlb
<1> QED
  BY Holding, SnapshotLookup DEF TidyInv

LEMMA FewerTidyDrop ==
  ASSUME NEW A, NEW m \in MmusOf(A), Tidy(m)
  PROVE  /\ Tidy(FlushAll(m))
         /\ \A asid : Tidy(FlushAsid(m, asid))
         /\ \A va, asid : Tidy(FlushVa(m, va, asid))
         /\ \A va : Tidy(FlushVaAllAsids(m, va))
<1>1. m.sets \in [SetIds -> [WayIds -> A]]
  BY DEF MmusOf
<1>2. Tidy(FlushAll(m))
  <2>1. \A s \in SetIds, w \in WayIds : FlushAll(m).sets[s][w] = NoEntry
    BY <1>1 DEF FlushAll, MmusOf
  <2> QED
    BY <2>1, FewerTidy
<1>3. ASSUME NEW asid PROVE Tidy(FlushAsid(m, asid))
  <2>1. \A s \in SetIds, w \in WayIds : FlushAsid(m, asid).sets[s][w] \in {m.sets[s][w], NoEntry}
    BY <1>1 DEF FlushAsid, Drop, MmusOf
  <2> QED
    BY <2>1, FewerTidy
<1>4. ASSUME NEW va, NEW asid PROVE Tidy(FlushVa(m, va, asid))
  <2>1. \A s \in SetIds, w \in WayIds : FlushVa(m, va, asid).sets[s][w] \in {m.sets[s][w], NoEntry}
    BY <1>1 DEF FlushVa, Drop, MmusOf
  <2> QED
    BY <2>1, FewerTidy
<1>5. ASSUME NEW va PROVE Tidy(FlushVaAllAsids(m, va))
  <2>1. \A s \in SetIds, w \in WayIds : FlushVaAllAsids(m, va).sets[s][w] \in {m.sets[s][w], NoEntry}
    BY <1>1 DEF FlushVaAllAsids, Drop, MmusOf
  <2> QED
    BY <2>1, FewerTidy
<1> QED
  BY <1>2, <1>3, <1>4, <1>5

LEMMA TidyOneCore ==
  ASSUME TlbInv, TidyInv, NEW c \in Cores, NEW m, mmu' = [mmu EXCEPT ![c] = m], Tidy(m)
  PROVE  TidyInv'
<1> SUFFICES ASSUME NEW k \in Cores PROVE Tidy(mmu'[k])
  BY DEF TidyInv, Tidy
<1>1. mmu'[k] = m \/ mmu'[k] = mmu[k]
  BY DEF TlbInv
<1> QED
  BY <1>1 DEF TidyInv

LEMMA TidyAllCores ==
  ASSUME NEW f, mmu' = [k \in Cores |-> f[k]], \A k \in Cores : Tidy(f[k])
  PROVE  TidyInv'
<1> SUFFICES ASSUME NEW k \in Cores PROVE Tidy(mmu'[k])
  BY DEF TidyInv, Tidy
<1>1. mmu'[k] = f[k]
  OBVIOUS
<1> QED
  BY <1>1

LEMMA TranslateTidy == ASSUME TlbInv, TidyInv, NEW c \in Cores, Translate(c) PROVE TidyInv'
<1>1. PICK va \in Vas, access \in {"read", "fetch"}, permissions \in BOOLEAN :
        mmu' = [mmu EXCEPT ![c] = AfterTranslate(@, va, access, Kernel, [Checks EXCEPT !.permissions = permissions])]
  BY DEF Translate
<1> DEFINE asking == [Checks EXCEPT !.permissions = permissions]
           m == AfterTranslate(mmu[c], va, access, Kernel, asking)
<1>2. asking.access_flag = TRUE
  BY DEF Checks
<1>3. mmu' = [mmu EXCEPT ![c] = m]
  BY <1>1
<1> HIDE DEF m, asking
<1>4. Tidy(m)
  BY <1>2, TranslateKeeps DEF m, TidyInv
<1> QED
  BY <1>3, <1>4, TidyOneCore

LEMMA TidyNext == TlbInv /\ TidyInv /\ [MmuNext]_mmu_vars => TidyInv'
<1> SUFFICES ASSUME TlbInv, TidyInv, [MmuNext]_mmu_vars PROVE TidyInv'
  OBVIOUS
<1>0. \A k \in Cores : Tidy(mmu[k]) /\ mmu[k] \in MmusOf(Held(Known, mmu[k].mair))
  BY Holding DEF TidyInv
<1>1. CASE UNCHANGED mmu_vars
  BY <1>1 DEF mmu_vars, TidyInv
<1>2. CASE StoreDescriptor
  BY <1>2 DEF StoreDescriptor, TidyInv
<1>3. CASE Snapshot
  <2> DEFINE f == [k \in Cores |-> SaveAndLoad(mmu[k])]
  <2>1. mmu' = [k \in Cores |-> f[k]]
    BY <1>3 DEF Snapshot
  <2>2. ASSUME NEW k \in Cores PROVE Tidy(f[k])
    BY <1>0, Holding, SnapshotLookup
  <2> HIDE DEF f
  <2> QED
    BY <2>1, <2>2, TidyAllCores
<1>4. ASSUME NEW c \in Cores, CoreStep(c) PROVE TidyInv'
  <2>1. CASE Translate(c)
    BY <2>1, TranslateTidy
  <2>2. CASE SwitchSpace(c)
    <3>1. PICK asid \in Asids : mmu' = [mmu EXCEPT ![c] = [@ EXCEPT !.asid = asid]]
      BY <2>2 DEF SwitchSpace
    <3> DEFINE m == [mmu[c] EXCEPT !.asid = asid]
    <3>2. m.sets = mmu[c].sets
      BY <1>0 DEF MmusOf
    <3>3. mmu' = [mmu EXCEPT ![c] = m]
      BY <3>1
    <3> HIDE DEF m
    <3>4. Tidy(m)
      BY <1>0, <3>2 DEF Tidy
    <3> QED
      BY <3>3, <3>4, TidyOneCore
  <2>3. CASE WriteMair(c)
    <3> DEFINE mair == mmu[c].mair
               n == [mmu[c] EXCEPT !.mair = <<mair[2], mair[1]>>]
               m == FlushAll(n)
    <3>1. mmu' = [mmu EXCEPT ![c] = m]
      BY <2>3 DEF WriteMair
    <3>2. n \in MmusOf(Held(Known, mmu[c].mair)) /\ n.sets = mmu[c].sets
      BY <1>0 DEF MmusOf
    <3> HIDE DEF n
    <3>3. Tidy(n)
      BY <1>0, <3>2 DEF Tidy
    <3>4. Tidy(m)
      BY <3>2, <3>3, FewerTidyDrop
    <3> HIDE DEF m
    <3> QED
      BY <3>1, <3>4, TidyOneCore
  <2>4. CASE TlbiVmalle1(c)
    <3> DEFINE f == [k \in Cores |-> FlushAll(mmu[k])]
    <3>1. mmu' = [k \in Cores |-> f[k]]
      BY <2>4 DEF TlbiVmalle1, TlbiOn
    <3>2. \A k \in Cores : Tidy(f[k])
      BY <1>0, FewerTidyDrop
    <3> HIDE DEF f
    <3> QED
      BY <3>1, <3>2, TidyAllCores
  <2>5. CASE TlbiVae1(c)
    <3>1. PICK va \in Vas, asid \in Asids : mmu' = [k \in Cores |-> FlushVa(mmu[k], va, asid)]
      BY <2>5 DEF TlbiVae1, TlbiOn
    <3> DEFINE f == [k \in Cores |-> FlushVa(mmu[k], va, asid)]
    <3>2. \A k \in Cores : Tidy(f[k])
      BY <1>0, FewerTidyDrop
    <3>3. mmu' = [k \in Cores |-> f[k]]
      BY <3>1
    <3> HIDE DEF f
    <3> QED
      BY <3>2, <3>3, TidyAllCores
  <2>6. CASE TlbiVaae1(c)
    <3>1. PICK va \in Vas : mmu' = [k \in Cores |-> FlushVaAllAsids(mmu[k], va)]
      BY <2>6 DEF TlbiVaae1, TlbiOn
    <3> DEFINE f == [k \in Cores |-> FlushVaAllAsids(mmu[k], va)]
    <3>2. \A k \in Cores : Tidy(f[k])
      BY <1>0, FewerTidyDrop
    <3>3. mmu' = [k \in Cores |-> f[k]]
      BY <3>1
    <3> HIDE DEF f
    <3> QED
      BY <3>2, <3>3, TidyAllCores
  <2>7. CASE TlbiAside1(c)
    <3>1. PICK asid \in Asids : mmu' = [k \in Cores |-> FlushAsid(mmu[k], asid)]
      BY <2>7 DEF TlbiAside1, TlbiOn
    <3> DEFINE f == [k \in Cores |-> FlushAsid(mmu[k], asid)]
    <3>2. \A k \in Cores : Tidy(f[k])
      BY <1>0, FewerTidyDrop
    <3>3. mmu' = [k \in Cores |-> f[k]]
      BY <3>1
    <3> HIDE DEF f
    <3> QED
      BY <3>2, <3>3, TidyAllCores
  <2> QED
    BY <1>4, <2>1, <2>2, <2>3, <2>4, <2>5, <2>6, <2>7 DEF CoreStep, Invalidate
<1> QED
  BY <1>1, <1>2, <1>3, <1>4 DEF MmuNext

LEMMA TidyInit == MmuInit => TidyInv
<1> SUFFICES ASSUME MmuInit, NEW c \in Cores PROVE Tidy(mmu[c])
  BY DEF TidyInv
<1>1. PICK asid \in Asids : mmu[c] = NewMmu(asid)
  BY DEF MmuInit
<1>2. \A s \in SetIds, w \in WayIds : ~NewMmu(asid).sets[s][w].valid
  BY DEF NewMmu, SetIds, WayIds, NoEntry
<1> QED
  BY <1>1, <1>2 DEF Tidy

(* A core that goes on from a snapshot finds in its TLB what it would have *)
(* found without it, whatever the size of the TLB and whatever the core    *)
(* has cached, evicted and invalidated before (save_state and load_state   *)
(* of src/src/cpu.cpp).                                                    *)
THEOREM SnapshotKeepsTlbHolds == MmuSpec => []SnapshotKeepsTlb
<1>1. MmuInit => TlbInv /\ TidyInv
  BY TlbInvInit, TidyInit
<1>2. (TlbInv /\ TidyInv) /\ [MmuNext]_mmu_vars => (TlbInv /\ TidyInv)'
  BY TlbInvNext, TidyNext
<1>3. TlbInv /\ TidyInv => SnapshotKeepsTlb
  BY TidyKeeps
<1> QED
  BY <1>1, <1>2, <1>3, PTL DEF MmuSpec

(* A load or store as user succeeds exactly when user space's own would,   *)
(* and under PAN the kernel reaches no page of user space: for every table *)
(* and at every leaf (access_permitted of src/include/aarchvm/cpu.hpp).    *)
THEOREM UnprivilegedIsUserHolds == MmuSpec => []UnprivilegedIsUser
<1>1. UnprivilegedIsUser
  <2> SUFFICES ASSUME NEW va \in UserVas, NEW pan \in BOOLEAN, NEW wxn \in BOOLEAN
               PROVE  LET at(el0, access) == WalkIn(tables, va, access, [el0 |-> el0, pan |-> pan, wxn |-> wxn]).ok
                      IN  /\ at(FALSE, "unpriv_read") = at(TRUE, "read")
                          /\ at(FALSE, "unpriv_write") = at(TRUE, "write")
                          /\ pan => ~(at(FALSE, "read") /\ at(TRUE, "read"))
    BY DEF UnprivilegedIsUser
  <2> DEFINE regime == RegimeOf(va, CHOOSE a \in Asids : TRUE)
             w == Descend(regime, tables, va)
             r == LeafResult(regime, w.leaf, w.level, w.inherited, va)
             who(el0) == [el0 |-> el0, pan |-> pan, wxn |-> wxn]
             at(el0, access) == WalkIn(tables, va, access, who(el0)).ok
             reached == /\ regime.size_ok /\ regime.granule_ok /\ ~regime.epd
                        /\ ~(va.page >= regime.pages) /\ regime.base \in IpsPages /\ w.fault = "none"
                        /\ (w.leaf.pa \div Span(w.level)) * Span(w.level) \in IpsPages /\ w.leaf.af
  <2>1. ASSUME NEW el0, NEW access
        PROVE  at(el0, access) = (reached /\ Permitted(r, access, who(el0), TRUE))
    <3>1. WalkIn(tables, va, access, who(el0)) = Walk(regime, tables, va, access, who(el0), Checks)
      BY DEF WalkIn
    <3>2. \A kind, level : Fault(kind, level).ok = FALSE
      BY DEF Fault
    <3>3. r.ok = TRUE
      BY DEF LeafResult
    <3>4. Checks.permissions = TRUE /\ Checks.pan = TRUE /\ Checks.access_flag = TRUE
      BY DEF Checks
    <3> HIDE DEF w, regime, r, who
    <3>5. Walk(regime, tables, va, access, who(el0), Checks).ok
            = (reached /\ Permitted(r, access, who(el0), TRUE))
      BY <3>2, <3>3, <3>4 DEF Walk, Leaf, w, r
    <3> QED
      BY <3>1, <3>5
  <2>2. /\ Permitted(r, "unpriv_read", who(FALSE), TRUE) <=> Permitted(r, "read", who(TRUE), TRUE)
        /\ Permitted(r, "unpriv_write", who(FALSE), TRUE) <=> Permitted(r, "write", who(TRUE), TRUE)
        /\ pan => ~(Permitted(r, "read", who(FALSE), TRUE) /\ Permitted(r, "read", who(TRUE), TRUE))
    <3> HIDE DEF r
    <3> QED
      BY DEF Permitted, IsWrite, IsUnprivileged
  <2> HIDE DEF reached, r, at
  <2>3. /\ at(FALSE, "unpriv_read") = at(TRUE, "read")
        /\ at(FALSE, "unpriv_write") = at(TRUE, "write")
        /\ pan => ~(at(FALSE, "read") /\ at(TRUE, "read"))
    BY <2>1, <2>2
  <2> QED
    BY <2>3 DEF at
<1> QED
  BY <1>1, PTL
=============================================================================
