--------------------------------- MODULE Mmu ---------------------------------
(***************************************************************************)
(* Address translation of src/src/cpu.cpp with its translation caches: a   *)
(* set-associative TLB per core and, before it, the last translation used  *)
(* for data and the last one used for fetches.  A guest kernel rewrites    *)
(* its page tables, switches address spaces and invalidates; an            *)
(* invalidation is broadcast to the other cores (src/src/soc.cpp).         *)
(***************************************************************************)
EXTENDS PageTables, Sequences

CONSTANTS
  Cores,          \* cpus_
  Asids,          \* the address spaces the kernel runs, by ASID
  Sets, Ways,     \* kTlbSets, kTlbWays
  UserVas,        \* the virtual pages user space uses
  KernelVas,      \* the virtual pages of the kernel, translated by TTBR1
  Roots,          \* the table of each address space, and of the kernel, at 0
  HalfPages,      \* the virtual pages of each half
  Stores(_),      \* the changes the kernel makes to given tables
  MaxStores       \* bound on them

VARIABLES
  tables,         \* the page tables in RAM
  mmu,            \* the translation state of each core
  stale,          \* old translations the kernel has replaced and not yet invalidated
  stores          \* changes made so far

mmu_vars == <<tables, mmu, stale, stores>>

ASSUME MmuAssumption ==
  /\ {Sets, Ways} \subseteq Nat \ {0}
  /\ \A va \in UserVas \cup KernelVas : va.page \in Nat

Kernel == [el0 |-> FALSE, pan |-> FALSE, wxn |-> FALSE]
NoEntry == [valid |-> FALSE]
Vas == UserVas \cup KernelVas

-----------------------------------------------------------------------------
(* The TLB                                                                 *)

MatchesAsid(e, asid) == e.global \/ e.asid = asid
SetIndex(va) == va.page % Sets

\* Mutant: an entry made from a block is only found under its own page.
Covers_Page(e, va) == e.va = va

\* A block's entries are kept page by page; each stands for the whole block.
Covers(e, va) ==
  e.va.upper = va.upper /\ e.va.page \div Span(e.level) = va.page \div Span(e.level)

First(S) == CHOOSE w \in S : \A v \in S : w <= v

Lookup(m, va, asid) ==
  LET set  == m.sets[SetIndex(va)]
      here == {w \in DOMAIN set : set[w].valid /\ set[w].va = va}
      own  == {w \in here : ~set[w].global /\ set[w].asid = asid}
      any  == {w \in here : set[w].global}
  IN  IF own # {} THEN set[First(own)] ELSE IF any # {} THEN set[First(any)] ELSE NoEntry

\* Two entries of which a set holds one only.
Alike(d, e) == d.va = e.va /\ (d.global <=> e.global) /\ (d.global \/ d.asid = e.asid)

\* tlb_insert_entry: the entry replaces its like, fills a free way, or evicts in turn.
Insert(m, e) ==
  LET s    == SetIndex(e.va)
      set  == m.sets[s]
      like == {w \in DOMAIN set : set[w].valid /\ Alike(set[w], e)}
      free == {w \in DOMAIN set : ~set[w].valid}
      at   == IF like # {} THEN First(like) ELSE IF free # {} THEN First(free) ELSE m.next[s] % Ways
  IN  [m EXCEPT !.data = e, !.fetch = NoEntry, !.sets[s][at] = e,
                !.next[s] = IF like = {} /\ free = {} THEN (@ + 1) % Ways ELSE @]

\* The entries that are Gone are dropped wherever they are kept.
Drop(m, Gone(_)) ==
  LET kept(e) == IF e.valid /\ Gone(e) THEN NoEntry ELSE e
  IN  [m EXCEPT !.data = kept(@), !.fetch = kept(@),
                !.sets = [s \in DOMAIN @ |-> [w \in DOMAIN @[s] |-> kept(@[s][w])]]]

FlushAll(m) ==
  [m EXCEPT !.data = NoEntry, !.fetch = NoEntry, !.next = [s \in DOMAIN @ |-> 0],
            !.sets = [s \in DOMAIN @ |-> [w \in DOMAIN @[s] |-> NoEntry]]]

\* Mutant: global entries are saved as entries of the address space they were made in.
SavedEntries_NotGlobal(m) ==
  [k \in 1 .. Sets * Ways |->
     LET e == m.sets[(k - 1) \div Ways][(k - 1) % Ways]
     IN  IF e.valid THEN [e EXCEPT !.global = FALSE] ELSE e]

\* The ways of all sets, in the order in which save_state visits them.
SavedEntries(m) == [k \in 1 .. Sets * Ways |-> m.sets[(k - 1) \div Ways][(k - 1) % Ways]]

\* load_state inserts the valid ones one by one: what each of them leaves.
LoadEntry(m, e) == IF e.valid THEN Insert(m, e) ELSE m
Loading(m) ==
  LET saved == SavedEntries(m)
      loaded[k \in 0 .. Sets * Ways] ==
        IF k = 0 THEN FlushAll(m) ELSE LoadEntry(loaded[k - 1], saved[k])
  IN  loaded

\* The last translations are not saved.
SaveAndLoad(m) == [Loading(m)[Sets * Ways] EXCEPT !.data = NoEntry]

FlushAsid(m, asid) == LET gone(e) == ~e.global /\ e.asid = asid IN Drop(m, gone)
FlushVa(m, va, asid) == LET gone(e) == Covers(e, va) /\ MatchesAsid(e, asid) IN Drop(m, gone)
FlushVaAllAsids(m, va) == LET gone(e) == Covers(e, va) IN Drop(m, gone)

-----------------------------------------------------------------------------
(* Translation                                                             *)

RegimeOf(va, asid) == Regime(Roots[IF va.upper THEN 0 ELSE asid], HalfPages)

\* tlb_insert: the entry of a walk's result, with the memory type MAIR gives its attributes.
EntryOf(va, asid, r, memory) ==
  [valid |-> TRUE, va |-> va, asid |-> asid, pa |-> r.pa, level |-> r.level, attr |-> r.attr,
   global |-> r.global, writable |-> r.writable, user |-> r.user, pxn |-> r.pxn, uxn |-> r.uxn,
   memory |-> memory]

\* The core's state after a translation: translate_address and the fast path
\* for data.  A fault, of the walk or of a cached entry's permissions, adds nothing.
AfterTranslate(m, va, access, who, checks) ==
  LET hot == IF access = "fetch" THEN m.fetch ELSE m.data
      hit == Lookup(m, va, m.asid)
      r   == Walk(RegimeOf(va, m.asid), tables, va, access, who, checks)
  IN  IF hot.valid /\ hot.va = va /\ MatchesAsid(hot, m.asid) THEN m
      ELSE IF hit.valid THEN IF access = "fetch" THEN [m EXCEPT !.fetch = hit] ELSE [m EXCEPT !.data = hit]
      ELSE IF r.ok THEN Insert(m, EntryOf(va, m.asid, r, m.mair[r.attr]))
      ELSE m

NewMmu(asid) ==
  [asid |-> asid, mair |-> <<"normal", "device">>, data |-> NoEntry, fetch |-> NoEntry,
   next |-> [s \in 0 .. Sets - 1 |-> 0],
   sets |-> [s \in 0 .. Sets - 1 |-> [w \in 0 .. Ways - 1 |-> NoEntry]]]

-----------------------------------------------------------------------------
(* The guest                                                               *)

\* A load, store, fetch or cache maintenance instruction of core c.
Translate(c) ==
  /\ \E va \in Vas, access \in {"read", "fetch"}, permissions \in BOOLEAN :
       /\ access = "fetch" => permissions
       /\ mmu' = [mmu EXCEPT ![c] = AfterTranslate(@, va, access, Kernel,
                                                   [Checks EXCEPT !.permissions = permissions])]
  /\ UNCHANGED <<tables, stale, stores>>

\* MSR TTBR0_EL1: the entries of the old address space stay, under its ASID.
SwitchSpace(c) ==
  /\ \E asid \in Asids : mmu' = [mmu EXCEPT ![c].asid = asid]
  /\ UNCHANGED <<tables, stale, stores>>

\* MSR MAIR_EL1, TCR_EL1 or SCTLR_EL1.
WriteMair(c) ==
  /\ LET mair == mmu[c].mair
     IN  mmu' = [mmu EXCEPT ![c] = FlushAll([mmu[c] EXCEPT !.mair = <<mair[2], mair[1]>>])]
  /\ UNCHANGED <<tables, stale, stores>>

\* What a walk finds for a virtual page, whoever asks.
Mapping(t, va, asid) ==
  Walk(RegimeOf(va, asid), t, va, "read", Kernel, [Checks EXCEPT !.permissions = FALSE])

\* The entry that a core caches for it, whatever its MAIR.
Mapped(t, va, asid) == EntryOf(va, asid, Mapping(t, va, asid), "any")

\* The kernel stores a descriptor.  Translations that were there before and are
\* not there any more may still be cached until they are invalidated.
StoreDescriptor ==
  \E t \in Stores(tables) :
    /\ stores < MaxStores
    /\ tables' = t
    /\ stores' = stores + 1
    /\ stale' = stale \cup {Mapped(tables, x[1], x[2]) :
                            x \in {y \in Vas \X Asids :
                                    /\ Mapping(tables, y[1], y[2]).ok
                                    /\ Mapping(t, y[1], y[2]) # Mapping(tables, y[1], y[2])}}
    /\ UNCHANGED mmu

\* The old translations an invalidation by address is there to end.
Reaches(va, d) == d.va.upper = va.upper /\ d.va.page \div Span(d.level) = va.page \div Span(d.level)

\* A TLBI of core c reaches every core before the instruction ends.
TlbiOn(c, Flush(_), Gone(_)) ==
  /\ mmu' = [k \in Cores |-> Flush(mmu[k])]
  /\ stale' = {d \in stale : ~Gone(d)}
  /\ UNCHANGED <<tables, stores>>

TlbiVmalle1(c) == LET gone(d) == TRUE IN TlbiOn(c, FlushAll, gone)

TlbiVae1(c) ==
  \E va \in Vas, asid \in Asids :
    LET flush(m) == FlushVa(m, va, asid)
        gone(d)  == Reaches(va, d) /\ MatchesAsid(d, asid)
    IN  TlbiOn(c, flush, gone)

TlbiVaae1(c) ==
  \E va \in Vas :
    LET flush(m) == FlushVaAllAsids(m, va)
        gone(d)  == Reaches(va, d)
    IN  TlbiOn(c, flush, gone)

TlbiAside1(c) ==
  \E asid \in Asids :
    LET flush(m) == FlushAsid(m, asid)
        gone(d)  == ~d.global /\ d.asid = asid
    IN  TlbiOn(c, flush, gone)

\* The machine is saved, and another one goes on from the snapshot.
Snapshot ==
  /\ mmu' = [c \in Cores |-> SaveAndLoad(mmu[c])]
  /\ UNCHANGED <<tables, stale, stores>>

Invalidate(c) == TlbiVmalle1(c) \/ TlbiVae1(c) \/ TlbiVaae1(c) \/ TlbiAside1(c)

CoreStep(c) == Translate(c) \/ SwitchSpace(c) \/ WriteMair(c) \/ Invalidate(c)

MmuInit ==
  /\ mmu \in [Cores -> {NewMmu(asid) : asid \in Asids}]
  /\ stale = {} /\ stores = 0

MmuNext == StoreDescriptor \/ Snapshot \/ \E c \in Cores : CoreStep(c)

\* Whatever tables the kernel starts with.
MmuSpec == MmuInit /\ [][MmuNext]_mmu_vars

-----------------------------------------------------------------------------
(* Properties                                                              *)

CachedIn(m) ==
  {e \in {m.data, m.fetch} \cup UNION {{m.sets[s][w] : w \in 0 .. Ways - 1} : s \in 0 .. Sets - 1} : e.valid}
Cached(c) == CachedIn(mmu[c])

(* No core keeps a translation that the kernel has replaced and            *)
(* invalidated, in the TLB or in the last translations before it, and      *)
(* whoever ran the invalidation: what is cached is what a walk would find  *)
(* now, or one of the old translations that still wait for their           *)
(* invalidation, with the memory type of the core's MAIR.  One TLBI by     *)
(* address removes every page cached from a block, one by ASID leaves      *)
(* global pages (tlb_invalidate_page, tlb_flush_asid, broadcast_tlbi_*,    *)
(* the MSR of MAIR_EL1).                                                   *)
TlbCoherent ==
  \A c \in Cores : \A e \in Cached(c) :
    LET translation == EntryOf(e.va, e.asid, e, "any")
    IN  /\ e.memory = mmu[c].mair[e.attr]
        /\ \/ /\ Mapping(tables, e.va, e.asid).ok
              /\ translation = Mapped(tables, e.va, e.asid)
           \/ translation \in stale

(* A core that goes on from a snapshot finds in its TLB what it would have *)
(* found without it, for every page and address space, though the entries  *)
(* are put back one by one into sets whose replacement pointers start over *)
(* (save_state, load_state, tlb_insert_entry).                             *)
SnapshotKeepsTlb ==
  \A c \in Cores, va \in Vas, asid \in Asids :
    Lookup(SaveAndLoad(mmu[c]), va, asid) = Lookup(mmu[c], va, asid)

-----------------------------------------------------------------------------
(* Properties of the walk, for whatever tables the kernel has              *)

Accesses == {"read", "write", "fetch", "unpriv_read", "unpriv_write"}
Askers == [el0 : BOOLEAN, pan : BOOLEAN, wxn : BOOLEAN]

WalkIn(t, va, access, who) == Walk(RegimeOf(va, CHOOSE a \in Asids : TRUE), t, va, access, who, Checks)
WalkResult(r) == IF r.ok THEN [r EXCEPT !.level = 0] ELSE [ok |-> FALSE, kind |-> r.kind]

IsBlock(d) == d.valid /\ ~d.bit1

\* The same mapping with the block at tables[p][i], at this level, as a table of pages.
SplitBlock(t, p, i, level, fresh) ==
  LET d == t[p][i]
      base == (d.pa \div Span(level)) * Span(level)
  IN  [t EXCEPT ![p][i] = [InvalidDescriptor EXCEPT !.valid = TRUE, !.bit1 = TRUE, !.pa = fresh],
                ![fresh] = [j \in 0 .. Fanout - 1 |->
                              [d EXCEPT !.bit1 = (level = 2), !.pa = base + j * Span(level + 1)]]]

CONSTANTS
  BlockPlaces,    \* tables and their levels in which blocks are tried
  FreshTable      \* a page no table is in

(* A block means what its pages would: a kernel that splits a block into a *)
(* table of pages changes no translation and no permission                 *)
(* (walk_page_tables, the block and the page leaf).                        *)
BlockIsItsPages ==
  \A place \in BlockPlaces, i \in 0 .. Fanout - 1 :
    LET p == place[1]
        level == place[2]
    IN  IsBlock(tables[p][i]) /\ level > 0 =>
      \A va \in UserVas, access \in Accesses, who \in Askers :
        WalkResult(WalkIn(SplitBlock(tables, p, i, level, FreshTable), va, access, who))
          = WalkResult(WalkIn(tables, va, access, who))

\* The same restrictions written into a leaf.
RestrictLeaf(d, restrictions) ==
  [d EXCEPT !.ro = @ \/ "write_protect" \in restrictions,
            !.dbm = @ /\ "write_protect" \notin restrictions,
            !.user = @ /\ "user_no_access" \notin restrictions,
            !.pxn = @ \/ "pxn" \in restrictions, !.uxn = @ \/ "uxn" \in restrictions]

(* A restriction on a table is one on every leaf below it: taking it from  *)
(* the table and writing it into the leaves changes no outcome, whatever   *)
(* tables lie between (TableAttrs in walk_page_tables).                    *)
TableRestrictsLeaves ==
  \A place \in BlockPlaces, i \in 0 .. Fanout - 1 :
    LET p == place[1]
        level == place[2]
        d == tables[p][i]
        moved == [tables EXCEPT ![p][i].table = {},
                                ![d.pa] = [j \in 0 .. Fanout - 1 |->
                                  IF level = 2 \/ IsBlock(@[j]) THEN RestrictLeaf(@[j], d.table)
                                  ELSE [@[j] EXCEPT !.table = @ \cup d.table]]]
    IN  d.valid /\ d.bit1 /\ d.pa \in DOMAIN tables \ {p} =>
          \A va \in UserVas, access \in Accesses, who \in Askers :
            WalkResult(WalkIn(moved, va, access, who)) = WalkResult(WalkIn(tables, va, access, who))

(* A load or store "as user" by the kernel succeeds exactly when user      *)
(* space's own would, PAN or not; and under PAN the kernel reaches no page *)
(* that user space can (access_permitted).                                 *)
UnprivilegedIsUser ==
  \A va \in UserVas, pan, wxn \in BOOLEAN :
    LET at(el0, access) == WalkIn(tables, va, access, [el0 |-> el0, pan |-> pan, wxn |-> wxn]).ok
    IN  /\ at(FALSE, "unpriv_read") = at(TRUE, "read")
        /\ at(FALSE, "unpriv_write") = at(TRUE, "write")
        /\ pan => ~(at(FALSE, "read") /\ at(TRUE, "read"))
=============================================================================
