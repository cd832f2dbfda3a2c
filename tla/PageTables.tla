----------------------------- MODULE PageTables -----------------------------
(***************************************************************************)
(* The stage 1 walk of src/src/cpu.cpp (walk_page_tables) and the          *)
(* permission check of src/include/aarchvm/cpu.hpp (access_permitted).     *)
(*                                                                         *)
(* Addresses are page numbers: the offset in the page is carried through   *)
(* unchanged.  A virtual address is the half it is in and the page number  *)
(* below the half's tag bits, the top byte already ignored where TCR says  *)
(* so.  A table is a page of Fanout descriptors; a descriptor is a record  *)
(* of its fields, of which a table, a block and a page each use some.      *)
(***************************************************************************)
EXTENDS Integers, FiniteSets

CONSTANTS
  Fanout,         \* 512
  RamPages,       \* the physical pages the bus answers for
  IpsPages        \* the physical pages below the size TCR_EL1.IPS sets

Span(level) == Fanout ^ (3 - level)

\* The table bits that restrict what lies below: APTable, UXNTable, PXNTable.
Restrictions == {"write_protect", "user_no_access", "uxn", "pxn"}

InvalidDescriptor ==
  [valid |-> FALSE, bit1 |-> FALSE, pa |-> 0, af |-> FALSE, global |-> FALSE, ro |-> FALSE,
   dbm |-> FALSE, user |-> FALSE, pxn |-> FALSE, uxn |-> FALSE, attr |-> 0, table |-> {}]

\* Half of TCR_EL1, with the table base of TTBR0_EL1 or TTBR1_EL1.
Regime(base, pages) ==
  [size_ok |-> TRUE, granule_ok |-> TRUE, epd |-> FALSE, pages |-> pages, base |-> base, hd |-> FALSE]

Fault(kind, level) == [ok |-> FALSE, kind |-> kind, level |-> level]

\* Who asks: the exception level, PSTATE.PAN and SCTLR_EL1.WXN.
IsWrite(access) == access \in {"write", "unpriv_write"}
IsUnprivileged(access) == access \in {"unpriv_read", "unpriv_write"}

\* Mutant: an unprivileged load or store is checked as what it runs at.
Permitted_AsCurrent(r, access, who, apply_pan) ==
  /\ who.el0 => r.user
  /\ ~(apply_pan /\ ~who.el0 /\ access # "fetch" /\ who.pan /\ r.user)
  /\ IsWrite(access) => r.writable
  /\ access = "fetch" => IF who.el0 THEN ~(r.uxn \/ (who.wxn /\ r.user /\ r.writable))
                         ELSE ~(r.pxn \/ (who.wxn /\ r.writable))

\* access_permitted.
Permitted(r, access, who, apply_pan) ==
  LET el0 == who.el0 \/ IsUnprivileged(access)
  IN  /\ el0 => r.user
      /\ ~(apply_pan /\ ~el0 /\ access # "fetch" /\ who.pan /\ r.user)
      /\ IsWrite(access) => r.writable
      /\ access = "fetch" => IF el0 THEN ~(r.uxn \/ (who.wxn /\ r.user /\ r.writable))
                             ELSE ~(r.pxn \/ (who.wxn /\ r.writable))

-----------------------------------------------------------------------------

LevelsOf(pages) == CHOOSE n \in 1 .. 4 : pages <= Fanout ^ n /\ (n = 1 \/ Fanout ^ (n - 1) < pages)

Index(va, level) == (va.page \div Span(level)) % Fanout

\* Mutant: the address bits below a block's size are taken from the descriptor.
LeafResult_Unaligned(regime, d, level, inherited, va) ==
  [ok |-> TRUE, pa |-> d.pa + (va.page % Span(level)), level |-> level,
   global |-> d.global, attr |-> d.attr,
   writable |-> ~("write_protect" \in inherited \/ (d.ro /\ ~(d.dbm /\ regime.hd))),
   user |-> "user_no_access" \notin inherited /\ d.user,
   pxn |-> d.pxn \/ "pxn" \in inherited, uxn |-> d.uxn \/ "uxn" \in inherited]

\* What a block or a page descriptor says, under the restrictions above it.
LeafResult(regime, d, level, inherited, va) ==
  [ok |-> TRUE, pa |-> (d.pa \div Span(level)) * Span(level) + (va.page % Span(level)), level |-> level,
   global |-> d.global, attr |-> d.attr,
   writable |-> ~("write_protect" \in inherited \/ (d.ro /\ ~(d.dbm /\ regime.hd))),
   user |-> "user_no_access" \notin inherited /\ d.user,
   pxn |-> d.pxn \/ "pxn" \in inherited, uxn |-> d.uxn \/ "uxn" \in inherited]

\* How a walk is asked for: with or without the last two checks.
Checks == [permissions |-> TRUE, pan |-> TRUE, access_flag |-> TRUE]

Leaf(regime, d, level, inherited, va, access, who, checks) ==
  LET r == LeafResult(regime, d, level, inherited, va)
  IN  IF (d.pa \div Span(level)) * Span(level) \notin IpsPages THEN Fault("AddressSize", level)
      ELSE IF checks.access_flag /\ ~d.af THEN Fault("AccessFlag", level)
      ELSE IF checks.permissions /\ ~Permitted(r, access, who, checks.pan) THEN Fault("Permission", level)
      ELSE r

\* One level of the walk: w says which table to read, or how the walk has ended:
\* with a fault, or at a leaf.
WalkLevel(tables, va, w, level) ==
  LET d == tables[w.base][Index(va, level)]
      fault(kind) == [w EXCEPT !.over = TRUE, !.fault = kind, !.level = level]
  IN  IF w.over THEN w
      ELSE IF w.base \notin RamPages THEN fault("ExternalAbortOnWalk")
      ELSE IF ~d.valid \/ (level \in {0, 3} /\ ~d.bit1) THEN fault("Translation")
      ELSE IF level = 3 \/ ~d.bit1
      THEN [w EXCEPT !.over = TRUE, !.fault = "none", !.level = level, !.leaf = d]
      ELSE IF d.pa \notin IpsPages THEN fault("AddressSize")
      ELSE [w EXCEPT !.base = d.pa, !.inherited = @ \cup d.table]

\* From the root down to where the walk ends, whoever asks.
Descend(regime, tables, va) ==
  LET above == 3 - LevelsOf(regime.pages)
      start == [over |-> FALSE, base |-> regime.base, inherited |-> {}, fault |-> "Translation", level |-> 0,
                leaf |-> InvalidDescriptor]
      after[level \in above .. 3] ==
        IF level = above THEN start ELSE WalkLevel(tables, va, after[level - 1], level)
  IN  after[3]

Walk(regime, tables, va, access, who, checks) ==
  LET w == Descend(regime, tables, va)
  IN  IF ~regime.size_ok THEN Fault("AddressSize", 0)
      ELSE IF ~regime.granule_ok \/ regime.epd THEN Fault("Translation", 0)
      ELSE IF va.page >= regime.pages \/ regime.base \notin IpsPages THEN Fault("AddressSize", 0)
      ELSE IF w.fault # "none" THEN Fault(w.fault, w.level)
      ELSE Leaf(regime, w.leaf, w.level, w.inherited, va, access, who, checks)
=============================================================================
