------------------------------ MODULE MCMemory ------------------------------
(* Page tables two or three levels deep, two cores and two address spaces. *)
EXTENDS Mmu, SharedMemory, TLC

(* Pages: 0, 1 and 2 are the roots, 3 to 6 the tables below, 7 is free;    *)
(* 8 to 15 are what is mapped.  A half has eight pages: levels 1, 2, 3.    *)
MCVa(upper, page) == [upper |-> upper, page |-> page]
MCUserVas == {MCVa(FALSE, 0), MCVa(FALSE, 1)}
MCKernelVas == {MCVa(TRUE, 0)}
MCRoots == (1 :> 0) @@ (2 :> 1) @@ (0 :> 2)
MCPages == 0 .. 15
MCIpsPages == 0 .. 16

MCTable(pa, restrictions) ==
  [InvalidDescriptor EXCEPT !.valid = TRUE, !.bit1 = TRUE, !.pa = pa, !.table = restrictions]
MCLeaf(bit1, pa) ==
  [InvalidDescriptor EXCEPT !.valid = TRUE, !.bit1 = bit1, !.pa = pa, !.af = TRUE, !.attr = 1]
MCBlock(pa) == MCLeaf(FALSE, pa)
MCPage(pa) == MCLeaf(TRUE, pa)
MCFill(first, second) == (0 :> first) @@ (1 :> second)
MCEmpty == MCFill(InvalidDescriptor, InvalidDescriptor)

\* The first space maps a block, the second a page that is the same, the kernel a global block.
MCTables ==
  (0 :> MCFill(MCTable(3, {}), InvalidDescriptor)) @@
  (1 :> MCFill(MCTable(5, {}), InvalidDescriptor)) @@
  (2 :> MCFill(MCTable(6, {}), InvalidDescriptor)) @@
  (3 :> MCFill(MCBlock(8), InvalidDescriptor)) @@
  (4 :> MCFill(MCPage(8), [MCPage(10) EXCEPT !.attr = 2])) @@
  (5 :> MCFill(MCTable(4, {}), InvalidDescriptor)) @@
  (6 :> MCFill([MCBlock(12) EXCEPT !.global = TRUE], InvalidDescriptor)) @@
  [p \in 7 .. 15 |-> MCEmpty]

\* The block becomes a table of pages, or goes; a page goes; the kernel's moves.
MCStores(t) ==
  {[t EXCEPT ![3][0] = MCTable(4, {})], [t EXCEPT ![3][0] = InvalidDescriptor],
   [t EXCEPT ![4][1] = InvalidDescriptor],
   [t EXCEPT ![6][0] = [MCBlock(14) EXCEPT !.global = TRUE]]} \ {t}

-----------------------------------------------------------------------------
(* Tables for the walk alone: restrictions at each level, and leaves.      *)

MCRestrictions == {{}, Restrictions} \cup {{r} : r \in Restrictions}
MCLeaves(bit1, pa) ==
  {[MCLeaf(bit1, pa) EXCEPT !.user = user, !.ro = ro, !.pxn = pxn, !.uxn = uxn, !.af = af] :
     user \in BOOLEAN, ro \in BOOLEAN, pxn \in {FALSE}, uxn \in {FALSE}, af \in {TRUE}}
  \cup {[MCLeaf(bit1, pa) EXCEPT !.af = FALSE], [MCLeaf(bit1, pa) EXCEPT !.uxn = TRUE, !.user = TRUE],
        [MCLeaf(bit1, pa) EXCEPT !.pxn = TRUE], InvalidDescriptor}

MCWalkTables ==
  {[MCTables EXCEPT ![0][0] = root, ![3][0] = middle, ![4][0] = leaf, ![4][1] = MCPage(20)] :
     root \in {MCTable(3, r) : r \in MCRestrictions} \cup {MCBlock(9), MCTable(17, {})},
     middle \in {MCTable(4, r) : r \in MCRestrictions} \cup MCLeaves(FALSE, 9) \cup {MCTable(16, {})},
     leaf \in MCLeaves(TRUE, 11)}
MCBlockPlaces == {<<0, 1>>, <<3, 2>>}

-----------------------------------------------------------------------------
VARIABLE part   \* what this system consists of; it never changes

MCMemoryParts == {"core", "cores", "walk", "lock", "code"}

\* Bound: the translations the cores have cached at once, each counted once.
MCMaxCached == 2
MCCachedFew == Cardinality(Cached(0)) + Cardinality(Cached(1)) <= MCMaxCached

\* Tables that are not walked map nothing.
MCNoTables == [p \in 0 .. 2 |-> MCEmpty]
MCMemoryInit ==
  /\ tables \in CASE part = "walk" -> MCWalkTables
                  [] part \in {"core", "cores"} -> {MCTables}
                  [] OTHER -> {MCNoTables}
  /\ MmuInit /\ \A c \in Cores : mmu[c].asid = 1
  /\ SharedInit

\* The kernel moves the second page, makes it read-only, or takes it away.
MCMappings == [frame : {0, 1}, writable : {TRUE}] \cup {[frame |-> 0, writable |-> FALSE], [frame |-> 2, writable |-> TRUE]}
MCFewMappings == map[0] = [frame |-> 0, writable |-> TRUE] /\ map[1] \in MCMappings
MCSymmetry == Permutations(Agents)

\* One core doing everything, or two that share the kernel's invalidations;
\* two cores and a device on data that is locked, and on code.
MCMemoryNext ==
  \/ part = "core" /\ (StoreDescriptor \/ Snapshot \/ CoreStep(0)) /\ UNCHANGED shared_vars
  \/ part = "cores" /\ (StoreDescriptor \/ Invalidate(0) \/ \E c \in Cores : Translate(c)) /\ MCCachedFew'
                    /\ UNCHANGED shared_vars
  \/ part = "lock" /\ LockNext /\ mem' = mem /\ MCFewMappings' /\ UNCHANGED mmu_vars
  \/ part = "code" /\ CodeNext /\ MCFewMappings' /\ UNCHANGED mmu_vars
  \/ part = "walk" /\ UNCHANGED <<mmu_vars, shared_vars>>

\* Memory that stands still while another part moves.
MCMemoryIdle == tables = MCNoTables /\ MmuInit /\ SharedInit /\ \A c \in Cores : mmu[c].asid = 1

-----------------------------------------------------------------------------
(* A walk answers for the mapping, however the kernel wrote it down: as a  *)
(* block or as its pages, with a restriction on a table or on the leaves   *)
(* below it (walk_page_tables).                                            *)
WalkFollowsMapping == part = "walk" => BlockIsItsPages /\ TableRestrictsLeaves
=============================================================================
