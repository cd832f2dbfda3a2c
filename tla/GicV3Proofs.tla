---------------------------- MODULE GicV3Proofs ----------------------------
(***************************************************************************)
(* Proofs about the controller for any number of CPUs, interrupts and      *)
(* priorities: its type, and that the epoch vouches for cached answers.    *)
(*                                                                         *)
(* Every operation other than the query itself and loading a snapshot is   *)
(* `quiet': it leaves the caches alone, and either moves the epoch or      *)
(* leaves everything a query looks at as it was.                           *)
(***************************************************************************)
EXTENDS GicV3, TLAPS, FiniteSetTheorems

Quiet(g, h) ==
  /\ h \in Gic
  /\ h.cache = g.cache
  /\ h.epoch >= g.epoch
  /\ h.epoch = g.epoch => /\ h.pending = g.pending
                          /\ h.enabled = g.enabled
                          /\ h.priorities = g.priorities

CachesNotAhead(g) == \A cpu \in Cpus : g.cache[cpu].epoch <= g.epoch

CachesTrue(g) ==
  \A cpu \in Cpus : \A pmr \in Prio :
     CacheHit(g, cpu, pmr) => (g.cache[cpu].value <=> Candidates(g, cpu, pmr) # {})

\* The inductive invariant: a cache filled at a later epoch than the current
\* one could become valid again, so none is.
GicInv(g) == g \in Gic /\ CachesNotAhead(g) /\ CachesTrue(g)

-----------------------------------------------------------------------------
(* The single-bit setters                                                  *)

\* There are finitely many interrupts (the arrays of class GicV3).
LEMMA SlotsFinite == IsFiniteSet(Slots)
<1>0. /\ 0 \in Int /\ NumCpus - 1 \in Int /\ NumLocal - 1 \in Int
      /\ NumLocal \in Int /\ NumIntIds - 1 \in Int
  BY GicAssumption
<1>1. IsFiniteSet(Cpus) /\ IsFiniteSet(LocalIds) /\ IsFiniteSet(SpiIds)
  BY <1>0, FS_Interval DEF Cpus, LocalIds, SpiIds
<1>a. IsFiniteSet({0})
  BY FS_Singleton
<1>2. IsFiniteSet(Cpus \X LocalIds) /\ IsFiniteSet(SpiSlots)
  BY <1>1, <1>a, FS_Product DEF SpiSlots
<1> QED
  BY <1>2, FS_Union DEF Slots

\* The epoch moves exactly when a bit does.
LEMMA ChangedCounts ==
  ASSUME NEW old \in SUBSET Slots, NEW new \in SUBSET Slots
  PROVE  Changed(old, new) \in Nat /\ (Changed(old, new) = 0 => old = new)
<1> DEFINE D == (old \ new) \cup (new \ old)
<1>1. IsFiniteSet(D)
  BY SlotsFinite, FS_Subset
<1>2. Cardinality(D) \in Nat /\ (Cardinality(D) = 0 <=> D = {})
  BY <1>1, FS_CardinalityType, FS_EmptySet
<1>3. D = {} => old = new
  OBVIOUS
<1> QED
  BY <1>2, <1>3 DEF Changed

\* Setting or clearing bits stays within the arrays.
LEMMA UpdatedType ==
  ASSUME NEW bits \in SUBSET Slots, NEW S \in SUBSET Slots, NEW value
  PROVE  Updated(bits, S, value) \in SUBSET Slots
BY DEF Updated

\* Incrementing the epoch keeps the type (state_epoch_ does not wrap).
LEMMA EpochType ==
  ASSUME NEW g \in Gic, NEW n \in Nat
  PROVE  [g EXCEPT !.epoch = @ + n] \in Gic
BY DEF Gic

\* The setters of pending bits are quiet (set_local_pending_bit and
\* set_spi_pending_bit).
LEMMA PendingQuiet ==
  ASSUME NEW g \in Gic, NEW S \in SUBSET Slots, NEW value
  PROVE  Quiet(g, SetPendingBits(g, S, value))
<1> DEFINE new == Updated(g.pending, S, value)
           n   == Changed(g.pending, new)
<1>1. new \in SUBSET Slots /\ g.pending \in SUBSET Slots
  BY UpdatedType DEF Gic
<1>2. n \in Nat /\ (n = 0 => g.pending = new)
  BY <1>1, ChangedCounts
<1>3. SetPendingBits(g, S, value) = [g EXCEPT !.pending = new, !.epoch = @ + n]
  BY DEF SetPendingBits
<1> HIDE DEF new, n
<1>4. [g EXCEPT !.pending = new] \in Gic
  BY <1>1 DEF Gic
<1>5. SetPendingBits(g, S, value) \in Gic
  BY <1>2, <1>3, <1>4, EpochType
<1> QED
  BY <1>1, <1>2, <1>3, <1>5 DEF Quiet, Gic

\* The setters of enable bits are quiet.
LEMMA EnabledQuiet ==
  ASSUME NEW g \in Gic, NEW S \in SUBSET Slots, NEW value
  PROVE  Quiet(g, SetEnabledBits(g, S, value))
<1> DEFINE new == Updated(g.enabled, S, value)
           n   == Changed(g.enabled, new)
<1>1. new \in SUBSET Slots /\ g.enabled \in SUBSET Slots
  BY UpdatedType DEF Gic
<1>2. n \in Nat /\ (n = 0 => g.enabled = new)
  BY <1>1, ChangedCounts
<1>3. SetEnabledBits(g, S, value) = [g EXCEPT !.enabled = new, !.epoch = @ + n]
  BY DEF SetEnabledBits
<1> HIDE DEF new, n
<1>4. [g EXCEPT !.enabled = new] \in Gic
  BY <1>1 DEF Gic
<1>5. SetEnabledBits(g, S, value) \in Gic
  BY <1>2, <1>3, <1>4, EpochType
<1> QED
  BY <1>1, <1>2, <1>3, <1>5 DEF Quiet, Gic

\* The setters of active bits are quiet; no query looks at these bits.
LEMMA ActiveQuiet ==
  ASSUME NEW g \in Gic, NEW S \in SUBSET Slots, NEW value
  PROVE  Quiet(g, SetActiveBits(g, S, value))
<1> DEFINE new == Updated(g.active, S, value)
           n   == Changed(g.active, new)
<1>1. new \in SUBSET Slots /\ g.active \in SUBSET Slots
  BY UpdatedType DEF Gic
<1>2. n \in Nat
  BY <1>1, ChangedCounts
<1>3. SetActiveBits(g, S, value) = [g EXCEPT !.active = new, !.epoch = @ + n]
  BY DEF SetActiveBits
<1> HIDE DEF new, n
<1>4. [g EXCEPT !.active = new] \in Gic
  BY <1>1 DEF Gic
<1>5. SetActiveBits(g, S, value) \in Gic
  BY <1>2, <1>3, <1>4, EpochType
<1> QED
  BY <1>1, <1>2, <1>3, <1>5 DEF Quiet, Gic

\* A priority register write is quiet: it always moves the epoch.
LEMMA PriorityQuiet ==
  ASSUME NEW g \in Gic, NEW S \in SUBSET Slots, NEW new \in [S -> Prio]
  PROVE  Quiet(g, SetPriorityRange(g, new))
<1> DEFINE prios == [s \in Slots |-> IF s \in DOMAIN new THEN new[s] ELSE g.priorities[s]]
<1>1. prios \in [Slots -> Prio]
  BY DEF Gic
<1>2. SetPriorityRange(g, new) = [g EXCEPT !.priorities = prios, !.epoch = @ + 1]
  BY DEF SetPriorityRange
<1> HIDE DEF prios
<1>3. [g EXCEPT !.priorities = prios] \in Gic
  BY <1>1 DEF Gic
<1>4. SetPriorityRange(g, new) \in Gic
  BY <1>2, <1>3, EpochType
<1> QED
  BY <1>1, <1>2, <1>4 DEF Quiet, Gic

\* Doing nothing is quiet (the early returns of the setters).
LEMMA QuietReflexive ==
  ASSUME NEW g \in Gic
  PROVE  Quiet(g, g)
BY DEF Quiet, Gic

\* A call that makes several quiet changes is quiet.
LEMMA QuietTransitive ==
  ASSUME NEW f \in Gic, NEW g, NEW h, Quiet(f, g), Quiet(g, h)
  PROVE  Quiet(f, h)
BY DEF Quiet, Gic

-----------------------------------------------------------------------------
(* The operations                                                          *)

\* Every interrupt of every CPU has its place in the arrays.
LEMMA SlotOfType ==
  ASSUME NEW cpu \in Cpus, NEW intid \in IntIds
  PROVE  SlotOf(cpu, intid) \in Slots
BY GicAssumption DEF SlotOf, Slots, SpiSlots, SpiIds, LocalIds, IntIds, Cpus

\* set_level is quiet.
LEMMA LevelQuiet ==
  ASSUME NEW g \in Gic, NEW s \in Slots, NEW asserted \in BOOLEAN
  PROVE  Quiet(g, SetLevel(g, s, asserted))
<1> DEFINE lev == [g EXCEPT !.line_level = Updated(@, {s}, asserted), !.epoch = @ + 1]
<1>1. Quiet(g, lev)
  <2>1. Updated(g.line_level, {s}, asserted) \in SUBSET Slots
    BY UpdatedType DEF Gic
  <2>2. [g EXCEPT !.line_level = Updated(@, {s}, asserted)] \in Gic
    BY <2>1 DEF Gic
  <2>3. lev \in Gic
    BY <2>2, EpochType
  <2> QED
    BY <2>3 DEF Quiet, Gic
<1>2. lev \in Gic
  BY <1>1 DEF Quiet
<1>3. SetLevel(g, s, asserted) \in {g, lev, SetPendingBits(lev, {s}, TRUE)}
  BY DEF SetLevel
<1> HIDE DEF lev
<1>4. Quiet(lev, SetPendingBits(lev, {s}, TRUE))
  BY <1>2, PendingQuiet
<1> QED
  BY <1>1, <1>3, <1>4, QuietReflexive, QuietTransitive

\* send_sgi is quiet, whichever CPUs it selects.
LEMMA SgiQuiet ==
  ASSUME NEW g \in Gic, NEW source \in Cpus, NEW intid \in 0 .. NumSgis - 1,
         NEW irm \in BOOLEAN, NEW list \in SUBSET Cpus
  PROVE  Quiet(g, SendSgi(g, source, intid, irm, list))
<1>1. intid \in LocalIds
  BY GicAssumption DEF LocalIds
<1>2. {<<cpu, intid>> : cpu \in SgiTargets(source, irm, list)} \in SUBSET Slots
  BY <1>1 DEF SgiTargets, Slots
<1> QED
  BY <1>2, PendingQuiet DEF SendSgi

\* A set of natural numbers that is not empty has a least element.
LEMMA LeastNatural ==
  ASSUME NEW S \in SUBSET Nat, S # {}
  PROVE  \E x \in S : \A y \in S : x <= y
<1> DEFINE less == OpToRel(<, Nat)
<1>1. IsWellFoundedOn(less, Nat)
  BY NatLessThanWellFounded
<1>2. \A x, y \in Nat : y < x => <<y, x>> \in less
  BY DEF OpToRel
<1> HIDE DEF less
<1>3. PICK x \in S : \A y \in S : ~ (<<y, x>> \in less)
  BY <1>1, WFMin
<1>4. \A y \in S : x <= y
  <2> TAKE y \in S
  <2>1. x \in Nat /\ y \in Nat
    OBVIOUS
  <2>2. ~ (y < x)
    BY <1>2, <1>3, <2>1, Zenon
  <2> QED
    BY <2>1, <2>2
<1> QED
  BY <1>4

\* The scan finds something exactly when there is a candidate: among the
\* candidates of the smallest priority value take the smallest INTID.
LEMMA MostUrgentExists ==
  ASSUME NEW g \in Gic, NEW cpu \in Cpus, NEW pmr \in Prio,
         Candidates(g, cpu, pmr) # {}
  PROVE  \E i \in Candidates(g, cpu, pmr) :
            \A j \in Candidates(g, cpu, pmr) : Before(g, cpu, i, j)
<1> DEFINE C == Candidates(g, cpu, pmr)
           P == {Priority(g, cpu, i) : i \in C}
<1>1. C \subseteq IntIds /\ IntIds \subseteq Nat
  BY GicAssumption DEF Candidates, IntIds
<1>2. \A i \in C : Priority(g, cpu, i) \in Nat
  <2> TAKE i \in C
  <2>1. g.priorities[SlotOf(cpu, i)] \in Prio
    BY <1>1, SlotOfType DEF Gic
  <2> QED
    BY <1>1, <2>1, GicAssumption DEF Priority, Prio
<1> HIDE DEF C
<1>3. PICK least \in P : \A q \in P : least <= q
  <2>1. P \in SUBSET Nat /\ P # {}
    BY <1>2 DEF C
  <2> QED
    BY <2>1, LeastNatural
<1> DEFINE T == {i \in C : Priority(g, cpu, i) = least}
<1>4. PICK i \in T : \A j \in T : i <= j
  <2>1. T \in SUBSET Nat /\ T # {}
    BY <1>1, <1>3
  <2> QED
    BY <2>1, LeastNatural
<1>5. \A j \in C : Before(g, cpu, i, j)
  BY <1>2, <1>3, <1>4 DEF Before
<1> QED
  BY <1>4, <1>5 DEF C

\* highest_pending reports an interrupt exactly when there is a candidate, and
\* then one of the candidates.
LEMMA HighestPendingFinds ==
  ASSUME NEW g \in Gic, NEW cpu \in Cpus, NEW pmr \in Prio
  PROVE  /\ HighestPending(g, cpu, pmr) # Spurious <=> Candidates(g, cpu, pmr) # {}
         /\ HighestPending(g, cpu, pmr) # Spurious => HighestPending(g, cpu, pmr) \in IntIds
<1>1. Candidates(g, cpu, pmr) # {} =>
         HighestPending(g, cpu, pmr) \in Candidates(g, cpu, pmr)
  BY MostUrgentExists DEF HighestPending
<1>2. Candidates(g, cpu, pmr) \subseteq IntIds
  BY DEF Candidates
<1>3. Spurious \notin IntIds
  BY GicAssumption DEF Spurious, IntIds
<1>4. Candidates(g, cpu, pmr) = {} => HighestPending(g, cpu, pmr) = Spurious
  BY DEF HighestPending
<1> QED
  BY <1>1, <1>2, <1>3, <1>4

\* acknowledge is quiet.
LEMMA AcknowledgeQuiet ==
  ASSUME NEW g \in Gic, NEW cpu \in Cpus, NEW pmr \in Prio
  PROVE  Quiet(g, AfterAcknowledge(g, cpu, pmr))
<1> DEFINE i == HighestPending(g, cpu, pmr)
           s == SlotOf(cpu, i)
           h == SetPendingBits(g, {s}, FALSE)
<1>1. CASE i = Spurious
  BY <1>1, QuietReflexive DEF AfterAcknowledge
<1>2. CASE i # Spurious
  <2>1. s \in Slots
    BY <1>2, HighestPendingFinds, SlotOfType
  <2>2. AfterAcknowledge(g, cpu, pmr) = SetActiveBits(h, {s}, TRUE)
    BY <1>2 DEF AfterAcknowledge
  <2> HIDE DEF s
  <2>3. Quiet(g, h)
    BY <2>1, PendingQuiet
  <2>4. h \in Gic
    BY <2>3 DEF Quiet
  <2> HIDE DEF h
  <2>5. Quiet(h, SetActiveBits(h, {s}, TRUE))
    BY <2>1, <2>4, ActiveQuiet
  <2> QED
    BY <2>2, <2>3, <2>5, QuietTransitive
<1> QED
  BY <1>1, <1>2

\* eoi is quiet, whatever INTID the guest writes.
LEMMA EoiQuiet ==
  ASSUME NEW g \in Gic, NEW cpu \in Cpus, NEW intid
  PROVE  Quiet(g, Eoi(g, cpu, intid))
<1> DEFINE s == SlotOf(cpu, intid)
           h == SetActiveBits(g, {s}, FALSE)
<1>1. CASE intid \notin IntIds
  BY <1>1, QuietReflexive DEF Eoi
<1>2. CASE intid \in IntIds
  <2>1. s \in Slots
    BY <1>2, SlotOfType
  <2>2. Eoi(g, cpu, intid) \in {h, SetPendingBits(h, {s}, TRUE)}
    BY <1>2 DEF Eoi
  <2> HIDE DEF s
  <2>3. Quiet(g, h)
    BY <2>1, ActiveQuiet
  <2>4. h \in Gic
    BY <2>3 DEF Quiet
  <2> HIDE DEF h
  <2>5. Quiet(h, SetPendingBits(h, {s}, TRUE))
    BY <2>1, <2>4, PendingQuiet
  <2> QED
    BY <2>2, <2>3, <2>5, QuietTransitive
<1> QED
  BY <1>1, <1>2

-----------------------------------------------------------------------------
(* The invariant                                                           *)

\* What is deliverable depends on pending, enabled and priority bits only.
LEMMA CandidatesDepend ==
  ASSUME NEW g, NEW h, h.pending = g.pending, h.enabled = g.enabled,
         h.priorities = g.priorities, NEW cpu, NEW pmr
  PROVE  Candidates(h, cpu, pmr) = Candidates(g, cpu, pmr)
BY DEF Candidates

\* A quiet change keeps the invariant: a cached answer is unchanged and still
\* right, or its epoch is past.
LEMMA QuietKeepsInv ==
  ASSUME NEW g, NEW h, GicInv(g), Quiet(g, h)
  PROVE  GicInv(h)
<1>1. g \in Gic /\ h \in Gic
  BY DEF GicInv, Quiet
<1>2. g.epoch \in Nat /\ h.epoch \in Nat /\ h.epoch >= g.epoch /\ h.cache = g.cache
  BY <1>1 DEF Quiet, Gic
<1>3. \A cpu \in Cpus : g.cache[cpu].epoch \in Nat /\ g.cache[cpu].epoch <= g.epoch
  BY <1>1 DEF GicInv, CachesNotAhead, Gic, PendingQueryCache
<1>4. CachesNotAhead(h)
  BY <1>2, <1>3 DEF CachesNotAhead
<1>5. CachesTrue(h)
  <2> SUFFICES ASSUME NEW cpu \in Cpus, NEW pmr \in Prio, CacheHit(h, cpu, pmr)
               PROVE  h.cache[cpu].value <=> Candidates(h, cpu, pmr) # {}
    BY DEF CachesTrue
  <2>1. h.epoch = g.epoch
    BY <1>2, <1>3 DEF CacheHit
  <2>2. Candidates(h, cpu, pmr) = Candidates(g, cpu, pmr)
    BY <2>1, CandidatesDepend DEF Quiet
  <2>3. CacheHit(g, cpu, pmr)
    BY <1>2, <2>1 DEF CacheHit
  <2> QED
    BY <1>2, <2>2, <2>3 DEF GicInv, CachesTrue
<1> QED
  BY <1>1, <1>4, <1>5 DEF GicInv

\* A query fills its cache with the answer of the scan, at the current epoch.
LEMMA QueryKeepsInv ==
  ASSUME NEW g, GicInv(g), NEW cpu \in Cpus, NEW pmr \in Prio
  PROVE  GicInv(AfterHasPending(g, cpu, pmr))
<1> DEFINE v == HighestPending(g, cpu, pmr) # Spurious
           e == [valid |-> TRUE, value |-> v, pmr |-> pmr, epoch |-> g.epoch]
           h == [g EXCEPT !.cache[cpu] = e]
<1>1. CASE CacheHit(g, cpu, pmr)
  BY <1>1 DEF AfterHasPending
<1>2. CASE ~ CacheHit(g, cpu, pmr)
  <2>1. AfterHasPending(g, cpu, pmr) = h
    BY <1>2 DEF AfterHasPending
  <2>2. g \in Gic /\ g.epoch \in Nat
    BY DEF GicInv, Gic
  <2>3. v \in BOOLEAN /\ (v <=> Candidates(g, cpu, pmr) # {})
    BY <2>2, HighestPendingFinds
  <2> HIDE DEF v
  <2>4. e \in PendingQueryCache
    BY <2>2, <2>3 DEF PendingQueryCache
  <2>5. e.valid = TRUE /\ e.value = v /\ e.pmr = pmr /\ e.epoch = g.epoch
    OBVIOUS
  <2> HIDE DEF e
  <2>6. [g.cache EXCEPT ![cpu] = e] \in [Cpus -> PendingQueryCache]
    BY <2>2, <2>4 DEF Gic
  <2>7. h \in Gic
    BY <2>2, <2>6 DEF Gic
  <2>8. /\ h.epoch = g.epoch /\ h.pending = g.pending
        /\ h.enabled = g.enabled /\ h.priorities = g.priorities
        /\ \A p \in Cpus : h.cache[p] = IF p = cpu THEN e ELSE g.cache[p]
    BY <2>2 DEF Gic
  <2> HIDE DEF h
  <2>9. CachesNotAhead(h)
    BY <2>2, <2>5, <2>8 DEF GicInv, CachesNotAhead
  <2>10. CachesTrue(h)
    <3> SUFFICES ASSUME NEW p \in Cpus, NEW m \in Prio, CacheHit(h, p, m)
                 PROVE  h.cache[p].value <=> Candidates(h, p, m) # {}
      BY DEF CachesTrue
    <3>1. Candidates(h, p, m) = Candidates(g, p, m)
      BY <2>8, CandidatesDepend
    <3>2. CASE p = cpu
      BY <2>3, <2>5, <2>8, <3>1, <3>2 DEF CacheHit
    <3>3. CASE p # cpu
      <4>1. h.cache[p] = g.cache[p] /\ CacheHit(g, p, m)
        BY <2>8, <3>3 DEF CacheHit
      <4> QED
        BY <3>1, <4>1 DEF GicInv, CachesTrue
    <3> QED
      BY <3>2, <3>3
  <2> QED
    BY <2>1, <2>7, <2>9, <2>10 DEF GicInv
<1> QED
  BY <1>1, <1>2

\* The invariant holds when no cache is valid.
LEMMA DroppedCachesInv ==
  ASSUME NEW g \in Gic, g.cache = [cpu \in Cpus |-> EmptyCache]
  PROVE  GicInv(g)
<1>1. g.epoch \in Nat
  BY DEF Gic
<1>2. \A cpu \in Cpus : g.cache[cpu].valid = FALSE /\ g.cache[cpu].epoch = 0
  BY DEF EmptyCache
<1> QED
  BY <1>1, <1>2 DEF GicInv, CachesNotAhead, CachesTrue, CacheHit

\* A dropped cache is a cache.
LEMMA EmptyCacheType == EmptyCache \in PendingQueryCache
BY GicAssumption DEF EmptyCache, PendingQueryCache, Prio

\* load_state keeps the invariant: it drops every cache.
LEMMA LoadKeepsInv ==
  ASSUME NEW g \in Gic, NEW image \in SnapshotImages
  PROVE  GicInv(LoadState(g, image))
<1>1. image \in GicImage
  BY GicAssumption
<1>2. g.epoch + 3 \in Nat
  BY DEF Gic
<1>3. [cpu \in Cpus |-> EmptyCache] \in [Cpus -> PendingQueryCache]
  BY EmptyCacheType
<1>4. LoadState(g, image) \in Gic
  BY <1>1, <1>2, <1>3 DEF LoadState, Gic, GicImage
<1>5. LoadState(g, image).cache = [cpu \in Cpus |-> EmptyCache]
  BY DEF LoadState
<1> QED
  BY <1>4, <1>5, DroppedCachesInv

\* The constructed controller satisfies the invariant.
LEMMA InitInv == GicInv(PowerOnGic)
<1>1. [s \in Slots |-> DefaultPriority] \in [Slots -> Prio]
  BY GicAssumption
<1>2. [cpu \in Cpus |-> EmptyCache] \in [Cpus -> PendingQueryCache]
  BY EmptyCacheType
<1>3. PowerOnGic \in Gic
  BY <1>1, <1>2 DEF PowerOnGic, Gic
<1>4. PowerOnGic.cache = [cpu \in Cpus |-> EmptyCache]
  BY DEF PowerOnGic
<1> QED
  BY <1>3, <1>4, DroppedCachesInv

\* A bitmap register covers interrupts that exist.
LEMMA BankSlots ==
  ASSUME NEW bank \in Banks, NEW S \in SUBSET bank
  PROVE  S \in SUBSET Slots
BY DEF Banks, LocalSlots, Slots

\* Every public operation keeps the invariant.
LEMMA NextKeepsInv ==
  ASSUME GicInv(gic), [GicNext]_gic
  PROVE  GicInv(gic')
<1>1. gic \in Gic
  BY DEF GicInv
<1> SUFFICES ASSUME GicNext PROVE GicInv(gic')
  OBVIOUS
<1>2. CASE GuestRegisterWrite
  <2>1. ASSUME NEW bank \in Banks, NEW S \in SUBSET bank, NEW value \in BOOLEAN,
               WriteEnabler(S, value) \/ WriteActiver(S, value)
        PROVE  GicInv(gic')
    BY <1>1, <2>1, BankSlots, EnabledQuiet, ActiveQuiet, QuietKeepsInv
       DEF WriteEnabler, WriteActiver, Becomes
  <2>2. ASSUME NEW cpu \in Cpus, NEW S \in SUBSET LocalSlots(cpu), NEW value \in BOOLEAN,
               WritePendr(S, value)
        PROVE  GicInv(gic')
    <3>1. S \in SUBSET Slots
      BY DEF LocalSlots, Slots
    <3> QED
      BY <1>1, <2>2, <3>1, PendingQuiet, QuietKeepsInv DEF WritePendr, Becomes
  <2>3. ASSUME NEW bank \in Banks, NEW S \in SUBSET bank, NEW new \in [S -> Prio],
               WriteIpriorityr(new)
        PROVE  GicInv(gic')
    BY <1>1, <2>3, BankSlots, PriorityQuiet, QuietKeepsInv DEF WriteIpriorityr, Becomes
  <2>4. ASSUME NEW source \in Cpus, NEW intid \in 0 .. NumSgis - 1, NEW irm \in BOOLEAN,
               NEW list \in SUBSET Cpus, WriteSgi1r(source, intid, irm, list)
        PROVE  GicInv(gic')
    BY <1>1, <2>4, SgiQuiet, QuietKeepsInv DEF WriteSgi1r, Becomes
  <2> QED
    BY <1>2, <2>1, <2>2, <2>3, <2>4 DEF GuestRegisterWrite
<1>3. CASE DeviceInput
  <2>1. ASSUME NEW cpu \in Cpus, NEW intid \in IntIds, SetPending(cpu, intid)
        PROVE  GicInv(gic')
    <3>1. {SlotOf(cpu, intid)} \in SUBSET Slots
      BY SlotOfType
    <3> QED
      BY <1>1, <2>1, <3>1, PendingQuiet, QuietKeepsInv DEF SetPending, Becomes
  <2>2. ASSUME NEW cpu \in Cpus, NEW intid \in IntIds, NEW asserted \in BOOLEAN,
               DriveLine(cpu, intid, asserted)
        PROVE  GicInv(gic')
    BY <1>1, <2>2, SlotOfType, LevelQuiet, QuietKeepsInv DEF DriveLine, Becomes
  <2> QED
    BY <1>3, <2>1, <2>2 DEF DeviceInput
<1>4. CASE CpuInterface
  <2>1. ASSUME NEW cpu \in Cpus, NEW pmr \in Prio, QueryPending(cpu, pmr)
        PROVE  GicInv(gic')
    BY <2>1, QueryKeepsInv DEF QueryPending, Becomes
  <2>2. ASSUME NEW cpu \in Cpus, NEW pmr \in Prio, Acknowledge(cpu, pmr)
        PROVE  GicInv(gic')
    BY <1>1, <2>2, AcknowledgeQuiet, QuietKeepsInv DEF Acknowledge, Becomes
  <2>3. ASSUME NEW cpu \in Cpus, NEW intid, EndOfInterrupt(cpu, intid)
        PROVE  GicInv(gic')
    BY <1>1, <2>3, EoiQuiet, QuietKeepsInv DEF EndOfInterrupt, Becomes
  <2> QED
    BY <1>4, <2>1, <2>2, <2>3 DEF CpuInterface
<1>5. ASSUME NEW image \in SnapshotImages, RestoreSnapshot(image)
      PROVE  GicInv(gic')
  BY <1>1, <1>5, LoadKeepsInv DEF RestoreSnapshot, Becomes
<1> QED
  BY <1>2, <1>3, <1>4, <1>5 DEF GicNext

\* The inductive invariant holds in every reachable state of class GicV3.
THEOREM GicInvariant == GicSpec => []GicInv(gic)
<1>1. GicInit => GicInv(gic)
  BY InitInv DEF GicInit
<1>2. GicInv(gic) /\ [GicNext]_gic => GicInv(gic)'
  BY NextKeepsInv
<1> QED
  BY <1>1, <1>2, PTL DEF GicSpec

(* Whatever the guest, the devices and the CPUs do, the state of class     *)
(* GicV3 stays well typed.                                                 *)
THEOREM GicTypeCorrect == GicSpec => []GicTypeOK
<1>1. GicInv(gic) => GicTypeOK
  BY DEF GicInv, GicTypeOK
<1> QED
  BY <1>1, GicInvariant, PTL

(* has_pending may trust its cache: with any number of CPUs, interrupts    *)
(* and priorities, an answer whose epoch is current is the answer of a     *)
(* full scan.                                                              *)
THEOREM CachedAnswerCorrect == GicSpec => []CachedAnswerIsScanAnswer
<1>1. GicInv(gic) => CachedAnswerIsScanAnswer
  BY DEF GicInv, CachesTrue, CachedAnswerIsScanAnswer
<1> QED
  BY <1>1, GicInvariant, PTL
=============================================================================
