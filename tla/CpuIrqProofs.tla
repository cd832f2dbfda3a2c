---------------------------- MODULE CpuIrqProofs ----------------------------
(***************************************************************************)
(* Proofs about the cores' side of interrupt delivery, for any number of   *)
(* cores, interrupts, lines, priorities and nested handlers and any guest: *)
(* a core that does not look at the controller because it remembers a      *)
(* negative answer misses nothing; a line that is asserted is served, and  *)
(* by one core at a time; and a core's two stacks keep the priorities that *)
(* its handlers interrupted.                                               *)
(*                                                                         *)
(* The answer is remembered with the epoch it was given at.  It is made    *)
(* from a scan, or from the controller's own cache (has_pending), so the   *)
(* invariant of GicV3Proofs is part of this one; and whatever any core or  *)
(* device does to the controller moves the epoch or leaves alone what the  *)
(* answer depends on.                                                      *)
(*                                                                         *)
(* For the handling, one part says what each step does to the controller's *)
(* bits, the history of acknowledgements and the stacks of a core; the     *)
(* next keeps the invariants of the lines through these effects, the last  *)
(* that of the stacks.                                                     *)
(***************************************************************************)
EXTENDS CpuIrq, GicV3Proofs, SequenceTheorems

\* The controller goes from g to h, keeping its invariant.
Moves(g, h) ==
  /\ GicInv(h)
  /\ h.epoch >= g.epoch
  /\ h.epoch = g.epoch => /\ h.pending = g.pending
                          /\ h.enabled = g.enabled
                          /\ h.priorities = g.priorities

\* The stacks fit into their arrays.
Room(c) == Len(c.exc) <= MaxExcDepth /\ Len(c.manual) <= MaxExcDepth

GoodCore(c) == c \in Core /\ Room(c) /\ c.threshold = Lesser(c.pmr, c.running)

\* The answer that core p, in state c, remembers is true as long as the epoch
\* stands, and was not given at a later epoch.
TrueQuery(g, p, c) ==
  c.query.valid => /\ c.query.epoch <= g.epoch
                   /\ c.query.epoch = g.epoch => Candidates(g, p, c.query.threshold) = {}

CpuInv ==
  /\ setup \in Setups
  /\ GicInv(gic)
  /\ core \in [Cpus -> Core]
  /\ \A p \in Cpus : GoodCore(core[p]) /\ TrueQuery(gic, p, core[p])

-----------------------------------------------------------------------------
(* The controller                                                          *)

\* A quiet change is a move.
LEMMA QuietMoves ==
  ASSUME NEW g, NEW h, GicInv(g), Quiet(g, h)
  PROVE  Moves(g, h)
BY QuietKeepsInv DEF Moves, Quiet

\* Nothing is a move.
LEMMA MovesReflexive ==
  ASSUME NEW g, GicInv(g)
  PROVE  Moves(g, g)
BY DEF Moves, GicInv, Gic

\* Two moves are one.
LEMMA MovesTransitive ==
  ASSUME NEW f, NEW g, NEW h, GicInv(f), Moves(f, g), Moves(g, h)
  PROVE  Moves(f, h)
<1>1. f.epoch \in Nat /\ g.epoch \in Nat /\ h.epoch \in Nat
  BY DEF Moves, GicInv, Gic
<1> QED
  BY <1>1 DEF Moves

\* has_pending changes the cache only.
LEMMA QueryMoves ==
  ASSUME NEW g, GicInv(g), NEW p \in Cpus, NEW pmr \in Prio
  PROVE  Moves(g, AfterHasPending(g, p, pmr))
<1>1. g \in Gic
  BY DEF GicInv
<1>2. GicInv(AfterHasPending(g, p, pmr))
  BY QueryKeepsInv
<1>3. /\ AfterHasPending(g, p, pmr).epoch = g.epoch
      /\ AfterHasPending(g, p, pmr).pending = g.pending
      /\ AfterHasPending(g, p, pmr).enabled = g.enabled
      /\ AfterHasPending(g, p, pmr).priorities = g.priorities
  BY <1>1 DEF AfterHasPending, Gic
<1>4. g.epoch \in Nat
  BY <1>1 DEF Gic
<1> QED
  BY <1>2, <1>3, <1>4 DEF Moves

\* A negative answer of has_pending, cached or not, is true.
LEMMA HasPendingTrue ==
  ASSUME NEW g, GicInv(g), NEW p \in Cpus, NEW pmr \in Prio, ~HasPending(g, p, pmr)
  PROVE  Candidates(g, p, pmr) = {}
<1>1. g \in Gic
  BY DEF GicInv
<1>2. CASE CacheHit(g, p, pmr)
  BY <1>2 DEF HasPending, GicInv, CachesTrue
<1>3. CASE ~CacheHit(g, p, pmr)
  BY <1>1, <1>3, HighestPendingFinds DEF HasPending
<1> QED
  BY <1>2, <1>3

\* A scan that finds nothing says the same.
LEMMA NotDeliverable ==
  ASSUME NEW g, GicInv(g), NEW p \in Cpus, NEW c \in Core, ~Deliverable(g, p, c)
  PROVE  Candidates(g, p, c.threshold) = {}
<1>1. g \in Gic /\ c.threshold \in Prio
  BY DEF GicInv, Core
<1> QED
  BY <1>1, HighestPendingFinds DEF Deliverable

\* Priorities are priorities.
LEMMA PriorityType ==
  ASSUME NEW g, GicInv(g), NEW p \in Cpus, NEW intid
  PROVE  Priority(g, p, intid) \in Prio
BY SlotOfType, GicAssumption DEF Priority, GicInv, Gic

\* A move of the controller leaves remembered answers true.
LEMMA MoveKeepsQuery ==
  ASSUME NEW g, NEW h, GicInv(g), Moves(g, h), NEW p \in Cpus, NEW c \in Core,
         TrueQuery(g, p, c)
  PROVE  TrueQuery(h, p, c)
<1>1. g.epoch \in Nat /\ h.epoch \in Nat /\ c.query.epoch \in Nat
  BY DEF Moves, GicInv, Gic, Core, Query
<1>2. h.epoch >= g.epoch
  BY DEF Moves
<1>3. h.epoch = g.epoch => Candidates(h, p, c.query.threshold) = Candidates(g, p, c.query.threshold)
  BY CandidatesDepend DEF Moves
<1> QED
  BY <1>1, <1>2, <1>3 DEF TrueQuery

-----------------------------------------------------------------------------
(* A core                                                                  *)

\* d is c but for its flags.
Kept(c, d) ==
  /\ d \in Core
  /\ d.pmr = c.pmr /\ d.running = c.running /\ d.threshold = c.threshold
  /\ d.query = c.query /\ d.exc = c.exc /\ d.manual = c.manual

\* The flags of a core.
LEMMA KeptFlags ==
  ASSUME NEW c \in Core, NEW b \in BOOLEAN
  PROVE  /\ Kept(c, c)
         /\ Kept(c, [c EXCEPT !.masked = b])
         /\ Kept(c, [c EXCEPT !.igrpen1 = b])
         /\ Kept(c, [c EXCEPT !.drop_only = b])
         /\ Kept(c, [c EXCEPT !.wfi = b])
         /\ Kept(c, [c EXCEPT !.wfe = b])
         /\ Kept(c, [c EXCEPT !.event = b])
BY DEF Kept, Core

\* Stopping a core.
LEMMA KeptHalted ==
  ASSUME NEW c \in Core, NEW h \in {"no", "last", "yes"}
  PROVE  Kept(c, [c EXCEPT !.halted = h])
BY DEF Kept, Core

\* Flags matter to neither part of the invariant.
LEMMA KeptGood ==
  ASSUME NEW c, GoodCore(c), NEW d, Kept(c, d)
  PROVE  GoodCore(d) /\ \A g : \A p \in Cpus : TrueQuery(g, p, c) => TrueQuery(g, p, d)
BY DEF GoodCore, Kept, Room, TrueQuery

\* refresh_irq_threshold_cache makes the threshold current.
LEMMA RefreshGood ==
  ASSUME NEW c \in Core, Room(c)
  PROVE  GoodCore(Refresh(c)) /\ Refresh(c).query = c.query
<1> DEFINE t == Lesser(c.pmr, c.running)
           d == [c EXCEPT !.threshold = t]
<1>1. c.pmr \in Prio /\ c.running \in RunPrio
  BY DEF Core
<1>2. t \in Prio
  BY <1>1, GicAssumption DEF Lesser, Prio, RunPrio, IdlePrio
<1>3. Refresh(c) = d
  BY DEF Refresh
<1> HIDE DEF t
<1>4. /\ d \in Core /\ d.threshold = t /\ d.pmr = c.pmr /\ d.running = c.running
      /\ d.exc = c.exc /\ d.manual = c.manual /\ d.query = c.query
  BY <1>2 DEF Core
<1> HIDE DEF d
<1> QED
  BY <1>3, <1>4 DEF GoodCore, Room, t

\* So does every change of the running priority.
LEMMA RunAtGood ==
  ASSUME NEW c \in Core, Room(c), NEW prio \in RunPrio
  PROVE  GoodCore(RunAt(c, prio)) /\ RunAt(c, prio).query = c.query
<1> DEFINE d == [c EXCEPT !.running = prio]
<1>1. d \in Core /\ d.exc = c.exc /\ d.manual = c.manual /\ d.query = c.query
  BY DEF Core
<1>2. RunAt(c, prio) = Refresh(d)
  BY DEF RunAt
<1> HIDE DEF d
<1> QED
  BY <1>1, <1>2, RefreshGood DEF Room

\* note_irq_query_negative, after an answer that was true.
LEMMA NoteGood ==
  ASSUME NEW g, GicInv(g), NEW p \in Cpus, NEW c, GoodCore(c),
         Candidates(g, p, c.threshold) = {}
  PROVE  GoodCore(NoteNegative(g, c)) /\ TrueQuery(g, p, NoteNegative(g, c))
<1> DEFINE q == [valid |-> TRUE, epoch |-> g.epoch, threshold |-> c.threshold]
           d == [c EXCEPT !.query = q]
<1>1. c \in Core /\ g.epoch \in Nat /\ c.threshold \in Prio
  BY DEF GoodCore, Core, GicInv, Gic
<1>2. q \in Query /\ q.epoch = g.epoch /\ q.threshold = c.threshold
  BY <1>1 DEF Query
<1>3. NoteNegative(g, c) = d
  BY DEF NoteNegative
<1> HIDE DEF q
<1>4. /\ d \in Core /\ d.threshold = c.threshold /\ d.pmr = c.pmr /\ d.running = c.running
      /\ d.exc = c.exc /\ d.manual = c.manual /\ d.query = q
  BY <1>1, <1>2 DEF Core
<1> HIDE DEF d
<1>5. GoodCore(d)
  BY <1>4 DEF GoodCore, Room
<1>6. TrueQuery(g, p, d)
  BY <1>1, <1>2, <1>4 DEF TrueQuery
<1> QED
  BY <1>3, <1>5, <1>6

\* Forgetting the answer.
LEMMA ForgetGood ==
  ASSUME NEW c, GoodCore(c)
  PROVE  /\ GoodCore(ForgetNegative(c))
         /\ ForgetNegative(c).exc = c.exc /\ ForgetNegative(c).manual = c.manual
         /\ ~ForgetNegative(c).query.valid
<1> DEFINE d == [c EXCEPT !.query = NoQuery]
<1>1. c \in Core
  BY DEF GoodCore
<1>2. NoQuery \in Query /\ ~NoQuery.valid
  BY GicAssumption DEF NoQuery, Query, Prio
<1>3. ForgetNegative(c) = d
  BY DEF ForgetNegative
<1>4. /\ d \in Core /\ d.threshold = c.threshold /\ d.pmr = c.pmr /\ d.running = c.running
      /\ d.exc = c.exc /\ d.manual = c.manual /\ d.query = NoQuery
  BY <1>1, <1>2 DEF Core
<1> HIDE DEF d
<1> QED
  BY <1>2, <1>3, <1>4 DEF GoodCore, Room

\* A core that remembers nothing remembers nothing wrong.
LEMMA NoQueryTrue ==
  ASSUME NEW c, ~c.query.valid
  PROVE  \A g : \A p \in Cpus : TrueQuery(g, p, c)
BY DEF TrueQuery

-----------------------------------------------------------------------------
(* The two stacks                                                          *)

\* Entry to an exception: a frame is pushed and interrupts are masked.
Entered(c, f) == [c EXCEPT !.exc = Append(@, f), !.masked = TRUE]

\* A frame is pushed when there is room for it.
LEMMA EnteredFits ==
  ASSUME NEW c \in Core, Room(c), Len(c.exc) < MaxExcDepth, NEW f \in Frame
  PROVE  /\ Entered(c, f) \in Core /\ Room(Entered(c, f))
         /\ Entered(c, f).query = c.query /\ Entered(c, f).threshold = c.threshold
         /\ Entered(c, f).pmr = c.pmr /\ Entered(c, f).running = c.running
<1> DEFINE s == Append(c.exc, f)
           d == [c EXCEPT !.exc = s, !.masked = TRUE]
<1>1. c.exc \in Seq(Frame) /\ Len(c.exc) \in Nat
  BY DEF Core
<1>2. s \in Seq(Frame) /\ Len(s) = Len(c.exc) + 1
  BY <1>1, AppendProperties
<1>3. Entered(c, f) = d
  BY DEF Entered
<1> HIDE DEF s
<1>4. /\ d \in Core /\ d.exc = s /\ d.manual = c.manual /\ d.query = c.query
      /\ d.threshold = c.threshold /\ d.pmr = c.pmr /\ d.running = c.running
  BY <1>2 DEF Core
<1> HIDE DEF d
<1> QED
  BY <1>1, <1>2, <1>3, <1>4, CpuAssumption DEF Room

\* A manual acknowledgement is pushed when there is room for it.
LEMMA PushFits ==
  ASSUME NEW c \in Core, Room(c), Len(c.manual) < MaxExcDepth, NEW f \in ManualFrame
  PROVE  /\ [c EXCEPT !.manual = Append(@, f)] \in Core
         /\ Room([c EXCEPT !.manual = Append(@, f)])
         /\ [c EXCEPT !.manual = Append(@, f)].query = c.query
<1> DEFINE s == Append(c.manual, f)
           d == [c EXCEPT !.manual = s]
<1>1. c.manual \in Seq(ManualFrame) /\ Len(c.manual) \in Nat
  BY DEF Core
<1>2. s \in Seq(ManualFrame) /\ Len(s) = Len(c.manual) + 1
  BY <1>1, AppendProperties
<1> HIDE DEF s
<1>3. /\ d \in Core /\ d.exc = c.exc /\ d.manual = s /\ d.query = c.query
  BY <1>2 DEF Core
<1> HIDE DEF d
<1>4. Room(d)
  BY <1>1, <1>2, <1>3, CpuAssumption DEF Room
<1> QED
  BY <1>3, <1>4 DEF d, s

\* What a stack holds on top, and without it.
LEMMA StackTop ==
  ASSUME NEW S, NEW s \in Seq(S), s # <<>>
  PROVE  /\ Top(s) \in S
         /\ Pop(s) \in Seq(S) /\ Len(Pop(s)) <= Len(s)
         /\ Len(s) \in 1 .. Len(s)
<1>1. Len(s) \in Nat /\ Len(s) > 0
  BY EmptySeq
<1>2. s[Len(s)] \in S
  BY <1>1, ElementOfSeq
<1>3. SubSeq(s, 1, Len(s) - 1) \in Seq(S) /\ Len(SubSeq(s, 1, Len(s) - 1)) <= Len(s)
  BY <1>1
<1> QED
  BY <1>1, <1>2, <1>3 DEF Top, Pop

\* The top exception frame is popped.
LEMMA PopExcFits ==
  ASSUME NEW c \in Core, Room(c), c.exc # <<>>
  PROVE  /\ [c EXCEPT !.exc = Pop(@)] \in Core /\ Room([c EXCEPT !.exc = Pop(@)])
         /\ [c EXCEPT !.exc = Pop(@)].query = c.query
         /\ [c EXCEPT !.exc = Pop(@)].threshold = c.threshold
         /\ [c EXCEPT !.exc = Pop(@)].pmr = c.pmr
         /\ [c EXCEPT !.exc = Pop(@)].running = c.running
<1> DEFINE s == Pop(c.exc)
           d == [c EXCEPT !.exc = s]
<1>1. c.exc \in Seq(Frame) /\ Len(c.exc) \in Nat
  BY DEF Core
<1>2. s \in Seq(Frame) /\ Len(s) <= Len(c.exc) /\ Len(s) \in Nat
  BY <1>1, StackTop
<1> HIDE DEF s
<1>3. /\ d \in Core /\ d.exc = s /\ d.manual = c.manual /\ d.query = c.query
      /\ d.threshold = c.threshold /\ d.pmr = c.pmr /\ d.running = c.running
  BY <1>2 DEF Core
<1> HIDE DEF d
<1>4. Room(d)
  BY <1>1, <1>2, <1>3, CpuAssumption DEF Room
<1> QED
  BY <1>3, <1>4 DEF d, s

\* The manual stack becomes one that is not longer.
LEMMA ManualFits ==
  ASSUME NEW c \in Core, Room(c), NEW s \in Seq(ManualFrame), Len(s) <= Len(c.manual)
  PROVE  /\ [c EXCEPT !.manual = s] \in Core /\ Room([c EXCEPT !.manual = s])
         /\ [c EXCEPT !.manual = s].query = c.query
         /\ [c EXCEPT !.manual = s].threshold = c.threshold
         /\ [c EXCEPT !.manual = s].pmr = c.pmr
         /\ [c EXCEPT !.manual = s].running = c.running
<1> DEFINE d == [c EXCEPT !.manual = s]
<1>1. Len(c.manual) \in Nat /\ Len(s) \in Nat
  BY DEF Core
<1>2. /\ d \in Core /\ d.exc = c.exc /\ d.manual = s /\ d.query = c.query
      /\ d.threshold = c.threshold /\ d.pmr = c.pmr /\ d.running = c.running
  BY DEF Core
<1> HIDE DEF d
<1>3. Room(d)
  BY <1>1, <1>2, CpuAssumption DEF Room
<1> QED
  BY <1>2, <1>3 DEF d

\* The top frame of either stack is marked as dropped.
LEMMA DroppedManual ==
  ASSUME NEW s \in Seq(ManualFrame), s # <<>>
  PROVE  /\ [s EXCEPT ![Len(s)].dropped = TRUE] \in Seq(ManualFrame)
         /\ Len([s EXCEPT ![Len(s)].dropped = TRUE]) = Len(s)
<1> DEFINE f == [s[Len(s)] EXCEPT !.dropped = TRUE]
<1>1. s[Len(s)] \in ManualFrame /\ Len(s) \in 1 .. Len(s)
  BY StackTop DEF Top
<1>2. f \in ManualFrame
  BY <1>1 DEF ManualFrame
<1> HIDE DEF f
<1>3. [s EXCEPT ![Len(s)] = f] \in Seq(ManualFrame) /\ Len([s EXCEPT ![Len(s)] = f]) = Len(s)
  BY <1>1, <1>2, ExceptSeq
<1> QED
  BY <1>3 DEF f

\* The same for the exception stack.
LEMMA DroppedExc ==
  ASSUME NEW c \in Core, Room(c), c.exc # <<>>
  PROVE  /\ [c EXCEPT !.exc[Len(c.exc)].dropped = TRUE] \in Core
         /\ Room([c EXCEPT !.exc[Len(c.exc)].dropped = TRUE])
         /\ [c EXCEPT !.exc[Len(c.exc)].dropped = TRUE].query = c.query
<1> DEFINE n == Len(c.exc)
           f == [c.exc[n] EXCEPT !.dropped = TRUE]
           s == [c.exc EXCEPT ![n] = f]
           d == [c EXCEPT !.exc = s]
<1>1. c.exc \in Seq(Frame) /\ n \in Nat
  BY DEF Core
<1>2. c.exc[n] \in Frame /\ n \in 1 .. n
  BY <1>1, StackTop DEF Top
<1>3. f \in Frame
  BY <1>2 DEF Frame
<1> HIDE DEF f
<1>4. s \in Seq(Frame) /\ Len(s) = n
  BY <1>1, <1>2, <1>3, ExceptSeq
<1> HIDE DEF s
<1>5. /\ d \in Core /\ d.exc = s /\ d.manual = c.manual /\ d.query = c.query
  BY <1>4 DEF Core
<1>6. [c EXCEPT !.exc[n].dropped = TRUE] = d
  BY DEF d, s, f
<1> HIDE DEF d
<1>7. Room(d)
  BY <1>4, <1>5 DEF Room
<1> QED
  BY <1>5, <1>6, <1>7

-----------------------------------------------------------------------------
(* Steps                                                                   *)

\* The invariant after a step in which every core is well and remembers the truth.
LEMMA AllKeep ==
  ASSUME CpuInv, UNCHANGED setup, GicInv(gic'), core' \in [Cpus -> Core],
         \A q \in Cpus : GoodCore(core'[q]) /\ TrueQuery(gic', q, core'[q])
  PROVE  CpuInv'
BY DEF CpuInv, TrueQuery, GoodCore, Room, Core, GicInv, CachesNotAhead, CachesTrue, CacheHit, Candidates

\* A step of one core, which may move the controller.
LEMMA OneKeeps ==
  ASSUME CpuInv, UNCHANGED setup, NEW p \in Cpus, NEW c, Moves(gic, gic'),
         core' = [core EXCEPT ![p] = c], GoodCore(c), TrueQuery(gic', p, c)
  PROVE  CpuInv'
<1>1. c \in Core /\ core \in [Cpus -> Core] /\ GicInv(gic) /\ GicInv(gic')
  BY DEF CpuInv, GoodCore, Moves
<1>2. core' \in [Cpus -> Core]
  BY <1>1
<1>3. ASSUME NEW q \in Cpus
      PROVE  GoodCore(core'[q]) /\ TrueQuery(gic', q, core'[q])
  <2>1. CASE q = p
    <3>1. core'[q] = c
      BY <1>1, <2>1
    <3> QED
      BY <2>1, <3>1
  <2>2. CASE q # p
    <3>1. core'[q] = core[q] /\ core[q] \in Core
      BY <1>1, <2>2
    <3>2. GoodCore(core[q]) /\ TrueQuery(gic, q, core[q])
      BY DEF CpuInv
    <3>3. TrueQuery(gic', q, core[q])
      BY <1>1, <3>1, <3>2, MoveKeepsQuery
    <3> QED
      BY <3>1, <3>2, <3>3
  <2> QED
    BY <2>1, <2>2
<1> QED
  BY <1>1, <1>2, <1>3, AllKeep

\* A step of one core that does not touch the controller.
LEMMA CoreKeeps ==
  ASSUME CpuInv, UNCHANGED <<setup, gic>>, NEW p \in Cpus, NEW c,
         core' = [core EXCEPT ![p] = c], GoodCore(c), TrueQuery(gic, p, c)
  PROVE  CpuInv'
<1>1. GicInv(gic)
  BY DEF CpuInv
<1>2. Moves(gic, gic')
  BY <1>1, MovesReflexive
<1>3. TrueQuery(gic', p, c)
  OBVIOUS
<1> QED
  BY <1>2, <1>3, OneKeeps

\* The controller changes, and no core.
LEMMA GicKeeps ==
  ASSUME CpuInv, UNCHANGED <<setup, core>>, Moves(gic, gic')
  PROVE  CpuInv'
<1>1. core \in [Cpus -> Core] /\ GicInv(gic) /\ GicInv(gic')
  BY DEF CpuInv, Moves
<1>2. ASSUME NEW q \in Cpus
      PROVE  GoodCore(core[q]) /\ TrueQuery(gic', q, core[q])
  <2>1. GoodCore(core[q]) /\ TrueQuery(gic, q, core[q]) /\ core[q] \in Core
    BY <1>1 DEF CpuInv
  <2> QED
    BY <1>1, <2>1, MoveKeepsQuery
<1> QED
  BY <1>1, <1>2, AllKeep

\* The core of an executing step after its fruitless look at the controller.
LEMMA FetchedGood ==
  ASSUME CpuInv, NEW p \in Cpus, Executing(p)
  PROVE  GoodCore(Fetched(p)) /\ TrueQuery(gic, p, Fetched(p)) /\ Fetched(p) \in Core
<1> DEFINE c == core[p]
<1>1. GoodCore(c) /\ TrueQuery(gic, p, c) /\ c \in Core /\ GicInv(gic)
  BY DEF CpuInv, GoodCore
<1>2. CASE c.halted = "last"
  <2>1. Fetched(p) = [c EXCEPT !.halted = "yes"]
    BY <1>2 DEF Fetched
  <2>2. Kept(c, [c EXCEPT !.halted = "yes"])
    BY <1>1, KeptHalted
  <2> HIDE DEF c
  <2>3. GoodCore(Fetched(p)) /\ TrueQuery(gic, p, Fetched(p))
    BY <1>1, <2>1, <2>2, KeptGood
  <2> QED
    BY <2>3 DEF GoodCore
<1>3. CASE c.halted # "last" /\ ShouldTryIrq(gic, c)
  <2>1. Fetched(p) = NoteNegative(gic, c)
    BY <1>3 DEF Fetched
  <2>2. ~Deliverable(gic, p, c)
    BY <1>3 DEF Executing
  <2>3. Candidates(gic, p, c.threshold) = {}
    BY <1>1, <2>2, NotDeliverable
  <2> HIDE DEF c
  <2>4. GoodCore(Fetched(p)) /\ TrueQuery(gic, p, Fetched(p))
    BY <1>1, <2>1, <2>3, NoteGood
  <2> QED
    BY <2>4 DEF GoodCore
<1>4. CASE c.halted # "last" /\ ~ShouldTryIrq(gic, c)
  <2>1. Fetched(p) = c
    BY <1>4 DEF Fetched
  <2> QED
    BY <1>1, <2>1
<1> QED
  BY <1>2, <1>3, <1>4

\* An instruction that changes flags of its core only, and may move the
\* controller.
LEMMA FlagsKeep ==
  ASSUME CpuInv, UNCHANGED setup, NEW p \in Cpus, Executing(p), Moves(gic, gic'),
         NEW d, Kept(Fetched(p), d), core' = [core EXCEPT ![p] = d]
  PROVE  CpuInv'
<1>1. GoodCore(Fetched(p)) /\ TrueQuery(gic, p, Fetched(p))
  BY FetchedGood
<1>2. GoodCore(d) /\ TrueQuery(gic, p, d)
  BY <1>1, KeptGood
<1>3. TrueQuery(gic', p, d)
  BY <1>2, MoveKeepsQuery DEF CpuInv, GoodCore
<1> QED
  BY <1>2, <1>3, OneKeeps

\* try_take_irq: the core forgets its answer and enters the handler, or stops.
LEMMA TakeIrqKeeps ==
  ASSUME CpuInv, UNCHANGED setup, NEW p \in Cpus, NEW g, Moves(gic, g),
         NEW c, GoodCore(c), NEW stuck, GoodCore(stuck), TakeIrq(p, g, c, stuck)
  PROVE  CpuInv'
<1> DEFINE intid == HighestPending(g, p, c.threshold)
           frame == [is_irq |-> TRUE, intid |-> intid, prev_prio |-> c.running, dropped |-> FALSE]
           prio  == Priority(g, p, intid)
           e     == ForgetNegative(c)
<1>1. GicInv(g) /\ GicInv(gic) /\ g \in Gic /\ c \in Core
  BY DEF Moves, GicInv, CpuInv, GoodCore
<1>2. c.threshold \in Prio /\ c.running \in RunPrio
  BY <1>1 DEF Core
<1>3. Moves(gic, gic')
  <2>1. Moves(g, AfterAcknowledge(g, p, c.threshold))
    BY <1>1, <1>2, AcknowledgeQuiet, QuietMoves
  <2>2. gic' = AfterAcknowledge(g, p, c.threshold)
    BY DEF TakeIrq, Becomes
  <2> QED
    BY <1>1, <2>1, <2>2, MovesTransitive
<1>4. CASE Len(c.exc) < MaxExcDepth
  <2>1. intid \in IntIds
    BY <1>1, <1>2, HighestPendingFinds DEF TakeIrq, Deliverable
  <2>2. frame \in Frame
    BY <1>2, <2>1, GicAssumption DEF Frame, IntIds
  <2>3. prio \in RunPrio
    BY <1>1, PriorityType, GicAssumption DEF Prio, RunPrio, IdlePrio
  <2>4. core' = [core EXCEPT ![p] = RunAt(Entered(e, frame), prio)]
    BY <1>4 DEF TakeIrq, EnterIrq, Entered
  <2> HIDE DEF frame, prio
  <2>5. e \in Core /\ Room(e) /\ e.exc = c.exc /\ ~e.query.valid
    BY ForgetGood DEF GoodCore
  <2> HIDE DEF e
  <2>6. Entered(e, frame) \in Core /\ Room(Entered(e, frame)) /\ ~Entered(e, frame).query.valid
    BY <1>4, <2>2, <2>5, EnteredFits
  <2>7. GoodCore(RunAt(Entered(e, frame), prio)) /\ ~RunAt(Entered(e, frame), prio).query.valid
    BY <2>3, <2>6, RunAtGood
  <2>8. TrueQuery(gic', p, RunAt(Entered(e, frame), prio))
    BY <2>7, NoQueryTrue
  <2> QED
    BY <1>3, <2>4, <2>7, <2>8, OneKeeps
<1>5. CASE ~(Len(c.exc) < MaxExcDepth)
  <2>1. core' = [core EXCEPT ![p] = ForgetNegative(stuck)]
    BY <1>5 DEF TakeIrq
  <2>2. GoodCore(ForgetNegative(stuck)) /\ TrueQuery(gic', p, ForgetNegative(stuck))
    BY ForgetGood, NoQueryTrue
  <2> QED
    BY <1>3, <2>1, <2>2, OneKeeps
<1> QED
  BY <1>4, <1>5

\* The core that step() finds.
LEMMA CoreGood ==
  ASSUME CpuInv, NEW p \in Cpus
  PROVE  /\ GoodCore(core[p]) /\ TrueQuery(gic, p, core[p]) /\ core[p] \in Core
         /\ core[p].threshold \in Prio /\ GicInv(gic)
BY DEF CpuInv, GoodCore, Core

\* An IRQ in front of an instruction.
LEMMA IrqStepKeeps ==
  ASSUME CpuInv, UNCHANGED setup, NEW p \in Cpus, IrqStep(p)
  PROVE  CpuInv'
<1>1. GoodCore(core[p]) /\ core[p] \in Core /\ GicInv(gic)
  BY CoreGood
<1>2. GoodCore([core[p] EXCEPT !.halted = "last"])
  BY <1>1, KeptHalted, KeptGood
<1> QED
  BY <1>1, <1>2, MovesReflexive, TakeIrqKeeps DEF IrqStep

\* A step of a core in WFI.
LEMMA WfiStepKeeps ==
  ASSUME CpuInv, UNCHANGED setup, NEW p \in Cpus, WfiStep(p)
  PROVE  CpuInv'
<1> DEFINE c     == core[p]
           g     == AfterHasPending(gic, p, MaxPrio)
           awake == [c EXCEPT !.wfi = FALSE]
           tried == IF ShouldTryIrq(g, awake) THEN NoteNegative(g, awake) ELSE awake
<1>1. GoodCore(c) /\ TrueQuery(gic, p, c) /\ c \in Core /\ GicInv(gic)
  BY CoreGood
<1>2. Moves(gic, g) /\ GicInv(g)
  <2>1. MaxPrio \in Prio
    BY GicAssumption DEF Prio
  <2> QED
    BY <1>1, <2>1, QueryMoves DEF Moves
<1>3. GoodCore(awake) /\ TrueQuery(gic, p, awake) /\ awake \in Core
  <2>1. Kept(c, awake)
    BY <1>1, KeptFlags
  <2> HIDE DEF c, awake
  <2> QED
    BY <1>1, <2>1, KeptGood DEF GoodCore
<1>4. CASE Becomes(g) /\ UNCHANGED core
  BY <1>2, <1>4, GicKeeps DEF Becomes
<1>5. CASE TakeIrq(p, g, awake, [awake EXCEPT !.halted = "yes"])
  <2>1. GoodCore([awake EXCEPT !.halted = "yes"])
    <3> HIDE DEF awake
    <3> QED
      BY <1>3, KeptHalted, KeptGood
  <2> HIDE DEF g, awake
  <2> QED
    BY <1>2, <1>3, <1>5, <2>1, TakeIrqKeeps
<1>6. CASE /\ ~(ShouldTryIrq(g, awake) /\ Deliverable(g, p, awake))
           /\ Becomes(g) /\ core' = [core EXCEPT ![p] = tried]
  <2>1. gic' = g
    BY <1>6 DEF Becomes
  <2> HIDE DEF g, awake
  <2>2. GoodCore(tried) /\ TrueQuery(g, p, tried)
    <3>1. CASE ShouldTryIrq(g, awake)
      <4>1. Candidates(g, p, awake.threshold) = {}
        BY <1>2, <1>3, <1>6, <3>1, NotDeliverable
      <4> QED
        BY <1>2, <1>3, <3>1, <4>1, NoteGood
    <3>2. CASE ~ShouldTryIrq(g, awake)
      BY <1>1, <1>2, <1>3, <3>2, MoveKeepsQuery
    <3> QED
      BY <3>1, <3>2
  <2> HIDE DEF tried
  <2> QED
    BY <1>2, <1>6, <2>1, <2>2, OneKeeps
<1> QED
  BY <1>4, <1>5, <1>6 DEF WfiStep

\* irq_wakeup_ready moves the controller and remembers a true answer.
LEMMA WakeupReadyGood ==
  ASSUME CpuInv, NEW p \in Cpus
  PROVE  /\ Moves(gic, GicAfterIrqWakeupReady(gic, p, core[p]))
         /\ GoodCore(AfterIrqWakeupReady(gic, p, core[p]))
         /\ TrueQuery(GicAfterIrqWakeupReady(gic, p, core[p]), p,
                      AfterIrqWakeupReady(gic, p, core[p]))
<1> DEFINE c == core[p]
           g == GicAfterIrqWakeupReady(gic, p, c)
           d == AfterIrqWakeupReady(gic, p, c)
<1>1. GoodCore(c) /\ TrueQuery(gic, p, c) /\ c \in Core /\ c.threshold \in Prio /\ GicInv(gic)
  BY CoreGood
<1> HIDE DEF c
<1>2. Moves(gic, g)
  BY <1>1, QueryMoves, MovesReflexive DEF GicAfterIrqWakeupReady
<1>3. GoodCore(d) /\ TrueQuery(gic, p, d)
  <2>1. CASE ShouldTryIrq(gic, c) /\ ~HasPending(gic, p, c.threshold)
    <3>1. Candidates(gic, p, c.threshold) = {}
      BY <1>1, <2>1, HasPendingTrue
    <3> QED
      BY <1>1, <2>1, <3>1, NoteGood DEF AfterIrqWakeupReady
  <2>2. CASE ~(ShouldTryIrq(gic, c) /\ ~HasPending(gic, p, c.threshold))
    BY <1>1, <2>2 DEF AfterIrqWakeupReady
  <2> QED
    BY <2>1, <2>2
<1> HIDE DEF g, d
<1>4. TrueQuery(g, p, d)
  BY <1>1, <1>2, <1>3, MoveKeepsQuery DEF GoodCore
<1> QED
  BY <1>2, <1>3, <1>4 DEF c, g, d

\* A step of a core in WFE.
LEMMA WfeStepKeeps ==
  ASSUME CpuInv, UNCHANGED setup, NEW p \in Cpus, WfeStep(p)
  PROVE  CpuInv'
<1> DEFINE c == core[p]
           g == GicAfterIrqWakeupReady(gic, p, c)
           d == AfterIrqWakeupReady(gic, p, c)
<1>1. GoodCore(c) /\ TrueQuery(gic, p, c) /\ c \in Core /\ GicInv(gic)
  BY CoreGood
<1>2. Moves(gic, g) /\ GoodCore(d) /\ TrueQuery(g, p, d)
  BY WakeupReadyGood
<1>3. CASE core' = [core EXCEPT ![p].event = FALSE, ![p].wfe = FALSE] /\ UNCHANGED gic
  <2> DEFINE e == [c EXCEPT !.event = FALSE]
             f == [e EXCEPT !.wfe = FALSE]
  <2>1. Kept(c, e)
    BY <1>1, KeptFlags
  <2>2. Kept(e, f)
    BY <2>1, KeptFlags DEF Kept
  <2>3. core' = [core EXCEPT ![p] = f]
    BY <1>1, <1>3 DEF CpuInv
  <2> HIDE DEF c, e, f
  <2>4. GoodCore(e) /\ TrueQuery(gic, p, e)
    BY <1>1, <2>1, KeptGood
  <2>5. GoodCore(f) /\ TrueQuery(gic, p, f)
    BY <2>2, <2>4, KeptGood
  <2> QED
    BY <1>3, <2>3, <2>5, CoreKeeps
<1>4. CASE Becomes(g) /\ core' = [core EXCEPT ![p] = d]
  <2> HIDE DEF g, d
  <2> QED
    BY <1>2, <1>4, OneKeeps DEF Becomes
<1>5. CASE TakeIrq(p, g, [c EXCEPT !.wfe = FALSE], [c EXCEPT !.halted = "yes"])
  <2> HIDE DEF c, g
  <2>1. GoodCore([c EXCEPT !.wfe = FALSE]) /\ GoodCore([c EXCEPT !.halted = "yes"])
    BY <1>1, KeptFlags, KeptHalted, KeptGood
  <2> QED
    BY <1>2, <1>5, <2>1, TakeIrqKeeps
<1> QED
  BY <1>3, <1>4, <1>5 DEF WfeStep

\* The scheduler's ready_to_run.
LEMMA ReadyToRunKeeps ==
  ASSUME CpuInv, UNCHANGED setup, NEW p \in Cpus, ReadyToRun(p)
  PROVE  CpuInv'
<1> DEFINE g == GicAfterIrqWakeupReady(gic, p, core[p])
           d == AfterIrqWakeupReady(gic, p, core[p])
<1>1. MaxPrio \in Prio /\ GicInv(gic)
  BY GicAssumption DEF Prio, CpuInv
<1>2. CASE Becomes(AfterHasPending(gic, p, MaxPrio)) /\ UNCHANGED core
  BY <1>1, <1>2, QueryMoves, GicKeeps DEF Becomes
<1>3. CASE Becomes(g) /\ core' = [core EXCEPT ![p] = d]
  <2>1. Moves(gic, g) /\ GoodCore(d) /\ TrueQuery(g, p, d)
    BY WakeupReadyGood
  <2> HIDE DEF g, d
  <2> QED
    BY <1>3, <2>1, OneKeeps DEF Becomes
<1> QED
  BY <1>2, <1>3 DEF ReadyToRun

-----------------------------------------------------------------------------
(* Instructions                                                            *)

\* An instruction that leaves its core well and its remembered answer alone,
\* and may move the controller.
LEMMA InstructionKeeps ==
  ASSUME CpuInv, UNCHANGED setup, NEW p \in Cpus, Executing(p), Moves(gic, gic'),
         NEW d, GoodCore(d), d.query = Fetched(p).query, core' = [core EXCEPT ![p] = d]
  PROVE  CpuInv'
<1>1. TrueQuery(gic, p, Fetched(p))
  BY FetchedGood
<1>2. TrueQuery(gic, p, d)
  BY <1>1 DEF TrueQuery
<1>3. TrueQuery(gic', p, d)
  BY <1>2, MoveKeepsQuery DEF CpuInv, GoodCore
<1> QED
  BY <1>3, OneKeeps

\* eoi moves the controller.
LEMMA EoiMoves ==
  ASSUME CpuInv, NEW p \in Cpus, NEW intid
  PROVE  Moves(gic, Eoi(gic, p, intid))
BY EoiQuiet, QuietMoves DEF CpuInv, GicInv

\* The instructions that write one flag of their core.
LEMMA FlagWritesKeep ==
  ASSUME CpuInv, UNCHANGED setup, NEW p \in Cpus, NEW b \in BOOLEAN,
         MsrDaif(p, b) \/ WriteIccIgrpen1(p, b) \/ WriteIccCtlr(p, b) \/ Wfi(p) \/ Wfe(p)
  PROVE  CpuInv'
<1> DEFINE c == Fetched(p)
<1>1. Executing(p) /\ UNCHANGED gic
  BY DEF MsrDaif, WriteIccIgrpen1, WriteIccCtlr, Wfi, Wfe, Execute
<1>2. c \in Core /\ Moves(gic, gic')
  BY <1>1, FetchedGood, MovesReflexive DEF CpuInv
<1>3. PICK d : d \in {[c EXCEPT !.masked = b], [c EXCEPT !.igrpen1 = b],
                      [c EXCEPT !.drop_only = b], [c EXCEPT !.wfi = TRUE],
                      [c EXCEPT !.event = FALSE], [c EXCEPT !.wfe = TRUE]}
               /\ core' = [core EXCEPT ![p] = d]
  BY DEF MsrDaif, WriteIccIgrpen1, WriteIccCtlr, Wfi, Wfe, Execute
<1> HIDE DEF c
<1>4. Kept(c, d)
  BY <1>2, <1>3, KeptFlags
<1> QED
  BY <1>1, <1>2, <1>3, <1>4, FlagsKeep DEF c

\* ICC_PMR_EL1: the threshold is refreshed.
LEMMA PmrKeeps ==
  ASSUME CpuInv, UNCHANGED setup, NEW p \in Cpus, NEW pmr \in Prio, WriteIccPmr(p, pmr)
  PROVE  CpuInv'
<1> DEFINE c == Fetched(p)
           d == [c EXCEPT !.pmr = pmr]
<1>1. Executing(p) /\ UNCHANGED gic /\ core' = [core EXCEPT ![p] = Refresh(d)]
  BY DEF WriteIccPmr, Execute
<1>2. GoodCore(c) /\ c \in Core /\ Moves(gic, gic')
  BY <1>1, FetchedGood, MovesReflexive DEF CpuInv
<1> HIDE DEF c
<1>3. d \in Core /\ d.exc = c.exc /\ d.manual = c.manual /\ d.query = c.query
  BY <1>2 DEF Core
<1> HIDE DEF d
<1>4. GoodCore(Refresh(d)) /\ Refresh(d).query = c.query
  BY <1>2, <1>3, RefreshGood DEF GoodCore, Room
<1> QED
  BY <1>1, <1>2, <1>4, InstructionKeeps DEF c

\* ICC_IAR1_EL1.
LEMMA IarKeeps ==
  ASSUME CpuInv, UNCHANGED setup, NEW p \in Cpus, ReadIccIar1(p)
  PROVE  CpuInv'
<1> DEFINE c     == Fetched(p)
           intid == HighestPending(gic, p, c.threshold)
           frame == [intid |-> intid, prev_prio |-> c.running, dropped |-> FALSE]
           e     == ForgetNegative(c)
           d     == [e EXCEPT !.manual = Append(@, frame)]
<1>1. Executing(p)
  BY DEF ReadIccIar1
<1>2. GoodCore(c) /\ TrueQuery(gic, p, c) /\ c \in Core /\ GicInv(gic) /\ gic \in Gic
  BY <1>1, FetchedGood DEF CpuInv, GicInv
<1>3. c.threshold \in Prio /\ c.running \in RunPrio
  BY <1>2 DEF Core
<1>4. CASE core' = [core EXCEPT ![p] = c] /\ UNCHANGED gic
  BY <1>2, <1>4, CoreKeeps
<1>5. CASE core' = [core EXCEPT ![p] = NoteNegative(gic, c)] /\ UNCHANGED gic /\ intid = Spurious
  <2>1. Candidates(gic, p, c.threshold) = {}
    BY <1>2, <1>3, <1>5, HighestPendingFinds
  <2>2. GoodCore(NoteNegative(gic, c)) /\ TrueQuery(gic, p, NoteNegative(gic, c))
    BY <1>2, <2>1, NoteGood
  <2> QED
    BY <1>5, <2>2, CoreKeeps
<1>6. CASE /\ IarAcknowledges(c) /\ intid # Spurious
           /\ gic' = AfterAcknowledge(gic, p, c.threshold)
           /\ core' = [core EXCEPT ![p] = RunAt(d, Priority(gic, p, intid))]
  <2>1. Moves(gic, gic')
    BY <1>2, <1>3, <1>6, AcknowledgeQuiet, QuietMoves
  <2>2. intid \in IntIds
    BY <1>2, <1>3, <1>6, HighestPendingFinds
  <2>3. frame \in ManualFrame
    BY <1>3, <2>2 DEF ManualFrame
  <2>4. Priority(gic, p, intid) \in RunPrio
    BY <1>2, PriorityType, GicAssumption DEF Prio, RunPrio, IdlePrio
  <2>5. Len(c.manual) < MaxExcDepth
    BY <1>6 DEF IarAcknowledges
  <2> HIDE DEF frame, intid
  <2>6. e \in Core /\ Room(e) /\ Len(e.manual) < MaxExcDepth /\ ~e.query.valid
    BY <1>2, <2>5, ForgetGood DEF GoodCore
  <2> HIDE DEF e
  <2>7. d \in Core /\ Room(d) /\ ~d.query.valid
    BY <2>3, <2>6, PushFits
  <2> HIDE DEF d
  <2> DEFINE r == RunAt(d, Priority(gic, p, intid))
  <2>8. GoodCore(r) /\ ~r.query.valid
    BY <2>4, <2>7, RunAtGood
  <2>9. core' = [core EXCEPT ![p] = r]
    BY <1>6
  <2> HIDE DEF r
  <2>10. TrueQuery(gic', p, r)
    BY <2>8, NoQueryTrue
  <2> QED
    BY <2>1, <2>8, <2>9, <2>10, OneKeeps
<1> QED
  BY <1>4, <1>5, <1>6 DEF ReadIccIar1, Becomes

\* ICC_EOIR1_EL1 restores the priority of the frame it ends.
LEMMA EoirKeeps ==
  ASSUME CpuInv, UNCHANGED setup, NEW p \in Cpus, NEW intid, WriteIccEoir1(p, intid)
  PROVE  CpuInv'
<1> DEFINE c     == Fetched(p)
           inIrq == InIrqFrame(c) /\ Top(c.exc).intid = intid
           inMan == ~inIrq /\ c.manual # <<>> /\ Top(c.manual).intid = intid
           man   == IF c.drop_only THEN [c.manual EXCEPT ![Len(c.manual)].dropped = TRUE]
                                   ELSE Pop(c.manual)
           ex    == [c EXCEPT !.exc[Len(c.exc)].dropped = TRUE]
           mn    == [c EXCEPT !.manual = man]
<1>1. Executing(p)
  BY DEF WriteIccEoir1
<1>2. GoodCore(c) /\ c \in Core /\ Room(c) /\ GicInv(gic)
  BY <1>1, FetchedGood DEF CpuInv, GoodCore
<1>3. Moves(gic, gic')
  <2>1. gic' = gic \/ gic' = Eoi(gic, p, intid)
    BY DEF WriteIccEoir1, Becomes
  <2> QED
    BY <1>2, <2>1, EoiMoves, MovesReflexive
<1>4. CASE inIrq
  <2>1. core' = [core EXCEPT ![p] = RunAt(ex, Top(c.exc).prev_prio)]
    BY <1>4 DEF WriteIccEoir1
  <2>2. c.exc # <<>> /\ c.exc \in Seq(Frame)
    BY <1>2, <1>4 DEF InIrqFrame, Core
  <2> HIDE DEF c
  <2>3. Top(c.exc).prev_prio \in RunPrio
    <3>1. Top(c.exc) \in Frame
      BY <2>2, StackTop
    <3> QED
      BY <3>1 DEF Frame
  <2>4. ex \in Core /\ Room(ex) /\ ex.query = c.query
    BY <1>2, <2>2, DroppedExc
  <2> HIDE DEF ex
  <2>5. GoodCore(RunAt(ex, Top(c.exc).prev_prio)) /\ RunAt(ex, Top(c.exc).prev_prio).query = c.query
    BY <2>3, <2>4, RunAtGood
  <2> QED
    BY <1>1, <1>3, <2>1, <2>5, InstructionKeeps DEF c
<1>5. CASE inMan
  <2>1. core' = [core EXCEPT ![p] = RunAt(mn, Top(c.manual).prev_prio)]
    BY <1>5 DEF WriteIccEoir1
  <2>2. c.manual # <<>> /\ c.manual \in Seq(ManualFrame)
    BY <1>2, <1>5 DEF Core
  <2> HIDE DEF c
  <2>3. Top(c.manual).prev_prio \in RunPrio
    <3>1. Top(c.manual) \in ManualFrame
      BY <2>2, StackTop
    <3> QED
      BY <3>1 DEF ManualFrame
  <2>4. man \in Seq(ManualFrame) /\ Len(man) <= Len(c.manual)
    <3> DEFINE m == c.manual
    <3> HIDE DEF m
    <3>1. Pop(m) \in Seq(ManualFrame) /\ Len(Pop(m)) <= Len(m) /\ Len(m) \in Nat
      BY <2>2, StackTop DEF m
    <3>2. /\ [m EXCEPT ![Len(m)].dropped = TRUE] \in Seq(ManualFrame)
          /\ Len([m EXCEPT ![Len(m)].dropped = TRUE]) = Len(m)
      BY <2>2, DroppedManual DEF m
    <3>3. CASE c.drop_only
      <4>1. man = [m EXCEPT ![Len(m)].dropped = TRUE]
        BY <3>3 DEF m
      <4> QED
        BY <3>1, <3>2, <4>1 DEF m
    <3>4. CASE ~c.drop_only
      <4>1. man = Pop(m)
        BY <3>4 DEF m
      <4> QED
        BY <3>1, <4>1 DEF m
    <3> QED
      BY <3>3, <3>4
  <2> HIDE DEF man
  <2>5. mn \in Core /\ Room(mn) /\ mn.query = c.query
    BY <1>2, <2>4, ManualFits
  <2> HIDE DEF mn
  <2>6. GoodCore(RunAt(mn, Top(c.manual).prev_prio)) /\ RunAt(mn, Top(c.manual).prev_prio).query = c.query
    BY <2>3, <2>5, RunAtGood
  <2> QED
    BY <1>1, <1>3, <2>1, <2>6, InstructionKeeps DEF c
<1>6. CASE ~inIrq /\ ~inMan
  <2>1. core' = [core EXCEPT ![p] = c]
    BY <1>6 DEF WriteIccEoir1
  <2> QED
    BY <1>1, <1>2, <1>3, <2>1, InstructionKeeps
<1> QED
  BY <1>4, <1>5, <1>6

\* ICC_DIR_EL1.
LEMMA DirKeeps ==
  ASSUME CpuInv, UNCHANGED setup, NEW p \in Cpus, NEW intid, WriteIccDir(p, intid)
  PROVE  CpuInv'
<1> DEFINE c == Fetched(p)
           s == Pop(c.manual)
           d == [c EXCEPT !.manual = s]
<1>1. Executing(p) /\ gic' = Eoi(gic, p, intid)
  BY DEF WriteIccDir, Execute, Becomes
<1>2. GoodCore(c) /\ c \in Core /\ Room(c) /\ Moves(gic, gic')
  BY <1>1, FetchedGood, EoiMoves DEF GoodCore
<1>3. \/ core' = [core EXCEPT ![p] = c]
      \/ c.manual # <<>> /\ core' = [core EXCEPT ![p] = d]
  BY DEF WriteIccDir, Execute
<1>4. CASE core' = [core EXCEPT ![p] = c]
  BY <1>1, <1>2, <1>4, InstructionKeeps
<1>5. CASE c.manual # <<>> /\ core' = [core EXCEPT ![p] = d]
  <2> HIDE DEF c
  <2>1. c.manual \in Seq(ManualFrame)
    BY <1>2 DEF Core
  <2>2. s \in Seq(ManualFrame) /\ Len(s) <= Len(c.manual)
    BY <1>5, <2>1, StackTop
  <2> HIDE DEF s
  <2>3. GoodCore(d) /\ d.query = c.query
    BY <1>2, <2>2, ManualFits DEF GoodCore
  <2> HIDE DEF d
  <2> QED
    BY <1>1, <1>2, <1>5, <2>3, InstructionKeeps DEF c
<1> QED
  BY <1>3, <1>4, <1>5

\* ERET pops a frame and may end its interrupt.
LEMMA EretKeeps ==
  ASSUME CpuInv, UNCHANGED setup, NEW p \in Cpus, NEW b \in BOOLEAN, Eret(p, b)
  PROVE  CpuInv'
<1> DEFINE c      == Fetched(p)
           frame  == Top(c.exc)
           ends   == c.exc # <<>> /\ frame.is_irq /\ ~frame.dropped
           popped == IF c.exc = <<>> THEN c ELSE [c EXCEPT !.exc = Pop(@)]
           c1     == [popped EXCEPT !.masked = b]
<1>1. /\ Executing(p)
      /\ core' = [core EXCEPT ![p] = IF ends THEN RunAt(c1, frame.prev_prio) ELSE c1]
  BY DEF Eret, Execute
<1>2. GoodCore(c) /\ c \in Core /\ Room(c) /\ GicInv(gic) /\ c.exc \in Seq(Frame)
  BY <1>1, FetchedGood DEF CpuInv, GoodCore, Core
<1>3. Moves(gic, gic')
  <2>1. gic' = gic \/ gic' = Eoi(gic, p, frame.intid)
    BY DEF Eret, Becomes
  <2> QED
    BY <1>2, <2>1, EoiMoves, MovesReflexive
<1> HIDE DEF c
<1>4. GoodCore(popped) /\ popped.query = c.query
  <2>1. CASE c.exc = <<>>
    BY <1>2, <2>1
  <2>2. CASE c.exc # <<>>
    <3> DEFINE d == [c EXCEPT !.exc = Pop(@)]
    <3>1. popped = d
      BY <2>2
    <3>2. /\ d \in Core /\ Room(d) /\ d.query = c.query
          /\ d.threshold = c.threshold /\ d.pmr = c.pmr /\ d.running = c.running
      BY <1>2, <2>2, PopExcFits
    <3> HIDE DEF d, popped
    <3> QED
      BY <1>2, <3>1, <3>2 DEF GoodCore
  <2> QED
    BY <2>1, <2>2
<1> HIDE DEF popped
<1>5. Kept(popped, c1)
  BY <1>4, KeptFlags DEF GoodCore
<1>6. GoodCore(c1) /\ c1.query = c.query
  BY <1>4, <1>5, KeptGood DEF Kept
<1> HIDE DEF c1
<1>7. CASE ends
  <2>1. frame.prev_prio \in RunPrio
    <3>1. Top(c.exc) \in Frame
      BY <1>2, <1>7, StackTop
    <3> QED
      BY <3>1 DEF Frame
  <2> HIDE DEF frame
  <2>2. GoodCore(RunAt(c1, frame.prev_prio)) /\ RunAt(c1, frame.prev_prio).query = c.query
    BY <1>6, <2>1, RunAtGood DEF GoodCore
  <2>3. core' = [core EXCEPT ![p] = RunAt(c1, frame.prev_prio)]
    BY <1>1, <1>7
  <2> QED
    BY <1>1, <1>3, <2>2, <2>3, InstructionKeeps DEF c
<1>8. CASE ~ends
  <2>1. core' = [core EXCEPT ![p] = c1]
    BY <1>1, <1>8
  <2> QED
    BY <1>1, <1>3, <1>6, <2>1, InstructionKeeps DEF c
<1> QED
  BY <1>7, <1>8

\* Entry to a synchronous exception.
LEMMA SyncKeeps ==
  ASSUME CpuInv, UNCHANGED setup, NEW p \in Cpus, SyncException(p)
  PROVE  CpuInv'
<1> DEFINE c     == Fetched(p)
           frame == [is_irq |-> FALSE, intid |-> 0, prev_prio |-> c.running, dropped |-> TRUE]
<1>1. Executing(p) /\ UNCHANGED gic
  BY DEF SyncException, Execute
<1>2. GoodCore(c) /\ c \in Core /\ Room(c) /\ Moves(gic, gic')
  BY <1>1, FetchedGood, MovesReflexive DEF CpuInv, GoodCore
<1>3. CASE Len(c.exc) >= MaxExcDepth
  <2>1. core' = [core EXCEPT ![p] = [c EXCEPT !.halted = "yes"]]
    BY <1>3 DEF SyncException, Execute
  <2>2. Kept(c, [c EXCEPT !.halted = "yes"])
    BY <1>2, KeptHalted
  <2> QED
    BY <1>1, <1>2, <2>1, <2>2, FlagsKeep
<1>4. CASE ~(Len(c.exc) >= MaxExcDepth)
  <2>1. core' = [core EXCEPT ![p] = Entered(c, frame)]
    BY <1>4 DEF SyncException, Execute, Entered
  <2>2. c.running \in RunPrio /\ c.exc \in Seq(Frame)
    BY <1>2 DEF Core
  <2>3. frame \in Frame
    BY <2>2, GicAssumption DEF Frame
  <2> HIDE DEF c, frame
  <2>4. Len(c.exc) \in Nat /\ Len(c.exc) < MaxExcDepth
    BY <1>4, <2>2, CpuAssumption
  <2> DEFINE d == Entered(c, frame)
  <2>5. /\ d \in Core /\ Room(d) /\ d.query = c.query
        /\ d.threshold = c.threshold /\ d.pmr = c.pmr /\ d.running = c.running
    BY <1>2, <2>3, <2>4, EnteredFits
  <2>6. core' = [core EXCEPT ![p] = d]
    BY <2>1
  <2> HIDE DEF d
  <2>7. GoodCore(d)
    BY <1>2, <2>5 DEF GoodCore
  <2> QED
    BY <1>1, <1>2, <2>5, <2>6, <2>7, InstructionKeeps DEF c
<1> QED
  BY <1>3, <1>4

\* SEV sets the event of every core.
LEMMA SevKeeps ==
  ASSUME CpuInv, UNCHANGED setup, NEW p \in Cpus, Sev(p)
  PROVE  CpuInv'
<1> DEFINE old(q) == IF q = p THEN Fetched(p) ELSE core[q]
<1>1. Executing(p) /\ UNCHANGED gic /\ core' = [q \in Cpus |-> [old(q) EXCEPT !.event = TRUE]]
  BY DEF Sev
<1>2. ASSUME NEW q \in Cpus
      PROVE  GoodCore(old(q)) /\ TrueQuery(gic, q, old(q)) /\ old(q) \in Core
  BY <1>1, FetchedGood, CoreGood
<1> HIDE DEF old
<1>3. ASSUME NEW q \in Cpus
      PROVE  /\ core'[q] \in Core
             /\ GoodCore(core'[q]) /\ TrueQuery(gic', q, core'[q])
  <2> DEFINE d == [old(q) EXCEPT !.event = TRUE]
  <2>1. core'[q] = d
    BY <1>1
  <2>2. Kept(old(q), d)
    BY <1>2, KeptFlags
  <2> HIDE DEF d
  <2>3. GoodCore(d) /\ TrueQuery(gic, q, d)
    BY <1>2, <2>2, KeptGood
  <2> QED
    BY <1>1, <2>1, <2>3 DEF GoodCore
<1>4. core' \in [Cpus -> Core]
  BY <1>1, <1>3
<1>5. GicInv(gic')
  BY <1>1 DEF CpuInv
<1> QED
  BY <1>3, <1>4, <1>5, AllKeep

\* ICC_SGI1R_EL1.
LEMMA SgiKeeps ==
  ASSUME CpuInv, UNCHANGED setup, NEW p \in Cpus, NEW intid \in 0 .. NumSgis - 1,
         NEW irm \in BOOLEAN, NEW list \in SUBSET Cpus, Sgi(p, intid, irm, list)
  PROVE  CpuInv'
<1>1. /\ Executing(p) /\ core' = [core EXCEPT ![p] = Fetched(p)]
      /\ gic' = SendSgi(gic, p, intid, irm, list)
  BY DEF Sgi, Execute, Becomes
<1>2. Moves(gic, gic')
  BY <1>1, SgiQuiet, QuietMoves DEF CpuInv, GicInv
<1>3. GoodCore(Fetched(p))
  BY <1>1, FetchedGood
<1> QED
  BY <1>1, <1>2, <1>3, InstructionKeeps

\* A store to a register of the controller.
LEMMA RegisterWriteKeeps ==
  ASSUME CpuInv, UNCHANGED setup, NEW p \in Cpus, GicRegisterWrite(p)
  PROVE  CpuInv'
<1>1. Executing(p) /\ core' = [core EXCEPT ![p] = Fetched(p)]
  BY DEF GicRegisterWrite, Execute
<1>2. GoodCore(Fetched(p))
  BY <1>1, FetchedGood
<1>3. GicInv(gic) /\ gic \in Gic
  BY DEF CpuInv, GicInv
<1>4. PICK s \in Slots, value \in BOOLEAN :
         \/ gic' = SetEnabledBits(gic, {s}, value)
         \/ gic' = SetActiveBits(gic, {s}, value)
         \/ gic' = SetPendingBits(gic, {s}, value)
         \/ \E prio \in Prio : gic' = SetPriorityRange(gic, [t \in {s} |-> prio])
  BY DEF GicRegisterWrite, Becomes
<1>5. {s} \in SUBSET Slots /\ \A prio \in Prio : [t \in {s} |-> prio] \in [{s} -> Prio]
  OBVIOUS
<1>6. Quiet(gic, gic')
  <2>1. Quiet(gic, SetEnabledBits(gic, {s}, value))
    BY <1>3, <1>5, EnabledQuiet
  <2>2. Quiet(gic, SetActiveBits(gic, {s}, value))
    BY <1>3, <1>5, ActiveQuiet
  <2>3. Quiet(gic, SetPendingBits(gic, {s}, value))
    BY <1>3, <1>5, PendingQuiet
  <2>4. \A prio \in Prio : Quiet(gic, SetPriorityRange(gic, [t \in {s} |-> prio]))
    BY <1>3, <1>5, PriorityQuiet
  <2> QED
    BY <1>4, <2>1, <2>2, <2>3, <2>4
<1> QED
  BY <1>1, <1>2, <1>3, <1>6, QuietMoves, InstructionKeeps

-----------------------------------------------------------------------------
(* The specification                                                       *)

\* What the setup holds.
LEMMA SetupType ==
  ASSUME CpuInv
  PROVE  /\ setup.lines \subseteq IntIds /\ setup.messages \subseteq IntIds
         /\ setup.pmrs \subseteq Prio /\ setup.eoimodes \subseteq BOOLEAN
<1>1. setup \in Setup
  BY CpuAssumption DEF CpuInv
<1> QED
  BY <1>1 DEF Setup

\* Every instruction keeps the invariant.
LEMMA InstructionsKeep ==
  ASSUME CpuInv, UNCHANGED setup, NEW p \in Cpus, Instruction(p)
  PROVE  CpuInv'
<1>1. CASE \E b \in BOOLEAN : MsrDaif(p, b) \/ WriteIccIgrpen1(p, b)
  BY <1>1, FlagWritesKeep
<1>2. CASE \E b \in BOOLEAN : GuestMayEret(p) /\ Eret(p, b)
  BY <1>2, EretKeeps
<1>3. CASE \E pmr \in setup.pmrs : WriteIccPmr(p, pmr)
  BY <1>3, SetupType, PmrKeeps
<1>4. CASE \E m \in setup.eoimodes : WriteIccCtlr(p, m)
  BY <1>4, SetupType, FlagWritesKeep
<1>5. CASE ReadIccIar1(p)
  BY <1>5, IarKeeps
<1>6. CASE \E intid \in IntIds : GuestMayEoir(p, intid) /\ WriteIccEoir1(p, intid)
  BY <1>6, EoirKeeps
<1>7. CASE \E intid \in IntIds : GuestMayDeactivate(p, intid) /\ WriteIccDir(p, intid)
  BY <1>7, DirKeeps
<1>8. CASE SyncException(p)
  BY <1>8, SyncKeeps
<1>9. CASE Wfi(p) \/ Wfe(p)
  BY <1>9, FlagWritesKeep
<1>10. CASE Sev(p)
  BY <1>10, SevKeeps
<1>11. CASE \E intid \in setup.messages \cap 0 .. NumSgis - 1, irm \in BOOLEAN, list \in SUBSET Cpus :
              Sgi(p, intid, irm, list)
  BY <1>11, SgiKeeps
<1>12. CASE GicRegisterWrite(p)
  BY <1>12, RegisterWriteKeeps
<1> QED
  BY <1>1, <1>2, <1>3, <1>4, <1>5, <1>6, <1>7, <1>8, <1>9, <1>10, <1>11, <1>12 DEF Instruction

\* Devices keep it.
LEMMA DeviceKeeps ==
  ASSUME CpuInv, UNCHANGED setup, Device
  PROVE  CpuInv'
<1>1. GicInv(gic) /\ gic \in Gic
  BY DEF CpuInv, GicInv
<1>2. PICK p \in Cpus : \/ \E intid \in setup.lines, b \in BOOLEAN : Line(p, intid, b)
                        \/ \E intid \in setup.messages : Message(p, intid)
  BY DEF Device
<1>3. CASE \E intid \in setup.lines, b \in BOOLEAN : Line(p, intid, b)
  <2>1. PICK intid \in IntIds, b \in BOOLEAN : Line(p, intid, b)
    BY <1>3, SetupType
  <2>2. gic' = SetLevel(gic, SlotOf(p, intid), b) /\ UNCHANGED core
    BY <2>1 DEF Line, Becomes
  <2>3. Moves(gic, gic')
    BY <1>1, <2>2, SlotOfType, LevelQuiet, QuietMoves
  <2> QED
    BY <2>2, <2>3, GicKeeps
<1>4. CASE \E intid \in setup.messages : Message(p, intid)
  <2>1. PICK intid \in IntIds : Message(p, intid)
    BY <1>4, SetupType
  <2>2. gic' = SetPendingBits(gic, {SlotOf(p, intid)}, TRUE) /\ UNCHANGED core
    BY <2>1 DEF Message, Becomes
  <2>3. {SlotOf(p, intid)} \in SUBSET Slots
    BY SlotOfType
  <2>4. Moves(gic, gic')
    BY <1>1, <2>2, <2>3, PendingQuiet, QuietMoves
  <2> QED
    BY <2>2, <2>4, GicKeeps
<1> QED
  BY <1>2, <1>3, <1>4

\* A machine restored from a snapshot satisfies the invariant.
LEMMA InitKeeps ==
  ASSUME Init
  PROVE  CpuInv
<1>1. setup \in Setups
  BY DEF Init
<1>2. GicInv(gic)
  <2>1. PICK image \in SnapshotImages : gic = LoadState(PowerOnGic, image)
    BY DEF Init
  <2> QED
    BY <2>1, InitInv, LoadKeepsInv DEF GicInv
<1> DEFINE r == [masked |-> FALSE, igrpen1 |-> FALSE, drop_only |-> FALSE, pmr |-> MaxPrio,
                 running |-> IdlePrio, threshold |-> MaxPrio,
                 query |-> [valid |-> FALSE, epoch |-> 0, threshold |-> 0],
                 exc |-> <<>>, manual |-> <<>>, wfi |-> FALSE, wfe |-> FALSE,
                 event |-> FALSE, halted |-> "no"]
<1>3. ResetCore = Refresh(r)
  BY DEF ResetCore
<1>4. r \in Core /\ Room(r) /\ ~r.query.valid
  BY GicAssumption, CpuAssumption DEF Core, Room, Prio, RunPrio, IdlePrio, Query
<1> HIDE DEF r
<1>5. GoodCore(ResetCore) /\ ~ResetCore.query.valid
  BY <1>3, <1>4, RefreshGood
<1>6. core = [p \in Cpus |-> ResetCore]
  BY DEF Init
<1>7. \A p \in Cpus : GoodCore(core[p]) /\ TrueQuery(gic, p, core[p])
  BY <1>5, <1>6, NoQueryTrue
<1>8. core \in [Cpus -> Core]
  BY <1>5, <1>6 DEF GoodCore
<1> QED
  BY <1>1, <1>2, <1>7, <1>8 DEF CpuInv

\* Every step keeps the invariant.
LEMMA NextKeeps ==
  ASSUME CpuInv, [Next]_vars
  PROVE  CpuInv'
<1>1. CASE UNCHANGED vars
  BY <1>1, MovesReflexive, GicKeeps DEF vars, CpuInv
<1>2. CASE Next
  <2>1. UNCHANGED setup
    BY <1>2 DEF Next
  <2>2. ASSUME NEW p \in Cpus, CpuStep(p)
        PROVE  CpuInv'
    BY <2>1, <2>2, IrqStepKeeps, WfiStepKeeps, WfeStepKeeps, InstructionsKeep DEF CpuStep
  <2>3. ASSUME NEW p \in Cpus, ReadyToRun(p)
        PROVE  CpuInv'
    BY <2>1, <2>3, ReadyToRunKeeps
  <2> QED
    BY <1>2, <2>1, <2>2, <2>3, DeviceKeeps DEF Next
<1> QED
  BY <1>1, <1>2

\* The inductive invariant holds in every reachable state of the cores and
\* their controller.
THEOREM CpuInvariant == Spec => []CpuInv
<1>1. Init => CpuInv
  BY InitKeeps
<1>2. CpuInv /\ [Next]_vars => CpuInv'
  BY NextKeeps
<1> QED
  BY <1>1, <1>2, PTL DEF Spec

(* refresh_irq_threshold_cache is called wherever it must be: with any     *)
(* number of cores and any guest the cached delivery threshold is that of  *)
(* the current mask and running priority.                                  *)
THEOREM ThresholdCorrect == Spec => []ThresholdIsCurrent
<1>1. CpuInv => ThresholdIsCurrent
  BY DEF CpuInv, GoodCore, ThresholdIsCurrent
<1> QED
  BY <1>1, CpuInvariant, PTL

(* should_try_irq may trust a remembered negative answer: with any number  *)
(* of cores, devices and interrupts and any guest, a core that skips the   *)
(* controller has no interrupt it could take.                              *)
THEOREM NegativeAnswerCorrect == Spec => []NegativeAnswerStillNegative
<1>1. CpuInv => NegativeAnswerStillNegative
  <2> SUFFICES ASSUME CpuInv, NEW p \in Cpus, KnownNegative(gic, core[p])
               PROVE  ~Deliverable(gic, p, core[p])
    BY DEF NegativeAnswerStillNegative
  <2>1. TrueQuery(gic, p, core[p]) /\ core[p].threshold \in Prio /\ gic \in Gic
    BY CoreGood DEF GicInv
  <2>2. Candidates(gic, p, core[p].threshold) = {}
    BY <2>1 DEF KnownNegative, TrueQuery
  <2> QED
    BY <2>1, <2>2, HighestPendingFinds DEF Deliverable
<1> QED
  BY <1>1, CpuInvariant, PTL

-----------------------------------------------------------------------------
(* The controller's bits                                                   *)

\* h differs from g in nothing that decides what is pending, active or urgent.
SameBits(g, h) ==
  h.pending = g.pending /\ h.active = g.active /\ h.line_level = g.line_level /\ h.priorities = g.priorities

\* has_pending fills a cache.
LEMMA QuerySameBits ==
  ASSUME NEW g \in Gic, NEW p, NEW pmr
  PROVE  SameBits(g, AfterHasPending(g, p, pmr))
BY DEF SameBits, AfterHasPending, Gic

\* h is g with other pending bits, or other active ones.
PendingBecomes(g, h, bits) ==
  h.pending = bits /\ h.active = g.active /\ h.line_level = g.line_level /\ h.priorities = g.priorities
ActiveBecomes(g, h, bits) ==
  h.active = bits /\ h.pending = g.pending /\ h.line_level = g.line_level /\ h.priorities = g.priorities

\* The setters change their own bits.
LEMMA SetterBits ==
  ASSUME NEW g \in Gic, NEW S
  PROVE  /\ PendingBecomes(g, SetPendingBits(g, S, TRUE), g.pending \cup S)
         /\ PendingBecomes(g, SetPendingBits(g, S, FALSE), g.pending \ S)
         /\ ActiveBecomes(g, SetActiveBits(g, S, TRUE), g.active \cup S)
         /\ ActiveBecomes(g, SetActiveBits(g, S, FALSE), g.active \ S)
<1>1. PendingBecomes(g, SetPendingBits(g, S, TRUE), g.pending \cup S)
  BY DEF PendingBecomes, SetPendingBits, Updated, Gic
<1>2. PendingBecomes(g, SetPendingBits(g, S, FALSE), g.pending \ S)
  BY DEF PendingBecomes, SetPendingBits, Updated, Gic
<1>3. ActiveBecomes(g, SetActiveBits(g, S, TRUE), g.active \cup S)
  BY DEF ActiveBecomes, SetActiveBits, Updated, Gic
<1>4. ActiveBecomes(g, SetActiveBits(g, S, FALSE), g.active \ S)
  BY DEF ActiveBecomes, SetActiveBits, Updated, Gic
<1> QED
  BY <1>1, <1>2, <1>3, <1>4

\* The enable bits decide none of these.
LEMMA EnabledSameBits ==
  ASSUME NEW g \in Gic, NEW S, NEW value
  PROVE  SameBits(g, SetEnabledBits(g, S, value))
BY DEF SetEnabledBits, SameBits, Gic

\* What acknowledge finds is pending and more urgent than the threshold, and
\* goes from pending to active.
LEMMA AcknowledgeBits ==
  ASSUME NEW g \in Gic, NEW p \in Cpus, NEW pmr \in Prio,
         NEW i, i = HighestPending(g, p, pmr), i # Spurious,
         NEW s, s = SlotOf(p, i),
         NEW h, h = AfterAcknowledge(g, p, pmr)
  PROVE  /\ i \in IntIds /\ s \in Slots /\ s \in g.pending
         /\ g.priorities[s] \in Prio /\ g.priorities[s] < pmr
         /\ Priority(g, p, i) = g.priorities[s]
         /\ h.pending = g.pending \ {s} /\ h.active = g.active \cup {s}
         /\ h.line_level = g.line_level /\ h.priorities = g.priorities
<1>1. i \in Candidates(g, p, pmr)
  BY HighestPendingFinds, MostUrgentExists DEF HighestPending
<1>2. i \in IntIds /\ s \in g.pending /\ g.priorities[s] < pmr
  BY <1>1 DEF Candidates
<1>3. s \in Slots
  BY <1>2, SlotOfType
<1>4. g.priorities[s] \in Prio
  BY <1>3 DEF Gic
<1>5. Priority(g, p, i) = g.priorities[s]
  BY <1>2 DEF Priority
<1> DEFINE q == SetPendingBits(g, {s}, FALSE)
<1>6. h = SetActiveBits(q, {s}, TRUE)
  BY DEF AfterAcknowledge
<1>7. q \in Gic
  BY <1>3, PendingQuiet DEF Quiet
<1>8. PendingBecomes(g, q, g.pending \ {s})
  BY SetterBits
<1> HIDE DEF q
<1>9. ActiveBecomes(q, h, q.active \cup {s})
  BY <1>6, <1>7, SetterBits
<1> QED
  BY <1>2, <1>3, <1>4, <1>5, <1>8, <1>9 DEF PendingBecomes, ActiveBecomes

\* eoi makes the interrupt inactive, and pending if its line is asserted.
LEMMA EoiBits ==
  ASSUME NEW g \in Gic, NEW p \in Cpus, NEW i \in IntIds,
         NEW s, s = SlotOf(p, i),
         NEW h, h = Eoi(g, p, i)
  PROVE  /\ h.pending = IF s \in g.line_level THEN g.pending \cup {s} ELSE g.pending
         /\ h.active = g.active \ {s}
         /\ h.line_level = g.line_level /\ h.priorities = g.priorities
<1> DEFINE q == SetActiveBits(g, {s}, FALSE)
<1>1. h = IF s \in g.line_level THEN SetPendingBits(q, {s}, TRUE) ELSE q
  BY DEF Eoi
<1>2. q \in Gic
  BY SlotOfType, ActiveQuiet DEF Quiet
<1>3. ActiveBecomes(g, q, g.active \ {s})
  BY SetterBits
<1> HIDE DEF q
<1>4. PendingBecomes(q, SetPendingBits(q, {s}, TRUE), q.pending \cup {s})
  BY <1>2, SetterBits
<1> QED
  BY <1>1, <1>3, <1>4 DEF PendingBecomes, ActiveBecomes

\* h is g after its line s has become b.
LineBecomes(g, h, s, b) ==
  /\ h.pending = (IF b /\ s \notin g.line_level /\ s \notin g.active THEN g.pending \cup {s} ELSE g.pending)
  /\ h.active = g.active /\ h.priorities = g.priorities
  /\ h.line_level = Updated(g.line_level, {s}, b)

\* set_level changes the line, and pends what rises unless it is being handled.
LEMMA LevelBits ==
  ASSUME NEW g \in Gic, NEW s \in Slots, NEW asserted \in BOOLEAN
  PROVE  LineBecomes(g, SetLevel(g, s, asserted), s, asserted)
<1> DEFINE h == SetLevel(g, s, asserted)
<1> DEFINE q == [g EXCEPT !.line_level = Updated(@, {s}, asserted), !.epoch = @ + 1]
<1>1. CASE (s \in g.line_level) = asserted
  BY <1>1 DEF SetLevel, Updated, LineBecomes
<1>2. CASE (s \in g.line_level) # asserted
  <2> DEFINE lines == Updated(g.line_level, {s}, asserted)
  <2>a. q = [g EXCEPT !.line_level = lines, !.epoch = @ + 1]
    OBVIOUS
  <2>1. lines \in SUBSET Slots
    BY UpdatedType DEF Gic
  <2> HIDE DEF q, lines
  <2>2. /\ q.pending = g.pending /\ q.active = g.active /\ q.priorities = g.priorities
        /\ q.line_level = lines
    BY <2>a DEF Gic
  <2>5. q \in Gic
    <3>1. [g EXCEPT !.line_level = lines] \in Gic
      BY <2>1 DEF Gic
    <3>2. q = [[g EXCEPT !.line_level = lines] EXCEPT !.epoch = @ + 1]
      BY <2>a DEF Gic
    <3> QED
      BY <3>1, <3>2, EpochType
  <2>3. h = IF asserted /\ s \notin g.active THEN SetPendingBits(q, {s}, TRUE) ELSE q
    BY <1>2 DEF SetLevel, q
  <2>4. PendingBecomes(q, SetPendingBits(q, {s}, TRUE), q.pending \cup {s})
    BY <2>5, SetterBits
  <2> QED
    BY <1>2, <2>2, <2>3, <2>4 DEF PendingBecomes, LineBecomes, lines
<1> QED
  BY <1>1, <1>2

-----------------------------------------------------------------------------
(* What the steps do                                                       *)

\* d has the running priority and the stacks of c, and has not come to life.
SameStacks(c, d) ==
  /\ d.running = c.running /\ d.exc = c.exc /\ d.manual = c.manual
  /\ d.halted = "no" => c.halted = "no"

\* A step that handles nothing.
Silent ==
  /\ SameBits(gic, gic') /\ UNCHANGED <<apr, waived>>
  /\ \A q \in Cpus : SameStacks(core[q], core'[q])

\* Only core p changes, into d.
Only(p, d) == core'[p] = d /\ \A q \in Cpus : q # p => core'[q] = core[q]

\* Core p acknowledges an interrupt: its bits, and the history.
Acks(p, intid, manual) ==
  LET s == SlotOf(p, intid) IN
  /\ intid \in IntIds /\ s \in gic.pending /\ gic.priorities[s] \in Prio
  /\ gic'.pending = gic.pending \ {s} /\ gic'.active = gic.active \cup {s}
  /\ gic'.line_level = gic.line_level /\ gic'.priorities = gic.priorities
  /\ apr' = [apr EXCEPT ![p] = Append(@, [intid |-> intid, prio |-> gic.priorities[s], manual |-> manual])]
  /\ waived' = waived

\* Its priority is more urgent than what the core runs at, and the core
\* remembers that on one of its stacks, if it does not stop.
Pushes(p, intid, manual) ==
  LET prio == gic.priorities[SlotOf(p, intid)]
      c == core[p]
      d == core'[p]
  IN  /\ prio < c.running
      /\ \A q \in Cpus : q # p => core'[q] = core[q]
      /\ d.halted = "no" =>
           /\ c.halted = "no" /\ d.running = prio
           /\ IF manual
              THEN /\ ~InIrqFrame(c) /\ d.exc = c.exc
                   /\ d.manual = Append(c.manual, [intid |-> intid, prev_prio |-> c.running, dropped |-> FALSE])
                   /\ Len(c.manual) < MaxExcDepth
              ELSE /\ d.manual = c.manual
                   /\ d.exc = Append(c.exc, [is_irq |-> TRUE, intid |-> intid, prev_prio |-> c.running, dropped |-> FALSE])
                   /\ Len(c.exc) < MaxExcDepth

\* The fields that are not on the stacks.
LEMMA FieldKeepsStacks ==
  ASSUME NEW c \in Core, NEW v
  PROVE  /\ SameStacks(c, c)
         /\ SameStacks(c, [c EXCEPT !.masked = v])
         /\ SameStacks(c, [c EXCEPT !.igrpen1 = v])
         /\ SameStacks(c, [c EXCEPT !.drop_only = v])
         /\ SameStacks(c, [c EXCEPT !.wfi = v])
         /\ SameStacks(c, [c EXCEPT !.wfe = v])
         /\ SameStacks(c, [c EXCEPT !.event = v])
         /\ SameStacks(c, [c EXCEPT !.query = v])
         /\ SameStacks(c, [c EXCEPT !.threshold = v])
         /\ SameStacks(c, [c EXCEPT !.pmr = v])
BY DEF SameStacks, Core

\* A stopped core.
LEMMA StoppedKeepsStacks ==
  ASSUME NEW c \in Core, NEW h \in {"last", "yes"}
  PROVE  /\ SameStacks(c, [c EXCEPT !.halted = h])
         /\ [c EXCEPT !.halted = h].halted # "no"
         /\ [c EXCEPT !.halted = h] \in Core
BY DEF SameStacks, Core

LEMMA SameStacksTransitive ==
  ASSUME NEW c, NEW d, NEW e, SameStacks(c, d), SameStacks(d, e)
  PROVE  SameStacks(c, e)
BY DEF SameStacks

\* Remembering and forgetting a negative answer.
LEMMA AnswerKeepsStacks ==
  ASSUME NEW c \in Core, NEW g
  PROVE  /\ SameStacks(c, NoteNegative(g, c))
         /\ SameStacks(c, ForgetNegative(c)) /\ ForgetNegative(c).halted = c.halted
<1>1. SameStacks(c, NoteNegative(g, c)) /\ SameStacks(c, ForgetNegative(c))
  BY FieldKeepsStacks DEF NoteNegative, ForgetNegative
<1>2. ForgetNegative(c).halted = c.halted
  BY DEF ForgetNegative, Core
<1> QED
  BY <1>1, <1>2

\* A change of the running priority.
LEMMA RunAtStacks ==
  ASSUME NEW c \in Core, NEW prio \in RunPrio
  PROVE  /\ RunAt(c, prio).running = prio /\ RunAt(c, prio).exc = c.exc
         /\ RunAt(c, prio).manual = c.manual /\ RunAt(c, prio).halted = c.halted
<1> DEFINE d == [c EXCEPT !.running = prio]
<1>1. d \in Core /\ d.running = prio /\ d.exc = c.exc /\ d.manual = c.manual /\ d.halted = c.halted
  BY DEF Core
<1>2. RunAt(c, prio) = Refresh(d)
  BY DEF RunAt
<1> HIDE DEF d
<1>3. /\ Refresh(d).running = d.running /\ Refresh(d).exc = d.exc
      /\ Refresh(d).manual = d.manual /\ Refresh(d).halted = d.halted
  BY <1>1 DEF Refresh, Core
<1> QED
  BY <1>1, <1>2, <1>3

\* The look at the controller that comes before an instruction.
LEMMA FetchedStacks ==
  ASSUME CpuInv, NEW p \in Cpus, Executing(p)
  PROVE  SameStacks(core[p], Fetched(p)) /\ Fetched(p) \in Core
<1> DEFINE c == core[p]
<1>1. c \in Core /\ Fetched(p) \in Core
  BY CoreGood, FetchedGood
<1>2. Fetched(p) \in {[c EXCEPT !.halted = "yes"], NoteNegative(gic, c), c}
  BY DEF Fetched
<1> HIDE DEF c
<1>3. /\ SameStacks(c, [c EXCEPT !.halted = "yes"])
      /\ SameStacks(c, NoteNegative(gic, c)) /\ SameStacks(c, c)
  BY <1>1, StoppedKeepsStacks, AnswerKeepsStacks, FieldKeepsStacks
<1>4. SameStacks(c, Fetched(p))
  BY <1>2, <1>3
<1> QED
  BY <1>1, <1>4 DEF c

\* The core array after a step of one core.
LEMMA OnlyOne ==
  ASSUME CpuInv, NEW p \in Cpus, NEW d, core' = [core EXCEPT ![p] = d]
  PROVE  Only(p, d)
BY DEF CpuInv, Only

\* One core changes nothing that matters here, and neither does the controller.
LEMMA OneSilent ==
  ASSUME CpuInv, NEW p \in Cpus, NEW d, Only(p, d), SameStacks(core[p], d),
         SameBits(gic, gic'), UNCHANGED <<apr, waived>>
  PROVE  Silent
<1>1. \A q \in Cpus : SameStacks(core[q], core[q])
  BY DEF SameStacks
<1> QED
  BY <1>1 DEF Silent, Only

\* Instructions that handle nothing.
LEMMA PlainSilent ==
  ASSUME CpuInv, NEW p \in Cpus, NEW b \in BOOLEAN, NEW pmr \in Prio,
         \/ MsrDaif(p, b) \/ WriteIccIgrpen1(p, b) \/ WriteIccCtlr(p, b) \/ WriteIccPmr(p, pmr)
         \/ Wfi(p) \/ Wfe(p)
  PROVE  Silent
<1> DEFINE c == Fetched(p)
<1>1. PICK d : Execute(p, d) /\ UNCHANGED <<gic, apr, waived>> /\ SameStacks(c, d)
  <2>1. ASSUME Executing(p)
        PROVE  /\ SameStacks(c, [c EXCEPT !.masked = b]) /\ SameStacks(c, [c EXCEPT !.igrpen1 = b])
               /\ SameStacks(c, [c EXCEPT !.drop_only = b]) /\ SameStacks(c, Refresh([c EXCEPT !.pmr = pmr]))
               /\ SameStacks(c, [c EXCEPT !.wfi = TRUE]) /\ SameStacks(c, [c EXCEPT !.wfe = TRUE])
               /\ SameStacks(c, [c EXCEPT !.event = FALSE])
    <3>1. c \in Core
      BY <2>1, FetchedStacks
    <3> DEFINE e == [c EXCEPT !.pmr = pmr]
    <3> HIDE DEF c
    <3>2. e \in Core /\ SameStacks(c, e)
      BY <3>1, FieldKeepsStacks DEF Core
    <3> HIDE DEF e
    <3>3. SameStacks(e, Refresh(e))
      BY <3>2, FieldKeepsStacks DEF Refresh
    <3>4. SameStacks(c, Refresh(e))
      BY <3>2, <3>3, SameStacksTransitive
    <3> QED
      BY <3>1, <3>4, FieldKeepsStacks DEF e
  <2>2. CASE MsrDaif(p, b)
    BY <2>1, <2>2 DEF MsrDaif, Execute
  <2>3. CASE WriteIccIgrpen1(p, b)
    BY <2>1, <2>3 DEF WriteIccIgrpen1, Execute
  <2>4. CASE WriteIccCtlr(p, b)
    BY <2>1, <2>4 DEF WriteIccCtlr, Execute
  <2>5. CASE WriteIccPmr(p, pmr)
    BY <2>1, <2>5 DEF WriteIccPmr, Execute
  <2>6. CASE Wfi(p)
    BY <2>1, <2>6 DEF Wfi, Execute
  <2>7. CASE Wfe(p)
    BY <2>1, <2>7 DEF Wfe, Execute
  <2> QED
    BY <2>2, <2>3, <2>4, <2>5, <2>6, <2>7
<1>2. Executing(p) /\ Only(p, d)
  BY <1>1, OnlyOne DEF Execute
<1>3. SameStacks(core[p], d)
  BY <1>1, <1>2, FetchedStacks, SameStacksTransitive
<1>4. SameBits(gic, gic')
  BY <1>1 DEF SameBits
<1> QED
  BY <1>1, <1>2, <1>3, <1>4, OneSilent

LEMMA SevSilent ==
  ASSUME CpuInv, NEW p \in Cpus, Sev(p)
  PROVE  Silent
<1>1. Executing(p) /\ UNCHANGED <<gic, apr, waived>>
  BY DEF Sev
<1>2. ASSUME NEW q \in Cpus
      PROVE  SameStacks(core[q], core'[q])
  <2> DEFINE d == IF q = p THEN Fetched(p) ELSE core[q]
  <2>1. core'[q] = [d EXCEPT !.event = TRUE]
    BY DEF Sev
  <2>2. d \in Core /\ SameStacks(core[q], d)
    BY <1>1, FetchedStacks, CoreGood, FieldKeepsStacks
  <2> HIDE DEF d
  <2>3. SameStacks(d, [d EXCEPT !.event = TRUE])
    BY <2>2, FieldKeepsStacks
  <2> QED
    BY <2>1, <2>2, <2>3, SameStacksTransitive
<1> QED
  BY <1>1, <1>2 DEF Silent, SameBits

\* try_take_irq, of a core c that may just have left its wait.
LEMMA TakeIrqActs ==
  ASSUME CpuInv, NEW p \in Cpus, NEW g \in Gic, SameBits(gic, g),
         NEW c, GoodCore(c), SameStacks(core[p], c), NEW stuck \in Core, stuck.halted # "no",
         TakeIrq(p, g, c, stuck)
  PROVE  \E intid \in IntIds : Acks(p, intid, FALSE) /\ Pushes(p, intid, FALSE)
<1> DEFINE intid == HighestPending(g, p, c.threshold)
           s     == SlotOf(p, intid)
           prio  == gic.priorities[s]
           frame == [is_irq |-> TRUE, intid |-> intid, prev_prio |-> c.running, dropped |-> FALSE]
<1>1. /\ c \in Core /\ c.threshold \in Prio /\ c.running \in RunPrio /\ Room(c)
      /\ c.threshold = Lesser(c.pmr, c.running) /\ c.pmr \in Prio
  BY DEF GoodCore, Core
<1>2. intid # Spurious
  BY DEF TakeIrq, Deliverable
<1>3. gic' = AfterAcknowledge(g, p, c.threshold)
  BY DEF TakeIrq, Becomes
<1>4. /\ intid \in IntIds /\ s \in g.pending /\ g.priorities[s] \in Prio
      /\ g.priorities[s] < c.threshold /\ Priority(g, p, intid) = g.priorities[s]
      /\ gic'.pending = g.pending \ {s} /\ gic'.active = g.active \cup {s}
      /\ gic'.line_level = g.line_level /\ gic'.priorities = g.priorities
  BY <1>1, <1>2, <1>3, AcknowledgeBits
<1>5. Priority(g, p, intid) = prio /\ prio \in Prio /\ prio \in RunPrio /\ prio < c.running
  <2>1. Priority(g, p, intid) = prio /\ prio \in Prio /\ prio < c.threshold
    BY <1>4 DEF SameBits
  <2>2. prio \in RunPrio
    BY <2>1, GicAssumption DEF Prio, RunPrio, IdlePrio
  <2>3. prio < c.running
    <3> HIDE DEF prio
    <3> QED
      BY <1>1, <2>1, GicAssumption DEF Lesser, Prio, RunPrio, IdlePrio
  <2> QED
    BY <2>1, <2>2, <2>3
<1>6. apr' = [apr EXCEPT ![p] = Append(@, [intid |-> intid, prio |-> prio, manual |-> FALSE])] /\ waived' = waived
  BY <1>5 DEF TakeIrq, Acked
<1>7. Acks(p, intid, FALSE)
  BY <1>4, <1>5, <1>6 DEF Acks, SameBits
<1>8. Pushes(p, intid, FALSE)
  <2>1. CASE Len(c.exc) < MaxExcDepth
    <3> DEFINE e == ForgetNegative(c)
               d == Entered(e, frame)
    <3>1. Only(p, EnterIrq(g, p, c))
      BY <2>1, OnlyOne DEF TakeIrq
    <3>2. EnterIrq(g, p, c) = RunAt(d, prio)
      BY <1>5 DEF EnterIrq, Entered
    <3>3. e \in Core /\ e.halted = c.halted /\ e.exc = c.exc /\ e.manual = c.manual
      BY <1>1, ForgetGood, AnswerKeepsStacks DEF SameStacks, GoodCore
    <3> HIDE DEF e
    <3>4. frame \in Frame
      BY <1>1, <1>4, GicAssumption DEF Frame, IntIds
    <3> HIDE DEF frame
    <3>5. Room(e)
      BY <1>1, <3>3 DEF Room
    <3>6. d \in Core
      BY <2>1, <3>3, <3>4, <3>5, EnteredFits
    <3>7. d.exc = Append(c.exc, frame) /\ d.manual = c.manual /\ d.halted = c.halted
      BY <3>3 DEF Entered, Core
    <3> HIDE DEF d, prio
    <3>8. /\ RunAt(d, prio).running = prio /\ RunAt(d, prio).exc = Append(c.exc, frame)
          /\ RunAt(d, prio).manual = c.manual /\ RunAt(d, prio).halted = c.halted
      BY <1>5, <3>6, <3>7, RunAtStacks
    <3> QED
      BY <1>5, <2>1, <3>1, <3>2, <3>8 DEF Pushes, Only, SameStacks, frame, prio
  <2>2. CASE ~(Len(c.exc) < MaxExcDepth)
    <3>1. Only(p, ForgetNegative(stuck))
      BY <2>2, OnlyOne DEF TakeIrq
    <3>2. ForgetNegative(stuck).halted # "no"
      BY AnswerKeepsStacks
    <3> QED
      BY <1>5, <3>1, <3>2 DEF Pushes, Only, SameStacks
  <2> QED
    BY <2>1, <2>2
<1> QED
  BY <1>4, <1>7, <1>8

\* Core p acknowledges some interrupt.
Serves(p) == \E intid \in IntIds, manual \in BOOLEAN : Acks(p, intid, manual) /\ Pushes(p, intid, manual)

LEMMA IrqStepServes ==
  ASSUME CpuInv, NEW p \in Cpus, IrqStep(p)
  PROVE  Serves(p)
<1> DEFINE c == core[p]
<1>1. GoodCore(c) /\ c \in Core /\ gic \in Gic
  BY CoreGood DEF GicInv
<1>2. TakeIrq(p, gic, c, [c EXCEPT !.halted = "last"])
  BY DEF IrqStep
<1>3. SameStacks(core[p], c) /\ SameBits(gic, gic)
  BY DEF SameStacks, SameBits
<1> HIDE DEF c
<1>4. [c EXCEPT !.halted = "last"] \in Core /\ [c EXCEPT !.halted = "last"].halted # "no"
  BY <1>1, StoppedKeepsStacks
<1> QED
  BY <1>1, <1>2, <1>3, <1>4, TakeIrqActs DEF Serves

\* A polled wait for an interrupt.
LEMMA WfiStepActs ==
  ASSUME CpuInv, NEW p \in Cpus, WfiStep(p)
  PROVE  Silent \/ Serves(p)
<1> DEFINE c     == core[p]
           g     == AfterHasPending(gic, p, MaxPrio)
           awake == [c EXCEPT !.wfi = FALSE]
           tried == IF ShouldTryIrq(g, awake) THEN NoteNegative(g, awake) ELSE awake
           stuck == [awake EXCEPT !.halted = "yes"]
<1>1. GoodCore(c) /\ c \in Core /\ gic \in Gic
  BY CoreGood DEF GicInv
<1>2. g \in Gic /\ SameBits(gic, g)
  <2>1. MaxPrio \in Prio
    BY GicAssumption DEF Prio
  <2>2. GicInv(g)
    BY <2>1, CoreGood, QueryKeepsInv
  <2> QED
    BY <1>1, <2>2, QuerySameBits DEF GicInv
<1>3. GoodCore(awake) /\ awake \in Core /\ SameStacks(c, awake)
  <2>1. Kept(c, awake) /\ SameStacks(c, awake)
    BY <1>1, KeptFlags, FieldKeepsStacks
  <2> HIDE DEF c, awake
  <2> QED
    BY <1>1, <2>1, KeptGood DEF GoodCore
<1>4. \/ Becomes(g) /\ UNCHANGED <<core, apr, waived>>
      \/ TakeIrq(p, g, awake, stuck)
      \/ Becomes(g) /\ core' = [core EXCEPT ![p] = tried] /\ UNCHANGED <<apr, waived>>
  BY DEF WfiStep
<1> HIDE DEF g
<1>5. CASE Becomes(g) /\ UNCHANGED <<core, apr, waived>>
  BY <1>2, <1>5 DEF Becomes, Silent, SameStacks
<1>6. CASE TakeIrq(p, g, awake, stuck)
  <2>1. SameStacks(core[p], awake)
    BY <1>3
  <2> HIDE DEF awake
  <2>2. stuck \in Core /\ stuck.halted # "no"
    BY <1>3, StoppedKeepsStacks
  <2> HIDE DEF stuck
  <2> QED
    BY <1>2, <1>3, <1>6, <2>1, <2>2, TakeIrqActs DEF Serves
<1>7. CASE Becomes(g) /\ core' = [core EXCEPT ![p] = tried] /\ UNCHANGED <<apr, waived>>
  <2>1. SameStacks(c, tried)
    <3>1. tried \in {awake, NoteNegative(g, awake)}
      OBVIOUS
    <3> HIDE DEF awake, tried
    <3>2. SameStacks(awake, NoteNegative(g, awake)) /\ SameStacks(awake, awake)
      BY <1>3, AnswerKeepsStacks, FieldKeepsStacks
    <3> QED
      BY <1>3, <3>1, <3>2, SameStacksTransitive
  <2>2. Only(p, tried)
    BY <1>7, OnlyOne
  <2>3. SameBits(gic, gic')
    BY <1>2, <1>7 DEF Becomes
  <2> HIDE DEF tried
  <2> QED
    BY <1>7, <2>1, <2>2, <2>3, OneSilent
<1> QED
  BY <1>4, <1>5, <1>6, <1>7

\* What irq_wakeup_ready leaves behind.
LEMMA WakeupSilent ==
  ASSUME CpuInv, NEW p \in Cpus
  PROVE  /\ GicAfterIrqWakeupReady(gic, p, core[p]) \in Gic
         /\ SameBits(gic, GicAfterIrqWakeupReady(gic, p, core[p]))
         /\ SameStacks(core[p], AfterIrqWakeupReady(gic, p, core[p]))
<1> DEFINE c == core[p]
<1>1. c \in Core /\ c.threshold \in Prio /\ GicInv(gic) /\ gic \in Gic
  BY CoreGood DEF GicInv
<1>2. GicInv(AfterHasPending(gic, p, c.threshold))
  BY <1>1, QueryKeepsInv
<1>3. AfterHasPending(gic, p, c.threshold) \in Gic /\ SameBits(gic, AfterHasPending(gic, p, c.threshold))
  BY <1>1, <1>2, QuerySameBits DEF GicInv
<1>4. GicAfterIrqWakeupReady(gic, p, c) \in {gic, AfterHasPending(gic, p, c.threshold)}
  BY DEF GicAfterIrqWakeupReady
<1>5. AfterIrqWakeupReady(gic, p, c) \in {c, NoteNegative(gic, c)}
  BY DEF AfterIrqWakeupReady
<1>6. SameBits(gic, gic)
  BY DEF SameBits
<1> HIDE DEF c
<1>7. SameStacks(c, NoteNegative(gic, c)) /\ SameStacks(c, c)
  BY <1>1, AnswerKeepsStacks, FieldKeepsStacks
<1>8. /\ GicAfterIrqWakeupReady(gic, p, c) \in Gic
      /\ SameBits(gic, GicAfterIrqWakeupReady(gic, p, c))
      /\ SameStacks(c, AfterIrqWakeupReady(gic, p, c))
  BY <1>1, <1>3, <1>4, <1>5, <1>6, <1>7
<1> QED
  BY <1>8 DEF c

\* A polled wait for an event.
LEMMA WfeStepActs ==
  ASSUME CpuInv, NEW p \in Cpus, WfeStep(p)
  PROVE  Silent \/ Serves(p)
<1> DEFINE c     == core[p]
           g     == GicAfterIrqWakeupReady(gic, p, c)
           awake == [c EXCEPT !.wfe = FALSE]
           stuck == [c EXCEPT !.halted = "yes"]
           after == AfterIrqWakeupReady(gic, p, c)
           told  == [c EXCEPT !.event = FALSE, !.wfe = FALSE]
<1>1. GoodCore(c) /\ c \in Core /\ gic \in Gic
  BY CoreGood DEF GicInv
<1>2. g \in Gic /\ SameBits(gic, g) /\ SameStacks(c, after)
  BY WakeupSilent
<1>3. GoodCore(awake) /\ SameStacks(c, awake) /\ stuck \in Core /\ stuck.halted # "no" /\ SameStacks(c, told)
  <2>1. Kept(c, awake) /\ SameStacks(c, awake) /\ stuck \in Core /\ stuck.halted # "no"
    BY <1>1, KeptFlags, FieldKeepsStacks, StoppedKeepsStacks
  <2>2. SameStacks(c, told)
    <3> HIDE DEF c
    <3> QED
      BY <1>1 DEF SameStacks, Core
  <2> HIDE DEF c, awake, stuck, told
  <2> QED
    BY <1>1, <2>1, <2>2, KeptGood
<1>4. \/ core' = [core EXCEPT ![p].event = FALSE, ![p].wfe = FALSE] /\ UNCHANGED <<gic, apr, waived>>
      \/ Becomes(g) /\ core' = [core EXCEPT ![p] = after] /\ UNCHANGED <<apr, waived>>
      \/ TakeIrq(p, g, awake, stuck)
  BY DEF WfeStep
<1> HIDE DEF g, after
<1>5. CASE core' = [core EXCEPT ![p].event = FALSE, ![p].wfe = FALSE] /\ UNCHANGED <<gic, apr, waived>>
  <2>1. core' = [core EXCEPT ![p] = told]
    BY <1>5 DEF CpuInv
  <2>2. Only(p, told)
    BY <2>1, OnlyOne
  <2> HIDE DEF told
  <2> QED
    BY <1>3, <1>5, <2>2, OneSilent DEF SameBits
<1>6. CASE Becomes(g) /\ core' = [core EXCEPT ![p] = after] /\ UNCHANGED <<apr, waived>>
  <2>1. Only(p, after)
    BY <1>6, OnlyOne
  <2>2. SameBits(gic, gic')
    BY <1>2, <1>6 DEF Becomes
  <2> QED
    BY <1>2, <1>6, <2>1, <2>2, OneSilent
<1>7. CASE TakeIrq(p, g, awake, stuck)
  <2> HIDE DEF awake, stuck
  <2> QED
    BY <1>2, <1>3, <1>7, TakeIrqActs DEF Serves
<1> QED
  BY <1>4, <1>5, <1>6, <1>7

LEMMA ReadyToRunSilent ==
  ASSUME CpuInv, NEW p \in Cpus, ReadyToRun(p)
  PROVE  Silent
<1> DEFINE c == core[p]
           g == GicAfterIrqWakeupReady(gic, p, c)
           after == AfterIrqWakeupReady(gic, p, c)
<1>1. gic \in Gic
  BY CoreGood DEF GicInv
<1>2. UNCHANGED <<apr, waived>>
  BY DEF ReadyToRun
<1>3. CASE Becomes(AfterHasPending(gic, p, MaxPrio)) /\ UNCHANGED core
  BY <1>1, <1>2, <1>3, QuerySameBits DEF Becomes, Silent, SameStacks
<1>4. CASE Becomes(g) /\ core' = [core EXCEPT ![p] = after]
  <2>1. Only(p, after)
    BY <1>4, OnlyOne
  <2>2. SameBits(gic, gic') /\ SameStacks(c, after)
    BY <1>4, WakeupSilent DEF Becomes
  <2> QED
    BY <1>2, <2>1, <2>2, OneSilent
<1> QED
  BY <1>3, <1>4 DEF ReadyToRun

\* ICC_IAR1_EL1.
LEMMA IarActs ==
  ASSUME CpuInv, NEW p \in Cpus, ReadIccIar1(p)
  PROVE  Silent \/ Serves(p)
<1> DEFINE c     == Fetched(p)
           intid == HighestPending(gic, p, c.threshold)
           s     == SlotOf(p, intid)
           prio  == gic.priorities[s]
           frame == [intid |-> intid, prev_prio |-> c.running, dropped |-> FALSE]
<1>1. /\ GoodCore(c) /\ c \in Core /\ SameStacks(core[p], c) /\ gic \in Gic
      /\ c.threshold \in Prio /\ c.running \in RunPrio /\ Room(c) /\ waived' = waived
      /\ c.threshold = Lesser(c.pmr, c.running) /\ c.pmr \in Prio
  BY FetchedGood, FetchedStacks, CoreGood DEF ReadIccIar1, GoodCore, Core, GicInv
<1>2. \/ \E d \in {c, NoteNegative(gic, c)} : core' = [core EXCEPT ![p] = d] /\ UNCHANGED <<gic, apr>>
      \/ /\ IarAcknowledges(c) /\ intid # Spurious
         /\ Becomes(AfterAcknowledge(gic, p, c.threshold))
         /\ core' = [core EXCEPT ![p] =
              RunAt([ForgetNegative(c) EXCEPT !.manual = Append(@, frame)], Priority(gic, p, intid))]
         /\ apr' = Acked(gic, p, c, TRUE)
  BY DEF ReadIccIar1
<1>3. CASE \E d \in {c, NoteNegative(gic, c)} : core' = [core EXCEPT ![p] = d] /\ UNCHANGED <<gic, apr>>
  <2>1. PICK d \in {c, NoteNegative(gic, c)} : core' = [core EXCEPT ![p] = d] /\ UNCHANGED <<gic, apr>>
    BY <1>3
  <2> HIDE DEF c
  <2>2. SameStacks(c, c) /\ SameStacks(c, NoteNegative(gic, c))
    BY <1>1, FieldKeepsStacks, AnswerKeepsStacks
  <2>3. SameStacks(core[p], d)
    BY <1>1, <2>1, <2>2, SameStacksTransitive
  <2>4. Only(p, d) /\ SameBits(gic, gic')
    BY <2>1, OnlyOne DEF SameBits
  <2> QED
    BY <1>1, <2>1, <2>3, <2>4, OneSilent
<1>4. CASE /\ IarAcknowledges(c) /\ intid # Spurious
           /\ Becomes(AfterAcknowledge(gic, p, c.threshold))
           /\ core' = [core EXCEPT ![p] =
                RunAt([ForgetNegative(c) EXCEPT !.manual = Append(@, frame)], Priority(gic, p, intid))]
           /\ apr' = Acked(gic, p, c, TRUE)
  <2>1. gic' = AfterAcknowledge(gic, p, c.threshold)
    BY <1>4 DEF Becomes
  <2>2. /\ intid \in IntIds /\ s \in gic.pending /\ prio \in Prio
        /\ prio < c.threshold /\ Priority(gic, p, intid) = prio
        /\ gic'.pending = gic.pending \ {s} /\ gic'.active = gic.active \cup {s}
        /\ gic'.line_level = gic.line_level /\ gic'.priorities = gic.priorities
    BY <1>1, <1>4, <2>1, AcknowledgeBits
  <2>3. prio \in RunPrio /\ prio < c.running
    <3> HIDE DEF prio, c
    <3> QED
      BY <1>1, <2>2, GicAssumption DEF Lesser, Prio, RunPrio, IdlePrio
  <2>4. apr' = [apr EXCEPT ![p] = Append(@, [intid |-> intid, prio |-> prio, manual |-> TRUE])]
    BY <1>4, <2>2 DEF Acked
  <2>5. Acks(p, intid, TRUE)
    BY <1>1, <2>2, <2>4 DEF Acks
  <2> DEFINE e == ForgetNegative(c)
             d == [e EXCEPT !.manual = Append(@, frame)]
  <2>6. Only(p, RunAt(d, prio))
    BY <1>4, <2>2, OnlyOne
  <2>7. ~InIrqFrame(c) /\ Len(c.manual) < MaxExcDepth
    BY <1>4 DEF IarAcknowledges
  <2>8. frame \in ManualFrame
    BY <1>1, <2>2 DEF ManualFrame
  <2> HIDE DEF frame, prio, c
  <2>9. /\ e \in Core /\ e.halted = c.halted /\ e.exc = c.exc /\ e.manual = c.manual
    BY <1>1, ForgetGood, AnswerKeepsStacks DEF SameStacks, GoodCore
  <2> HIDE DEF e
  <2>10. d \in Core
    BY <1>1, <2>7, <2>8, <2>9, PushFits DEF Room
  <2>11. d.manual = Append(c.manual, frame) /\ d.exc = c.exc /\ d.halted = c.halted
    BY <2>9 DEF Core
  <2> HIDE DEF d
  <2>12. /\ RunAt(d, prio).running = prio /\ RunAt(d, prio).exc = c.exc
         /\ RunAt(d, prio).manual = Append(c.manual, frame) /\ RunAt(d, prio).halted = c.halted
    BY <2>3, <2>10, <2>11, RunAtStacks
  <2>13. Pushes(p, intid, TRUE)
    <3>1. ~InIrqFrame(core[p]) /\ core[p].exc = c.exc /\ core[p].manual = c.manual /\ core[p].running = c.running
          /\ (c.halted = "no" => core[p].halted = "no")
      BY <1>1, <2>7 DEF SameStacks, InIrqFrame
    <3> QED
      BY <2>3, <2>6, <2>7, <2>12, <3>1 DEF Pushes, Only, frame, prio
  <2> QED
    BY <2>2, <2>5, <2>13 DEF Serves
<1> QED
  BY <1>2, <1>3, <1>4

-----------------------------------------------------------------------------
(* Lines                                                                   *)

AprOK == apr \in [Cpus -> Seq(Acknowledged)]

\* The SPIs that only a line drives.
LineSpis == (setup.lines \ setup.messages) \cap SpiIds

\* Entry k of core q's history in a is of interrupt i.
EntryOf(a, q, k, i) == k \in DOMAIN a[q] /\ a[q][k].intid = i

\* An SPI that a line drives and some core handles is active and not pending,
\* and it is handled in one place: a second acknowledgement has nothing to find.
HandledOnce ==
  \A i \in LineSpis : SlotOf(0, i) \notin waived =>
     \A p \in Cpus : \A j : EntryOf(apr, p, j, i) =>
        /\ SlotOf(0, i) \in gic.active /\ SlotOf(0, i) \notin gic.pending
        /\ \A q \in Cpus : \A k : EntryOf(apr, q, k, i) => q = p /\ k = j

\* A step that acknowledges and ends nothing and leaves the lines alone.  What
\* the guest clears it has waived, and only messages and writes pend anything.
Touches ==
  /\ gic'.line_level = gic.line_level /\ apr' = apr /\ waived \subseteq waived'
  /\ \A t \in Slots : t \notin waived' =>
       (t \in gic.pending => t \in gic'.pending) /\ (t \in gic'.active <=> t \in gic.active)
  /\ \A i \in LineSpis : SlotOf(0, i) \notin waived' =>
       (SlotOf(0, i) \in gic'.pending => SlotOf(0, i) \in gic.pending)

\* A core ends interrupt i, and takes it from its history if it is the last one.
Ends(p, i) ==
  LET s == SlotOf(p, i) IN
  /\ i \in IntIds /\ waived' = waived
  /\ gic'.line_level = gic.line_level /\ gic'.priorities = gic.priorities
  /\ \/ gic'.pending = gic.pending /\ gic'.active = gic.active
     \/ /\ gic'.pending = (IF s \in gic.line_level THEN gic.pending \cup {s} ELSE gic.pending)
        /\ gic'.active = gic.active \ {s}
  /\ \/ LastAcked(p, i) /\ apr' = [apr EXCEPT ![p] = Pop(@)]
     \/ apr' = apr /\ s \notin Handled

\* An SPI has one slot, and shares it with no other interrupt.
LEMMA SpiSlot ==
  ASSUME NEW i \in SpiIds
  PROVE  /\ i \in IntIds /\ SlotOf(0, i) \in Slots
         /\ \A p \in Cpus : SlotOf(p, i) = SlotOf(0, i)
         /\ \A p \in Cpus, x \in IntIds : SlotOf(p, x) = SlotOf(0, i) => x = i
<1>1. i \in IntIds /\ i \notin LocalIds
  BY GicAssumption DEF SpiIds, IntIds, LocalIds
<1>2. \A p \in Cpus : SlotOf(p, i) = <<0, i>> /\ SlotOf(0, i) = <<0, i>>
  BY <1>1 DEF SlotOf
<1>3. <<0, i>> \in Slots
  BY DEF Slots, SpiSlots
<1>4. SlotOf(0, i) = <<0, i>>
  BY <1>1 DEF SlotOf
<1>5. \A p \in Cpus, x \in IntIds : SlotOf(p, x) = <<0, i>> => x = i
  BY DEF SlotOf
<1> QED
  BY <1>1, <1>2, <1>3, <1>4, <1>5

\* A slot that is handled is one of a core's entries.
LEMMA HandledEntry ==
  ASSUME NEW q \in Cpus, NEW k, NEW i, EntryOf(apr, q, k, i)
  PROVE  SlotOf(q, i) \in Handled
BY DEF Handled, EntryOf

\* The history after an acknowledgement.
LEMMA AppendEntries ==
  ASSUME AprOK, NEW p \in Cpus, NEW x \in Acknowledged, apr' = [apr EXCEPT ![p] = Append(@, x)]
  PROVE  /\ AprOK'
         /\ \A q \in Cpus : q # p => apr'[q] = apr[q]
         /\ Len(apr[p]) \in Nat /\ Len(apr'[p]) = Len(apr[p]) + 1
         /\ DOMAIN apr[p] = 1 .. Len(apr[p]) /\ DOMAIN apr'[p] = 1 .. Len(apr[p]) + 1
         /\ \A k \in 1 .. Len(apr[p]) : apr'[p][k] = apr[p][k]
         /\ apr'[p][Len(apr[p]) + 1] = x
<1>1. apr[p] \in Seq(Acknowledged) /\ apr'[p] = Append(apr[p], x) /\ \A q \in Cpus : q # p => apr'[q] = apr[q]
  BY DEF AprOK
<1> DEFINE s == apr[p]
<1>2. s \in Seq(Acknowledged) /\ Len(s) \in Nat /\ DOMAIN s = 1 .. Len(s)
  BY <1>1
<1> HIDE DEF s
<1>3. /\ Append(s, x) \in Seq(Acknowledged) /\ Len(Append(s, x)) = Len(s) + 1
      /\ \A k \in 1 .. Len(s) : Append(s, x)[k] = s[k]
      /\ Append(s, x)[Len(s) + 1] = x
  BY <1>2, AppendProperties
<1>4. DOMAIN Append(s, x) = 1 .. Len(s) + 1
  BY <1>2, <1>3
<1>5. AprOK'
  BY <1>1, <1>3 DEF AprOK, s
<1> QED
  BY <1>1, <1>2, <1>3, <1>4, <1>5 DEF s

\* The history without its last entry.
LEMMA PopEntries ==
  ASSUME AprOK, NEW p \in Cpus, apr[p] # <<>>, apr' = [apr EXCEPT ![p] = Pop(@)]
  PROVE  /\ AprOK'
         /\ \A q \in Cpus : q # p => apr'[q] = apr[q]
         /\ Len(apr[p]) \in Nat \ {0} /\ Len(apr'[p]) = Len(apr[p]) - 1
         /\ DOMAIN apr[p] = 1 .. Len(apr[p]) /\ DOMAIN apr'[p] = 1 .. Len(apr[p]) - 1
         /\ \A k \in 1 .. Len(apr[p]) - 1 : apr'[p][k] = apr[p][k]
<1>1. apr[p] \in Seq(Acknowledged) /\ apr'[p] = Pop(apr[p]) /\ \A q \in Cpus : q # p => apr'[q] = apr[q]
  BY DEF AprOK
<1> DEFINE s == apr[p]
<1>2. s \in Seq(Acknowledged) /\ Len(s) \in Nat /\ DOMAIN s = 1 .. Len(s) /\ Len(s) # 0
  BY <1>1, EmptySeq
<1> HIDE DEF s
<1>3. /\ SubSeq(s, 1, Len(s) - 1) \in Seq(Acknowledged) /\ Len(SubSeq(s, 1, Len(s) - 1)) = Len(s) - 1
      /\ \A k \in 1 .. Len(s) - 1 : SubSeq(s, 1, Len(s) - 1)[k] = s[k]
  BY <1>2
<1>4. DOMAIN SubSeq(s, 1, Len(s) - 1) = 1 .. Len(s) - 1
  BY <1>2, <1>3
<1>5. AprOK'
  BY <1>1, <1>3 DEF AprOK, s, Pop
<1> QED
  BY <1>1, <1>2, <1>3, <1>4, <1>5 DEF s, Pop

\* A silent step touches nothing; so does one that leaves these bits alone.
LEMMA RestTouches ==
  ASSUME UNCHANGED <<apr, waived>>,
         gic'.pending = gic.pending, gic'.active = gic.active, gic'.line_level = gic.line_level
  PROVE  Touches
BY DEF Touches

\* A write of ICC_EOIR1_EL1 by a guest that may.
LEMMA EoirEnds ==
  ASSUME CpuInv, NEW p \in Cpus, NEW i \in IntIds, GuestMayEoir(p, i), WriteIccEoir1(p, i)
  PROVE  Ends(p, i)
<1>1. LastAcked(p, i) /\ apr' = [apr EXCEPT ![p] = Pop(@)] /\ waived' = waived
  BY DEF GuestMayEoir, WriteIccEoir1
<1>2. gic' = gic \/ gic' = Eoi(gic, p, i)
  BY DEF WriteIccEoir1, Becomes
<1>3. gic \in Gic
  BY CoreGood DEF GicInv
<1> QED
  BY <1>1, <1>2, <1>3, EoiBits DEF Ends

\* A write of ICC_DIR_EL1 by a guest that may.
LEMMA DirEnds ==
  ASSUME CpuInv, NEW p \in Cpus, NEW i \in IntIds, GuestMayDeactivate(p, i), WriteIccDir(p, i)
  PROVE  Ends(p, i)
<1>1. SlotOf(p, i) \notin Handled /\ UNCHANGED <<apr, waived>>
  BY DEF GuestMayDeactivate, WriteIccDir
<1>2. gic' = Eoi(gic, p, i)
  BY DEF WriteIccDir, Becomes
<1>3. gic \in Gic
  BY CoreGood DEF GicInv
<1> QED
  BY <1>1, <1>2, <1>3, EoiBits DEF Ends

\* ERET ends the interrupt of an undropped frame.
LEMMA EretEnds ==
  ASSUME CpuInv, AprOK, NEW p \in Cpus, NEW b \in BOOLEAN, GuestMayEret(p), Eret(p, b)
  PROVE  Touches \/ \E i \in IntIds : Ends(p, i)
<1> DEFINE c     == Fetched(p)
           frame == Top(c.exc)
           ends  == c.exc # <<>> /\ frame.is_irq /\ ~frame.dropped
<1>1. Executing(p) /\ waived' = waived
  BY DEF Eret, Execute
<1>2. c.exc = core[p].exc /\ gic \in Gic
  BY <1>1, FetchedStacks, CoreGood DEF SameStacks, GicInv
<1>3. /\ IF ends THEN gic' = Eoi(gic, p, frame.intid) ELSE gic' = gic
      /\ apr' = [apr EXCEPT ![p] = IF ends /\ LastAcked(p, frame.intid) THEN Pop(@) ELSE @]
  BY DEF Eret, Becomes
<1> HIDE DEF c
<1>4. CASE ~ends
  <2>1. apr' = apr
    BY <1>3, <1>4 DEF AprOK
  <2> QED
    BY <1>1, <1>3, <1>4, <2>1, RestTouches
<1>5. CASE ends
  <2>1. LastAcked(p, frame.intid)
    BY <1>2, <1>5 DEF GuestMayEret, InIrqFrame
  <2>2. frame.intid \in IntIds
    <3>1. apr[p] \in Seq(Acknowledged) /\ apr[p] # <<>>
      BY <2>1 DEF AprOK, LastAcked
    <3>2. Top(apr[p]) \in Acknowledged
      BY <3>1, StackTop
    <3> QED
      BY <2>1, <3>2 DEF LastAcked, Acknowledged
  <2>3. gic' = Eoi(gic, p, frame.intid) /\ apr' = [apr EXCEPT ![p] = Pop(@)]
    BY <1>3, <1>5, <2>1
  <2> HIDE DEF frame
  <2>4. Ends(p, frame.intid)
    BY <1>1, <1>2, <2>1, <2>2, <2>3, EoiBits DEF Ends
  <2> QED
    BY <2>2, <2>4
<1> QED
  BY <1>4, <1>5

\* A message, an SGI among them, pends what no line drives, or what the guest waives.
LEMMA PendingTouches ==
  ASSUME gic \in Gic, NEW S, apr' = apr, waived \subseteq waived',
         PendingBecomes(gic, gic', gic.pending \cup S) \/ PendingBecomes(gic, gic', gic.pending \ S),
         \A i \in LineSpis : SlotOf(0, i) \notin S,
         (\A t \in S : t \in waived') \/ PendingBecomes(gic, gic', gic.pending \cup S)
  PROVE  Touches
BY DEF Touches, PendingBecomes, Gic

LEMMA SgiTouches ==
  ASSUME CpuInv, NEW p \in Cpus, NEW i \in 0 .. NumSgis - 1, NEW irm \in BOOLEAN, NEW list \in SUBSET Cpus,
         Sgi(p, i, irm, list)
  PROVE  Touches
<1> DEFINE S == {<<cpu, i>> : cpu \in SgiTargets(p, irm, list)}
<1>1. gic' = SetPendingBits(gic, S, TRUE) /\ UNCHANGED <<apr, waived>>
  BY DEF Sgi, Becomes, SendSgi
<1>2. gic \in Gic
  BY CoreGood DEF GicInv
<1>3. PendingBecomes(gic, gic', gic.pending \cup S)
  BY <1>1, <1>2, SetterBits
<1>4. ASSUME NEW l \in LineSpis
      PROVE  SlotOf(0, l) \notin S
  <2>1. l # i
    BY GicAssumption DEF LineSpis, SpiIds
  <2> QED
    BY <2>1 DEF SlotOf
<1> HIDE DEF S
<1> QED
  BY <1>1, <1>2, <1>3, <1>4, PendingTouches

LEMMA MessageTouches ==
  ASSUME CpuInv, NEW p \in Cpus, NEW i \in setup.messages, Message(p, i)
  PROVE  Touches
<1> DEFINE S == {SlotOf(p, i)}
<1>1. gic' = SetPendingBits(gic, S, TRUE) /\ UNCHANGED <<apr, waived>>
  BY DEF Message, Becomes
<1>2. gic \in Gic
  BY CoreGood DEF GicInv
<1>3. PendingBecomes(gic, gic', gic.pending \cup S)
  BY <1>1, <1>2, SetterBits
<1>4. ASSUME NEW l \in LineSpis
      PROVE  SlotOf(0, l) \notin S
  <2>1. i # l /\ l \in SpiIds /\ i \in IntIds
    BY SetupType DEF LineSpis
  <2> QED
    BY <2>1, SpiSlot
<1> HIDE DEF S
<1> QED
  BY <1>1, <1>2, <1>3, <1>4, PendingTouches

LEMMA RegisterWriteTouches ==
  ASSUME CpuInv, NEW p \in Cpus, GicRegisterWrite(p)
  PROVE  Touches
<1>0. gic \in Gic /\ apr' = apr
  BY CoreGood DEF GicInv, GicRegisterWrite
<1>1. PICK s \in Slots, value \in BOOLEAN :
        \/ gic' = SetEnabledBits(gic, {s}, value) /\ waived' = waived
        \/ gic' = SetActiveBits(gic, {s}, value) /\ waived' = waived \cup {s}
        \/ s \notin SpiSlots /\ gic' = SetPendingBits(gic, {s}, value) /\ waived' = waived \cup {s}
        \/ \E prio \in Prio : gic' = SetPriorityRange(gic, [t \in {s} |-> prio]) /\ waived' = waived
  BY DEF GicRegisterWrite, Becomes
<1>2. CASE gic' = SetEnabledBits(gic, {s}, value) /\ waived' = waived
  BY <1>0, <1>2, EnabledSameBits, RestTouches DEF SameBits
<1>3. CASE gic' = SetActiveBits(gic, {s}, value) /\ waived' = waived \cup {s}
  <2>1. ActiveBecomes(gic, gic', gic.active \cup {s}) \/ ActiveBecomes(gic, gic', gic.active \ {s})
    BY <1>0, <1>3, SetterBits
  <2> QED
    BY <1>0, <1>3, <2>1 DEF Touches, ActiveBecomes
<1>4. CASE s \notin SpiSlots /\ gic' = SetPendingBits(gic, {s}, value) /\ waived' = waived \cup {s}
  <2>1. PendingBecomes(gic, gic', gic.pending \cup {s}) \/ PendingBecomes(gic, gic', gic.pending \ {s})
    BY <1>0, <1>4, SetterBits
  <2>2. ASSUME NEW l \in LineSpis
        PROVE  SlotOf(0, l) # s
    <3>1. l \in SpiIds /\ l \notin LocalIds
      BY GicAssumption DEF LineSpis, SpiIds, LocalIds
    <3> QED
      BY <1>4, <3>1 DEF SlotOf, SpiSlots
  <2> QED
    BY <1>0, <1>4, <2>1, <2>2, PendingTouches
<1>5. CASE \E prio \in Prio : gic' = SetPriorityRange(gic, [t \in {s} |-> prio]) /\ waived' = waived
  <2>1. gic'.pending = gic.pending /\ gic'.active = gic.active /\ gic'.line_level = gic.line_level
    BY <1>0, <1>5 DEF SetPriorityRange, Gic
  <2> QED
    BY <1>0, <1>5, <2>1, RestTouches
<1> QED
  BY <1>1, <1>2, <1>3, <1>4, <1>5

\* Every instruction.
LEMMA InstructionActs ==
  ASSUME CpuInv, AprOK, NEW p \in Cpus, Instruction(p)
  PROVE  Touches \/ Serves(p) \/ \E i \in IntIds : Ends(p, i)
<1>0. SUFFICES ASSUME ~Silent
               PROVE  Touches \/ Serves(p) \/ \E i \in IntIds : Ends(p, i)
  BY RestTouches DEF Silent, SameBits
<1>1. /\ setup.pmrs \subseteq Prio /\ setup.eoimodes \subseteq BOOLEAN /\ 0 \in Prio
  BY SetupType, GicAssumption DEF Prio
<1>2. CASE \E b \in BOOLEAN : MsrDaif(p, b) \/ WriteIccIgrpen1(p, b)
  BY <1>0, <1>1, <1>2, PlainSilent
<1>3. CASE \E b \in BOOLEAN : GuestMayEret(p) /\ Eret(p, b)
  BY <1>3, EretEnds
<1>4. CASE \E pmr \in setup.pmrs : WriteIccPmr(p, pmr)
  BY <1>0, <1>1, <1>4, PlainSilent
<1>5. CASE \E m \in setup.eoimodes : WriteIccCtlr(p, m)
  BY <1>0, <1>1, <1>5, PlainSilent
<1>6. CASE ReadIccIar1(p)
  BY <1>0, <1>6, IarActs
<1>7. CASE \E i \in IntIds : GuestMayEoir(p, i) /\ WriteIccEoir1(p, i)
  BY <1>7, EoirEnds
<1>8. CASE \E i \in IntIds : GuestMayDeactivate(p, i) /\ WriteIccDir(p, i)
  BY <1>8, DirEnds
<1>9. CASE SyncException(p)
  BY <1>9, RestTouches DEF SyncException
<1>10. CASE Wfi(p) \/ Wfe(p)
  BY <1>0, <1>1, <1>10, PlainSilent
<1>11. CASE Sev(p)
  BY <1>0, <1>11, SevSilent
<1>12. CASE \E i \in 0 .. NumSgis - 1, irm \in BOOLEAN, list \in SUBSET Cpus : Sgi(p, i, irm, list)
  BY <1>12, SgiTouches
<1>13. CASE GicRegisterWrite(p)
  BY <1>13, RegisterWriteTouches
<1> QED
  BY <1>2, <1>3, <1>4, <1>5, <1>6, <1>7, <1>8, <1>9, <1>10, <1>11, <1>12, <1>13 DEF Instruction

\* Every step.
LEMMA StepActs ==
  ASSUME CpuInv, AprOK, [Next]_vars
  PROVE  /\ UNCHANGED setup
         /\ \/ Touches
            \/ \E p \in Cpus : Serves(p) \/ \E i \in IntIds : Ends(p, i)
            \/ \E p \in Cpus, i \in setup.lines, b \in BOOLEAN : Line(p, i, b)
<1>0. ASSUME Silent
      PROVE  Touches
  BY <1>0, RestTouches DEF Silent, SameBits
<1>1. CASE UNCHANGED vars
  BY <1>1, RestTouches DEF vars
<1>2. ASSUME NEW p \in Cpus, CpuStep(p) \/ ReadyToRun(p)
      PROVE  Touches \/ Serves(p) \/ \E i \in IntIds : Ends(p, i)
  BY <1>0, <1>2, IrqStepServes, WfiStepActs, WfeStepActs, InstructionActs, ReadyToRunSilent DEF CpuStep
<1>3. ASSUME Device
      PROVE  Touches \/ \E p \in Cpus, i \in setup.lines, b \in BOOLEAN : Line(p, i, b)
  BY <1>3, MessageTouches DEF Device
<1> QED
  BY <1>1, <1>2, <1>3 DEF Next, vars

LEMMA TouchesKeepsOnce ==
  ASSUME CpuInv, HandledOnce, UNCHANGED setup, Touches
  PROVE  HandledOnce'
<1>1. SUFFICES ASSUME NEW i \in LineSpis, SlotOf(0, i) \notin waived', NEW p \in Cpus, NEW j, EntryOf(apr, p, j, i)
               PROVE  /\ SlotOf(0, i) \in gic'.active /\ SlotOf(0, i) \notin gic'.pending
                      /\ \A q \in Cpus : \A k : EntryOf(apr, q, k, i) => q = p /\ k = j
  BY DEF HandledOnce, Touches, LineSpis
<1>2. SlotOf(0, i) \in Slots /\ SlotOf(0, i) \notin waived
  BY <1>1, SpiSlot DEF LineSpis, Touches
<1>3. /\ SlotOf(0, i) \in gic.active /\ SlotOf(0, i) \notin gic.pending
      /\ \A q \in Cpus : \A k : EntryOf(apr, q, k, i) => q = p /\ k = j
  BY <1>1, <1>2 DEF HandledOnce
<1> QED
  BY <1>1, <1>2, <1>3 DEF Touches

\* What a core acknowledges was pending, so nobody handles it.
LEMMA AcksKeepsOnce ==
  ASSUME CpuInv, AprOK, HandledOnce, UNCHANGED setup,
         NEW p \in Cpus, NEW x \in IntIds, NEW manual \in BOOLEAN, Acks(p, x, manual)
  PROVE  AprOK' /\ HandledOnce'
<1> DEFINE s == SlotOf(p, x)
           n == Len(apr[p])
           a == [intid |-> x, prio |-> gic.priorities[s], manual |-> manual]
<1>1. a \in Acknowledged /\ a.intid = x /\ apr' = [apr EXCEPT ![p] = Append(@, a)] /\ waived' = waived
  BY DEF Acks, Acknowledged
<1>2. s \in gic.pending /\ gic'.pending = gic.pending \ {s} /\ gic'.active = gic.active \cup {s}
  BY DEF Acks
<1> HIDE DEF a
<1>3. /\ AprOK'
      /\ \A q \in Cpus : q # p => apr'[q] = apr[q]
      /\ n \in Nat /\ Len(apr'[p]) = n + 1
      /\ DOMAIN apr[p] = 1 .. n /\ DOMAIN apr'[p] = 1 .. n + 1
      /\ \A k \in 1 .. n : apr'[p][k] = apr[p][k]
      /\ apr'[p][n + 1] = a
  BY <1>1, AppendEntries
<1> HIDE DEF n
<1>4. ASSUME NEW q \in Cpus, NEW k, NEW i, EntryOf(apr', q, k, i)
      PROVE  EntryOf(apr, q, k, i) \/ (q = p /\ k = n + 1 /\ i = x)
  BY <1>1, <1>3, <1>4 DEF EntryOf
<1>5. SUFFICES ASSUME NEW i \in LineSpis, SlotOf(0, i) \notin waived, NEW q \in Cpus, NEW j, EntryOf(apr', q, j, i)
               PROVE  /\ SlotOf(0, i) \in gic'.active /\ SlotOf(0, i) \notin gic'.pending
                      /\ \A r \in Cpus : \A k : EntryOf(apr', r, k, i) => r = q /\ k = j
  BY <1>1, <1>3 DEF HandledOnce, LineSpis
<1>6. i \in SpiIds
  BY DEF LineSpis
<1>7. CASE i = x
  <2>1. s = SlotOf(0, i)
    BY <1>6, <1>7, SpiSlot
  <2>2. \A r \in Cpus : \A k : ~EntryOf(apr, r, k, i)
    BY <1>2, <1>5, <2>1 DEF HandledOnce
  <2> QED
    BY <1>2, <1>4, <1>5, <2>1, <2>2
<1>8. CASE i # x
  <2>1. SlotOf(0, i) # s
    BY <1>6, <1>8, SpiSlot
  <2>2. EntryOf(apr, q, j, i)
    BY <1>4, <1>5, <1>8
  <2>3. /\ SlotOf(0, i) \in gic.active /\ SlotOf(0, i) \notin gic.pending
        /\ \A r \in Cpus : \A k : EntryOf(apr, r, k, i) => r = q /\ k = j
    BY <1>5, <2>2 DEF HandledOnce
  <2> HIDE DEF s
  <2> QED
    BY <1>2, <1>4, <1>8, <2>1, <2>3
<1> QED
  BY <1>7, <1>8

\* Where an interrupt ends it was handled, so it is handled nowhere after.
LEMMA EndsKeepsOnce ==
  ASSUME CpuInv, AprOK, HandledOnce, UNCHANGED setup, NEW p \in Cpus, NEW x \in IntIds, Ends(p, x)
  PROVE  AprOK' /\ HandledOnce'
<1> DEFINE s == SlotOf(p, x)
           n == Len(apr[p])
<1>1. waived' = waived
  BY DEF Ends
<1>2. ASSUME NEW t, t # s
      PROVE  (t \in gic'.pending <=> t \in gic.pending) /\ (t \in gic'.active <=> t \in gic.active)
  BY <1>2 DEF Ends
<1>3. CASE LastAcked(p, x) /\ apr' = [apr EXCEPT ![p] = Pop(@)]
  <2>1. apr[p] # <<>> /\ Top(apr[p]).intid = x
    BY <1>3 DEF LastAcked
  <2>2. /\ AprOK'
        /\ \A q \in Cpus : q # p => apr'[q] = apr[q]
        /\ n \in Nat \ {0} /\ Len(apr'[p]) = n - 1
        /\ DOMAIN apr[p] = 1 .. n /\ DOMAIN apr'[p] = 1 .. n - 1
        /\ \A k \in 1 .. n - 1 : apr'[p][k] = apr[p][k]
    BY <1>3, <2>1, PopEntries
  <2>3. EntryOf(apr, p, n, x)
    BY <2>1, <2>2 DEF EntryOf, Top
  <2> HIDE DEF n
  <2>4. ASSUME NEW q \in Cpus, NEW k, NEW i, EntryOf(apr', q, k, i)
        PROVE  EntryOf(apr, q, k, i) /\ ~(q = p /\ k = n)
    BY <2>2, <2>4 DEF EntryOf
  <2>5. SUFFICES ASSUME NEW i \in LineSpis, SlotOf(0, i) \notin waived, NEW q \in Cpus, NEW j, EntryOf(apr', q, j, i)
                 PROVE  /\ SlotOf(0, i) \in gic'.active /\ SlotOf(0, i) \notin gic'.pending
                        /\ \A r \in Cpus : \A k : EntryOf(apr', r, k, i) => r = q /\ k = j
    BY <1>1, <2>2 DEF HandledOnce, LineSpis
  <2>6. EntryOf(apr, q, j, i) /\ ~(q = p /\ j = n)
    BY <2>4, <2>5
  <2>7. /\ SlotOf(0, i) \in gic.active /\ SlotOf(0, i) \notin gic.pending
        /\ \A r \in Cpus : \A k : EntryOf(apr, r, k, i) => r = q /\ k = j
    BY <2>5, <2>6 DEF HandledOnce
  <2>8. i # x
    BY <2>3, <2>6, <2>7
  <2>9. SlotOf(0, i) # s
    BY <2>8, SpiSlot DEF LineSpis
  <2> QED
    BY <1>2, <2>4, <2>7, <2>9
<1>4. CASE apr' = apr /\ s \notin Handled
  <2>1. SUFFICES ASSUME NEW i \in LineSpis, SlotOf(0, i) \notin waived, NEW q \in Cpus, NEW j, EntryOf(apr, q, j, i)
                 PROVE  /\ SlotOf(0, i) \in gic'.active /\ SlotOf(0, i) \notin gic'.pending
                        /\ \A r \in Cpus : \A k : EntryOf(apr, r, k, i) => r = q /\ k = j
    BY <1>1, <1>4 DEF HandledOnce, LineSpis, AprOK
  <2>2. SlotOf(q, i) = SlotOf(0, i) /\ SlotOf(q, i) \in Handled
    BY <2>1, SpiSlot, HandledEntry DEF LineSpis
  <2>3. SlotOf(0, i) # s
    BY <1>4, <2>2
  <2>4. /\ SlotOf(0, i) \in gic.active /\ SlotOf(0, i) \notin gic.pending
        /\ \A r \in Cpus : \A k : EntryOf(apr, r, k, i) => r = q /\ k = j
    BY <2>1 DEF HandledOnce
  <2> QED
    BY <1>2, <2>3, <2>4
<1> QED
  BY <1>3, <1>4 DEF Ends

\* A line that rises does not pend what is being handled.
LEMMA LineKeepsOnce ==
  ASSUME CpuInv, HandledOnce, UNCHANGED setup, NEW p \in Cpus, NEW x \in setup.lines, NEW b \in BOOLEAN, Line(p, x, b)
  PROVE  HandledOnce'
<1> DEFINE s == SlotOf(p, x)
<1>1. /\ x \in IntIds /\ s \in Slots /\ gic \in Gic /\ apr' = apr /\ gic' = SetLevel(gic, s, b)
      /\ waived' = (IF b \/ s \in Handled THEN waived ELSE waived \ {s})
  BY SetupType, SlotOfType, CoreGood DEF Line, Becomes, GicInv
<1>2. /\ gic'.pending = (IF b /\ s \notin gic.line_level /\ s \notin gic.active THEN gic.pending \cup {s} ELSE gic.pending)
      /\ gic'.active = gic.active
  <2>1. LineBecomes(gic, gic', s, b)
    BY <1>1, LevelBits
  <2> QED
    BY <2>1 DEF LineBecomes
<1>3. SUFFICES ASSUME NEW i \in LineSpis, SlotOf(0, i) \notin waived', NEW q \in Cpus, NEW j, EntryOf(apr, q, j, i)
               PROVE  /\ SlotOf(0, i) \in gic'.active /\ SlotOf(0, i) \notin gic'.pending
                      /\ \A r \in Cpus : \A k : EntryOf(apr, r, k, i) => r = q /\ k = j
  BY <1>1 DEF HandledOnce, LineSpis
<1>4. SlotOf(q, i) = SlotOf(0, i) /\ SlotOf(q, i) \in Handled
  BY <1>3, SpiSlot, HandledEntry DEF LineSpis
<1>5. SlotOf(0, i) \notin waived
  BY <1>1, <1>3, <1>4
<1>6. /\ SlotOf(0, i) \in gic.active /\ SlotOf(0, i) \notin gic.pending
      /\ \A r \in Cpus : \A k : EntryOf(apr, r, k, i) => r = q /\ k = j
  BY <1>3, <1>5 DEF HandledOnce
<1> HIDE DEF s
<1> QED
  BY <1>2, <1>6

\* An asserted line is served through every step.
LEMMA StepKeepsServed ==
  ASSUME CpuInv, AprOK, AssertedLineServed, [Next]_vars
  PROVE  AssertedLineServed'
<1>0. gic \in Gic /\ gic.line_level \subseteq Slots
  BY DEF CpuInv, GicInv, Gic
<1>1. CASE Touches
  BY <1>0, <1>1 DEF Touches, AssertedLineServed
<1>2. ASSUME NEW p \in Cpus, Serves(p)
      PROVE  AssertedLineServed'
  BY <1>2 DEF Serves, Acks, AssertedLineServed
<1>3. ASSUME NEW p \in Cpus, NEW i \in IntIds, Ends(p, i)
      PROVE  AssertedLineServed'
  BY <1>3 DEF Ends, AssertedLineServed
<1>4. ASSUME NEW p \in Cpus, NEW i \in setup.lines, NEW b \in BOOLEAN, Line(p, i, b)
      PROVE  AssertedLineServed'
  <2> DEFINE s == SlotOf(p, i)
  <2>1. s \in Slots /\ gic' = SetLevel(gic, s, b)
    BY <1>4, SetupType, SlotOfType DEF Line, Becomes
  <2>2. /\ gic'.pending = (IF b /\ s \notin gic.line_level /\ s \notin gic.active THEN gic.pending \cup {s} ELSE gic.pending)
        /\ gic'.active = gic.active /\ gic'.line_level = Updated(gic.line_level, {s}, b)
    <3>1. LineBecomes(gic, gic', s, b)
      BY <1>0, <2>1, LevelBits
    <3> QED
      BY <3>1 DEF LineBecomes
  <2>3. waived' = (IF b \/ s \in Handled THEN waived ELSE waived \ {s})
    BY <1>4 DEF Line
  <2> HIDE DEF s
  <2>4. CASE b
    BY <2>2, <2>3, <2>4 DEF AssertedLineServed, Updated
  <2>5. CASE ~b
    BY <2>2, <2>3, <2>5 DEF AssertedLineServed, Updated
  <2> QED
    BY <2>4, <2>5
<1> QED
  BY <1>1, <1>2, <1>3, <1>4, StepActs

LEMMA StepKeepsOnce ==
  ASSUME CpuInv, AprOK, HandledOnce, [Next]_vars
  PROVE  AprOK' /\ HandledOnce'
<1>1. UNCHANGED setup
  BY StepActs
<1>2. CASE Touches
  BY <1>1, <1>2, TouchesKeepsOnce DEF Touches, AprOK
<1>3. ASSUME NEW p \in Cpus, Serves(p)
      PROVE  AprOK' /\ HandledOnce'
  BY <1>1, <1>3, AcksKeepsOnce DEF Serves
<1>4. ASSUME NEW p \in Cpus, NEW i \in IntIds, Ends(p, i)
      PROVE  AprOK' /\ HandledOnce'
  BY <1>1, <1>4, EndsKeepsOnce
<1>5. ASSUME NEW p \in Cpus, NEW i \in setup.lines, NEW b \in BOOLEAN, Line(p, i, b)
      PROVE  AprOK' /\ HandledOnce'
  BY <1>1, <1>5, LineKeepsOnce DEF Line, AprOK
<1> QED
  BY <1>2, <1>3, <1>4, <1>5, StepActs

\* Nothing is handled at the start.
LEMMA InitOnce ==
  ASSUME Init
  PROVE  AprOK /\ HandledOnce
<1>1. \A p \in Cpus : apr[p] = <<>> /\ DOMAIN apr[p] = {}
  BY DEF Init
<1>2. AprOK
  BY DEF Init, AprOK
<1> QED
  BY <1>1, <1>2 DEF HandledOnce, EntryOf

\* The history is well formed and every line's SPI in one hand, in every
\* reachable state.
THEOREM HandledOnceHolds == Spec => [](AprOK /\ HandledOnce)
<1>1. Init => AprOK /\ HandledOnce
  BY InitOnce
<1>2. CpuInv /\ (AprOK /\ HandledOnce) /\ [Next]_vars => (AprOK /\ HandledOnce)'
  BY StepKeepsOnce
<1> QED
  BY <1>1, <1>2, CpuInvariant, PTL DEF Spec

(* An SPI that only a line drives is never handled twice at once, with any *)
(* number of cores, nested handlers and manual acknowledgements, and with  *)
(* a guest that need not be tidy (gicv3.cpp, acknowledge, eoi, set_level). *)
THEOREM LineSpiHandled == Spec => []LineSpiHandledOnce
<1>1. AprOK /\ HandledOnce => LineSpiHandledOnce
  <2> SUFFICES ASSUME AprOK, HandledOnce, NEW i \in LineSpis, SlotOf(0, i) \notin waived,
                      NEW p \in Cpus, NEW q \in Cpus, NEW j \in DOMAIN apr[p], NEW k \in DOMAIN apr[q],
                      apr[p][j].intid = i, apr[q][k].intid = i
               PROVE  p = q /\ j = k
    BY DEF LineSpiHandledOnce, LineSpis
  <2>1. EntryOf(apr, p, j, i) /\ EntryOf(apr, q, k, i)
    BY DEF EntryOf
  <2> QED
    BY <2>1 DEF HandledOnce
<1> QED
  BY <1>1, HandledOnceHolds, PTL

\* The machine starts with no line asserted that nothing serves.
LinesStartServed == \A image \in SnapshotImages : image.line_level \subseteq image.pending \cup image.active

(* No asserted line is ever forgotten, whatever cores, devices and the     *)
(* guest do and in whatever order: rising while its interrupt is handled,  *)
(* ended while it is high, acknowledged on another core (gicv3.cpp,        *)
(* set_level, acknowledge and eoi).                                        *)
THEOREM AssertedLinesServed == LinesStartServed => (Spec => []AssertedLineServed)
<1> SUFFICES ASSUME LinesStartServed PROVE Spec => []AssertedLineServed
  OBVIOUS
<1>1. Init => AssertedLineServed
  BY DEF Init, LoadState, AssertedLineServed, LinesStartServed
<1>2. CpuInv /\ (AprOK /\ HandledOnce) /\ AssertedLineServed /\ [Next]_vars => AssertedLineServed'
  BY StepKeepsServed
<1> QED
  BY <1>1, <1>2, CpuInvariant, HandledOnceHolds, PTL DEF Spec

-----------------------------------------------------------------------------
(***************************************************************************)
(* The two stacks of a core: for a tidy guest, whatever it nests, the      *)
(* exception stack and the stack of manual acknowledgements keep, between  *)
(* them, the one stack of active priorities that the architecture defines. *)
(*                                                                         *)
(* That the running priority is the one on top says nothing of what it     *)
(* goes back to.  The invariant therefore finds every interrupt that is    *)
(* not ended on one of the two stacks, in the order of acknowledgement,    *)
(* each with the priority it interrupted; and it has the depth at which a  *)
(* manual acknowledgement was made, since no handler entered above it may  *)
(* be taken for its own.                                                   *)
(***************************************************************************)

(* The invariant                                                           *)

\* The priority that entry k of a history interrupted.
Prev(a, k) == IF k = 1 THEN IdlePrio ELSE a[k - 1].prio

\* The running priority is the last one, and each is more urgent than those before.
RunsAtTop(run, a) == run = IF Len(a) = 0 THEN IdlePrio ELSE a[Len(a)].prio
Falls(a) == \A j, k \in 1 .. Len(a) : j < k => a[k].prio < a[j].prio

\* Entry k is in place e[k] of the exception stack or, manually acknowledged
\* when that stack was e[k] deep, in place m[k] of the other.
Remembered(e, m, exc, man, a) ==
  \A k \in 1 .. Len(a) :
    /\ a[k].manual => /\ m[k] \in 1 .. Len(man)
                      /\ man[m[k]].intid = a[k].intid /\ man[m[k]].prev_prio = Prev(a, k) /\ ~man[m[k]].dropped
                      /\ e[k] # 0 => ~exc[e[k]].is_irq
                      /\ \A i \in e[k] + 1 .. Len(exc) : exc[i].is_irq => exc[i].intid # a[k].intid
    /\ ~a[k].manual => /\ e[k] \in 1 .. Len(exc) /\ exc[e[k]].is_irq /\ ~exc[e[k]].dropped
                       /\ exc[e[k]].intid = a[k].intid /\ exc[e[k]].prev_prio = Prev(a, k)

\* The stacks have grown in the order of the history.
InOrder(e, m, a) ==
  \A j, k \in 1 .. Len(a) : j < k =>
    /\ e[j] <= e[k]
    /\ ~a[k].manual => e[j] < e[k]
    /\ a[j].manual /\ a[k].manual => m[j] < m[k]

\* Nothing else on the stacks is undropped.
Covered(e, m, exc, man, a) ==
  /\ \A i \in 1 .. Len(exc) : exc[i].is_irq /\ ~exc[i].dropped => \E k \in 1 .. Len(a) : ~a[k].manual /\ e[k] = i
  /\ \A i \in 1 .. Len(man) : ~man[i].dropped => \E k \in 1 .. Len(a) : a[k].manual /\ m[k] = i

Matches(e, m, run, exc, man, a) ==
  /\ e \in [1 .. Len(a) -> 0 .. Len(exc)] /\ m \in [1 .. Len(a) -> Nat]
  /\ RunsAtTop(run, a) /\ Falls(a)
  /\ Remembered(e, m, exc, man, a) /\ InOrder(e, m, a) /\ Covered(e, m, exc, man, a)

OneStack(run, exc, man, a) ==
  \E e \in [1 .. Len(a) -> 0 .. Len(exc)], m \in [1 .. Len(a) -> Nat] : Matches(e, m, run, exc, man, a)

\* Nobody changes the priority of what is being handled.
PriosKept == \A p \in Cpus : \A k \in DOMAIN apr[p] : apr[p][k].prio = gic.priorities[SlotOf(p, apr[p][k].intid)]

StackInv ==
  setup.tidy => /\ PriosKept
                /\ \A p \in Cpus : core[p].halted = "no" =>
                     OneStack(core[p].running, core[p].exc, core[p].manual, apr[p])

-----------------------------------------------------------------------------
(* Stacks as the code changes them                                         *)

Pushed(s, t, x) == Len(t) = Len(s) + 1 /\ t[Len(s) + 1] = x /\ \A i \in 1 .. Len(s) : t[i] = s[i]
Popped(s, t) == Len(s) > 0 /\ Len(t) = Len(s) - 1 /\ \A i \in 1 .. Len(s) - 1 : t[i] = s[i]

\* The top has been popped, or marked as dropped.
EndedTop(s, t) == /\ Len(s) > 0 /\ Len(t) \in {Len(s) - 1, Len(s)} /\ \A i \in 1 .. Len(s) - 1 : t[i] = s[i]
                  /\ Len(t) = Len(s) => t[Len(s)].dropped /\ t[Len(s)].intid = s[Len(s)].intid

LEMMA AppendPushes ==
  ASSUME NEW S, NEW s \in Seq(S), NEW x \in S
  PROVE  Len(s) \in Nat /\ Append(s, x) \in Seq(S) /\ Pushed(s, Append(s, x), x)
BY AppendProperties DEF Pushed

LEMMA PopPops ==
  ASSUME NEW S, NEW s \in Seq(S), s # <<>>
  PROVE  Len(s) \in Nat /\ Pop(s) \in Seq(S) /\ Popped(s, Pop(s))
<1>1. Len(s) \in Nat /\ Len(s) > 0
  BY EmptySeq
<1>2. /\ Len(s) \in Nat /\ Len(s) # 0 /\ Len(s) - 1 \in 0 .. Len(s) /\ \A k \in DOMAIN s : s[k] \in S
      /\ DOMAIN s = 1 .. Len(s)
  BY <1>1
<1>3. /\ SubSeq(s, 1, Len(s) - 1) \in Seq(S) /\ Len(SubSeq(s, 1, Len(s) - 1)) = Len(s) - 1
      /\ \A k \in 1 .. Len(s) - 1 : SubSeq(s, 1, Len(s) - 1)[k] = s[k]
  BY <1>2
<1> QED
  BY <1>1, <1>3 DEF Pop, Popped

\* try_take_irq enters a handler for an interrupt that is not in the history.
LEMMA PushIrqMatches ==
  ASSUME NEW run \in RunPrio, NEW exc, NEW man, NEW a, Len(exc) \in Nat, Len(man) \in Nat, Len(a) \in Nat,
         \A k \in 1 .. Len(a) : a[k].prio \in Prio,
         OneStack(run, exc, man, a),
         NEW x, NEW prio \in Prio, prio < run, \A k \in 1 .. Len(a) : a[k].intid # x,
         NEW f, f.is_irq, f.intid = x, f.prev_prio = run, ~f.dropped,
         NEW y, y.intid = x, y.prio = prio, ~y.manual,
         NEW exc1, Pushed(exc, exc1, f), NEW a1, Pushed(a, a1, y)
  PROVE  OneStack(prio, exc1, man, a1)
<1> DEFINE n == Len(a)
           h == Len(exc)
<1> n \in Nat /\ h \in Nat
  OBVIOUS
<1>1. PICK e \in [1 .. n -> 0 .. h], m \in [1 .. n -> Nat] : Matches(e, m, run, exc, man, a)
  BY DEF OneStack
<1> DEFINE E == [k \in 1 .. n + 1 |-> IF k = n + 1 THEN h + 1 ELSE e[k]]
           M == [k \in 1 .. n + 1 |-> IF k = n + 1 THEN 0 ELSE m[k]]
<1>2. /\ Len(exc1) = h + 1 /\ exc1[h + 1] = f /\ \A i \in 1 .. h : exc1[i] = exc[i]
      /\ Len(a1) = n + 1 /\ a1[n + 1] = y /\ \A k \in 1 .. n : a1[k] = a[k]
  BY DEF Pushed
<1>3. /\ E \in [1 .. n + 1 -> 0 .. h + 1] /\ M \in [1 .. n + 1 -> Nat]
      /\ E[n + 1] = h + 1 /\ \A k \in 1 .. n : E[k] = e[k] /\ M[k] = m[k]
  OBVIOUS
<1>a. /\ RunsAtTop(run, a) /\ Falls(a)
      /\ Remembered(e, m, exc, man, a) /\ InOrder(e, m, a) /\ Covered(e, m, exc, man, a)
  BY <1>1 DEF Matches
<1>b. /\ n = 0 => run = IdlePrio
      /\ n # 0 => run = a[n].prio
  BY <1>a DEF RunsAtTop
<1> HIDE DEF E, M, n, h
<1>4. RunsAtTop(prio, a1)
  BY <1>2 DEF RunsAtTop
<1>5. Falls(a1)
  <2> SUFFICES ASSUME NEW j \in 1 .. n + 1, NEW k \in 1 .. n + 1, j < k
               PROVE  a1[k].prio < a1[j].prio
    BY <1>2 DEF Falls
  <2>0. j \in 1 .. n
    OBVIOUS
  <2>1. CASE k \in 1 .. n
    BY <1>2, <1>a, <2>0, <2>1 DEF Falls, n
  <2>2. CASE k = n + 1
    <3>1. n \in 1 .. n /\ n # 0 /\ (j < n \/ j = n)
      BY <2>0
    <3>2. run <= a[j].prio
      BY <1>a, <1>b, <3>1, <2>0, GicAssumption DEF Falls, n, Prio
    <3> QED
      BY <1>2, <2>2, <2>0, <3>2, GicAssumption DEF Prio, RunPrio, n, IdlePrio
  <2> QED
    BY <2>1, <2>2
<1>6. /\ \A k \in 1 .. n : Prev(a1, k) = Prev(a, k)
      /\ Prev(a1, n + 1) = run
  <2>1. ASSUME NEW k \in 1 .. n PROVE Prev(a1, k) = Prev(a, k)
    <3>1. k = 1 \/ k - 1 \in 1 .. n
      OBVIOUS
    <3> QED
      BY <1>2, <3>1 DEF Prev
  <2>2. n + 1 - 1 = n /\ (n + 1 = 1 <=> n = 0) /\ (n # 0 => n \in 1 .. n)
    OBVIOUS
  <2>3. Prev(a1, n + 1) = run
    BY <1>2, <1>b, <2>2 DEF Prev
  <2> QED
    BY <2>1, <2>3
<1>7. Remembered(E, M, exc1, man, a1)
  <2> SUFFICES ASSUME NEW k \in 1 .. n + 1
               PROVE  /\ a1[k].manual => /\ M[k] \in 1 .. Len(man)
                                         /\ man[M[k]].intid = a1[k].intid /\ man[M[k]].prev_prio = Prev(a1, k)
                                         /\ ~man[M[k]].dropped
                                         /\ E[k] # 0 => ~exc1[E[k]].is_irq
                                         /\ \A i \in E[k] + 1 .. h + 1 : exc1[i].is_irq => exc1[i].intid # a1[k].intid
                      /\ ~a1[k].manual => /\ E[k] \in 1 .. h + 1 /\ exc1[E[k]].is_irq /\ ~exc1[E[k]].dropped
                                          /\ exc1[E[k]].intid = a1[k].intid /\ exc1[E[k]].prev_prio = Prev(a1, k)
    BY <1>2 DEF Remembered
  <2>1. CASE k = n + 1
    BY <1>2, <1>3, <1>6, <2>1
  <2>2. CASE k \in 1 .. n
    <3>1. /\ a1[k] = a[k] /\ E[k] = e[k] /\ M[k] = m[k] /\ Prev(a1, k) = Prev(a, k) /\ e[k] \in 0 .. h
          /\ a[k].intid # x
      BY <1>2, <1>3, <1>6, <2>2 DEF n
    <3>2. /\ a[k].manual => /\ m[k] \in 1 .. Len(man)
                            /\ man[m[k]].intid = a[k].intid /\ man[m[k]].prev_prio = Prev(a, k) /\ ~man[m[k]].dropped
                            /\ e[k] # 0 => ~exc[e[k]].is_irq
                            /\ \A i \in e[k] + 1 .. h : exc[i].is_irq => exc[i].intid # a[k].intid
          /\ ~a[k].manual => /\ e[k] \in 1 .. h /\ exc[e[k]].is_irq /\ ~exc[e[k]].dropped
                             /\ exc[e[k]].intid = a[k].intid /\ exc[e[k]].prev_prio = Prev(a, k)
      BY <1>a, <2>2 DEF Remembered, n, h
    <3>3. e[k] # 0 => exc1[e[k]] = exc[e[k]]
      BY <1>2, <3>1
    <3>4. ASSUME a[k].manual, NEW i \in e[k] + 1 .. h + 1, exc1[i].is_irq PROVE exc1[i].intid # a[k].intid
      <4>1. CASE i = h + 1
        BY <1>2, <3>1, <4>1
      <4>2. CASE i \in e[k] + 1 .. h
        <5>1. i \in 1 .. h
          BY <3>1, <4>2
        <5> QED
          BY <1>2, <3>2, <3>4, <4>2, <5>1
      <4> QED
        BY <3>1, <4>1, <4>2
    <3>5. CASE a[k].manual
      BY <3>1, <3>2, <3>3, <3>4, <3>5
    <3>6. CASE ~a[k].manual
      <4>1. e[k] # 0 /\ E[k] \in 1 .. h + 1
        BY <3>1, <3>2, <3>6
      <4>2. exc1[E[k]] = exc[e[k]]
        BY <3>1, <3>3, <4>1
      <4> QED
        BY <3>1, <3>2, <3>6, <4>1, <4>2
    <3> QED
      BY <3>5, <3>6
  <2> QED
    BY <2>1, <2>2
<1>8. InOrder(E, M, a1)
  <2> SUFFICES ASSUME NEW j \in 1 .. n + 1, NEW k \in 1 .. n + 1, j < k
               PROVE  /\ E[j] <= E[k]
                      /\ ~a1[k].manual => E[j] < E[k]
                      /\ a1[j].manual /\ a1[k].manual => M[j] < M[k]
    BY <1>2 DEF InOrder
  <2>0. j \in 1 .. n /\ E[j] = e[j] /\ e[j] \in 0 .. h /\ a1[j] = a[j] /\ M[j] = m[j]
    BY <1>2, <1>3
  <2>1. CASE k = n + 1
    BY <1>2, <1>3, <2>0, <2>1
  <2>2. CASE k \in 1 .. n
    <3>1. E[k] = e[k] /\ a1[k] = a[k] /\ M[k] = m[k]
      BY <1>2, <1>3, <2>2
    <3> QED
      BY <1>a, <2>0, <2>2, <3>1 DEF InOrder, n
  <2> QED
    BY <2>1, <2>2
<1>9. Covered(E, M, exc1, man, a1)
  <2>1. ASSUME NEW i \in 1 .. h + 1, exc1[i].is_irq, ~exc1[i].dropped
        PROVE  \E k \in 1 .. n + 1 : ~a1[k].manual /\ E[k] = i
    <3>1. CASE i = h + 1
      BY <1>2, <1>3, <3>1
    <3>2. CASE i \in 1 .. h
      <4>1. PICK k \in 1 .. n : ~a[k].manual /\ e[k] = i
        BY <1>a, <1>2, <2>1, <3>2 DEF Covered, n, h
      <4> QED
        BY <1>2, <1>3, <4>1
    <3> QED
      BY <3>1, <3>2
  <2>2. ASSUME NEW i \in 1 .. Len(man), ~man[i].dropped
        PROVE  \E k \in 1 .. n + 1 : a1[k].manual /\ M[k] = i
    <3>1. PICK k \in 1 .. n : a[k].manual /\ m[k] = i
      BY <1>a, <2>2 DEF Covered, n
    <3> QED
      BY <1>2, <1>3, <3>1
  <2> QED
    BY <1>2, <2>1, <2>2 DEF Covered
<1> QED
  BY <1>2, <1>3, <1>4, <1>5, <1>7, <1>8, <1>9 DEF Matches, OneStack

\* ERET and ICC_EOIR1_EL1 end the interrupt of the handler on top: it is the
\* last one in the history, if that was not acknowledged manually.
LEMMA EndIrqMatches ==
  ASSUME NEW run, NEW exc, NEW man, NEW a, Len(exc) \in Nat, Len(man) \in Nat, Len(a) \in Nat,
         OneStack(run, exc, man, a), Len(a) > 0, ~a[Len(a)].manual,
         Len(exc) > 0, exc[Len(exc)].is_irq, ~exc[Len(exc)].dropped,
         NEW exc1, EndedTop(exc, exc1), NEW a1, Popped(a, a1)
  PROVE  OneStack(exc[Len(exc)].prev_prio, exc1, man, a1)
<1> DEFINE n == Len(a)
           h == Len(exc)
<1> n \in Nat /\ h \in Nat /\ n > 0 /\ h > 0
  OBVIOUS
<1>1. PICK e \in [1 .. n -> 0 .. h], m \in [1 .. n -> Nat] : Matches(e, m, run, exc, man, a)
  BY DEF OneStack
<1>2. /\ RunsAtTop(run, a) /\ Falls(a)
      /\ Remembered(e, m, exc, man, a) /\ InOrder(e, m, a) /\ Covered(e, m, exc, man, a)
  BY <1>1 DEF Matches
<1>3. /\ Len(a1) = n - 1 /\ \A k \in 1 .. n - 1 : a1[k] = a[k]
      /\ Len(exc1) \in {h - 1, h} /\ \A i \in 1 .. h - 1 : exc1[i] = exc[i]
      /\ Len(exc1) = h => exc1[h].dropped /\ exc1[h].intid = exc[h].intid
  BY DEF Popped, EndedTop
<1> DEFINE E == [k \in 1 .. n - 1 |-> e[k]]
           M == [k \in 1 .. n - 1 |-> m[k]]
<1>4. M \in [1 .. n - 1 -> Nat] /\ \A k \in 1 .. n - 1 : k \in 1 .. n /\ E[k] = e[k] /\ M[k] = m[k]
  OBVIOUS
<1> HIDE DEF n, h, M
<1>5. e[n] = h
  <2>1. h \in 1 .. h /\ exc[h].is_irq /\ ~exc[h].dropped /\ ~a[n].manual /\ n \in 1 .. n
    BY DEF h, n
  <2>2. PICK k \in 1 .. n : ~a[k].manual /\ e[k] = h
    BY <1>2, <2>1 DEF Covered, n, h
  <2>3. k < n => e[k] < e[n]
    BY <1>2, <2>1 DEF InOrder, n
  <2> QED
    BY <2>1, <2>2, <2>3
<1>6. \A k \in 1 .. n - 1 : e[k] \in 0 .. h - 1
  <2> TAKE k \in 1 .. n - 1
  <2>1. e[k] < e[n] /\ e[k] \in 0 .. h
    <3>1. k \in 1 .. n /\ n \in 1 .. n /\ k < n /\ ~a[n].manual
      BY DEF n
    <3> QED
      BY <1>2, <3>1 DEF InOrder, n
  <2> QED
    BY <1>5, <2>1
<1>7. E \in [1 .. n - 1 -> 0 .. Len(exc1)]
  BY <1>3, <1>6
<1> HIDE DEF E
<1>8. \A k \in 1 .. n : k < n => Prev(a1, k) = Prev(a, k)
  <2> TAKE k \in 1 .. n
  <2>1. CASE k = 1
    BY <2>1 DEF Prev
  <2>2. CASE k # 1 /\ k < n
    <3>1. k - 1 \in 1 .. n - 1
      BY <2>2
    <3> QED
      BY <1>3, <2>2, <3>1 DEF Prev
  <2> QED
    BY <2>1, <2>2
<1>9. RunsAtTop(exc[h].prev_prio, a1)
  <2>1. exc[h].prev_prio = Prev(a, n)
    <3>1. n \in 1 .. n /\ ~a[n].manual
      BY DEF n
    <3> QED
      BY <1>2, <1>5, <3>1 DEF Remembered, n
  <2>2. n # 1 => a1[n - 1] = a[n - 1]
    BY <1>3
  <2> QED
    BY <1>3, <2>1, <2>2 DEF Prev, RunsAtTop
<1>10. Falls(a1)
  <2> SUFFICES ASSUME NEW j \in 1 .. n - 1, NEW k \in 1 .. n - 1, j < k
               PROVE  a[k].prio < a[j].prio
    BY <1>3 DEF Falls
  <2> QED
    BY <1>2, <1>4 DEF Falls, n
<1>11. Remembered(E, M, exc1, man, a1)
  <2> SUFFICES ASSUME NEW k \in 1 .. n - 1
               PROVE  /\ a1[k].manual => /\ M[k] \in 1 .. Len(man)
                                         /\ man[M[k]].intid = a1[k].intid /\ man[M[k]].prev_prio = Prev(a1, k)
                                         /\ ~man[M[k]].dropped
                                         /\ E[k] # 0 => ~exc1[E[k]].is_irq
                                         /\ \A i \in E[k] + 1 .. Len(exc1) : exc1[i].is_irq => exc1[i].intid # a1[k].intid
                      /\ ~a1[k].manual => /\ E[k] \in 1 .. Len(exc1) /\ exc1[E[k]].is_irq /\ ~exc1[E[k]].dropped
                                          /\ exc1[E[k]].intid = a1[k].intid /\ exc1[E[k]].prev_prio = Prev(a1, k)
    BY <1>3 DEF Remembered
  <2>1. /\ a1[k] = a[k] /\ E[k] = e[k] /\ M[k] = m[k] /\ Prev(a1, k) = Prev(a, k) /\ e[k] \in 0 .. h - 1
        /\ k \in 1 .. n
    BY <1>3, <1>4, <1>6, <1>8
  <2>2. /\ a[k].manual => /\ m[k] \in 1 .. Len(man)
                          /\ man[m[k]].intid = a[k].intid /\ man[m[k]].prev_prio = Prev(a, k) /\ ~man[m[k]].dropped
                          /\ e[k] # 0 => ~exc[e[k]].is_irq
                          /\ \A i \in e[k] + 1 .. h : exc[i].is_irq => exc[i].intid # a[k].intid
        /\ ~a[k].manual => /\ e[k] \in 1 .. h /\ exc[e[k]].is_irq /\ ~exc[e[k]].dropped
                           /\ exc[e[k]].intid = a[k].intid /\ exc[e[k]].prev_prio = Prev(a, k)
    BY <1>2, <2>1 DEF Remembered, n, h
  <2>3. e[k] # 0 => e[k] \in 1 .. h - 1 /\ e[k] \in 1 .. Len(exc1) /\ exc1[e[k]] = exc[e[k]]
    BY <1>3, <2>1
  <2>4. ASSUME a[k].manual, NEW i \in e[k] + 1 .. Len(exc1), exc1[i].is_irq PROVE exc1[i].intid # a[k].intid
    <3>0. e[k] \in Nat /\ i \in Nat /\ i >= e[k] + 1 /\ i <= Len(exc1) /\ Len(exc1) \in {h - 1, h}
      BY <1>3, <2>1
    <3>1. i \in e[k] + 1 .. h /\ (i = h \/ i \in 1 .. h - 1)
      BY <3>0
    <3>2. CASE i = h
      <4>1. Len(exc1) = h
        BY <3>0, <3>2
      <4>2. exc1[h].intid = exc[h].intid /\ exc[h].is_irq
        BY <1>3, <4>1 DEF h
      <4> QED
        BY <2>2, <2>4, <3>1, <3>2, <4>2
    <3>3. CASE i \in 1 .. h - 1
      BY <1>3, <2>2, <2>4, <3>1, <3>3
    <3> QED
      BY <3>1, <3>2, <3>3
  <2>5. CASE a[k].manual
    BY <2>1, <2>2, <2>3, <2>4, <2>5
  <2>6. CASE ~a[k].manual
    <3>1. e[k] # 0
      BY <2>2, <2>6
    <3>2. exc1[E[k]] = exc[e[k]] /\ E[k] \in 1 .. Len(exc1)
      BY <2>1, <2>3, <3>1
    <3> QED
      BY <2>1, <2>2, <2>6, <3>2
  <2> QED
    BY <2>5, <2>6
<1>12. InOrder(E, M, a1)
  <2> SUFFICES ASSUME NEW j \in 1 .. n - 1, NEW k \in 1 .. n - 1, j < k
               PROVE  /\ E[j] <= E[k]
                      /\ ~a1[k].manual => E[j] < E[k]
                      /\ a1[j].manual /\ a1[k].manual => M[j] < M[k]
    BY <1>3 DEF InOrder
  <2>1. /\ a1[j] = a[j] /\ E[j] = e[j] /\ M[j] = m[j] /\ j \in 1 .. n
        /\ a1[k] = a[k] /\ E[k] = e[k] /\ M[k] = m[k] /\ k \in 1 .. n
    BY <1>3, <1>4
  <2> QED
    BY <1>2, <2>1 DEF InOrder, n
<1>13. Covered(E, M, exc1, man, a1)
  <2>1. ASSUME NEW i \in 1 .. Len(exc1), exc1[i].is_irq, ~exc1[i].dropped
        PROVE  \E k \in 1 .. n - 1 : ~a1[k].manual /\ E[k] = i
    <3>1. i \in 1 .. h - 1 /\ i \in 1 .. h
      BY <1>3, <2>1
    <3>2. PICK k \in 1 .. n : ~a[k].manual /\ e[k] = i
      BY <1>2, <1>3, <2>1, <3>1 DEF Covered, n, h
    <3>3. k # n
      BY <1>5, <3>1, <3>2
    <3>4. k \in 1 .. n - 1
      BY <3>3
    <3> QED
      BY <1>3, <1>4, <3>2, <3>4
  <2>2. ASSUME NEW i \in 1 .. Len(man), ~man[i].dropped
        PROVE  \E k \in 1 .. n - 1 : a1[k].manual /\ M[k] = i
    <3>1. PICK k \in 1 .. n : a[k].manual /\ m[k] = i
      BY <1>2, <2>2 DEF Covered, n
    <3>2. k \in 1 .. n - 1
      BY <3>1 DEF n
    <3> QED
      BY <1>3, <1>4, <3>1, <3>2
  <2> QED
    BY <1>3, <2>1, <2>2 DEF Covered
<1>14. OneStack(exc[h].prev_prio, exc1, man, a1)
  BY <1>3, <1>4, <1>7, <1>9, <1>10, <1>11, <1>12, <1>13 DEF Matches, OneStack
<1> QED
  BY <1>14 DEF h

\* ICC_EOIR1_EL1 for the last acknowledgement, a manual one: it is on top of
\* the manual stack, and no handler on top is for the same interrupt.
LEMMA EndManualMatches ==
  ASSUME NEW run, NEW exc, NEW man, NEW a, Len(exc) \in Nat, Len(man) \in Nat, Len(a) \in Nat,
         OneStack(run, exc, man, a), Len(a) > 0, a[Len(a)].manual,
         Len(man) > 0, ~man[Len(man)].dropped,
         NEW man1, EndedTop(man, man1), NEW a1, Popped(a, a1)
  PROVE  /\ man[Len(man)].intid = a[Len(a)].intid
         /\ Len(exc) > 0 /\ exc[Len(exc)].is_irq => exc[Len(exc)].intid # a[Len(a)].intid
         /\ OneStack(man[Len(man)].prev_prio, exc, man1, a1)
<1> DEFINE n == Len(a)
           h == Len(exc)
           l == Len(man)
<1> n \in Nat /\ h \in Nat /\ l \in Nat /\ n > 0 /\ l > 0
  OBVIOUS
<1>1. PICK e \in [1 .. n -> 0 .. h], m \in [1 .. n -> Nat] : Matches(e, m, run, exc, man, a)
  BY DEF OneStack
<1>2. /\ RunsAtTop(run, a) /\ Falls(a)
      /\ Remembered(e, m, exc, man, a) /\ InOrder(e, m, a) /\ Covered(e, m, exc, man, a)
  BY <1>1 DEF Matches
<1>3. /\ Len(a1) = n - 1 /\ \A k \in 1 .. n - 1 : a1[k] = a[k]
      /\ Len(man1) \in {l - 1, l} /\ \A i \in 1 .. l - 1 : man1[i] = man[i]
      /\ Len(man1) = l => man1[l].dropped
  BY DEF Popped, EndedTop
<1> DEFINE E == [k \in 1 .. n - 1 |-> e[k]]
           M == [k \in 1 .. n - 1 |-> m[k]]
<1>4. /\ E \in [1 .. n - 1 -> 0 .. h] /\ M \in [1 .. n - 1 -> Nat]
      /\ \A k \in 1 .. n - 1 : k \in 1 .. n /\ E[k] = e[k] /\ M[k] = m[k]
  OBVIOUS
<1> HIDE DEF n, h, l, M, E
<1>5. \A k \in 1 .. n : a[k].manual => m[k] \in 1 .. l
  BY <1>2 DEF Remembered, n, l
<1>6. m[n] = l
  <2>1. l \in 1 .. l /\ ~man[l].dropped /\ a[n].manual /\ n \in 1 .. n
    BY DEF l, n
  <2>2. PICK k \in 1 .. n : a[k].manual /\ m[k] = l
    BY <1>2, <2>1 DEF Covered, n, l
  <2>3. k < n => m[k] < m[n]
    BY <1>2, <2>1, <2>2 DEF InOrder, n
  <2>4. m[n] \in 1 .. l
    BY <1>5, <2>1
  <2> QED
    BY <2>1, <2>2, <2>3, <2>4
<1>7. \A k \in 1 .. n - 1 : a[k].manual => m[k] \in 1 .. l - 1
  <2> SUFFICES ASSUME NEW k \in 1 .. n - 1, a[k].manual PROVE m[k] \in 1 .. l - 1
    OBVIOUS
  <2>1. k \in 1 .. n /\ n \in 1 .. n /\ k < n /\ a[n].manual
    BY DEF n
  <2>2. m[k] < m[n]
    BY <1>2, <2>1 DEF InOrder, n
  <2>3. m[k] \in 1 .. l
    BY <1>5, <2>1
  <2> QED
    BY <1>6, <2>2, <2>3
<1>8. \A k \in 1 .. n : k < n => Prev(a1, k) = Prev(a, k)
  <2> TAKE k \in 1 .. n
  <2>1. CASE k = 1
    BY <2>1 DEF Prev
  <2>2. CASE k # 1 /\ k < n
    <3>1. k - 1 \in 1 .. n - 1
      BY <2>2
    <3> QED
      BY <1>3, <2>2, <3>1 DEF Prev
  <2> QED
    BY <2>1, <2>2
<1>9. /\ man[l].intid = a[n].intid /\ man[l].prev_prio = Prev(a, n)
      /\ e[n] # 0 => ~exc[e[n]].is_irq
      /\ \A i \in e[n] + 1 .. h : exc[i].is_irq => exc[i].intid # a[n].intid
  <2>1. n \in 1 .. n /\ a[n].manual
    BY DEF n
  <2> QED
    BY <1>2, <1>6, <2>1 DEF Remembered, n, h
<1>10. h > 0 /\ exc[h].is_irq => exc[h].intid # a[n].intid
  <2> SUFFICES ASSUME h > 0, exc[h].is_irq PROVE exc[h].intid # a[n].intid
    OBVIOUS
  <2>1. e[n] # h
    BY <1>9
  <2>2. h \in e[n] + 1 .. h
    BY <2>1
  <2> QED
    BY <1>9, <2>2
<1>11. RunsAtTop(man[l].prev_prio, a1)
  <2>1. n # 1 => a1[n - 1] = a[n - 1]
    BY <1>3
  <2> QED
    BY <1>3, <1>9, <2>1 DEF Prev, RunsAtTop
<1>12. Falls(a1)
  <2> SUFFICES ASSUME NEW j \in 1 .. n - 1, NEW k \in 1 .. n - 1, j < k
               PROVE  a[k].prio < a[j].prio
    BY <1>3 DEF Falls
  <2> QED
    BY <1>2, <1>4 DEF Falls, n
<1>13. Remembered(E, M, exc, man1, a1)
  <2> SUFFICES ASSUME NEW k \in 1 .. n - 1
               PROVE  /\ a1[k].manual => /\ M[k] \in 1 .. Len(man1)
                                         /\ man1[M[k]].intid = a1[k].intid /\ man1[M[k]].prev_prio = Prev(a1, k)
                                         /\ ~man1[M[k]].dropped
                                         /\ E[k] # 0 => ~exc[E[k]].is_irq
                                         /\ \A i \in E[k] + 1 .. h : exc[i].is_irq => exc[i].intid # a1[k].intid
                      /\ ~a1[k].manual => /\ E[k] \in 1 .. h /\ exc[E[k]].is_irq /\ ~exc[E[k]].dropped
                                          /\ exc[E[k]].intid = a1[k].intid /\ exc[E[k]].prev_prio = Prev(a1, k)
    BY <1>3 DEF Remembered, h
  <2>1. /\ a1[k] = a[k] /\ E[k] = e[k] /\ M[k] = m[k] /\ Prev(a1, k) = Prev(a, k) /\ k \in 1 .. n
    BY <1>3, <1>4, <1>8
  <2>2. /\ a[k].manual => /\ m[k] \in 1 .. l
                          /\ man[m[k]].intid = a[k].intid /\ man[m[k]].prev_prio = Prev(a, k) /\ ~man[m[k]].dropped
                          /\ e[k] # 0 => ~exc[e[k]].is_irq
                          /\ \A i \in e[k] + 1 .. h : exc[i].is_irq => exc[i].intid # a[k].intid
        /\ ~a[k].manual => /\ e[k] \in 1 .. h /\ exc[e[k]].is_irq /\ ~exc[e[k]].dropped
                           /\ exc[e[k]].intid = a[k].intid /\ exc[e[k]].prev_prio = Prev(a, k)
    BY <1>2, <2>1 DEF Remembered, n, h, l
  <2>3. CASE a[k].manual
    <3>1. m[k] \in 1 .. l - 1
      BY <1>7, <2>3
    <3>2. man1[m[k]] = man[m[k]]
      BY <1>3, <3>1
    <3>3. Len(man1) \in {l - 1, l}
      BY <1>3
    <3>4. m[k] \in 1 .. Len(man1)
      BY <3>1, <3>3
    <3> QED
      BY <2>1, <2>2, <2>3, <3>2, <3>4
  <2>4. CASE ~a[k].manual
    BY <2>1, <2>2, <2>4
  <2> QED
    BY <2>3, <2>4
<1>14. InOrder(E, M, a1)
  <2> SUFFICES ASSUME NEW j \in 1 .. n - 1, NEW k \in 1 .. n - 1, j < k
               PROVE  /\ E[j] <= E[k]
                      /\ ~a1[k].manual => E[j] < E[k]
                      /\ a1[j].manual /\ a1[k].manual => M[j] < M[k]
    BY <1>3 DEF InOrder
  <2>1. /\ a1[j] = a[j] /\ E[j] = e[j] /\ M[j] = m[j] /\ j \in 1 .. n
        /\ a1[k] = a[k] /\ E[k] = e[k] /\ M[k] = m[k] /\ k \in 1 .. n
    BY <1>3, <1>4
  <2> QED
    BY <1>2, <2>1 DEF InOrder, n
<1>15. Covered(E, M, exc, man1, a1)
  <2>1. ASSUME NEW i \in 1 .. h, exc[i].is_irq, ~exc[i].dropped
        PROVE  \E k \in 1 .. n - 1 : ~a1[k].manual /\ E[k] = i
    <3>1. PICK k \in 1 .. n : ~a[k].manual /\ e[k] = i
      BY <1>2, <2>1 DEF Covered, n, h
    <3>2. k \in 1 .. n - 1
      BY <3>1 DEF n
    <3> QED
      BY <1>3, <1>4, <3>1, <3>2
  <2>2. ASSUME NEW i \in 1 .. Len(man1), ~man1[i].dropped
        PROVE  \E k \in 1 .. n - 1 : a1[k].manual /\ M[k] = i
    <3>1. i \in 1 .. l - 1 /\ i \in 1 .. l
      BY <1>3, <2>2
    <3>2. PICK k \in 1 .. n : a[k].manual /\ m[k] = i
      BY <1>2, <1>3, <2>2, <3>1 DEF Covered, n, l
    <3>3. k # n
      BY <1>6, <3>1, <3>2
    <3>4. k \in 1 .. n - 1
      BY <3>3
    <3> QED
      BY <1>3, <1>4, <3>2, <3>4
  <2> QED
    BY <1>3, <2>1, <2>2 DEF Covered, h
<1>16. E \in [1 .. Len(a1) -> 0 .. Len(exc)] /\ M \in [1 .. Len(a1) -> Nat]
  BY <1>3, <1>4 DEF h
<1>17. OneStack(man[l].prev_prio, exc, man1, a1)
  BY <1>11, <1>12, <1>13, <1>14, <1>15, <1>16 DEF Matches, OneStack
<1> QED
  BY <1>9, <1>10, <1>17 DEF h, n, l

\* Whatever the stacks are changed into keeps the matching, if entries of the
\* history find their places as they were and nothing undropped is new.
LEMMA KeptMatches ==
  ASSUME NEW run, NEW exc, NEW man, NEW a, Len(exc) \in Nat, Len(man) \in Nat, Len(a) \in Nat,
         NEW e \in [1 .. Len(a) -> 0 .. Len(exc)], NEW m \in [1 .. Len(a) -> Nat],
         Matches(e, m, run, exc, man, a),
         NEW exc1, NEW man1, Len(exc1) \in Nat, Len(man1) \in Nat,
         \A k \in 1 .. Len(a) : e[k] <= Len(exc1) /\ (e[k] # 0 => exc1[e[k]] = exc[e[k]]),
         \A k \in 1 .. Len(a) : a[k].manual => m[k] <= Len(man1) /\ man1[m[k]] = man[m[k]],
         \A i \in 1 .. Len(exc1) : exc1[i].is_irq => i \in 1 .. Len(exc) /\ exc1[i] = exc[i],
         \A i \in 1 .. Len(man1) : ~man1[i].dropped => i \in 1 .. Len(man) /\ man1[i] = man[i]
  PROVE  OneStack(run, exc1, man1, a)
<1>1. /\ RunsAtTop(run, a) /\ Falls(a)
      /\ Remembered(e, m, exc, man, a) /\ InOrder(e, m, a) /\ Covered(e, m, exc, man, a)
  BY DEF Matches
<1>2. e \in [1 .. Len(a) -> 0 .. Len(exc1)]
  OBVIOUS
<1>3. Remembered(e, m, exc1, man1, a)
  <2> SUFFICES ASSUME NEW k \in 1 .. Len(a)
               PROVE  /\ a[k].manual => /\ m[k] \in 1 .. Len(man1)
                                        /\ man1[m[k]].intid = a[k].intid /\ man1[m[k]].prev_prio = Prev(a, k)
                                        /\ ~man1[m[k]].dropped
                                        /\ e[k] # 0 => ~exc1[e[k]].is_irq
                                        /\ \A i \in e[k] + 1 .. Len(exc1) : exc1[i].is_irq => exc1[i].intid # a[k].intid
                      /\ ~a[k].manual => /\ e[k] \in 1 .. Len(exc1) /\ exc1[e[k]].is_irq /\ ~exc1[e[k]].dropped
                                         /\ exc1[e[k]].intid = a[k].intid /\ exc1[e[k]].prev_prio = Prev(a, k)
    BY DEF Remembered
  <2>1. /\ a[k].manual => /\ m[k] \in 1 .. Len(man)
                          /\ man[m[k]].intid = a[k].intid /\ man[m[k]].prev_prio = Prev(a, k) /\ ~man[m[k]].dropped
                          /\ e[k] # 0 => ~exc[e[k]].is_irq
                          /\ \A i \in e[k] + 1 .. Len(exc) : exc[i].is_irq => exc[i].intid # a[k].intid
        /\ ~a[k].manual => /\ e[k] \in 1 .. Len(exc) /\ exc[e[k]].is_irq /\ ~exc[e[k]].dropped
                           /\ exc[e[k]].intid = a[k].intid /\ exc[e[k]].prev_prio = Prev(a, k)
    BY <1>1 DEF Remembered
  <2>2. e[k] \in 0 .. Len(exc1) /\ (e[k] # 0 => exc1[e[k]] = exc[e[k]])
    BY <1>2
  <2>3. CASE a[k].manual
    <3>1. m[k] \in 1 .. Len(man1) /\ man1[m[k]] = man[m[k]]
      BY <2>1, <2>3
    <3>2. ASSUME NEW i \in e[k] + 1 .. Len(exc1), exc1[i].is_irq PROVE exc1[i].intid # a[k].intid
      <4>1. i \in 1 .. Len(exc1) /\ i >= e[k] + 1
        BY <2>2
      <4>2. exc1[i] = exc[i] /\ i \in 1 .. Len(exc)
        BY <3>2, <4>1
      <4>3. i \in e[k] + 1 .. Len(exc)
        BY <2>2, <4>1, <4>2
      <4> QED
        BY <2>1, <2>3, <3>2, <4>2, <4>3
    <3> QED
      BY <2>1, <2>2, <2>3, <3>1, <3>2
  <2>4. CASE ~a[k].manual
    <3>1. e[k] # 0
      BY <2>1, <2>4
    <3>2. exc1[e[k]] = exc[e[k]] /\ e[k] \in 1 .. Len(exc1)
      BY <2>2, <3>1
    <3> QED
      BY <2>1, <2>4, <3>2
  <2> QED
    BY <2>3, <2>4
<1>4. Covered(e, m, exc1, man1, a)
  <2>1. ASSUME NEW i \in 1 .. Len(exc1), exc1[i].is_irq, ~exc1[i].dropped
        PROVE  \E k \in 1 .. Len(a) : ~a[k].manual /\ e[k] = i
    <3>1. i \in 1 .. Len(exc) /\ exc1[i] = exc[i]
      BY <2>1
    <3> QED
      BY <1>1, <2>1, <3>1 DEF Covered
  <2>2. ASSUME NEW i \in 1 .. Len(man1), ~man1[i].dropped
        PROVE  \E k \in 1 .. Len(a) : a[k].manual /\ m[k] = i
    <3>1. i \in 1 .. Len(man) /\ man1[i] = man[i]
      BY <2>2
    <3> QED
      BY <1>1, <2>2, <3>1 DEF Covered
  <2> QED
    BY <2>1, <2>2 DEF Covered
<1>5. Matches(e, m, run, exc1, man1, a)
  BY <1>1, <1>2, <1>3, <1>4 DEF Matches
<1> QED
  BY <1>2, <1>5 DEF OneStack

\* enter_sync_exception covers what is handled with a frame that is no IRQ's.
LEMMA PushSyncMatches ==
  ASSUME NEW run, NEW exc, NEW man, NEW a, Len(exc) \in Nat, Len(man) \in Nat, Len(a) \in Nat,
         OneStack(run, exc, man, a), NEW f, ~f.is_irq, NEW exc1, Pushed(exc, exc1, f)
  PROVE  OneStack(run, exc1, man, a)
<1>1. PICK e \in [1 .. Len(a) -> 0 .. Len(exc)], m \in [1 .. Len(a) -> Nat] : Matches(e, m, run, exc, man, a)
  BY DEF OneStack
<1>2. Len(exc1) = Len(exc) + 1 /\ exc1[Len(exc) + 1] = f /\ \A i \in 1 .. Len(exc) : exc1[i] = exc[i]
  BY DEF Pushed
<1>3. ASSUME NEW k \in 1 .. Len(a)
      PROVE  e[k] <= Len(exc1) /\ (e[k] # 0 => exc1[e[k]] = exc[e[k]])
  <2>1. e[k] \in 0 .. Len(exc)
    OBVIOUS
  <2> QED
    BY <1>2, <2>1
<1>4. ASSUME NEW k \in 1 .. Len(a), a[k].manual
      PROVE  m[k] <= Len(man)
  BY <1>1, <1>4 DEF Matches, Remembered
<1>5. ASSUME NEW i \in 1 .. Len(exc1), exc1[i].is_irq
      PROVE  i \in 1 .. Len(exc) /\ exc1[i] = exc[i]
  BY <1>2, <1>5
<1> QED
  BY <1>1, <1>2, <1>3, <1>4, <1>5, KeptMatches

\* ERET from a frame that ends nothing, while the last acknowledgement, if
\* there is one, is a handler's.
LEMMA PopExcMatches ==
  ASSUME NEW run, NEW exc, NEW man, NEW a, Len(exc) \in Nat, Len(man) \in Nat, Len(a) \in Nat,
         OneStack(run, exc, man, a), Len(a) > 0 => ~a[Len(a)].manual,
         ~(exc[Len(exc)].is_irq /\ ~exc[Len(exc)].dropped), NEW exc1, Popped(exc, exc1)
  PROVE  OneStack(run, exc1, man, a)
<1>1. PICK e \in [1 .. Len(a) -> 0 .. Len(exc)], m \in [1 .. Len(a) -> Nat] : Matches(e, m, run, exc, man, a)
  BY DEF OneStack
<1>2. Len(exc) > 0 /\ Len(exc1) = Len(exc) - 1 /\ \A i \in 1 .. Len(exc) - 1 : exc1[i] = exc[i]
  BY DEF Popped
<1>3. ASSUME NEW k \in 1 .. Len(a)
      PROVE  e[k] <= Len(exc1) /\ (e[k] # 0 => exc1[e[k]] = exc[e[k]])
  <2>1. Len(a) \in 1 .. Len(a) /\ ~a[Len(a)].manual /\ e[k] \in 0 .. Len(exc) /\ (k < Len(a) \/ k = Len(a))
    OBVIOUS
  <2>2. exc[e[Len(a)]].is_irq /\ ~exc[e[Len(a)]].dropped /\ e[Len(a)] \in 1 .. Len(exc)
    BY <1>1, <2>1 DEF Matches, Remembered
  <2>3. e[Len(a)] # Len(exc)
    BY <2>2
  <2>4. e[k] <= e[Len(a)]
    BY <1>1, <2>1, <2>2 DEF Matches, InOrder
  <2>5. e[k] \in 0 .. Len(exc) - 1
    BY <2>1, <2>2, <2>3, <2>4
  <2> QED
    BY <1>2, <2>5
<1>4. ASSUME NEW k \in 1 .. Len(a), a[k].manual
      PROVE  m[k] <= Len(man)
  BY <1>1, <1>4 DEF Matches, Remembered
<1>5. ASSUME NEW i \in 1 .. Len(exc1), exc1[i].is_irq
      PROVE  i \in 1 .. Len(exc) /\ exc1[i] = exc[i]
  BY <1>2, <1>5
<1> QED
  BY <1>1, <1>2, <1>3, <1>4, <1>5, KeptMatches

\* ICC_DIR_EL1 discards a manual acknowledgement that was dropped.
LEMMA PopManualMatches ==
  ASSUME NEW run, NEW exc, NEW man, NEW a, Len(exc) \in Nat, Len(man) \in Nat, Len(a) \in Nat,
         OneStack(run, exc, man, a), man[Len(man)].dropped, NEW man1, Popped(man, man1)
  PROVE  OneStack(run, exc, man1, a)
<1>1. PICK e \in [1 .. Len(a) -> 0 .. Len(exc)], m \in [1 .. Len(a) -> Nat] : Matches(e, m, run, exc, man, a)
  BY DEF OneStack
<1>2. Len(man) > 0 /\ Len(man1) = Len(man) - 1 /\ \A i \in 1 .. Len(man) - 1 : man1[i] = man[i]
  BY DEF Popped
<1>3. ASSUME NEW k \in 1 .. Len(a)
      PROVE  e[k] <= Len(exc)
  <2>1. e[k] \in 0 .. Len(exc)
    OBVIOUS
  <2> QED
    BY <2>1
<1>4. ASSUME NEW k \in 1 .. Len(a), a[k].manual
      PROVE  m[k] <= Len(man1) /\ man1[m[k]] = man[m[k]]
  <2>1. m[k] \in 1 .. Len(man) /\ ~man[m[k]].dropped
    BY <1>1, <1>4 DEF Matches, Remembered
  <2>2. m[k] \in 1 .. Len(man) - 1
    BY <2>1
  <2> QED
    BY <1>2, <2>2
<1>5. ASSUME NEW i \in 1 .. Len(man1)
      PROVE  i \in 1 .. Len(man) /\ man1[i] = man[i]
  BY <1>2
<1>6. Len(man1) \in Nat
  BY <1>2
<1>7. /\ \A k \in 1 .. Len(a) : e[k] <= Len(exc) /\ (e[k] # 0 => exc[e[k]] = exc[e[k]])
      /\ \A k \in 1 .. Len(a) : a[k].manual => m[k] <= Len(man1) /\ man1[m[k]] = man[m[k]]
      /\ \A i \in 1 .. Len(exc) : exc[i].is_irq => i \in 1 .. Len(exc) /\ exc[i] = exc[i]
      /\ \A i \in 1 .. Len(man1) : ~man1[i].dropped => i \in 1 .. Len(man) /\ man1[i] = man[i]
  BY <1>3, <1>4, <1>5
<1> QED
  BY <1>1, <1>6, <1>7, KeptMatches

\* ICC_IAR1_EL1 outside a handler acknowledges one more, manually.
LEMMA PushManualMatches ==
  ASSUME NEW run \in RunPrio, NEW exc, NEW man, NEW a, Len(exc) \in Nat, Len(man) \in Nat, Len(a) \in Nat,
         \A k \in 1 .. Len(a) : a[k].prio \in Prio,
         OneStack(run, exc, man, a), Len(exc) > 0 => ~exc[Len(exc)].is_irq,
         NEW x, NEW prio \in Prio, prio < run,
         NEW f, f.intid = x, f.prev_prio = run, ~f.dropped,
         NEW y, y.intid = x, y.prio = prio, y.manual,
         NEW man1, Pushed(man, man1, f), NEW a1, Pushed(a, a1, y)
  PROVE  OneStack(prio, exc, man1, a1)
<1> DEFINE n == Len(a)
           h == Len(exc)
           l == Len(man)
<1> n \in Nat /\ h \in Nat /\ l \in Nat
  OBVIOUS
<1>1. PICK e \in [1 .. n -> 0 .. h], m \in [1 .. n -> Nat] : Matches(e, m, run, exc, man, a)
  BY DEF OneStack
<1>2. /\ Len(man1) = l + 1 /\ man1[l + 1] = f /\ \A i \in 1 .. l : man1[i] = man[i]
      /\ Len(a1) = n + 1 /\ a1[n + 1] = y /\ \A k \in 1 .. n : a1[k] = a[k]
  BY DEF Pushed
<1>3. /\ RunsAtTop(run, a) /\ Falls(a)
      /\ Remembered(e, m, exc, man, a) /\ InOrder(e, m, a) /\ Covered(e, m, exc, man, a)
  BY <1>1 DEF Matches
<1> DEFINE E == [k \in 1 .. n + 1 |-> IF k = n + 1 THEN h ELSE e[k]]
           M == [k \in 1 .. n + 1 |-> IF k = n + 1 THEN l + 1 ELSE m[k]]
<1>4. /\ E \in [1 .. n + 1 -> 0 .. h] /\ M \in [1 .. n + 1 -> Nat]
      /\ E[n + 1] = h /\ M[n + 1] = l + 1 /\ \A k \in 1 .. n : E[k] = e[k] /\ M[k] = m[k]
  OBVIOUS
<1>5. /\ n = 0 => run = IdlePrio
      /\ n # 0 => run = a[n].prio
  BY <1>3 DEF RunsAtTop
<1> HIDE DEF E, M, n, h, l
<1>6. RunsAtTop(prio, a1)
  BY <1>2 DEF RunsAtTop
<1>7. Falls(a1)
  <2> SUFFICES ASSUME NEW j \in 1 .. n + 1, NEW k \in 1 .. n + 1, j < k
               PROVE  a1[k].prio < a1[j].prio
    BY <1>2 DEF Falls
  <2>0. j \in 1 .. n
    OBVIOUS
  <2>1. CASE k \in 1 .. n
    BY <1>2, <1>3, <2>0, <2>1 DEF Falls, n
  <2>2. CASE k = n + 1
    <3>1. n \in 1 .. n /\ n # 0 /\ (j < n \/ j = n)
      BY <2>0
    <3>2. run <= a[j].prio
      BY <1>3, <1>5, <3>1, <2>0, GicAssumption DEF Falls, n, Prio
    <3> QED
      BY <1>2, <2>2, <2>0, <3>2, GicAssumption DEF Prio, RunPrio, n, IdlePrio
  <2> QED
    BY <2>1, <2>2
<1>8. /\ \A k \in 1 .. n : Prev(a1, k) = Prev(a, k)
      /\ Prev(a1, n + 1) = run
  <2>1. ASSUME NEW k \in 1 .. n PROVE Prev(a1, k) = Prev(a, k)
    <3>1. k = 1 \/ k - 1 \in 1 .. n
      OBVIOUS
    <3> QED
      BY <1>2, <3>1 DEF Prev
  <2>2. n + 1 - 1 = n /\ (n + 1 = 1 <=> n = 0) /\ (n # 0 => n \in 1 .. n)
    OBVIOUS
  <2>3. Prev(a1, n + 1) = run
    BY <1>2, <1>5, <2>2 DEF Prev
  <2> QED
    BY <2>1, <2>3
<1>9. \A k \in 1 .. n : a[k].manual => m[k] \in 1 .. l
  BY <1>3 DEF Remembered, n, l
<1>10. Remembered(E, M, exc, man1, a1)
  <2> SUFFICES ASSUME NEW k \in 1 .. n + 1
               PROVE  /\ a1[k].manual => /\ M[k] \in 1 .. l + 1
                                         /\ man1[M[k]].intid = a1[k].intid /\ man1[M[k]].prev_prio = Prev(a1, k)
                                         /\ ~man1[M[k]].dropped
                                         /\ E[k] # 0 => ~exc[E[k]].is_irq
                                         /\ \A i \in E[k] + 1 .. h : exc[i].is_irq => exc[i].intid # a1[k].intid
                      /\ ~a1[k].manual => /\ E[k] \in 1 .. h /\ exc[E[k]].is_irq /\ ~exc[E[k]].dropped
                                          /\ exc[E[k]].intid = a1[k].intid /\ exc[E[k]].prev_prio = Prev(a1, k)
    BY <1>2 DEF Remembered, h
  <2>1. CASE k = n + 1
    <3>1. h # 0 => ~exc[h].is_irq
      BY DEF h
    <3>2. \A i \in h + 1 .. h : FALSE
      OBVIOUS
    <3>3. l + 1 \in 1 .. l + 1
      OBVIOUS
    <3> QED
      BY <1>2, <1>4, <1>8, <2>1, <3>1, <3>2, <3>3
  <2>2. CASE k \in 1 .. n
    <3>1. a1[k] = a[k] /\ E[k] = e[k] /\ M[k] = m[k] /\ Prev(a1, k) = Prev(a, k)
      BY <1>2, <1>4, <1>8, <2>2
    <3>2. /\ a[k].manual => /\ m[k] \in 1 .. l
                            /\ man[m[k]].intid = a[k].intid /\ man[m[k]].prev_prio = Prev(a, k) /\ ~man[m[k]].dropped
                            /\ e[k] # 0 => ~exc[e[k]].is_irq
                            /\ \A i \in e[k] + 1 .. h : exc[i].is_irq => exc[i].intid # a[k].intid
          /\ ~a[k].manual => /\ e[k] \in 1 .. h /\ exc[e[k]].is_irq /\ ~exc[e[k]].dropped
                             /\ exc[e[k]].intid = a[k].intid /\ exc[e[k]].prev_prio = Prev(a, k)
      BY <1>3, <2>2 DEF Remembered, n, h, l
    <3>3. CASE a[k].manual
      <4>1. m[k] \in 1 .. l /\ m[k] \in 1 .. l + 1
        BY <3>2, <3>3
      <4>2. man1[m[k]] = man[m[k]]
        BY <1>2, <4>1
      <4> QED
        BY <3>1, <3>2, <3>3, <4>1, <4>2
    <3>4. CASE ~a[k].manual
      BY <3>1, <3>2, <3>4
    <3> QED
      BY <3>3, <3>4
  <2> QED
    BY <2>1, <2>2
<1>11. InOrder(E, M, a1)
  <2> SUFFICES ASSUME NEW j \in 1 .. n + 1, NEW k \in 1 .. n + 1, j < k
               PROVE  /\ E[j] <= E[k]
                      /\ ~a1[k].manual => E[j] < E[k]
                      /\ a1[j].manual /\ a1[k].manual => M[j] < M[k]
    BY <1>2 DEF InOrder
  <2>0. j \in 1 .. n /\ E[j] = e[j] /\ e[j] \in 0 .. h /\ a1[j] = a[j] /\ M[j] = m[j]
    BY <1>2, <1>4
  <2>1. CASE k = n + 1
    <3>1. a[j].manual => m[j] \in 1 .. l
      BY <1>9, <2>0
    <3>2. a[j].manual => m[j] < l + 1
      BY <3>1
    <3>3. e[j] <= h
      BY <2>0
    <3> QED
      BY <1>2, <1>4, <2>0, <2>1, <3>2, <3>3
  <2>2. CASE k \in 1 .. n
    <3>1. E[k] = e[k] /\ a1[k] = a[k] /\ M[k] = m[k]
      BY <1>2, <1>4, <2>2
    <3> QED
      BY <1>3, <2>0, <2>2, <3>1 DEF InOrder, n
  <2> QED
    BY <2>1, <2>2
<1>12. Covered(E, M, exc, man1, a1)
  <2>1. ASSUME NEW i \in 1 .. h, exc[i].is_irq, ~exc[i].dropped
        PROVE  \E k \in 1 .. n + 1 : ~a1[k].manual /\ E[k] = i
    <3>1. PICK k \in 1 .. n : ~a[k].manual /\ e[k] = i
      BY <1>3, <2>1 DEF Covered, n, h
    <3> QED
      BY <1>2, <1>4, <3>1
  <2>2. ASSUME NEW i \in 1 .. l + 1, ~man1[i].dropped
        PROVE  \E k \in 1 .. n + 1 : a1[k].manual /\ M[k] = i
    <3>1. CASE i = l + 1
      BY <1>2, <1>4, <3>1
    <3>2. CASE i \in 1 .. l
      <4>1. PICK k \in 1 .. n : a[k].manual /\ m[k] = i
        BY <1>2, <1>3, <2>2, <3>2 DEF Covered, n, l
      <4> QED
        BY <1>2, <1>4, <4>1
    <3> QED
      BY <3>1, <3>2
  <2> QED
    BY <1>2, <2>1, <2>2 DEF Covered, h
<1>13. E \in [1 .. Len(a1) -> 0 .. Len(exc)] /\ M \in [1 .. Len(a1) -> Nat]
  BY <1>2, <1>4 DEF h
<1> QED
  BY <1>6, <1>7, <1>10, <1>11, <1>12, <1>13 DEF Matches, OneStack

-----------------------------------------------------------------------------
(* What the steps keep                                                     *)

LEMMA StackParts ==
  ASSUME CpuInv, AprOK, NEW p \in Cpus
  PROVE  /\ core[p] \in Core /\ core[p].exc \in Seq(Frame) /\ core[p].manual \in Seq(ManualFrame)
         /\ Len(core[p].exc) \in Nat /\ Len(core[p].manual) \in Nat /\ core[p].running \in RunPrio
         /\ apr[p] \in Seq(Acknowledged) /\ Len(apr[p]) \in Nat /\ DOMAIN apr[p] = 1 .. Len(apr[p])
         /\ \A k \in 1 .. Len(apr[p]) : apr[p][k].prio \in Prio
<1>1. core[p] \in Core
  BY CoreGood
<1>2. core[p].exc \in Seq(Frame) /\ core[p].manual \in Seq(ManualFrame) /\ core[p].running \in RunPrio
  BY <1>1 DEF Core
<1>3. apr[p] \in Seq(Acknowledged)
  BY DEF AprOK
<1>4. Len(core[p].exc) \in Nat /\ Len(core[p].manual) \in Nat
  BY <1>2
<1>5. Len(apr[p]) \in Nat /\ DOMAIN apr[p] = 1 .. Len(apr[p])
  BY <1>3
<1>6. \A k \in 1 .. Len(apr[p]) : apr[p][k] \in Acknowledged
  BY <1>3, <1>5
<1> QED
  BY <1>1, <1>2, <1>3, <1>4, <1>5, <1>6 DEF Acknowledged

\* The core runs at least as urgently as anything in its history.
LEMMA RunsBelow ==
  ASSUME NEW run, NEW exc, NEW man, NEW a, Len(a) \in Nat, OneStack(run, exc, man, a),
         \A k \in 1 .. Len(a) : a[k].prio \in Prio
  PROVE  \A k \in 1 .. Len(a) : run <= a[k].prio
<1>1. RunsAtTop(run, a) /\ Falls(a)
  BY DEF OneStack, Matches
<1> SUFFICES ASSUME NEW k \in 1 .. Len(a) PROVE run <= a[k].prio
  OBVIOUS
<1>2. Len(a) # 0 /\ Len(a) \in 1 .. Len(a) /\ (k < Len(a) \/ k = Len(a))
  OBVIOUS
<1>3. run = a[Len(a)].prio
  BY <1>1, <1>2 DEF RunsAtTop
<1>4. a[k].prio \in Nat /\ a[Len(a)].prio \in Nat
  BY <1>2, GicAssumption DEF Prio
<1>5. k < Len(a) => a[Len(a)].prio < a[k].prio
  BY <1>1, <1>2 DEF Falls
<1> QED
  BY <1>2, <1>3, <1>4, <1>5

\* A step that moves one core's stacks and history.
LEMMA OneMoves ==
  ASSUME StackInv, UNCHANGED setup, NEW p \in Cpus,
         \A q \in Cpus : q # p => apr'[q] = apr[q] /\ SameStacks(core[q], core'[q]),
         setup.tidy => PriosKept',
         setup.tidy /\ core'[p].halted = "no" =>
           OneStack(core'[p].running, core'[p].exc, core'[p].manual, apr'[p])
  PROVE  StackInv'
BY DEF StackInv, SameStacks

\* A step that moves none.
LEMMA NoneMoves ==
  ASSUME StackInv, UNCHANGED setup, apr' = apr,
         \A q \in Cpus : SameStacks(core[q], core'[q]), setup.tidy => PriosKept'
  PROVE  StackInv'
BY DEF StackInv, SameStacks

\* Ending an interrupt changes no priority.
LEMMA EoiPriorities ==
  ASSUME CpuInv, NEW p \in Cpus, NEW i \in IntIds
  PROVE  Eoi(gic, p, i).priorities = gic.priorities
<1> DEFINE S == {SlotOf(p, i)}
           q == SetActiveBits(gic, S, FALSE)
<1>1. gic \in Gic
  BY CoreGood DEF GicInv
<1>2. q \in Gic /\ q.priorities = gic.priorities
  <2>1. q \in Gic
    BY <1>1, SlotOfType, ActiveQuiet DEF Quiet
  <2>2. ActiveBecomes(gic, q, gic.active \ S)
    BY <1>1, SetterBits
  <2> QED
    BY <2>1, <2>2 DEF ActiveBecomes
<1>3. Eoi(gic, p, i) \in {SetPendingBits(q, S, TRUE), q}
  BY DEF Eoi
<1> HIDE DEF q, S
<1>4. SetPendingBits(q, S, TRUE).priorities = q.priorities
  BY <1>2, SetterBits DEF PendingBecomes
<1> QED
  BY <1>2, <1>3, <1>4

\* Neither does a history that loses its last entry change a priority ...
LEMMA PopKeepsPrios ==
  ASSUME AprOK, PriosKept, NEW p \in Cpus, apr[p] # <<>>, apr' = [apr EXCEPT ![p] = Pop(@)],
         gic'.priorities = gic.priorities
  PROVE  PriosKept'
<1>1. /\ \A q \in Cpus : q # p => apr'[q] = apr[q]
      /\ Len(apr[p]) \in Nat \ {0}
      /\ DOMAIN apr[p] = 1 .. Len(apr[p]) /\ DOMAIN apr'[p] = 1 .. Len(apr[p]) - 1
      /\ \A k \in 1 .. Len(apr[p]) - 1 : apr'[p][k] = apr[p][k]
  BY PopEntries
<1> SUFFICES ASSUME NEW q \in Cpus, NEW k \in DOMAIN apr'[q]
             PROVE  apr'[q][k].prio = gic.priorities[SlotOf(q, apr'[q][k].intid)]
  BY DEF PriosKept
<1>2. CASE q # p
  BY <1>1, <1>2 DEF PriosKept
<1>3. CASE q = p
  <2>1. k \in 1 .. Len(apr[p]) - 1 /\ k \in DOMAIN apr[p]
    BY <1>1, <1>3
  <2> QED
    BY <1>1, <1>3, <2>1 DEF PriosKept
<1> QED
  BY <1>2, <1>3

\* ... nor one that gets another.
LEMMA AckKeepsPrios ==
  ASSUME AprOK, PriosKept, NEW p \in Cpus, NEW x \in IntIds, NEW manual \in BOOLEAN, Acks(p, x, manual)
  PROVE  PriosKept'
<1> DEFINE y == [intid |-> x, prio |-> gic.priorities[SlotOf(p, x)], manual |-> manual]
<1>1. /\ y \in Acknowledged /\ y.intid = x /\ y.prio = gic.priorities[SlotOf(p, x)]
      /\ apr' = [apr EXCEPT ![p] = Append(@, y)] /\ gic'.priorities = gic.priorities
  BY DEF Acks, Acknowledged
<1> HIDE DEF y
<1>2. /\ \A q \in Cpus : q # p => apr'[q] = apr[q]
      /\ Len(apr[p]) \in Nat
      /\ DOMAIN apr[p] = 1 .. Len(apr[p]) /\ DOMAIN apr'[p] = 1 .. Len(apr[p]) + 1
      /\ \A k \in 1 .. Len(apr[p]) : apr'[p][k] = apr[p][k]
      /\ apr'[p][Len(apr[p]) + 1] = y
  BY <1>1, AppendEntries
<1> SUFFICES ASSUME NEW q \in Cpus, NEW k \in DOMAIN apr'[q]
             PROVE  apr'[q][k].prio = gic.priorities[SlotOf(q, apr'[q][k].intid)]
  BY <1>1 DEF PriosKept
<1>3. CASE q # p
  BY <1>2, <1>3 DEF PriosKept
<1>4. CASE q = p /\ k = Len(apr[p]) + 1
  BY <1>1, <1>2, <1>4
<1>5. CASE q = p /\ k # Len(apr[p]) + 1
  <2>1. k \in 1 .. Len(apr[p])
    BY <1>2, <1>5
  <2> QED
    BY <1>2, <1>5, <2>1 DEF PriosKept
<1> QED
  BY <1>3, <1>4, <1>5

\* A core acknowledges an interrupt.
LEMMA ServesKeepsStack ==
  ASSUME CpuInv, AprOK, StackInv, UNCHANGED setup, NEW p \in Cpus, Serves(p)
  PROVE  StackInv'
<1>1. PICK x \in IntIds, manual \in BOOLEAN : Acks(p, x, manual) /\ Pushes(p, x, manual)
  BY DEF Serves
<1> DEFINE c == core[p]
           d == core'[p]
           prio == gic.priorities[SlotOf(p, x)]
           y == [intid |-> x, prio |-> prio, manual |-> manual]
<1>2. /\ y \in Acknowledged /\ y.intid = x /\ y.prio = prio /\ y.manual = manual /\ prio \in Prio
      /\ apr' = [apr EXCEPT ![p] = Append(@, y)] /\ gic'.priorities = gic.priorities
  BY <1>1 DEF Acks, Acknowledged
<1>3. /\ prio < c.running
      /\ \A q \in Cpus : q # p => core'[q] = core[q]
      /\ d.halted = "no" =>
           /\ c.halted = "no" /\ d.running = prio
           /\ IF manual
              THEN /\ ~InIrqFrame(c) /\ d.exc = c.exc
                   /\ d.manual = Append(c.manual, [intid |-> x, prev_prio |-> c.running, dropped |-> FALSE])
              ELSE /\ d.manual = c.manual
                   /\ d.exc = Append(c.exc, [is_irq |-> TRUE, intid |-> x, prev_prio |-> c.running, dropped |-> FALSE])
  BY <1>1 DEF Pushes
<1>4. /\ c \in Core /\ c.exc \in Seq(Frame) /\ c.manual \in Seq(ManualFrame)
      /\ Len(c.exc) \in Nat /\ Len(c.manual) \in Nat /\ c.running \in RunPrio
      /\ apr[p] \in Seq(Acknowledged) /\ Len(apr[p]) \in Nat /\ DOMAIN apr[p] = 1 .. Len(apr[p])
      /\ \A k \in 1 .. Len(apr[p]) : apr[p][k].prio \in Prio
  BY StackParts
<1>5. /\ \A q \in Cpus : q # p => apr'[q] = apr[q]
      /\ apr'[p] = Append(apr[p], y)
  BY <1>2 DEF AprOK
<1>6. Pushed(apr[p], apr'[p], y)
  BY <1>2, <1>4, <1>5, AppendPushes
<1>7. setup.tidy => PriosKept'
  BY <1>1, AckKeepsPrios DEF StackInv
<1>8. ASSUME setup.tidy, d.halted = "no"
      PROVE  OneStack(d.running, d.exc, d.manual, apr'[p])
  <2>1. OneStack(c.running, c.exc, c.manual, apr[p]) /\ d.running = prio
    BY <1>3, <1>8 DEF StackInv
  <2>2. \A k \in 1 .. Len(apr[p]) : apr[p][k].intid # x
    <3> SUFFICES ASSUME NEW k \in 1 .. Len(apr[p]), apr[p][k].intid = x PROVE FALSE
      OBVIOUS
    <3>1. apr[p][k].prio = prio
      BY <1>4, <1>8 DEF StackInv, PriosKept
    <3>2. c.running <= apr[p][k].prio
      BY <1>4, <2>1, RunsBelow
    <3> HIDE DEF c, prio
    <3> QED
      BY <1>2, <1>3, <1>4, <3>1, <3>2, GicAssumption DEF Prio, RunPrio, IdlePrio
  <2>3. CASE ~manual
    <3> DEFINE f == [is_irq |-> TRUE, intid |-> x, prev_prio |-> c.running, dropped |-> FALSE]
    <3>1. f \in Frame /\ f.is_irq /\ f.intid = x /\ f.prev_prio = c.running /\ ~f.dropped
      BY <1>4, GicAssumption DEF Frame, IntIds
    <3>2. d.exc = Append(c.exc, f) /\ d.manual = c.manual
      BY <1>3, <1>8, <2>3
    <3> HIDE DEF f, c, d, y, prio
    <3>3. Pushed(c.exc, d.exc, f)
      BY <1>4, <3>1, <3>2, AppendPushes
    <3>4. ~y.manual
      BY <1>2, <2>3
    <3>5. prio < c.running /\ prio \in Prio /\ y.intid = x /\ y.prio = prio /\ OneStack(c.running, c.exc, c.manual, apr[p])
      BY <1>2, <1>3, <2>1
    <3>6. OneStack(prio, d.exc, c.manual, apr'[p])
      BY <1>4, <1>6, <2>2, <3>1, <3>3, <3>4, <3>5, PushIrqMatches
    <3> QED
      BY <2>1, <3>2, <3>6
  <2>4. CASE manual
    <3> DEFINE f == [intid |-> x, prev_prio |-> c.running, dropped |-> FALSE]
    <3>1. f \in ManualFrame /\ f.intid = x /\ f.prev_prio = c.running /\ ~f.dropped
      BY <1>4 DEF ManualFrame
    <3>2. d.manual = Append(c.manual, f) /\ d.exc = c.exc
      BY <1>3, <1>8, <2>4
    <3>3. Len(c.exc) > 0 => ~c.exc[Len(c.exc)].is_irq
      <4>1. Len(c.exc) > 0 => c.exc # <<>>
        BY <1>4, EmptySeq
      <4> QED
        BY <1>3, <1>8, <2>4, <4>1 DEF InIrqFrame, Top
    <3> HIDE DEF f, c, d, y, prio
    <3>4. Pushed(c.manual, d.manual, f)
      BY <1>4, <3>1, <3>2, AppendPushes
    <3>5. y.manual
      BY <1>2, <2>4
    <3>6. OneStack(prio, c.exc, d.manual, apr'[p])
      BY <1>2, <1>3, <1>4, <1>6, <2>1, <3>1, <3>3, <3>4, <3>5, PushManualMatches
    <3> QED
      BY <2>1, <3>2, <3>6
  <2> QED
    BY <2>3, <2>4
<1>9. \A q \in Cpus : q # p => apr'[q] = apr[q] /\ SameStacks(core[q], core'[q])
  BY <1>3, <1>5 DEF SameStacks
<1> QED
  BY <1>7, <1>8, <1>9, OneMoves

\* enter_sync_exception.
LEMMA SyncKeepsStack ==
  ASSUME CpuInv, AprOK, StackInv, UNCHANGED setup, NEW p \in Cpus, SyncException(p)
  PROVE  StackInv'
<1> DEFINE b == core[p]
           c == Fetched(p)
           f == [is_irq |-> FALSE, intid |-> 0, prev_prio |-> c.running, dropped |-> TRUE]
           stop == [c EXCEPT !.halted = "yes"]
           enter == [c EXCEPT !.exc = Append(@, f), !.masked = TRUE]
<1>1. /\ Executing(p) /\ UNCHANGED <<gic, apr, waived>>
      /\ core' = [core EXCEPT ![p] = IF Len(c.exc) >= MaxExcDepth THEN stop ELSE enter]
  BY DEF SyncException, Execute
<1>2. SameStacks(b, c) /\ c \in Core
  BY <1>1, FetchedStacks
<1>3. Only(p, IF Len(c.exc) >= MaxExcDepth THEN stop ELSE enter)
  BY <1>1, OnlyOne
<1>4. /\ b.exc \in Seq(Frame) /\ Len(b.exc) \in Nat /\ Len(b.manual) \in Nat /\ b.running \in RunPrio
      /\ Len(apr[p]) \in Nat
  BY StackParts
<1>5. f \in Frame /\ ~f.is_irq
  <2>1. c.running \in RunPrio
    BY <1>2 DEF Core
  <2> QED
    BY <2>1, GicAssumption DEF Frame
<1>6. setup.tidy => PriosKept'
  BY <1>1 DEF StackInv, PriosKept
<1>7. ASSUME setup.tidy, core'[p].halted = "no"
      PROVE  OneStack(core'[p].running, core'[p].exc, core'[p].manual, apr'[p])
  <2> HIDE DEF c, f, b
  <2>0. stop.halted # "no"
    BY <1>2 DEF Core
  <2>1. core'[p] = enter
    BY <1>3, <1>7, <2>0 DEF Only
  <2>2. /\ enter.running = c.running /\ enter.exc = Append(c.exc, f) /\ enter.manual = c.manual
        /\ enter.halted = c.halted
    BY <1>2 DEF Core
  <2>3. b.halted = "no" /\ b.running = c.running /\ b.exc = c.exc /\ b.manual = c.manual
    BY <1>2, <1>7, <2>1, <2>2 DEF SameStacks
  <2>4. OneStack(b.running, b.exc, b.manual, apr[p])
    BY <1>7, <2>3 DEF StackInv, b
  <2>5. Pushed(b.exc, Append(b.exc, f), f)
    BY <1>4, <1>5, AppendPushes
  <2>6. OneStack(b.running, Append(b.exc, f), b.manual, apr[p])
    BY <1>4, <1>5, <2>4, <2>5, PushSyncMatches
  <2> QED
    BY <1>1, <2>1, <2>2, <2>3, <2>6
<1>8. \A q \in Cpus : q # p => apr'[q] = apr[q] /\ SameStacks(core[q], core'[q])
  BY <1>1, <1>3 DEF SameStacks, Only
<1> QED
  BY <1>6, <1>7, <1>8, OneMoves

\* ICC_DIR_EL1.
LEMMA DirKeepsStack ==
  ASSUME CpuInv, AprOK, StackInv, UNCHANGED setup, NEW p \in Cpus, NEW i \in IntIds, WriteIccDir(p, i)
  PROVE  StackInv'
<1> DEFINE b == core[p]
           c == Fetched(p)
           inMan == c.manual # <<>> /\ Top(c.manual).intid = i /\ Top(c.manual).dropped
           d == [c EXCEPT !.manual = Pop(@)]
<1>1. /\ Executing(p) /\ UNCHANGED <<apr, waived>> /\ gic' = Eoi(gic, p, i)
      /\ core' = [core EXCEPT ![p] = IF inMan THEN d ELSE c]
  BY DEF WriteIccDir, Execute, Becomes
<1>2. SameStacks(b, c) /\ c \in Core
  BY <1>1, FetchedStacks
<1>3. Only(p, IF inMan THEN d ELSE c)
  BY <1>1, OnlyOne
<1>4. /\ b.manual \in Seq(ManualFrame) /\ Len(b.exc) \in Nat /\ Len(b.manual) \in Nat
      /\ Len(apr[p]) \in Nat
  BY StackParts
<1>5. gic'.priorities = gic.priorities
  BY <1>1, EoiPriorities
<1>6. setup.tidy => PriosKept'
  BY <1>1, <1>5 DEF StackInv, PriosKept
<1>7. ASSUME setup.tidy, core'[p].halted = "no"
      PROVE  OneStack(core'[p].running, core'[p].exc, core'[p].manual, apr'[p])
  <2> HIDE DEF c, b
  <2>2. /\ d.running = c.running /\ d.exc = c.exc /\ d.manual = Pop(c.manual)
        /\ d.halted = c.halted
    BY <1>2 DEF Core
  <2>3. core'[p].halted = c.halted
    BY <1>3, <2>2 DEF Only
  <2>4. b.halted = "no" /\ b.running = c.running /\ b.exc = c.exc /\ b.manual = c.manual
    BY <1>2, <1>7, <2>3 DEF SameStacks
  <2>5. OneStack(b.running, b.exc, b.manual, apr[p])
    BY <1>7, <2>4 DEF StackInv, b
  <2>6. CASE ~inMan
    <3>1. core'[p] = c
      BY <1>3, <2>6 DEF Only
    <3> QED
      BY <1>1, <2>4, <2>5, <3>1
  <2>7. CASE inMan
    <3>1. core'[p] = d
      BY <1>3, <2>7 DEF Only
    <3>2. b.manual # <<>> /\ b.manual[Len(b.manual)].dropped
      BY <2>4, <2>7 DEF Top
    <3>3. Popped(b.manual, Pop(b.manual))
      BY <1>4, <3>2, PopPops
    <3>4. OneStack(b.running, b.exc, Pop(b.manual), apr[p])
      BY <1>4, <2>5, <3>2, <3>3, PopManualMatches
    <3> QED
      BY <1>1, <2>2, <2>4, <3>1, <3>4
  <2> QED
    BY <2>6, <2>7
<1>8. \A q \in Cpus : q # p => apr'[q] = apr[q] /\ SameStacks(core[q], core'[q])
  BY <1>1, <1>3 DEF SameStacks, Only
<1> QED
  BY <1>6, <1>7, <1>8, OneMoves

\* A frame that is marked as dropped.
LEMMA MarkEnds ==
  ASSUME NEW S, NEW s \in Seq(S), s # <<>>, NEW f \in S, f.dropped, f.intid = s[Len(s)].intid
  PROVE  [s EXCEPT ![Len(s)] = f] \in Seq(S) /\ EndedTop(s, [s EXCEPT ![Len(s)] = f])
<1>1. Len(s) \in Nat /\ Len(s) > 0 /\ DOMAIN s = 1 .. Len(s)
  BY EmptySeq
<1>2. Len(s) \in 1 .. Len(s)
  BY <1>1
<1> DEFINE t == [s EXCEPT ![Len(s)] = f]
<1>3. t \in Seq(S) /\ Len(t) = Len(s)
  BY <1>1, <1>2, ExceptSeq
<1>4. \A i \in 1 .. Len(s) : t[i] = IF i = Len(s) THEN f ELSE s[i]
  BY <1>1, <1>2, ExceptSeq
<1> HIDE DEF t
<1>5. EndedTop(s, t)
  <2>0. \A i \in 1 .. Len(s) - 1 : i \in 1 .. Len(s) /\ i # Len(s)
    <3>1. \A n \in Nat : \A i \in 1 .. n - 1 : i \in 1 .. n /\ i # n
      OBVIOUS
    <3> QED
      BY <1>1, <3>1
  <2>1. t[Len(s)] = f /\ \A i \in 1 .. Len(s) - 1 : t[i] = s[i]
    BY <1>2, <1>4, <2>0
  <2>2. Len(t) \in {Len(s) - 1, Len(s)}
    BY <1>3
  <2> QED
    BY <1>1, <2>1, <2>2 DEF EndedTop
<1> QED
  BY <1>3, <1>5 DEF t

\* A stack that is popped.
LEMMA PopEnds ==
  ASSUME NEW s, NEW t, Len(s) \in Nat, Popped(s, t)
  PROVE  EndedTop(s, t)
BY DEF Popped, EndedTop

\* What ICC_EOIR1_EL1 and ERET make of a core: another stack and priority.
LEMMA EndsExc ==
  ASSUME NEW c \in Core, NEW s \in Seq(Frame), NEW prio \in RunPrio, NEW d, d = RunAt([c EXCEPT !.exc = s], prio)
  PROVE  d.running = prio /\ d.exc = s /\ d.manual = c.manual /\ d.halted = c.halted
<1> DEFINE x == [c EXCEPT !.exc = s]
<1>1. x \in Core /\ x.exc = s /\ x.manual = c.manual /\ x.halted = c.halted
  BY DEF Core
<1>2. d = RunAt(x, prio)
  OBVIOUS
<1> HIDE DEF x
<1> QED
  BY <1>1, <1>2, RunAtStacks

LEMMA EndsManual ==
  ASSUME NEW c \in Core, NEW s \in Seq(ManualFrame), NEW prio \in RunPrio, NEW d, d = RunAt([c EXCEPT !.manual = s], prio)
  PROVE  d.running = prio /\ d.manual = s /\ d.exc = c.exc /\ d.halted = c.halted
<1> DEFINE x == [c EXCEPT !.manual = s]
<1>1. x \in Core /\ x.manual = s /\ x.exc = c.exc /\ x.halted = c.halted
  BY DEF Core
<1>2. d = RunAt(x, prio)
  OBVIOUS
<1> HIDE DEF x
<1> QED
  BY <1>1, <1>2, RunAtStacks

\* A handler ends its interrupt.
LEMMA DropsIrq ==
  ASSUME NEW c \in Core, c.exc # <<>>, NEW d,
         d = RunAt([c EXCEPT !.exc[Len(c.exc)].dropped = TRUE], Top(c.exc).prev_prio)
  PROVE  /\ d.running = c.exc[Len(c.exc)].prev_prio /\ d.manual = c.manual /\ d.halted = c.halted
         /\ EndedTop(c.exc, d.exc)
<1> DEFINE n == Len(c.exc)
           f == [c.exc[n] EXCEPT !.dropped = TRUE]
           s == [c.exc EXCEPT ![n] = f]
<1>1. c.exc \in Seq(Frame)
  BY DEF Core
<1>2. c.exc[n] \in Frame
  BY <1>1, StackTop DEF Top
<1>3. f \in Frame /\ f.dropped /\ f.intid = c.exc[n].intid /\ c.exc[n].prev_prio \in RunPrio
  BY <1>2 DEF Frame
<1>4. d = RunAt([c EXCEPT !.exc = s], c.exc[n].prev_prio)
  BY DEF Top
<1> HIDE DEF f
<1>5. s \in Seq(Frame) /\ EndedTop(c.exc, s)
  BY <1>1, <1>3, MarkEnds
<1> HIDE DEF s
<1>6. d.running = c.exc[n].prev_prio /\ d.exc = s /\ d.manual = c.manual /\ d.halted = c.halted
  BY <1>3, <1>4, <1>5, EndsExc
<1> QED
  BY <1>5, <1>6

\* ICC_EOIR1_EL1.
LEMMA EoirKeepsStack ==
  ASSUME CpuInv, AprOK, StackInv, UNCHANGED setup, NEW p \in Cpus, NEW i \in IntIds,
         GuestMayEoir(p, i), WriteIccEoir1(p, i)
  PROVE  StackInv'
<1> DEFINE b == core[p]
           c == Fetched(p)
           a == apr[p]
           inIrq == InIrqFrame(c) /\ Top(c.exc).intid = i
           inMan == ~inIrq /\ c.manual # <<>> /\ Top(c.manual).intid = i
           dIrq  == RunAt([c EXCEPT !.exc[Len(c.exc)].dropped = TRUE], Top(c.exc).prev_prio)
           dMan  == RunAt([c EXCEPT !.manual = IF c.drop_only THEN [@ EXCEPT ![Len(c.manual)].dropped = TRUE]
                                                              ELSE Pop(@)],
                          Top(c.manual).prev_prio)
           d     == CASE inIrq -> dIrq [] inMan -> dMan [] OTHER -> c
<1>1. /\ Executing(p) /\ LastAcked(p, i) /\ apr' = [apr EXCEPT ![p] = Pop(@)]
      /\ core' = [core EXCEPT ![p] = d]
      /\ gic' \in {gic, Eoi(gic, p, i)}
  BY DEF WriteIccEoir1, GuestMayEoir, Becomes
<1>2. SameStacks(b, c) /\ c \in Core
  BY <1>1, FetchedStacks
<1>3. Only(p, d)
  BY <1>1, OnlyOne
<1>4. /\ b.exc \in Seq(Frame) /\ b.manual \in Seq(ManualFrame) /\ Len(b.exc) \in Nat /\ Len(b.manual) \in Nat
      /\ a \in Seq(Acknowledged) /\ Len(a) \in Nat
  BY StackParts
<1>5. gic'.priorities = gic.priorities
  BY <1>1, EoiPriorities
<1>6. a # <<>> /\ a[Len(a)].intid = i
  BY <1>1 DEF LastAcked, Top
<1>7. setup.tidy => PriosKept'
  BY <1>1, <1>5, <1>6, PopKeepsPrios DEF StackInv
<1>8. Len(a) > 0 /\ Popped(a, Pop(a)) /\ apr'[p] = Pop(a) /\ \A q \in Cpus : q # p => apr'[q] = apr[q]
  BY <1>1, <1>4, <1>6, EmptySeq, PopPops DEF AprOK
<1>9. ASSUME setup.tidy, core'[p].halted = "no"
      PROVE  OneStack(core'[p].running, core'[p].exc, core'[p].manual, apr'[p])
  <2>1. /\ a[Len(a)].manual => b.manual # <<>> /\ ~Top(b.manual).dropped
        /\ ~a[Len(a)].manual => InIrqFrame(b) /\ Top(b.exc).intid = i /\ ~Top(b.exc).dropped
    BY <1>9 DEF GuestMayEoir, Top
  <2>2. b.running = c.running /\ b.exc = c.exc /\ b.manual = c.manual /\ (c.halted = "no" => b.halted = "no")
    BY <1>2 DEF SameStacks
  <2>3. b.halted = "no" => OneStack(b.running, b.exc, b.manual, a)
    BY <1>9 DEF StackInv
  <2> HIDE DEF c, b, a
  <2>4. CASE ~a[Len(a)].manual
    <3>1. inIrq /\ c.exc # <<>> /\ c.exc[Len(c.exc)].is_irq /\ ~c.exc[Len(c.exc)].dropped
      BY <2>1, <2>2, <2>4 DEF InIrqFrame, Top
    <3>2. core'[p] = dIrq
      BY <1>3, <3>1 DEF Only
    <3> DEFINE n == Len(c.exc)
    <3>3. c.exc \in Seq(Frame) /\ n \in Nat /\ n > 0
      BY <1>4, <2>2, <3>1, EmptySeq
    <3>4. dIrq.running = c.exc[n].prev_prio /\ dIrq.manual = c.manual /\ dIrq.halted = c.halted /\ EndedTop(c.exc, dIrq.exc)
      BY <1>2, <3>1, DropsIrq
    <3> HIDE DEF dIrq
    <3>5. OneStack(b.running, c.exc, c.manual, a)
      BY <1>9, <2>2, <2>3, <3>2, <3>4
    <3>6. OneStack(c.exc[n].prev_prio, dIrq.exc, c.manual, Pop(a))
      BY <1>4, <1>8, <2>2, <2>4, <3>1, <3>3, <3>4, <3>5, EndIrqMatches
    <3> QED
      BY <1>8, <3>2, <3>4, <3>6
  <2>5. CASE a[Len(a)].manual
    <3>1. c.manual # <<>> /\ ~c.manual[Len(c.manual)].dropped
      BY <2>1, <2>2, <2>5 DEF Top
    <3> DEFINE n == Len(c.manual)
               f == [c.manual[n] EXCEPT !.dropped = TRUE]
               s == IF c.drop_only THEN [c.manual EXCEPT ![n] = f] ELSE Pop(c.manual)
    <3>2. c.manual \in Seq(ManualFrame) /\ n \in Nat /\ n > 0
      BY <1>4, <2>2, <3>1, EmptySeq
    <3>3. c.manual[n] \in ManualFrame
      BY <3>1, <3>2, StackTop DEF Top
    <3>4. f \in ManualFrame /\ f.dropped /\ f.intid = c.manual[n].intid /\ c.manual[n].prev_prio \in RunPrio
      BY <3>3 DEF ManualFrame
    <3>5. dMan = RunAt([c EXCEPT !.manual = s], c.manual[n].prev_prio)
      BY DEF Top
    <3>a. inIrq => dIrq.halted = c.halted
      BY <1>2, DropsIrq DEF InIrqFrame
    <3> HIDE DEF f, dMan, dIrq
    <3>6. s \in Seq(ManualFrame) /\ EndedTop(c.manual, s)
      <4>1. [c.manual EXCEPT ![n] = f] \in Seq(ManualFrame) /\ EndedTop(c.manual, [c.manual EXCEPT ![n] = f])
        BY <3>1, <3>2, <3>4, MarkEnds
      <4>2. Pop(c.manual) \in Seq(ManualFrame) /\ Popped(c.manual, Pop(c.manual))
        BY <3>1, <3>2, PopPops
      <4>3. EndedTop(c.manual, Pop(c.manual))
        BY <3>2, <4>2, PopEnds
      <4> QED
        BY <4>1, <4>2, <4>3
    <3> HIDE DEF s
    <3>7. dMan.running = c.manual[n].prev_prio /\ dMan.manual = s /\ dMan.exc = c.exc /\ dMan.halted = c.halted
      BY <1>2, <3>4, <3>5, <3>6, EndsManual
    <3>8. b.halted = "no" =>
            /\ c.manual[n].intid = a[Len(a)].intid
            /\ Len(c.exc) > 0 /\ c.exc[Len(c.exc)].is_irq => c.exc[Len(c.exc)].intid # a[Len(a)].intid
            /\ OneStack(c.manual[n].prev_prio, c.exc, s, Pop(a))
      <4> SUFFICES ASSUME b.halted = "no"
                   PROVE  /\ c.manual[n].intid = a[Len(a)].intid
                          /\ Len(c.exc) > 0 /\ c.exc[Len(c.exc)].is_irq => c.exc[Len(c.exc)].intid # a[Len(a)].intid
                          /\ OneStack(c.manual[n].prev_prio, c.exc, s, Pop(a))
        OBVIOUS
      <4>1. OneStack(b.running, c.exc, c.manual, a) /\ Len(c.exc) \in Nat
        BY <1>4, <2>2, <2>3
      <4> QED
        BY <1>4, <1>8, <2>5, <3>1, <3>2, <3>6, <4>1, EndManualMatches
    <3>9. b.halted = "no" => ~inIrq /\ inMan
      <4>1. c.exc # <<>> => Len(c.exc) > 0
        BY <1>4, <2>2, EmptySeq
      <4> QED
        BY <1>6, <3>1, <3>8, <4>1 DEF InIrqFrame, Top, a
    <3>10. b.halted = "no"
      BY <1>3, <1>9, <2>2, <3>a, <3>7 DEF Only
    <3>11. core'[p] = dMan
      BY <1>3, <3>9, <3>10 DEF Only
    <3> QED
      BY <1>8, <3>7, <3>8, <3>10, <3>11
  <2> QED
    BY <2>4, <2>5
<1>10. \A q \in Cpus : q # p => apr'[q] = apr[q] /\ SameStacks(core[q], core'[q])
  BY <1>3, <1>8 DEF SameStacks, Only
<1> QED
  BY <1>7, <1>9, <1>10, OneMoves

\* ERET pops the frame on top, if there is one.
Returned(c, masked) == [IF c.exc = <<>> THEN c ELSE [c EXCEPT !.exc = Pop(@)] EXCEPT !.masked = masked]

LEMMA EretCore ==
  ASSUME NEW c \in Core, NEW masked \in BOOLEAN
  PROVE  /\ Returned(c, masked) \in Core /\ Returned(c, masked).running = c.running
         /\ Returned(c, masked).manual = c.manual /\ Returned(c, masked).halted = c.halted
         /\ c.exc = <<>> => Returned(c, masked).exc = c.exc
         /\ c.exc # <<>> => Popped(c.exc, Returned(c, masked).exc)
<1> DEFINE popped == IF c.exc = <<>> THEN c ELSE [c EXCEPT !.exc = Pop(@)]
           c1     == [popped EXCEPT !.masked = masked]
<1>1. c.exc \in Seq(Frame)
  BY DEF Core
<1>2. /\ popped \in Core /\ popped.running = c.running /\ popped.manual = c.manual /\ popped.halted = c.halted
      /\ c.exc = <<>> => popped.exc = c.exc
      /\ c.exc # <<>> => Popped(c.exc, popped.exc)
  <2>1. CASE c.exc = <<>>
    BY <2>1
  <2>2. CASE c.exc # <<>>
    <3> DEFINE s == Pop(c.exc)
    <3>1. s \in Seq(Frame) /\ Popped(c.exc, s)
      BY <1>1, <2>2, PopPops
    <3>2. popped = [c EXCEPT !.exc = s]
      BY <2>2
    <3> HIDE DEF s
    <3>3. popped \in Core /\ popped.running = c.running /\ popped.manual = c.manual /\ popped.halted = c.halted
          /\ popped.exc = s
      BY <3>1, <3>2 DEF Core
    <3> QED
      BY <2>2, <3>1, <3>3
  <2> QED
    BY <2>1, <2>2
<1> HIDE DEF popped
<1>3. c1 \in Core /\ c1.running = popped.running /\ c1.manual = popped.manual /\ c1.halted = popped.halted
      /\ c1.exc = popped.exc
  BY <1>2 DEF Core
<1>4. Returned(c, masked) = c1
  BY DEF Returned, popped
<1> HIDE DEF c1
<1> QED
  BY <1>2, <1>3, <1>4

LEMMA EretKeepsStack ==
  ASSUME CpuInv, AprOK, StackInv, UNCHANGED setup, NEW p \in Cpus, NEW masked \in BOOLEAN,
         GuestMayEret(p), Eret(p, masked)
  PROVE  StackInv'
<1> DEFINE b == core[p]
           c == Fetched(p)
           a == apr[p]
           frame  == Top(c.exc)
           ends   == c.exc # <<>> /\ frame.is_irq /\ ~frame.dropped
           popped == IF c.exc = <<>> THEN c ELSE [c EXCEPT !.exc = Pop(@)]
           c1     == [popped EXCEPT !.masked = masked]
<1>1. /\ Executing(p)
      /\ core' = [core EXCEPT ![p] = IF ends THEN RunAt(c1, frame.prev_prio) ELSE c1]
      /\ gic' = IF ends THEN Eoi(gic, p, frame.intid) ELSE gic
      /\ apr' = [apr EXCEPT ![p] = IF ends /\ LastAcked(p, frame.intid) THEN Pop(@) ELSE @]
  BY DEF Eret, Execute, Becomes
<1>2. SameStacks(b, c) /\ c \in Core
  BY <1>1, FetchedStacks
<1>3. Only(p, IF ends THEN RunAt(c1, frame.prev_prio) ELSE c1)
  BY <1>1, OnlyOne
<1>4. /\ b.exc \in Seq(Frame) /\ Len(b.exc) \in Nat /\ Len(b.manual) \in Nat
      /\ a \in Seq(Acknowledged) /\ Len(a) \in Nat
  BY StackParts
<1>5. b.running = c.running /\ b.exc = c.exc /\ b.manual = c.manual /\ (c.halted = "no" => b.halted = "no")
  BY <1>2 DEF SameStacks
<1>a. c1 = Returned(c, masked)
  BY DEF Returned
<1>7. /\ ends => LastAcked(p, frame.intid)
      /\ setup.tidy /\ a # <<>> => ~a[Len(a)].manual
  BY <1>5 DEF GuestMayEret, InIrqFrame, Top
<1> HIDE DEF c1, popped, c, b
<1>6. /\ c1 \in Core /\ c1.running = c.running /\ c1.manual = c.manual /\ c1.halted = c.halted
      /\ c.exc = <<>> => c1.exc = c.exc
      /\ c.exc # <<>> => Popped(c.exc, c1.exc)
  BY <1>2, <1>a, EretCore
<1>8. CASE ends
  <2>1. a # <<>> /\ a[Len(a)].intid = frame.intid
    BY <1>7, <1>8 DEF LastAcked, Top
  <2>2. frame.intid \in IntIds
    <3>1. a[Len(a)] \in Acknowledged
      BY <1>4, <2>1, StackTop DEF Top
    <3> QED
      BY <2>1, <3>1 DEF Acknowledged
  <2>3. apr' = [apr EXCEPT ![p] = Pop(@)] /\ gic' = Eoi(gic, p, frame.intid)
    BY <1>1, <1>7, <1>8
  <2>4. gic'.priorities = gic.priorities
    BY <2>2, <2>3, EoiPriorities
  <2>5. setup.tidy => PriosKept'
    BY <2>1, <2>3, <2>4, PopKeepsPrios DEF StackInv
  <2>6. Len(a) > 0 /\ Popped(a, Pop(a)) /\ apr'[p] = Pop(a) /\ \A q \in Cpus : q # p => apr'[q] = apr[q]
    BY <1>4, <2>1, <2>3, EmptySeq, PopPops DEF AprOK
  <2>7. ASSUME setup.tidy, core'[p].halted = "no"
        PROVE  OneStack(core'[p].running, core'[p].exc, core'[p].manual, apr'[p])
    <3>1. core'[p] = RunAt(c1, frame.prev_prio)
      BY <1>3, <1>8 DEF Only
    <3>2. frame \in Frame
      BY <1>4, <1>5, <1>8, StackTop
    <3>3. frame.prev_prio \in RunPrio
      BY <3>2 DEF Frame
    <3>4. /\ core'[p].running = frame.prev_prio /\ core'[p].exc = c1.exc
          /\ core'[p].manual = c1.manual /\ core'[p].halted = c1.halted
      BY <1>6, <3>1, <3>3, RunAtStacks
    <3>5. OneStack(c.running, c.exc, c.manual, a)
      BY <1>5, <1>6, <2>7, <3>4 DEF StackInv, b
    <3>6. Popped(c.exc, c1.exc) /\ Len(c.exc) \in Nat /\ Len(c.exc) > 0
      BY <1>4, <1>5, <1>6, <1>8 DEF Popped
    <3>7. EndedTop(c.exc, c1.exc)
      BY <3>6, PopEnds
    <3>8. c.exc[Len(c.exc)].is_irq /\ ~c.exc[Len(c.exc)].dropped /\ frame = c.exc[Len(c.exc)]
      BY <1>8 DEF Top
    <3>9. Len(c.manual) \in Nat /\ ~a[Len(a)].manual
      BY <1>4, <1>5, <1>7, <2>1, <2>7
    <3> HIDE DEF a
    <3>10. OneStack(c.exc[Len(c.exc)].prev_prio, c1.exc, c.manual, Pop(a))
      BY <1>4, <2>6, <3>5, <3>6, <3>7, <3>8, <3>9, EndIrqMatches
    <3> QED
      BY <1>6, <2>6, <3>4, <3>8, <3>10
  <2>8. \A q \in Cpus : q # p => apr'[q] = apr[q] /\ SameStacks(core[q], core'[q])
    BY <1>3, <2>6 DEF SameStacks, Only
  <2> QED
    BY <2>5, <2>7, <2>8, OneMoves
<1>9. CASE ~ends
  <2>1. apr' = apr /\ gic' = gic
    BY <1>1, <1>9 DEF AprOK
  <2>2. setup.tidy => PriosKept'
    BY <2>1 DEF StackInv, PriosKept
  <2>3. core'[p] = c1
    BY <1>3, <1>9 DEF Only
  <2>4. ASSUME setup.tidy, core'[p].halted = "no"
        PROVE  OneStack(core'[p].running, core'[p].exc, core'[p].manual, apr'[p])
    <3>1. OneStack(c.running, c.exc, c.manual, a)
      BY <1>5, <1>6, <2>3, <2>4 DEF StackInv, b
    <3>2. CASE c.exc = <<>>
      BY <1>6, <2>1, <2>3, <3>1, <3>2
    <3>3. CASE c.exc # <<>>
      <4>1. Popped(c.exc, c1.exc) /\ Len(c.exc) \in Nat /\ Len(c.manual) \in Nat
        BY <1>4, <1>5, <1>6, <3>3
      <4>2. ~(c.exc[Len(c.exc)].is_irq /\ ~c.exc[Len(c.exc)].dropped)
        BY <1>9, <3>3 DEF Top
      <4>3. Len(a) > 0 => ~a[Len(a)].manual
        <5>1. Len(a) > 0 => a # <<>>
          BY <1>4, EmptySeq
        <5> QED
          BY <1>7, <2>4, <5>1
      <4> HIDE DEF a
      <4>4. OneStack(c.running, c1.exc, c.manual, a)
        BY <1>4, <3>1, <4>1, <4>2, <4>3, PopExcMatches
      <4> QED
        BY <1>6, <2>1, <2>3, <4>4 DEF a
    <3> QED
      BY <3>2, <3>3
  <2>5. \A q \in Cpus : q # p => apr'[q] = apr[q] /\ SameStacks(core[q], core'[q])
    BY <1>3, <2>1 DEF SameStacks, Only
  <2> QED
    BY <2>2, <2>4, <2>5, OneMoves
<1> QED
  BY <1>8, <1>9

\* A step that handles nothing.
LEMMA SilentKeepsStack ==
  ASSUME StackInv, UNCHANGED setup, Silent
  PROVE  StackInv'
<1>1. setup.tidy => PriosKept'
  BY DEF Silent, SameBits, StackInv, PriosKept
<1> QED
  BY <1>1, NoneMoves DEF Silent

\* An SGI, a message, a line or a register write moves no stack, and changes
\* the priority of nothing that is handled.
LEMMA PrioritiesKeepStack ==
  ASSUME AprOK, StackInv, UNCHANGED setup, apr' = apr, \A q \in Cpus : SameStacks(core[q], core'[q]),
         setup.tidy => \A t \in Handled : gic'.priorities[t] = gic.priorities[t]
  PROVE  StackInv'
<1>1. ASSUME setup.tidy
      PROVE  PriosKept'
  <2> SUFFICES ASSUME NEW q \in Cpus, NEW k \in DOMAIN apr[q]
               PROVE  apr[q][k].prio = gic'.priorities[SlotOf(q, apr[q][k].intid)]
    BY DEF PriosKept
  <2>1. SlotOf(q, apr[q][k].intid) \in Handled
    BY DEF Handled
  <2> QED
    BY <1>1, <2>1 DEF StackInv, PriosKept
<1> QED
  BY <1>1, NoneMoves

LEMMA FetchKeepsStacks ==
  ASSUME CpuInv, NEW p \in Cpus, Execute(p, Fetched(p))
  PROVE  \A q \in Cpus : SameStacks(core[q], core'[q])
<1>1. Only(p, Fetched(p)) /\ SameStacks(core[p], Fetched(p))
  BY OnlyOne, FetchedStacks DEF Execute
<1> QED
  BY <1>1 DEF Only, SameStacks

LEMMA SgiKeepsStack ==
  ASSUME CpuInv, AprOK, StackInv, UNCHANGED setup, NEW p \in Cpus, NEW i \in 0 .. NumSgis - 1,
         NEW irm \in BOOLEAN, NEW list \in SUBSET Cpus, Sgi(p, i, irm, list)
  PROVE  StackInv'
<1> DEFINE S == {<<cpu, i>> : cpu \in SgiTargets(p, irm, list)}
<1>1. gic' = SetPendingBits(gic, S, TRUE) /\ UNCHANGED <<apr, waived>> /\ Execute(p, Fetched(p))
  BY DEF Sgi, Becomes, SendSgi
<1>2. gic \in Gic
  BY CoreGood DEF GicInv
<1> HIDE DEF S
<1>3. gic'.priorities = gic.priorities
  BY <1>1, <1>2, SetterBits DEF PendingBecomes
<1> QED
  BY <1>1, <1>3, FetchKeepsStacks, PrioritiesKeepStack

LEMMA DeviceKeepsStack ==
  ASSUME CpuInv, AprOK, StackInv, UNCHANGED setup, Device
  PROVE  StackInv'
<1>1. gic \in Gic
  BY DEF CpuInv, GicInv
<1>2. core' = core /\ apr' = apr
  BY DEF Device, Line, Message
<1>3. gic'.priorities = gic.priorities
  <2>1. ASSUME NEW p \in Cpus, NEW i \in setup.lines, NEW b \in BOOLEAN, Line(p, i, b)
        PROVE  gic'.priorities = gic.priorities
    <3> DEFINE s == SlotOf(p, i)
    <3>1. s \in Slots /\ gic' = SetLevel(gic, s, b)
      BY <2>1, SetupType, SlotOfType DEF Line, Becomes
    <3> HIDE DEF s
    <3>2. LineBecomes(gic, gic', s, b)
      BY <1>1, <3>1, LevelBits
    <3> QED
      BY <3>2 DEF LineBecomes
  <2>2. ASSUME NEW p \in Cpus, NEW i \in setup.messages, Message(p, i)
        PROVE  gic'.priorities = gic.priorities
    <3>1. gic' = SetPendingBits(gic, {SlotOf(p, i)}, TRUE)
      BY <2>2 DEF Message, Becomes
    <3> QED
      BY <1>1, <3>1, SetterBits DEF PendingBecomes
  <2> QED
    BY <2>1, <2>2 DEF Device
<1>4. \A q \in Cpus : SameStacks(core[q], core'[q])
  BY <1>2 DEF SameStacks
<1> QED
  BY <1>2, <1>3, <1>4, PrioritiesKeepStack

\* A tidy guest changes no priority of what is handled.
LEMMA RegisterWriteKeepsStack ==
  ASSUME CpuInv, AprOK, StackInv, UNCHANGED setup, NEW p \in Cpus, GicRegisterWrite(p)
  PROVE  StackInv'
<1>0. gic \in Gic /\ apr' = apr /\ Execute(p, Fetched(p))
  BY CoreGood DEF GicInv, GicRegisterWrite
<1>1. PICK s \in Slots, value \in BOOLEAN :
        \/ gic' = SetEnabledBits(gic, {s}, value)
        \/ gic' = SetActiveBits(gic, {s}, value)
        \/ gic' = SetPendingBits(gic, {s}, value)
        \/ \E prio \in Prio : /\ gic' = SetPriorityRange(gic, [t \in {s} |-> prio])
                              /\ setup.tidy => s \notin gic.active \cup Handled
  BY DEF GicRegisterWrite, Becomes
<1>2. SetEnabledBits(gic, {s}, value).priorities = gic.priorities
  BY <1>0 DEF SetEnabledBits, Gic
<1>3. SetActiveBits(gic, {s}, value).priorities = gic.priorities
  BY <1>0 DEF SetActiveBits, Gic
<1>4. SetPendingBits(gic, {s}, value).priorities = gic.priorities
  BY <1>0 DEF SetPendingBits, Gic
<1>5. ASSUME NEW prio \in Prio, gic' = SetPriorityRange(gic, [t \in {s} |-> prio]),
             setup.tidy, s \notin gic.active \cup Handled
      PROVE  \A t \in Handled : gic'.priorities[t] = gic.priorities[t]
  <2> TAKE t \in Handled
  <2>1. t \in Slots
    <3>1. PICK q \in Cpus : \E k \in DOMAIN apr[q] : t = SlotOf(q, apr[q][k].intid)
      BY DEF Handled
    <3>2. PICK k \in DOMAIN apr[q] : t = SlotOf(q, apr[q][k].intid)
      BY <3>1
    <3>3. apr[q][k].intid \in IntIds
      <4>1. apr[q] \in Seq(Acknowledged)
        BY DEF AprOK
      <4>2. apr[q][k] \in Acknowledged
        BY <4>1, <3>2
      <4> QED
        BY <4>2 DEF Acknowledged
    <3> QED
      BY <3>2, <3>3, SlotOfType
  <2>2. t # s
    BY <1>5
  <2>3. gic'.priorities = [u \in Slots |-> IF u \in DOMAIN [v \in {s} |-> prio] THEN [v \in {s} |-> prio][u]
                                                                          ELSE gic.priorities[u]]
    BY <1>0, <1>5 DEF SetPriorityRange, Gic
  <2> QED
    BY <2>1, <2>2, <2>3
<1>6. setup.tidy => \A t \in Handled : gic'.priorities[t] = gic.priorities[t]
  BY <1>1, <1>2, <1>3, <1>4, <1>5
<1> QED
  BY <1>0, <1>6, FetchKeepsStacks, PrioritiesKeepStack

\* Every step.
LEMMA StepKeepsStack ==
  ASSUME CpuInv, AprOK, StackInv, [Next]_vars
  PROVE  StackInv'
<1>0. UNCHANGED setup
  BY DEF Next, vars
<1>a. setup.pmrs \subseteq Prio /\ setup.eoimodes \subseteq BOOLEAN /\ 0 \in Prio
  BY SetupType, GicAssumption DEF Prio
<1>1. CASE UNCHANGED vars
  BY <1>1, SilentKeepsStack DEF vars, Silent, SameStacks, SameBits
<1>2. ASSUME NEW p \in Cpus, IrqStep(p) \/ WfiStep(p) \/ WfeStep(p) \/ ReadyToRun(p) \/ ReadIccIar1(p)
      PROVE  StackInv'
  BY <1>0, <1>2, IrqStepServes, WfiStepActs, WfeStepActs, ReadyToRunSilent, IarActs,
     SilentKeepsStack, ServesKeepsStack
<1>3. ASSUME NEW p \in Cpus, Instruction(p)
      PROVE  StackInv'
  <2>1. CASE \E b \in BOOLEAN : MsrDaif(p, b) \/ WriteIccIgrpen1(p, b)
    BY <1>0, <1>a, <2>1, PlainSilent, SilentKeepsStack
  <2>2. CASE \E b \in BOOLEAN : GuestMayEret(p) /\ Eret(p, b)
    BY <1>0, <2>2, EretKeepsStack
  <2>3. CASE \E pmr \in setup.pmrs : WriteIccPmr(p, pmr)
    BY <1>0, <1>a, <2>3, PlainSilent, SilentKeepsStack
  <2>4. CASE \E m \in setup.eoimodes : WriteIccCtlr(p, m)
    BY <1>0, <1>a, <2>4, PlainSilent, SilentKeepsStack
  <2>5. CASE ReadIccIar1(p)
    BY <1>2, <2>5
  <2>6. CASE \E i \in IntIds : GuestMayEoir(p, i) /\ WriteIccEoir1(p, i)
    BY <1>0, <2>6, EoirKeepsStack
  <2>7. CASE \E i \in IntIds : GuestMayDeactivate(p, i) /\ WriteIccDir(p, i)
    BY <1>0, <2>7, DirKeepsStack
  <2>8. CASE SyncException(p)
    BY <1>0, <2>8, SyncKeepsStack
  <2>9. CASE Wfi(p) \/ Wfe(p)
    BY <1>0, <1>a, <2>9, PlainSilent, SilentKeepsStack
  <2>10. CASE Sev(p)
    BY <1>0, <2>10, SevSilent, SilentKeepsStack
  <2>11. CASE \E i \in 0 .. NumSgis - 1, irm \in BOOLEAN, list \in SUBSET Cpus : Sgi(p, i, irm, list)
    BY <1>0, <2>11, SgiKeepsStack
  <2>12. CASE GicRegisterWrite(p)
    BY <1>0, <2>12, RegisterWriteKeepsStack
  <2> QED
    BY <1>3, <2>1, <2>2, <2>3, <2>4, <2>5, <2>6, <2>7, <2>8, <2>9, <2>10, <2>11, <2>12 DEF Instruction
<1>4. CASE Device
  BY <1>0, <1>4, DeviceKeepsStack
<1> QED
  BY <1>1, <1>2, <1>3, <1>4 DEF Next, CpuStep

\* The stacks are empty at the start.
LEMMA InitStack ==
  ASSUME Init
  PROVE  StackInv
<1>1. ASSUME NEW p \in Cpus
      PROVE  core[p].running = IdlePrio /\ core[p].exc = <<>> /\ core[p].manual = <<>> /\ apr[p] = <<>>
  BY DEF Init, ResetCore, Refresh
<1>2. OneStack(IdlePrio, <<>>, <<>>, <<>>)
  <2> DEFINE e == [k \in 1 .. Len(<<>>) |-> 0]
  <2>1. 1 .. Len(<<>>) = {}
    OBVIOUS
  <2>2. e \in [1 .. Len(<<>>) -> 0 .. Len(<<>>)] /\ e \in [1 .. Len(<<>>) -> Nat]
    BY <2>1
  <2> HIDE DEF e
  <2>3. RunsAtTop(IdlePrio, <<>>) /\ Falls(<<>>) /\ Remembered(e, e, <<>>, <<>>, <<>>)
        /\ InOrder(e, e, <<>>) /\ Covered(e, e, <<>>, <<>>, <<>>)
    BY <2>1 DEF RunsAtTop, Falls, Remembered, InOrder, Covered
  <2> QED
    BY <2>2, <2>3 DEF OneStack, Matches
<1>3. PriosKept
  <2>1. \A p \in Cpus : DOMAIN apr[p] = {}
    BY <1>1
  <2> QED
    BY <2>1 DEF PriosKept
<1> QED
  BY <1>1, <1>2, <1>3 DEF StackInv

\* The two stacks of every core keep one stack of priorities between them.
THEOREM StackInvariant == Spec => []StackInv
<1>1. Init => StackInv
  BY InitStack
<1>2. CpuInv /\ (AprOK /\ HandledOnce) /\ StackInv /\ [Next]_vars => StackInv'
  BY StepKeepsStack
<1> QED
  BY <1>1, <1>2, CpuInvariant, HandledOnceHolds, PTL DEF Spec

(* For a tidy guest the running priority is always that of the interrupt   *)
(* acknowledged last and not yet ended, however it mixes handlers, manual  *)
(* acknowledgements, both EOI modes, ERET without EOI and synchronous      *)
(* exceptions, at any depth (cpu.cpp, try_take_irq, icc_priority_drop,     *)
(* read_icc_iar1_el1, icc_deactivate, ERET).                               *)
THEOREM RunningPriorityCorrect == Spec => [](setup.tidy => RunningPriorityIsLastAcked)
<1>1. AprOK /\ StackInv => (setup.tidy => RunningPriorityIsLastAcked)
  <2> SUFFICES ASSUME AprOK, StackInv, setup.tidy, NEW p \in Cpus, core[p].halted = "no"
               PROVE  core[p].running = IF apr[p] = <<>> THEN IdlePrio ELSE Top(apr[p]).prio
    BY DEF RunningPriorityIsLastAcked
  <2>1. RunsAtTop(core[p].running, apr[p])
    BY DEF StackInv, OneStack, Matches
  <2>2. apr[p] = <<>> <=> Len(apr[p]) = 0
    BY EmptySeq DEF AprOK
  <2> QED
    BY <2>1, <2>2 DEF RunsAtTop, Top
<1> QED
  BY <1>1, StackInvariant, HandledOnceHolds, PTL

(* For a tidy guest only the more urgent interrupts a core: in its history *)
(* the priorities fall strictly (cpu.cpp, try_take_irq, irq threshold).    *)
THEOREM NestingCorrect == Spec => [](setup.tidy => NestedIsMoreUrgent)
<1>1. AprOK /\ StackInv => (setup.tidy => NestedIsMoreUrgent)
  <2> SUFFICES ASSUME AprOK, StackInv, setup.tidy, NEW p \in Cpus, NEW j \in DOMAIN apr[p], NEW k \in DOMAIN apr[p],
                      j < k, core[p].halted = "no"
               PROVE  apr[p][k].prio < apr[p][j].prio
    BY DEF NestedIsMoreUrgent
  <2>1. Falls(apr[p])
    BY DEF StackInv, OneStack, Matches
  <2>2. DOMAIN apr[p] = 1 .. Len(apr[p])
    BY DEF AprOK
  <2> QED
    BY <2>1, <2>2 DEF Falls
<1> QED
  BY <1>1, StackInvariant, HandledOnceHolds, PTL
=============================================================================
