-------------------------- MODULE VirtioNetProofs --------------------------
(***************************************************************************)
(* What the driver of the virtio network device may rely on, proved: both  *)
(* rings implement BufferQueue, the driver is told of what came back, and  *)
(* no frame waits beside a buffer that could take it; and, at the end,     *)
(* what both devices promise together.                                     *)
(*                                                                         *)
(* A step is followed as values: the setup u, the device dev, the memory   *)
(* mem and the driver d before it, dev2, mem2 and d2 after it.             *)
(***************************************************************************)
EXTENDS Virtio, VirtioProofs

-----------------------------------------------------------------------------
(* A queue in use, for any device                                          *)

(* The queue q is in use: the driver has seen the used elements up to s, n *)
(* heads are in flight, and r of them wait to be collected.                *)
InUse(l, q, mem, heads, s, r, n) ==
  /\ Aligned(q, l) /\ RingOK(l, mem, heads, s, r, n)
  /\ q.last_avail = (s + r) % IndexModulus /\ q.used_idx = (s + r) % IndexModulus

\* The heads the device owns, and those it has given back.
Lent(l, q, mem) ==
  IF q.ready THEN [k \in 1 .. (mem[AvailIdxCell(l)] - q.last_avail) % IndexModulus |->
                     mem[AvailCell(l, (q.last_avail + k - 1) % IndexModulus)]] ELSE <<>>
Back(l, q, mem, s) ==
  IF q.ready THEN [k \in 1 .. (mem[UsedIdxCell(l)] - s) % IndexModulus |->
                     mem[UsedCell(l, (s + k - 1) % IndexModulus)]] ELSE <<>>

\* A step of the abstract queue, or none.
QueueStep(lent, back, lent2, back2) ==
  \/ \E b \in 0 .. QueueSize - 1 : lent2 = Append(lent, b) /\ back2 = back
  \/ \E n \in 1 .. Len(lent) : back2 = back \o SubSeq(lent, 1, n) /\ lent2 = SubSeq(lent, n + 1, Len(lent))
  \/ back # <<>> /\ back2 = Tail(back) /\ lent2 = lent
  \/ lent2 = <<>> /\ back2 = <<>>
  \/ lent2 = lent /\ back2 = back

LEMMA ViewIs ==
  ASSUME NEW l, SoundLayout(l), NEW q, NEW mem, NEW heads, NEW s, NEW r, NEW n, InUse(l, q, mem, heads, s, r, n)
  PROVE  Lent(l, q, mem) = OfferedOf(l, mem, s, r, n) /\ Back(l, q, mem, s) = ReturnedOf(l, mem, s, r)
<1> DEFINE last == q.last_avail
<1>1. q.ready /\ RingOK(l, mem, heads, s, r, n) /\ last = (s + r) % IndexModulus
  BY DEF InUse, Aligned
<1>2. /\ Lent(l, q, mem) = [k \in 1 .. (mem[AvailIdxCell(l)] - last) % IndexModulus |->
                              mem[AvailCell(l, (last + k - 1) % IndexModulus)]]
      /\ Back(l, q, mem, s) = [k \in 1 .. (mem[UsedIdxCell(l)] - s) % IndexModulus |->
                                 mem[UsedCell(l, (s + k - 1) % IndexModulus)]]
  BY <1>1 DEF Lent, Back
<1> HIDE DEF last
<1>3. /\ [k \in 1 .. (mem[AvailIdxCell(l)] - last) % IndexModulus |->
            mem[AvailCell(l, (last + k - 1) % IndexModulus)]] = OfferedOf(l, mem, s, r, n)
      /\ [k \in 1 .. (mem[UsedIdxCell(l)] - s) % IndexModulus |->
            mem[UsedCell(l, (s + k - 1) % IndexModulus)]] = ReturnedOf(l, mem, s, r)
  BY <1>1, EntriesAre
<1> QED
  BY <1>2, <1>3

\* A step that leaves a queue and its rings as they are.
LEMMA ViewSame ==
  ASSUME NEW l, SoundLayout(l), NEW q, NEW mem, NEW s, NEW mem2, \A c \in RingCells(l) : mem2[c] = mem[c],
         q.ready => s \in Int /\ q.last_avail \in Int
  PROVE  /\ Lent(l, q, mem2) = Lent(l, q, mem) /\ Back(l, q, mem2, s) = Back(l, q, mem, s)
         /\ \A heads, r, n : InUse(l, q, mem, heads, s, r, n) => InUse(l, q, mem2, heads, s, r, n)
<1>1. /\ mem2[AvailIdxCell(l)] = mem[AvailIdxCell(l)] /\ mem2[UsedIdxCell(l)] = mem[UsedIdxCell(l)]
      /\ \A i \in Int : mem2[AvailCell(l, i)] = mem[AvailCell(l, i)] /\ mem2[UsedCell(l, i)] = mem[UsedCell(l, i)]
  <2>1. RingCells(l) = AvailPart(l) \cup UsedPart(l)
    BY LayoutNumbers
  <2>2. ASSUME NEW i \in Int
        PROVE  {AvailIdxCell(l), UsedIdxCell(l), AvailCell(l, i), UsedCell(l, i)} \subseteq RingCells(l)
    BY <2>1, CellsOf
  <2>3. {AvailIdxCell(l), UsedIdxCell(l)} \subseteq RingCells(l)
    <3>1. 0 \in Int
      OBVIOUS
    <3> QED
      BY <2>2, <3>1
  <2> QED
    BY <2>2, <2>3
<1>2. ASSUME q.ready, NEW k \in Int
      PROVE  (q.last_avail + k - 1) % IndexModulus \in Int /\ (s + k - 1) % IndexModulus \in Int
  BY <1>2, RingNumbers
<1>3. Lent(l, q, mem2) = Lent(l, q, mem) /\ Back(l, q, mem2, s) = Back(l, q, mem, s)
  <2>1. CASE ~q.ready
    BY <2>1 DEF Lent, Back
  <2>2. CASE q.ready
    <3>1. \A k \in Int : /\ mem2[AvailCell(l, (q.last_avail + k - 1) % IndexModulus)]
                              = mem[AvailCell(l, (q.last_avail + k - 1) % IndexModulus)]
                         /\ mem2[UsedCell(l, (s + k - 1) % IndexModulus)]
                              = mem[UsedCell(l, (s + k - 1) % IndexModulus)]
      BY <1>1, <1>2, <2>2
    <3> QED
      BY <1>1, <2>2, <3>1 DEF Lent, Back
  <2> QED
    BY <2>1, <2>2
<1>4. ASSUME NEW heads, NEW r, NEW n, InUse(l, q, mem, heads, s, r, n) PROVE InUse(l, q, mem2, heads, s, r, n)
  <2>1. RingOK(l, mem, heads, s, r, n)
    BY <1>4 DEF InUse
  <2>2. RingOK(l, mem2, heads, s, r, n)
    BY <2>1, RingSame
  <2> QED
    BY <1>4, <2>2 DEF InUse
<1> QED
  BY <1>3, <1>4

\* The driver offers a head that is not in flight.
LEMMA UseOffer ==
  ASSUME NEW l, SoundLayout(l), NEW q, NEW mem, NEW heads, SoundHeads(l, heads), NEW s, NEW r \in Nat, NEW n \in Nat,
         InUse(l, q, mem, heads, s, r, n),
         NEW head \in heads, head \notin {mem[AvailCell(l, s + k)] : k \in 0 .. n - 1},
         NEW mem2, mem2[AvailIdxCell(l)] = (mem[AvailIdxCell(l)] + 1) % IndexModulus,
         mem2[AvailCell(l, s + n)] = head,
         \A c \in RingCells(l) \ {AvailIdxCell(l), AvailCell(l, s + n)} : mem2[c] = mem[c]
  PROVE  /\ InUse(l, q, mem2, heads, s, r, n + 1)
         /\ QueueStep(Lent(l, q, mem), Back(l, q, mem, s), Lent(l, q, mem2), Back(l, q, mem2, s))
<1>1. RingOK(l, mem, heads, s, r, n)
  BY DEF InUse
<1>2. n + 1 <= l.num /\ n + 1 < IndexModulus
  BY <1>1, RoomForOne
<1>3. /\ RingOK(l, mem2, heads, s, r, n + 1)
      /\ OfferedOf(l, mem2, s, r, n + 1) = Append(OfferedOf(l, mem, s, r, n), head)
      /\ ReturnedOf(l, mem2, s, r) = ReturnedOf(l, mem, s, r)
  BY <1>1, <1>2, RingOffer
<1>4. InUse(l, q, mem2, heads, s, r, n + 1)
  BY <1>3 DEF InUse
<1>5. /\ Lent(l, q, mem) = OfferedOf(l, mem, s, r, n) /\ Back(l, q, mem, s) = ReturnedOf(l, mem, s, r)
      /\ Lent(l, q, mem2) = OfferedOf(l, mem2, s, r, n + 1) /\ Back(l, q, mem2, s) = ReturnedOf(l, mem2, s, r)
  BY <1>4, ViewIs
<1>6. head \in 0 .. QueueSize - 1
  <2>1. head \in 0 .. l.num - 1
    BY DEF SoundHeads
  <2> QED
    BY <2>1, LayoutNumbers, RingNumbers
<1> QED
  BY <1>3, <1>4, <1>5, <1>6 DEF QueueStep

\* The device returns some of the heads it owns.
LEMMA UseReturn ==
  ASSUME NEW l, SoundLayout(l), NEW q, NEW mem, NEW heads, NEW s, NEW r, NEW n,
         InUse(l, q, mem, heads, s, r, n), NEW q2, NEW mem2, NEW p, r <= p,
         InUse(l, q2, mem2, heads, s, p, n), \A c \in AvailPart(l) : mem2[c] = mem[c]
  PROVE  QueueStep(Lent(l, q, mem), Back(l, q, mem, s), Lent(l, q2, mem2), Back(l, q2, mem2, s))
<1> DEFINE lent == Lent(l, q, mem)
           back == Back(l, q, mem, s)
           k == p - r
<1>1. RingOK(l, mem, heads, s, r, n) /\ RingOK(l, mem2, heads, s, p, n)
  BY DEF InUse
<1>2. /\ Lent(l, q, mem) = OfferedOf(l, mem, s, r, n) /\ Back(l, q, mem, s) = ReturnedOf(l, mem, s, r)
      /\ Lent(l, q2, mem2) = OfferedOf(l, mem2, s, p, n) /\ Back(l, q2, mem2, s) = ReturnedOf(l, mem2, s, p)
  BY ViewIs
<1>3. /\ ReturnedOf(l, mem2, s, p) = ReturnedOf(l, mem, s, r) \o SubSeq(OfferedOf(l, mem, s, r, n), 1, p - r)
      /\ OfferedOf(l, mem2, s, p, n) =
           SubSeq(OfferedOf(l, mem, s, r, n), (p - r) + 1, Len(OfferedOf(l, mem, s, r, n)))
      /\ p - r \in 0 .. Len(OfferedOf(l, mem, s, r, n))
  BY <1>1, RingReturned
<1>4. /\ Back(l, q2, mem2, s) = back \o SubSeq(lent, 1, k) /\ Lent(l, q2, mem2) = SubSeq(lent, k + 1, Len(lent))
      /\ k \in 0 .. Len(lent)
  BY <1>2, <1>3
<1>5. lent \in Seq(heads) /\ back \in Seq(heads)
  BY <1>1, <1>2, ViewsAreSequences
<1> HIDE DEF k, lent, back
<1>6. CASE k = 0
  BY <1>4, <1>5, <1>6, NothingMoves DEF QueueStep, lent, back
<1>7. CASE k # 0
  <2>1. k \in 1 .. Len(lent)
    BY <1>4, <1>5, <1>7
  <2> QED
    BY <1>4, <2>1 DEF QueueStep, lent, back
<1> QED
  BY <1>6, <1>7

\* The driver collects the oldest head that was returned.
UseCollected(l, q, mem, heads, s, r, n, t, mem2) ==
  /\ InUse(l, q, mem2, heads, t, r - 1, n - 1)
  /\ QueueStep(Lent(l, q, mem), Back(l, q, mem, s), Lent(l, q, mem2), Back(l, q, mem2, t))

LEMMA UseCollect ==
  ASSUME NEW l, SoundLayout(l), NEW q, NEW mem, NEW heads, NEW s, NEW r \in Nat, NEW n \in Nat,
         InUse(l, q, mem, heads, s, r, n), r # 0, NEW t, t = (s + 1) % IndexModulus,
         NEW cleared, cleared = {AvailCell(l, s), UsedCell(l, s), UsedCell(l, s) + 1},
         NEW mem2, \A c \in RingCells(l) \ cleared : mem2[c] = mem[c]
  PROVE  UseCollected(l, q, mem, heads, s, r, n, t, mem2)
<1>1. RingOK(l, mem, heads, s, r, n)
  BY DEF InUse
<1>2. Collected(l, mem, mem2, heads, s, t, r, n)
  BY <1>1, RingCollect
<1>3. (t + (r - 1)) % IndexModulus = (s + r) % IndexModulus
  <2>1. s \in Nat
    BY <1>1, RingIndices
  <2> QED
    BY <2>1, IndexCollected
<1>4. InUse(l, q, mem2, heads, t, r - 1, n - 1)
  BY <1>2, <1>3 DEF InUse, Collected
<1>5. Lent(l, q, mem) = OfferedOf(l, mem, s, r, n) /\ Back(l, q, mem, s) = ReturnedOf(l, mem, s, r)
  BY ViewIs
<1> DEFINE i == r - 1
           j == n - 1
<1>6. Lent(l, q, mem2) = OfferedOf(l, mem2, t, i, j) /\ Back(l, q, mem2, t) = ReturnedOf(l, mem2, t, i)
  <2>1. InUse(l, q, mem2, heads, t, i, j)
    BY <1>4
  <2> HIDE DEF i, j
  <2> QED
    BY <2>1, ViewIs
<1>7. Lent(l, q, mem2) = Lent(l, q, mem) /\ Back(l, q, mem2, t) = Tail(Back(l, q, mem, s))
  BY <1>2, <1>5, <1>6 DEF Collected
<1>8. Back(l, q, mem, s) # <<>>
  <2>1. Len(Back(l, q, mem, s)) = r
    BY <1>1, <1>5, ViewsAreSequences
  <2> QED
    BY <2>1
<1> QED
  BY <1>4, <1>7, <1>8 DEF QueueStep, UseCollected

\* A queue that has just been started.
LEMMA UseStarts ==
  ASSUME NEW l, SoundLayout(l), NEW q, Aligned(q, l), q.last_avail = 0, q.used_idx = 0, NEW heads,
         NEW mem, \A c \in RingCells(l) : mem[c] = 0
  PROVE  InUse(l, q, mem, heads, 0, 0, 0) /\ Lent(l, q, mem) = <<>> /\ Back(l, q, mem, 0) = <<>>
<1>1. RingOK(l, mem, heads, 0, 0, 0)
  BY RingEmpty
<1>2. (0 + 0) % IndexModulus = 0
  BY RingNumbers
<1>3. InUse(l, q, mem, heads, 0, 0, 0)
  BY <1>1, <1>2 DEF InUse
<1>4. Lent(l, q, mem) = OfferedOf(l, mem, 0, 0, 0) /\ Back(l, q, mem, 0) = ReturnedOf(l, mem, 0, 0)
  BY <1>3, ViewIs
<1> QED
  BY <1>3, <1>4 DEF OfferedOf, ReturnedOf

-----------------------------------------------------------------------------
(* One segment after the other                                             *)

\* The contents of a chain, one segment after the other.
LEMMA BytesAre ==
  ASSUME NEW segments, Len(segments) \in Nat, NEW mem
  PROVE  \E after : /\ after[0] = <<>>
                    /\ \A k \in Nat : k + 1 <= Len(segments) => after[k + 1] = after[k] \o [j \in 1 .. segments[k + 1].len |-> mem[segments[k + 1].addr + j - 1]]
                    /\ ChainBytes(mem, segments) = after[Len(segments)]
<1> DEFINE last == Len(segments)
           Step(r, d) == r \o [j \in 1 .. d.len |-> mem[d.addr + j - 1]]
           After(g, k) == IF k = 0 THEN <<>> ELSE With(g[k - 1], LAMBDA r : Step(r, segments[k]))
           IsAfter(g) == g = [k \in 0 .. last |-> After(g, k)]
           after == CHOOSE g : IsAfter(g)
           Holds(n) == n <= last => \E g : g = [k \in 0 .. n |-> After(g, k)]
<1>1. ChainBytes(mem, segments) = after[last]
  BY Zenon DEF ChainBytes, EachSegment
<1>a. \A g, n : After(g, n) = IF n = 0 THEN <<>> ELSE Step(g[n - 1], segments[n])
  BY DEF With
<1>0. last \in Nat
  OBVIOUS
<1> HIDE DEF After, last, Step
<1>2. Holds(0)
  <2> DEFINE g == [k \in 0 .. 0 |-> <<>>]
  <2>1. \A k \in 0 .. 0 : g[k] = After(g, k)
    BY <1>a
  <2>2. g = [k \in 0 .. 0 |-> g[k]]
    OBVIOUS
  <2> HIDE DEF g
  <2>3. g = [k \in 0 .. 0 |-> After(g, k)]
    BY <2>1, <2>2
  <2> QED
    BY <2>3
<1>3. ASSUME NEW n \in Nat, Holds(n) PROVE Holds(n + 1)
  <2> SUFFICES ASSUME n + 1 <= last PROVE \E g : g = [k \in 0 .. n + 1 |-> After(g, k)]
    OBVIOUS
  <2>1. PICK g : g = [k \in 0 .. n |-> After(g, k)]
    BY <1>0, <1>3
  <2> DEFINE h == [k \in 0 .. n + 1 |-> IF k = n + 1 THEN After(g, k) ELSE g[k]]
  <2>2. \A k \in 0 .. n + 1 : h[k] = After(h, k)
    <3> TAKE k \in 0 .. n + 1
    <3>1. k # 0 => h[k - 1] = g[k - 1]
      OBVIOUS
    <3>2. h[k] = After(g, k)
      BY <2>1
    <3> HIDE DEF h
    <3>3. After(h, k) = After(g, k)
      BY <3>1, <1>a
    <3> QED
      BY <3>2, <3>3
  <2>3. h = [k \in 0 .. n + 1 |-> h[k]]
    OBVIOUS
  <2> HIDE DEF h
  <2>4. h = [k \in 0 .. n + 1 |-> After(h, k)]
    BY <2>2, <2>3
  <2> QED
    BY <2>4
<1>4. IsAfter(after)
  <2> DEFINE S == {n \in Nat : Holds(n)}
  <2> HIDE DEF Holds
  <2>1. \A n \in Nat : n \in S
    <3>1. 0 \in S
      BY <1>2
    <3>2. \A n \in Nat : n \in S => n + 1 \in S
      BY <1>3
    <3> HIDE DEF S
    <3> QED
      BY <3>1, <3>2, Inductive
  <2>2. Holds(last)
    BY <2>1, <1>0
  <2>3. \E g : IsAfter(g)
    BY <2>2, <1>0 DEF Holds
  <2> QED
    BY <2>3
<1> HIDE DEF after
<1>5. \A k \in 0 .. last : after[k] = After(after, k)
  BY <1>4
<1>6. after[0] = <<>>
  <2>1. 0 \in 0 .. last
    BY <1>0
  <2> QED
    BY <2>1, <1>5, <1>a
<1>7. ASSUME NEW k \in Nat, k + 1 <= last PROVE after[k + 1] = Step(after[k], segments[k + 1])
  <2>1. k + 1 \in 0 .. last /\ k + 1 # 0 /\ (k + 1) - 1 = k
    BY <1>0, <1>7
  <2>2. after[k + 1] = After(after, k + 1)
    BY <2>1, <1>5
  <2>3. After(after, k + 1) = Step(after[k], segments[k + 1])
    BY <2>1, <1>a
  <2> QED
    BY <2>2, <2>3
<1> QED
  BY <1>1, <1>6, <1>7 DEF last, Step

\* A payload written into a chain, one segment after the other.
LEMMA PayloadGoes ==
  ASSUME NEW segments, Len(segments) \in Nat, NEW start
  PROVE  \E after : /\ after[0] = start
                    /\ \A k \in Nat : k + 1 <= Len(segments) => after[k + 1] = WritePayload(after[k], segments[k + 1])
                    /\ EachSegment(WritePayload, start, segments) = after[Len(segments)]
<1> DEFINE last == Len(segments)
           Step(r, d) == WritePayload(r, d)
           After(g, k) == IF k = 0 THEN start ELSE With(g[k - 1], LAMBDA r : Step(r, segments[k]))
           IsAfter(g) == g = [k \in 0 .. last |-> After(g, k)]
           after == CHOOSE g : IsAfter(g)
           Holds(n) == n <= last => \E g : g = [k \in 0 .. n |-> After(g, k)]
<1>1. EachSegment(WritePayload, start, segments) = after[last]
  BY DEF EachSegment
<1>a. \A g, n : After(g, n) = IF n = 0 THEN start ELSE Step(g[n - 1], segments[n])
  BY DEF With
<1>0. last \in Nat
  OBVIOUS
<1> HIDE DEF After, last, Step
<1>2. Holds(0)
  <2> DEFINE g == [k \in 0 .. 0 |-> start]
  <2>1. \A k \in 0 .. 0 : g[k] = After(g, k)
    BY <1>a
  <2>2. g = [k \in 0 .. 0 |-> g[k]]
    OBVIOUS
  <2> HIDE DEF g
  <2>3. g = [k \in 0 .. 0 |-> After(g, k)]
    BY <2>1, <2>2
  <2> QED
    BY <2>3
<1>3. ASSUME NEW n \in Nat, Holds(n) PROVE Holds(n + 1)
  <2> SUFFICES ASSUME n + 1 <= last PROVE \E g : g = [k \in 0 .. n + 1 |-> After(g, k)]
    OBVIOUS
  <2>1. PICK g : g = [k \in 0 .. n |-> After(g, k)]
    BY <1>0, <1>3
  <2> DEFINE h == [k \in 0 .. n + 1 |-> IF k = n + 1 THEN After(g, k) ELSE g[k]]
  <2>2. \A k \in 0 .. n + 1 : h[k] = After(h, k)
    <3> TAKE k \in 0 .. n + 1
    <3>1. k # 0 => h[k - 1] = g[k - 1]
      OBVIOUS
    <3>2. h[k] = After(g, k)
      BY <2>1
    <3> HIDE DEF h
    <3>3. After(h, k) = After(g, k)
      BY <3>1, <1>a
    <3> QED
      BY <3>2, <3>3
  <2>3. h = [k \in 0 .. n + 1 |-> h[k]]
    OBVIOUS
  <2> HIDE DEF h
  <2>4. h = [k \in 0 .. n + 1 |-> After(h, k)]
    BY <2>2, <2>3
  <2> QED
    BY <2>4
<1>4. IsAfter(after)
  <2> DEFINE S == {n \in Nat : Holds(n)}
  <2> HIDE DEF Holds
  <2>1. \A n \in Nat : n \in S
    <3>1. 0 \in S
      BY <1>2
    <3>2. \A n \in Nat : n \in S => n + 1 \in S
      BY <1>3
    <3> HIDE DEF S
    <3> QED
      BY <3>1, <3>2, Inductive
  <2>2. Holds(last)
    BY <2>1, <1>0
  <2>3. \E g : IsAfter(g)
    BY <2>2, <1>0 DEF Holds
  <2> QED
    BY <2>3
<1> HIDE DEF after
<1>5. \A k \in 0 .. last : after[k] = After(after, k)
  BY <1>4
<1>6. after[0] = start
  <2>1. 0 \in 0 .. last
    BY <1>0
  <2> QED
    BY <2>1, <1>5, <1>a
<1>7. ASSUME NEW k \in Nat, k + 1 <= last PROVE after[k + 1] = Step(after[k], segments[k + 1])
  <2>1. k + 1 \in 0 .. last /\ k + 1 # 0 /\ (k + 1) - 1 = k
    BY <1>0, <1>7
  <2>2. after[k + 1] = After(after, k + 1)
    BY <2>1, <1>5
  <2>3. After(after, k + 1) = Step(after[k], segments[k + 1])
    BY <2>1, <1>a
  <2> QED
    BY <2>2, <2>3
<1> QED
  BY <1>1, <1>6, <1>7 DEF last, Step


\* A table whose addresses and lengths are numbers.
Measured(table) == \A d \in table : d.addr \in Nat /\ d.len \in Nat

\* What a chain holds is as long as its segments together.
LEMMA BytesFill ==
  ASSUME NEW table, Measured(table), NEW segments \in Seq(table), NEW mem
  PROVE  /\ TotalLength(segments) \in Nat
         /\ \E V : ChainBytes(mem, segments) \in Seq(V) /\ Len(ChainBytes(mem, segments)) = TotalLength(segments)
<1> DEFINE V == {mem[c] : c \in Int}
           last == Len(segments)
<1>1. last \in Nat /\ \A k \in Nat : k + 1 <= last => segments[k + 1] \in table
  OBVIOUS
<1>2. PICK n : /\ n[0] = 0
               /\ \A k \in Nat : k + 1 <= last => n[k + 1] = n[k] + segments[k + 1].len
               /\ TotalLength(segments) = n[last]
  BY <1>1, TotalIs
<1>3. PICK b : /\ b[0] = <<>>
               /\ \A k \in Nat : k + 1 <= last =>
                    b[k + 1] = b[k] \o [j \in 1 .. segments[k + 1].len |-> mem[segments[k + 1].addr + j - 1]]
               /\ ChainBytes(mem, segments) = b[last]
  BY <1>1, BytesAre
<1>4. ASSUME NEW d \in table
      PROVE  LET part == [j \in 1 .. d.len |-> mem[d.addr + j - 1]]
             IN  part \in Seq(V) /\ Len(part) = d.len /\ d.len \in Nat
  <2> DEFINE part == [j \in 1 .. d.len |-> mem[d.addr + j - 1]]
             m == d.len
  <2>1. m \in Nat /\ d.addr \in Nat
    BY DEF Measured
  <2>2. part = [j \in 1 .. m |-> part[j]] /\ \A j \in 1 .. m : part[j] \in V
    BY <2>1
  <2> HIDE DEF part, m, V
  <2>3. part \in Seq(V) /\ Len(part) = m
    BY <2>1, <2>2, TableIsSequence
  <2> QED
    BY <2>1, <2>3 DEF part, m
<1> HIDE DEF V
<1>5. \A k \in Nat : k <= last => n[k] \in Nat /\ b[k] \in Seq(V) /\ Len(b[k]) = n[k]
  <2> DEFINE S == {k \in Nat : k <= last => n[k] \in Nat /\ b[k] \in Seq(V) /\ Len(b[k]) = n[k]}
  <2>1. 0 \in S
    <3>1. b[0] \in Seq(V) /\ Len(b[0]) = 0
      BY <1>3
    <3> HIDE DEF last
    <3> QED
      BY <1>2, <3>1
  <2>2. ASSUME NEW k \in Nat, k \in S PROVE k + 1 \in S
    <3> SUFFICES ASSUME k + 1 <= last
                 PROVE  n[k + 1] \in Nat /\ b[k + 1] \in Seq(V) /\ Len(b[k + 1]) = n[k + 1]
      OBVIOUS
    <3> DEFINE d == segments[k + 1]
               part == [j \in 1 .. d.len |-> mem[d.addr + j - 1]]
    <3>1. n[k] \in Nat /\ b[k] \in Seq(V) /\ Len(b[k]) = n[k]
      BY <2>2, <1>1
    <3>2. part \in Seq(V) /\ Len(part) = d.len /\ d.len \in Nat
      BY <1>1, <1>4
    <3>3. n[k + 1] = n[k] + d.len /\ b[k + 1] = b[k] \o part
      BY <1>2, <1>3
    <3> HIDE DEF d, part
    <3> QED
      BY <3>1, <3>2, <3>3
  <2> HIDE DEF S
  <2>3. \A k \in Nat : k \in S
    BY <2>1, <2>2, Inductive
  <2> QED
    BY <2>3 DEF S
<1> QED
  BY <1>1, <1>2, <1>3, <1>5

\* The state of a reception: how much of the payload is in memory.
Writing(payload, kept, mem, r) ==
  /\ r \in [mem : {r.mem}, payload : {payload}, at : 0 .. Len(payload), failed : BOOLEAN]
  /\ Kept(kept, mem, r.mem)

LEMMA WritePayloadKeeps ==
  ASSUME NEW payload, Len(payload) \in Nat, NEW kept, NEW mem, NEW r, Writing(payload, kept, mem, r),
         NEW d, d.addr \in Nat, d.len \in Nat, d.write, GivenBy(d) \cap kept = {}
  PROVE  /\ Writing(payload, kept, mem, WritePayload(r, d))
         /\ InRam(d.addr, d.len) /\ ~r.failed => ~WritePayload(r, d).failed
<1> DEFINE rest == Len(r.payload) - r.at
           chunk == IF d.len < rest THEN d.len ELSE rest
           m == Copy(r.mem, d.addr, r.payload, r.at + 1, chunk)
<1>1. /\ r \in [mem : {r.mem}, payload : {payload}, at : 0 .. Len(payload), failed : BOOLEAN]
      /\ Kept(kept, mem, r.mem)
  BY DEF Writing
<1>2. chunk \in 0 .. d.len /\ r.at + chunk \in 0 .. Len(payload)
  BY <1>1
<1>3. InRam(d.addr, d.len) => InRam(d.addr, chunk)
  <2> HIDE DEF chunk
  <2> QED
    BY <1>2, RingNumbers DEF InRam
<1>4. CASE r.failed \/ ~InRam(d.addr, chunk)
  <2>1. WritePayload(r, d) = [r EXCEPT !.failed = TRUE]
    <3> HIDE DEF chunk
    <3> QED
      BY <1>4 DEF WritePayload, chunk, rest
  <2> HIDE DEF chunk
  <2> QED
    BY <2>1, <1>1, <1>3, <1>4 DEF Writing
<1>5. CASE ~(r.failed \/ ~InRam(d.addr, chunk))
  <2>1. WritePayload(r, d) = [r EXCEPT !.mem = m, !.at = r.at + chunk]
    <3> HIDE DEF chunk
    <3> QED
      BY <1>5 DEF WritePayload, chunk, rest
  <2>2. Kept(kept, mem, m)
    <3> HIDE DEF chunk
    <3>1. DOMAIN r.mem = RamCells
      <4>1. r.mem = [c \in RamCells |-> r.mem[c]]
        BY <1>1 DEF Kept
      <4> QED
        BY <4>1, Zenon
    <3>2. m = [c \in RamCells |-> IF c \in d.addr .. (d.addr + chunk - 1)
                                 THEN r.payload[r.at + 1 + (c - d.addr)] ELSE r.mem[c]]
      BY <3>1 DEF Copy
    <3>3. \A c \in d.addr .. (d.addr + chunk - 1) : c \notin kept
      BY <1>2 DEF GivenBy
    <3> HIDE DEF m
    <3> QED
      BY <3>2, <3>3, <1>1 DEF Kept
  <2> HIDE DEF m, chunk
  <2> QED
    BY <2>1, <2>2, <1>1, <1>2, <1>5 DEF Writing
<1> QED
  BY <1>4, <1>5

\* A payload goes into the segments it is given, all of it when they are in RAM.
LEMMA PayloadKeeps ==
  ASSUME NEW payload, Len(payload) \in Nat, NEW kept, NEW mem, Kept(kept, mem, mem),
         NEW table, Apart(kept, table), NEW segments \in Seq(table), \A k \in DOMAIN segments : segments[k].write,
         NEW start, start = [mem |-> mem, payload |-> payload, at |-> 0, failed |-> FALSE]
  PROVE  LET r == EachSegment(WritePayload, start, segments)
         IN  /\ Writing(payload, kept, mem, r)
             /\ (\A k \in DOMAIN segments : InRam(segments[k].addr, segments[k].len)) => ~r.failed
<1> DEFINE last == Len(segments)
           whole == EachSegment(WritePayload, start, segments)
           good == \A k \in DOMAIN segments : InRam(segments[k].addr, segments[k].len)
<1>1. last \in Nat /\ DOMAIN segments = 1 .. last /\ \A k \in Nat : k + 1 <= last => segments[k + 1] \in table
  OBVIOUS
<1>2. PICK r : /\ r[0] = start
               /\ \A k \in Nat : k + 1 <= last => r[k + 1] = WritePayload(r[k], segments[k + 1])
               /\ whole = r[last]
  BY <1>1, PayloadGoes
<1> HIDE DEF whole
<1>3. \A k \in Nat : k <= last => Writing(payload, kept, mem, r[k]) /\ (good => ~r[k].failed)
  <2> DEFINE S == {k \in Nat : k <= last => Writing(payload, kept, mem, r[k]) /\ (good => ~r[k].failed)}
  <2>1. 0 \in S
    <3>1. Writing(payload, kept, mem, start) /\ ~start.failed
      BY DEF Writing
    <3> QED
      BY <1>2, <3>1
  <2>2. ASSUME NEW k \in Nat, k \in S PROVE k + 1 \in S
    <3> SUFFICES ASSUME k + 1 <= last
                 PROVE  Writing(payload, kept, mem, r[k + 1]) /\ (good => ~r[k + 1].failed)
      OBVIOUS
    <3> DEFINE d == segments[k + 1]
    <3>1. Writing(payload, kept, mem, r[k]) /\ (good => ~r[k].failed) /\ d \in table
      BY <2>2, <1>1
    <3>2. k + 1 \in DOMAIN segments
      BY <1>1
    <3>3. d.write /\ (good => InRam(d.addr, d.len))
      BY <3>2
    <3>4. d.addr \in Nat /\ d.len \in Nat /\ GivenBy(d) \cap kept = {}
      BY <3>1 DEF Apart
    <3>5. r[k + 1] = WritePayload(r[k], d)
      BY <1>2
    <3> HIDE DEF d, good
    <3> QED
      BY <3>1, <3>3, <3>4, <3>5, WritePayloadKeeps
  <2> HIDE DEF S
  <2>3. \A k \in Nat : k \in S
    BY <2>1, <2>2, Inductive
  <2> QED
    BY <2>3 DEF S
<1>4. Writing(payload, kept, mem, whole) /\ (good => ~whole.failed)
  BY <1>1, <1>2, <1>3
<1> QED
  BY <1>4 DEF whole

-----------------------------------------------------------------------------
(* The network device at work                                              *)

\* Guest memory with the descriptor tables of both queues.
NetMemoryOK(u, mem) ==
  /\ mem = [c \in RamCells |-> mem[c]]
  /\ \A q \in {Rx, Tx} : \A c \in TableCells(u.layouts[q]) : mem[c] = u.mem[c]

\* What serving queue q leaves alone.
NetKept(u, q) ==
  TableCells(u.layouts[q]) \cup AvailPart(u.layouts[q]) \cup QueueCells(u.layouts[1 - q])

RxChain(u, h) == Chain(u.layouts[Rx], u.mem, h)

\* A frame fits behind the long header into every receive buffer, when those are roomy.
FrameFits(u, len) == Roomy(u) => \A h \in u.heads[Rx] : MrgHdr + len <= TotalLength(RxChain(u, h))
FrameOK(u, f) == (\E V : f \in Seq(V)) /\ FrameFits(u, Len(f))
FramesOK(u, pending) == \E F : pending \in Seq(F) /\ \A f \in F : FrameOK(u, f)

LEMMA NetNumbers ==
  ASSUME NEW u \in NetSetups
  PROVE  /\ u.mem = [c \in RamCells |-> u.mem[c]] /\ 1 \in DOMAIN u.scripts
         /\ \A k \in DOMAIN u.scripts : SoundNetScript(u.scripts[k], u.layouts)
         /\ \A q \in {Rx, Tx} :
              /\ SoundLayout(u.layouts[q]) /\ SoundHeads(u.layouts[q], u.heads[q]) /\ u.heads[q] \subseteq Nat
              /\ Separate(NetKept(u, q), u.layouts[q]) /\ NetKept(u, q) \subseteq RamCells
              /\ SoundTable(u.layouts[q], u.mem, NetKept(u, q) \cup UsedPart(u.layouts[q]))
              /\ TableCells(u.layouts[1 - q]) \subseteq NetKept(u, q)
              /\ RingCells(u.layouts[1 - q]) \subseteq NetKept(u, q)
              /\ QueueCells(u.layouts[q]) = TableCells(u.layouts[q]) \cup RingCells(u.layouts[q])
              /\ QueueCells(u.layouts[q]) \cap QueueCells(u.layouts[1 - q]) = {}
              /\ \A h \in u.heads[q] : u.frame_cell[q][h] \notin NetKept(u, q) \cup UsedPart(u.layouts[q])
<1> DEFINE kept == QueueCells(u.layouts[Rx]) \cup QueueCells(u.layouts[Tx])
<1>1. /\ u.mem = [c \in RamCells |-> u.mem[c]] /\ 1 \in DOMAIN u.scripts
      /\ \A k \in DOMAIN u.scripts : SoundNetScript(u.scripts[k], u.layouts)
      /\ QueueCells(u.layouts[Rx]) \cap QueueCells(u.layouts[Tx]) = {}
  BY NetSetupAssumption
<1>2. \A q \in {Rx, Tx} :
        /\ SoundLayout(u.layouts[q]) /\ SoundTable(u.layouts[q], u.mem, kept)
        /\ SoundHeads(u.layouts[q], u.heads[q])
        /\ \A h \in u.heads[q] : u.frame_cell[q][h] \notin kept
  BY NetSetupAssumption
<1>3. Rx = 0 /\ Tx = 1 /\ 1 - Rx = Tx /\ 1 - Tx = Rx
  BY DEF Rx, Tx
<1>4. ASSUME NEW q \in {Rx, Tx}
      PROVE  /\ SoundHeads(u.layouts[q], u.heads[q]) /\ u.heads[q] \subseteq Nat
             /\ Separate(NetKept(u, q), u.layouts[q]) /\ NetKept(u, q) \subseteq RamCells
             /\ NetKept(u, q) \cup UsedPart(u.layouts[q]) = kept
             /\ TableCells(u.layouts[1 - q]) \subseteq NetKept(u, q)
             /\ RingCells(u.layouts[1 - q]) \subseteq NetKept(u, q)
             /\ QueueCells(u.layouts[q]) = TableCells(u.layouts[q]) \cup RingCells(u.layouts[q])
             /\ QueueCells(u.layouts[q]) \cap QueueCells(u.layouts[1 - q]) = {}
  <2> DEFINE l == u.layouts[q]
             o == u.layouts[1 - q]
  <2>1. SoundLayout(l) /\ SoundLayout(o) /\ SoundHeads(l, u.heads[q])
    BY <1>2, <1>3
  <2>2. QueueCells(l) \cap QueueCells(o) = {} /\ QueueCells(l) \cup QueueCells(o) = kept
    BY <1>1, <1>3
  <2>3. u.heads[q] \subseteq Nat
    BY <2>1, LayoutNumbers DEF SoundHeads
  <2> HIDE DEF l, o, kept
  <2>4. /\ RingCells(l) = AvailPart(l) \cup UsedPart(l) /\ AvailPart(l) \cap UsedPart(l) = {}
        /\ QueueCells(l) = TableCells(l) \cup RingCells(l) /\ QueueCells(o) = TableCells(o) \cup RingCells(o)
        /\ QueueCells(l) \subseteq RamCells /\ QueueCells(o) \subseteq RamCells
        /\ TableCells(l) \cap RingCells(l) = {}
    BY <2>1, LayoutNumbers DEF SoundLayout
  <2>5. NetKept(u, q) = TableCells(l) \cup AvailPart(l) \cup QueueCells(o)
    BY DEF NetKept, l, o
  <2> HIDE DEF NetKept
  <2>6. /\ Separate(NetKept(u, q), l) /\ NetKept(u, q) \subseteq RamCells
        /\ NetKept(u, q) \cup UsedPart(l) = kept /\ TableCells(o) \subseteq NetKept(u, q)
        /\ RingCells(o) \subseteq NetKept(u, q)
    BY <2>2, <2>4, <2>5 DEF Separate
  <2> QED
    BY <2>1, <2>2, <2>3, <2>4, <2>6 DEF l, o
<1> HIDE DEF kept
<1> QED
  BY <1>1, <1>2, <1>4

\* The frames that wait, after each thing that happens to them.
LEMMA NoFrames == ASSUME NEW u PROVE FramesOK(u, <<>>)
<1> DEFINE None == {}
<1>1. <<>> \in Seq(None) /\ \A f \in None : FrameOK(u, f)
  OBVIOUS
<1> HIDE DEF None
<1> QED
  BY <1>1 DEF FramesOK

LEMMA OneFrameMore ==
  ASSUME NEW u, NEW pending, FramesOK(u, pending), NEW f, FrameOK(u, f)
  PROVE  FramesOK(u, Append(pending, f))
<1>1. PICK F : pending \in Seq(F) /\ \A g \in F : FrameOK(u, g)
  BY DEF FramesOK
<1> DEFINE G == F \cup {f}
<1>2. \A g \in G : FrameOK(u, g)
  BY <1>1
<1>3. F \subseteq G /\ f \in G
  OBVIOUS
<1> HIDE DEF G
<1>4. Append(pending, f) \in Seq(G)
  <2>1. pending \in Seq(G)
    BY <1>1, <1>3
  <2> QED
    BY <2>1, <1>3
<1> QED
  BY <1>2, <1>4 DEF FramesOK

LEMMA OneFrameLess ==
  ASSUME NEW u, NEW pending, FramesOK(u, pending), pending # <<>>
  PROVE  FramesOK(u, Tail(pending)) /\ FrameOK(u, pending[1])
<1>1. PICK F : pending \in Seq(F) /\ \A g \in F : FrameOK(u, g)
  BY DEF FramesOK
<1>2. Tail(pending) \in Seq(F) /\ pending[1] \in F
  BY <1>1
<1> QED
  BY <1>1, <1>2 DEF FramesOK

\* What the network device keeps beside its queues while it serves one.
OwnOK(u, sel, own) ==
  /\ own \in [regs : {own.regs}, guest_header : {own.guest_header}, loopback : {u.loopback},
              pending : {own.pending}, sent : {own.sent}]
  /\ "queue_sel" \in DOMAIN own.regs /\ own.regs.queue_sel = sel /\ FramesOK(u, own.pending)

\* A frame that the guest sends, and that may come back, fits.
LEMMA SendFrameOK ==
  ASSUME NEW u, NEW sel, NEW own, OwnOK(u, sel, own), NEW table, Measured(table), NEW segments \in Seq(table),
         u.loopback => FrameFits(u, TotalLength(segments)),
         \A h \in u.heads[Rx] : TotalLength(RxChain(u, h)) \in Nat, NEW mem
  PROVE  OwnOK(u, sel, SendFrame(own, segments, ChainBytes(mem, segments)))
<1> DEFINE bytes == ChainBytes(mem, segments)
           hdr == DetectTxHeader(own, segments, bytes)
           frame == SubSeq(bytes, hdr + 1, Len(bytes))
           regs == [own.regs EXCEPT !.driver_features[1] = IF hdr = MrgHdr THEN 1 ELSE @]
           total == TotalLength(segments)
<1>1. total \in Nat /\ \E V : bytes \in Seq(V) /\ Len(bytes) = total
  BY BytesFill
<1>2. hdr \in {1, 2}
  <2> HIDE DEF bytes
  <2> QED
    BY DEF DetectTxHeader, NetHdr, MrgHdr
<1>3. SendFrame(own, segments, bytes)
        = [own EXCEPT !.guest_header = hdr, !.regs = regs,
                      !.pending = IF own.loopback THEN Append(own.pending, frame) ELSE own.pending,
                      !.sent = Append(own.sent, frame)]
  <2> HIDE DEF bytes
  <2> QED
    BY DEF SendFrame, With
<1>4. "queue_sel" \in DOMAIN regs /\ regs.queue_sel = sel
  <2> HIDE DEF hdr
  <2>1. regs = [own.regs EXCEPT !.driver_features =
                  [own.regs.driver_features EXCEPT ![1] = IF hdr = MrgHdr THEN 1 ELSE own.regs.driver_features[1]]]
    OBVIOUS
  <2> DEFINE features == [own.regs.driver_features EXCEPT ![1] = IF hdr = MrgHdr THEN 1 ELSE own.regs.driver_features[1]]
  <2> HIDE DEF features
  <2>2. DOMAIN [own.regs EXCEPT !.driver_features = features] = DOMAIN own.regs
    OBVIOUS
  <2> QED
    BY <2>1, <2>2 DEF OwnOK, features
<1>5. (\E V : frame \in Seq(V)) /\ Len(frame) \in Nat /\ Len(frame) <= total
  <2> HIDE DEF hdr, bytes, total
  <2>1. PICK V : bytes \in Seq(V) /\ Len(bytes) = total
    BY <1>1
  <2>2. frame \in Seq(V)
    BY <2>1, <1>1, <1>2
  <2>3. Len(frame) = IF hdr + 1 <= Len(bytes) THEN Len(bytes) - hdr ELSE 0
    BY <2>1, <1>1, <1>2
  <2>4. Len(frame) \in Nat /\ Len(frame) <= total
    BY <2>1, <2>3, <1>1, <1>2
  <2> HIDE DEF frame
  <2> QED
    BY <2>2, <2>4
<1> HIDE DEF frame, regs, hdr, bytes, total
<1>6. own.loopback => FrameOK(u, frame)
  <2> SUFFICES ASSUME u.loopback PROVE FrameOK(u, frame)
    BY DEF OwnOK
  <2>1. ASSUME Roomy(u), NEW h \in u.heads[Rx] PROVE MrgHdr + Len(frame) <= TotalLength(RxChain(u, h))
    <3>1. MrgHdr + total <= TotalLength(RxChain(u, h)) /\ TotalLength(RxChain(u, h)) \in Nat
      BY <2>1 DEF FrameFits, total
    <3> QED
      BY <3>1, <1>1, <1>5 DEF MrgHdr
  <2> QED
    BY <2>1, <1>5 DEF FrameOK, FrameFits
<1>7. FramesOK(u, IF own.loopback THEN Append(own.pending, frame) ELSE own.pending)
  BY <1>6, OneFrameMore DEF OwnOK
<1> DEFINE pending == IF own.loopback THEN Append(own.pending, frame) ELSE own.pending
<1> HIDE DEF pending
<1>8. own \in [regs : {own.regs}, guest_header : {own.guest_header}, loopback : {u.loopback},
               pending : {own.pending}, sent : {own.sent}]
  BY DEF OwnOK
<1> DEFINE sent == Append(own.sent, frame)
<1> HIDE DEF sent
<1>9. OwnOK(u, sel, [own EXCEPT !.guest_header = hdr, !.regs = regs, !.pending = pending, !.sent = sent])
  BY <1>4, <1>7, <1>8 DEF OwnOK, pending
<1> QED
  BY <1>3, <1>9 DEF pending, sent, bytes

\* The descriptors of queue q.
NetTable(u, q) == {u.mem[c] : c \in TableCells(u.layouts[q])}

\* The device reads the chains of the setup, whenever it reads them.
LEMMA NetChains ==
  ASSUME NEW u \in NetSetups, NEW q \in {Rx, Tx}, NEW head \in u.heads[q]
  PROVE  /\ Chain(u.layouts[q], u.mem, head) \in Seq(NetTable(u, q))
         /\ Apart(NetKept(u, q) \cup UsedPart(u.layouts[q]), NetTable(u, q)) /\ Measured(NetTable(u, q))
         /\ TotalLength(Chain(u.layouts[q], u.mem, head)) \in Nat
         /\ \A qs, mem : Aligned(qs, u.layouts[q]) /\ NetMemoryOK(u, mem) =>
              Chain(qs, mem, head) = Chain(u.layouts[q], u.mem, head)
<1> DEFINE l == u.layouts[q]
           kept == NetKept(u, q) \cup UsedPart(l)
<1>1. SoundLayout(l) /\ SoundTable(l, u.mem, kept) /\ head \in Nat
  BY NetNumbers
<1>2. l.num \in Nat \ {0} /\ l.desc \in Nat
  BY <1>1, LayoutNumbers
<1>3. \A c \in TableCells(l) : u.mem[c].next \in Nat \cup {-1}
  BY <1>1 DEF SoundTable
<1>4. Apart(kept, NetTable(u, q)) /\ Measured(NetTable(u, q))
  BY <1>1 DEF SoundTable, NetTable, Apart, Measured
<1>5. Chain(l, u.mem, head) \in Seq({u.mem[c] : c \in TableCells(l)})
  <2> HIDE DEF l
  <2> QED
    BY <1>1, <1>2, <1>3, ChainInTable
<1>6. Chain(l, u.mem, head) \in Seq(NetTable(u, q))
  BY <1>5 DEF NetTable
<1>7. TotalLength(Chain(l, u.mem, head)) \in Nat
  <2> DEFINE segments == Chain(l, u.mem, head)
  <2>1. segments \in Seq(NetTable(u, q))
    BY <1>6
  <2> HIDE DEF segments
  <2>2. TotalLength(segments) \in Nat
    BY <2>1, <1>4, BytesFill
  <2> QED
    BY <2>2 DEF segments
<1>8. ASSUME NEW qs, NEW mem, Aligned(qs, l), NetMemoryOK(u, mem)
      PROVE  Chain(qs, mem, head) = Chain(l, u.mem, head)
  <2>1. qs.num = l.num /\ qs.desc = l.desc
    BY <1>8 DEF Aligned
  <2>2. \A c \in TableCells(l) : mem[c] = u.mem[c]
    BY <1>8 DEF NetMemoryOK
  <2> DEFINE m == u.mem
  <2>3. /\ \A c \in TableCells(l) : m[c].next \in Nat \cup {-1}
        /\ \A c \in TableCells(l) : mem[c] = m[c]
    BY <1>3, <2>2
  <2> HIDE DEF l, m
  <2>4. Chain(qs, mem, head) = Chain(l, m, head)
    BY <1>1, <1>2, <2>1, <2>3, ChainSame
  <2> QED
    BY <2>4 DEF m
<1> QED
  BY <1>4, <1>6, <1>7, <1>8

\* Serving, or stopped on the way.
Turned(t, l, kept, mem0, heads, s, r, n, p) ==
  /\ t \in [q : {t.q}, mem : {t.mem}, own : {t.own}, stop : BOOLEAN, any_completed : {r < p}]
  /\ Aligned(t.q, l) /\ t.q.last_avail = (s + p) % IndexModulus /\ t.q.used_idx = (s + p) % IndexModulus
  /\ Kept(kept, mem0, t.mem) /\ RingOK(l, t.mem, heads, s, p, n) /\ r \in 0 .. p

LEMMA TurnedIs ==
  ASSUME NEW l, NEW kept, NEW mem0, NEW heads, NEW s, NEW r, NEW n, NEW p, NEW t
  PROVE  /\ Serving(t, l, kept, mem0, heads, s, r, n, p)
              <=> Turned(t, l, kept, mem0, heads, s, r, n, p) /\ ~t.stop
         /\ Turned(t, l, kept, mem0, heads, s, r, n, p)
              => Turned([t EXCEPT !.stop = TRUE], l, kept, mem0, heads, s, r, n, p)
  BY DEF Serving, Turned

\* Queue q of the network device at work: p heads are served.
NetTurned(u, q, sel, mem0, s, r, n, t, p) ==
  /\ Turned(t, u.layouts[q], NetKept(u, q), mem0, u.heads[q], s, r, n, p)
  /\ OwnOK(u, sel, t.own)
  /\ q = Rx /\ Roomy(u) /\ t.stop => t.own.pending = <<>>

LEMMA CompleteOwn ==
  ASSUME NEW t, "own" \in DOMAIN t, NEW head, NEW len
  PROVE  Complete(t, head, len).own = t.own
  BY DEF Complete

\* A step of the loop over a ring of the network device.
NetTurns(u, q, sel, mem0, s, r, n, t, p) ==
  NetTurned(u, q, sel, mem0, s, r, n, t, p + 1) \/ (t.stop /\ NetTurned(u, q, sel, mem0, s, r, n, t, p))

\* What is known of the head that is served next.
Turning(u, q, sel, mem0, s, r, n, t, p, head) ==
  /\ Serving(t, u.layouts[q], NetKept(u, q), mem0, u.heads[q], s, r, n, p) /\ OwnOK(u, sel, t.own)
  /\ SoundLayout(u.layouts[q]) /\ Separate(NetKept(u, q), u.layouts[q]) /\ head \in u.heads[q]
  /\ Chain(t.q, t.mem, head) = Chain(u.layouts[q], u.mem, head)
  /\ Chain(t.q, t.mem, head) \in Seq(NetTable(u, q)) /\ Measured(NetTable(u, q))
  /\ Apart(NetKept(u, q) \cup UsedPart(u.layouts[q]), NetTable(u, q))
  /\ TotalLength(Chain(t.q, t.mem, head)) \in Nat
  /\ Kept(NetKept(u, q) \cup UsedPart(u.layouts[q]), t.mem, t.mem)

LEMMA TurnFacts ==
  ASSUME NEW u \in NetSetups, NEW q \in {Rx, Tx}, NEW sel, NEW mem0, NetMemoryOK(u, mem0), NEW s, NEW r, NEW n,
         NEW t, NEW p, NetTurned(u, q, sel, mem0, s, r, n, t, p), ~t.stop, p # n,
         NEW head, head = t.mem[AvailCell(u.layouts[q], s + p)]
  PROVE  Turning(u, q, sel, mem0, s, r, n, t, p, head)
<1> DEFINE l == u.layouts[q]
           kept == NetKept(u, q)
           heads == u.heads[q]
<1>1. /\ Turned(t, l, kept, mem0, heads, s, r, n, p) /\ OwnOK(u, sel, t.own)
      /\ Serving(t, l, kept, mem0, heads, s, r, n, p)
      /\ SoundLayout(l) /\ Separate(kept, l)
  BY NetNumbers, TurnedIs DEF NetTurned
<1>2. head \in heads
  <2>1. RingOK(l, t.mem, heads, s, p, n)
    BY <1>1 DEF Turned
  <2> HIDE DEF l, heads
  <2>2. p \in 0 .. n - 1
    BY <1>1, <2>1, RingIndices
  <2> QED
    BY <2>1, <2>2 DEF RingOK, l
<1>3. NetMemoryOK(u, t.mem)
  <2>1. Kept(kept, mem0, t.mem) /\ TableCells(l) \subseteq kept /\ TableCells(u.layouts[1 - q]) \subseteq kept
    BY <1>1, NetNumbers DEF Turned, Separate
  <2>2. \A o \in {Rx, Tx} : TableCells(u.layouts[o]) \subseteq kept
    BY <2>1 DEF Rx, Tx
  <2> HIDE DEF kept
  <2> QED
    BY <2>1, <2>2 DEF NetMemoryOK, Kept
<1>4. Aligned(t.q, l)
  BY <1>1 DEF Turned
<1>5. /\ Chain(l, u.mem, head) \in Seq(NetTable(u, q)) /\ Measured(NetTable(u, q))
      /\ Apart(kept \cup UsedPart(l), NetTable(u, q)) /\ TotalLength(Chain(l, u.mem, head)) \in Nat
      /\ \A qs, mem : Aligned(qs, l) /\ NetMemoryOK(u, mem) => Chain(qs, mem, head) = Chain(l, u.mem, head)
  BY <1>2, NetChains
<1>6. Chain(t.q, t.mem, head) = Chain(l, u.mem, head)
  BY <1>3, <1>4, <1>5
<1>7. Kept(kept \cup UsedPart(l), t.mem, t.mem)
  <2>1. UsedPart(l) \subseteq RamCells
    BY <1>1, LayoutNumbers DEF SoundLayout
  <2> QED
    BY <2>1, <1>1 DEF Kept, Turned
<1> QED
  BY <1>1, <1>2, <1>5, <1>6, <1>7 DEF Turning

LEMMA TurnTx ==
  ASSUME NEW u \in NetSetups, NEW sel, NEW mem0, NetMemoryOK(u, mem0), NEW s, NEW r, NEW n, NEW t, NEW p,
         NetTurned(u, Tx, sel, mem0, s, r, n, t, p), ~t.stop, p # n,
         NEW head, head = t.mem[AvailCell(u.layouts[Tx], s + p)]
  PROVE  NetTurns(u, Tx, sel, mem0, s, r, n, ServeTx(t, head), p)
<1> DEFINE l == u.layouts[Tx]
           kept == NetKept(u, Tx)
           heads == u.heads[Tx]
           segments == Chain(t.q, t.mem, head)
           bad == \/ segments = <<>>
                  \/ \E k \in DOMAIN segments : segments[k].write \/ ~InRam(segments[k].addr, segments[k].len)
                  \/ TotalLength(segments) < NetHdr
<1>0. Tx \in {Rx, Tx} /\ Rx \in {Rx, Tx} /\ Tx # Rx /\ 1 - Tx = Rx
  BY DEF Rx, Tx
<1>1. /\ Serving(t, l, kept, mem0, heads, s, r, n, p) /\ OwnOK(u, sel, t.own)
      /\ SoundLayout(l) /\ Separate(kept, l) /\ head \in heads
      /\ segments = Chain(l, u.mem, head) /\ segments \in Seq(NetTable(u, Tx)) /\ Measured(NetTable(u, Tx))
      /\ TotalLength(segments) \in Nat /\ Kept(kept \cup UsedPart(l), t.mem, t.mem)
  <2>1. Turning(u, Tx, sel, mem0, s, r, n, t, p, head)
    BY <1>0, TurnFacts
  <2> QED
    BY <2>1 DEF Turning
<1>2. Turned(t, l, kept, mem0, heads, s, r, n, p)
  BY <1>1, TurnedIs
<1>5. \A h \in u.heads[Rx] : TotalLength(RxChain(u, h)) \in Nat
  BY <1>0, NetChains DEF RxChain
<1>6. u.loopback => FrameFits(u, TotalLength(segments))
  <2> SUFFICES ASSUME u.loopback, Roomy(u), NEW h \in u.heads[Rx]
               PROVE  MrgHdr + TotalLength(segments) <= TotalLength(RxChain(u, h))
    BY DEF FrameFits
  <2> HIDE DEF segments, l
  <2>1. TotalLength(RxChain(u, h)) >= MrgHdr + TotalLength(Chain(u.layouts[Tx], u.mem, head))
    BY <1>1 DEF Roomy, RxChain
  <2> QED
    BY <2>1, <1>1, <1>5 DEF MrgHdr, l
<1>7. CASE bad
  <2>1. ServeTx(t, head) = [t EXCEPT !.stop = TRUE]
    <3> HIDE DEF segments
    <3> QED
      BY <1>7, Zenon DEF ServeTx, With, segments
  <2>2. Turned([t EXCEPT !.stop = TRUE], l, kept, mem0, heads, s, r, n, p)
    BY <1>2, TurnedIs
  <2>3. [t EXCEPT !.stop = TRUE].own = t.own /\ [t EXCEPT !.stop = TRUE].stop
    BY <1>2 DEF Turned
  <2> QED
    BY <2>1, <2>2, <2>3, <1>0, <1>1, SMTT(30) DEF NetTurns, NetTurned
<1>8. CASE ~bad
  <2> DEFINE own == SendFrame(t.own, segments, ChainBytes(t.mem, segments))
             t2 == [t EXCEPT !.own = own]
  <2>1. ServeTx(t, head) = Complete(t2, head, 0)
    <3> HIDE DEF segments
    <3> QED
      BY <1>8 DEF ServeTx, With, segments
  <2>2. OwnOK(u, sel, own)
    <3> HIDE DEF segments
    <3> QED
      BY <1>1, <1>5, <1>6, SendFrameOK
  <2> HIDE DEF own, segments, l, kept, heads, bad
  <2>3. t2 = [t EXCEPT !.mem = t.mem, !.own = own] /\ t2.own = own /\ t2.mem = t.mem /\ "own" \in DOMAIN t2
    BY <1>2 DEF Turned
  <2>5. Serving(t2, l, kept, mem0, heads, s, r, n, p)
    <3>1. Serving([t EXCEPT !.mem = t.mem, !.own = own], l, kept, mem0, heads, s, r, n, p)
      BY <1>1, ServingKept, Zenon
    <3> QED
      BY <3>1, <2>3
  <2>6. head = t2.mem[AvailCell(l, s + p)]
    BY <2>3 DEF l
  <2> HIDE DEF t2
  <2>7. Serving(Complete(t2, head, 0), l, kept, mem0, heads, s, r, n, p + 1)
    BY <1>1, <2>5, <2>6, CompleteReturns
  <2>8. Complete(t2, head, 0).own = own
    <3>1. "own" \in DOMAIN t2
      BY <2>3
    <3>2. Complete(t2, head, 0).own = t2.own
      BY <3>1, CompleteOwn
    <3> QED
      BY <2>3, <3>2
  <2>9. /\ Turned(Complete(t2, head, 0), l, kept, mem0, heads, s, r, n, p + 1)
        /\ ~Complete(t2, head, 0).stop
    BY <2>7, TurnedIs
  <2> QED
    BY <2>1, <2>2, <2>8, <2>9 DEF NetTurns, NetTurned, l, kept, heads
<1> QED
  BY <1>7, <1>8

LEMMA PayloadLength ==
  ASSUME NEW V, NEW frame \in Seq(V), NEW hdr
  PROVE  Len(Payload(hdr, frame)) \in Nat /\ Len(Payload(hdr, frame)) <= MrgHdr + Len(frame)
<1> DEFINE W == V \cup {0, 1}
           front == IF hdr = MrgHdr THEN <<0, 1>> ELSE <<0>>
<1>1. frame \in Seq(W) /\ 0 \in W /\ 1 \in W
  OBVIOUS
<1> HIDE DEF W
<1>2. front \in Seq(W) /\ Len(front) \in {1, 2}
  BY <1>1
<1> HIDE DEF front
<1>3. Len(front \o frame) = Len(front) + Len(frame) /\ Len(frame) \in Nat
  BY <1>1, <1>2
<1>4. Payload(hdr, frame) = front \o frame
  BY DEF Payload, front
<1> QED
  BY <1>2, <1>3, <1>4 DEF MrgHdr

LEMMA TurnRx ==
  ASSUME NEW u \in NetSetups, NEW sel, NEW mem0, NetMemoryOK(u, mem0), NEW s, NEW r, NEW n, NEW t, NEW p,
         NetTurned(u, Rx, sel, mem0, s, r, n, t, p), ~t.stop, p # n,
         NEW head, head = t.mem[AvailCell(u.layouts[Rx], s + p)], NEW hdr
  PROVE  NetTurns(u, Rx, sel, mem0, s, r, n, ServeRx(hdr, t, head), p)
<1> DEFINE l == u.layouts[Rx]
           kept == NetKept(u, Rx)
           all == kept \cup UsedPart(l)
           heads == u.heads[Rx]
           segments == Chain(t.q, t.mem, head)
           payload == Payload(hdr, t.own.pending[1])
           start == [mem |-> t.mem, payload |-> payload, at |-> 0, failed |-> FALSE]
           result == EachSegment(WritePayload, start, segments)
           bad == \/ segments = <<>> \/ \E k \in DOMAIN segments : ~segments[k].write
                  \/ TotalLength(segments) < Len(payload)
<1>0. Rx \in {Rx, Tx} /\ Rx # Tx
  BY DEF Rx, Tx
<1>1. /\ Serving(t, l, kept, mem0, heads, s, r, n, p) /\ OwnOK(u, sel, t.own)
      /\ SoundLayout(l) /\ Separate(kept, l) /\ head \in heads
      /\ segments = RxChain(u, head) /\ segments \in Seq(NetTable(u, Rx)) /\ Measured(NetTable(u, Rx))
      /\ Apart(all, NetTable(u, Rx)) /\ TotalLength(segments) \in Nat /\ Kept(all, t.mem, t.mem)
  <2>1. Turning(u, Rx, sel, mem0, s, r, n, t, p, head)
    BY <1>0, TurnFacts
  <2> QED
    BY <2>1 DEF Turning, RxChain
<1>a. Turned(t, l, kept, mem0, heads, s, r, n, p)
  BY <1>1, TurnedIs
<1>2. /\ Turned(t, l, kept, mem0, heads, s, r, n, p)
      /\ t \in [q : {t.q}, mem : {t.mem}, own : {t.own}, stop : BOOLEAN, any_completed : {r < p}]
  BY <1>a DEF Turned
<1>3. /\ Turned([t EXCEPT !.stop = TRUE], l, kept, mem0, heads, s, r, n, p)
      /\ [t EXCEPT !.stop = TRUE].own = t.own /\ [t EXCEPT !.stop = TRUE].stop
  BY <1>2, TurnedIs
<1>4. CASE t.own.pending = <<>>
  <2>1. ServeRx(hdr, t, head) = [t EXCEPT !.stop = TRUE]
    BY <1>4 DEF ServeRx
  <2> QED
    BY <2>1, <1>1, <1>3, <1>4 DEF NetTurns, NetTurned
<1>5. CASE t.own.pending # <<>>
  <2>1. FrameOK(u, t.own.pending[1]) /\ FramesOK(u, Tail(t.own.pending))
    <3>1. FramesOK(u, t.own.pending)
      BY <1>1 DEF OwnOK
    <3> DEFINE pending == t.own.pending
    <3> HIDE DEF pending
    <3>2. FramesOK(u, pending) /\ pending # <<>> => FrameOK(u, pending[1]) /\ FramesOK(u, Tail(pending))
      BY OneFrameLess
    <3> QED
      BY <3>1, <3>2, <1>5 DEF pending
  <2>2. Len(payload) \in Nat /\ Len(payload) <= MrgHdr + Len(t.own.pending[1]) /\ Len(t.own.pending[1]) \in Nat
    <3>1. PICK V : t.own.pending[1] \in Seq(V)
      BY <2>1 DEF FrameOK
    <3> QED
      BY <3>1, PayloadLength, SMTT(30)
  <2>3. Roomy(u) => /\ ~bad
                    /\ \A k \in DOMAIN segments : InRam(segments[k].addr, segments[k].len)
    <3> SUFFICES ASSUME Roomy(u)
                 PROVE  /\ ~bad
                        /\ \A k \in DOMAIN segments : InRam(segments[k].addr, segments[k].len)
      OBVIOUS
    <3> HIDE DEF segments, payload
    <3>1. /\ segments # <<>>
          /\ \A k \in DOMAIN segments : segments[k].write /\ InRam(segments[k].addr, segments[k].len)
      BY <1>1 DEF Roomy, RxChain
    <3>2. MrgHdr + Len(t.own.pending[1]) <= TotalLength(segments)
      BY <1>1, <2>1, SMTT(30) DEF FrameOK, FrameFits
    <3> QED
      BY <3>1, <3>2, <2>2, <1>1, SMTT(30) DEF MrgHdr
  <2>4. CASE bad
    <3>1. ServeRx(hdr, t, head) = [t EXCEPT !.stop = TRUE]
      <4> HIDE DEF segments, payload
      <4> QED
        BY <1>5, <2>4 DEF ServeRx, Deliver, With, segments, payload
    <3> QED
      BY <3>1, <1>1, <1>3, <2>3, <2>4, SMTT(30) DEF NetTurns, NetTurned
  <2>5. CASE ~bad
    <3> DEFINE m == result.mem
               t2 == [t EXCEPT !.mem = m, !.own.pending = Tail(@)]
               own == [t.own EXCEPT !.pending = Tail(t.own.pending)]
               c == Complete(t2, head, Len(payload))
    <3>a. Writing(payload, all, t.mem, result) /\ (Roomy(u) => ~result.failed)
      <4>1. \A k \in DOMAIN segments : segments[k].write
        BY <2>5
      <4>2. /\ Writing(payload, all, t.mem, result)
            /\ (\A k \in DOMAIN segments : InRam(segments[k].addr, segments[k].len)) => ~result.failed
        <5> DEFINE from == t.mem
        <5>1. Kept(all, from, from) /\ start = [mem |-> from, payload |-> payload, at |-> 0, failed |-> FALSE]
          BY <1>1
        <5> HIDE DEF payload, segments, start, all, from
        <5>2. /\ Writing(payload, all, from, result)
              /\ (\A k \in DOMAIN segments : InRam(segments[k].addr, segments[k].len)) => ~result.failed
          BY <1>1, <2>2, <4>1, <5>1, PayloadKeeps
        <5> QED
          BY <5>2 DEF from
      <4> HIDE DEF result, all
      <4> QED
        BY <4>2, <2>3
    <3>1. Kept(all, t.mem, m) /\ (Roomy(u) => ~result.failed)
      <4> HIDE DEF result, all, payload
      <4> QED
        BY <3>a DEF Writing
    <3>2. ServeRx(hdr, t, head) =
            IF result.failed THEN [t EXCEPT !.mem = m, !.stop = TRUE]
            ELSE IF c.q.used_idx = t.q.used_idx THEN [c EXCEPT !.own = t.own] ELSE c
      <4>1. ServeRx(hdr, t, head) = Deliver(t, head, payload, segments)
        <5> HIDE DEF segments, payload
        <5> QED
          BY <1>5 DEF ServeRx, With, segments, payload
      <4>2. Deliver(t, head, payload, segments) = Delivered(t, head, result)
        <5> HIDE DEF result, segments, payload
        <5> QED
          BY <2>5 DEF Deliver, With, result, start
      <4> HIDE DEF segments
      <4>3. result.payload = payload
        BY <3>a DEF Writing
      <4> HIDE DEF result, payload
      <4> QED
        BY <4>1, <4>2, <4>3 DEF Delivered
    <3> HIDE DEF m, result, payload, segments, bad
    <3>3. t2 = [t EXCEPT !.mem = m, !.own = own]
      OBVIOUS
    <3>4. OwnOK(u, sel, own)
      <4> DEFINE pending == Tail(t.own.pending)
      <4> HIDE DEF pending
      <4>1. OwnOK(u, sel, [t.own EXCEPT !.pending = pending])
        BY <1>1, <2>1 DEF OwnOK, pending
      <4> QED
        BY <4>1 DEF pending
    <3> HIDE DEF own
    <3>5. Serving(t2, l, kept, mem0, heads, s, r, n, p)
      <4>1. Serving([t EXCEPT !.mem = m, !.own = own], l, kept, mem0, heads, s, r, n, p)
        <5> HIDE DEF l, kept, heads
        <5> QED
          BY <1>1, <3>1, ServingKept, Zenon
      <4> QED
        BY <4>1, <3>3
    <3>6. t2.mem = m /\ t2.own = own /\ "own" \in DOMAIN t2
      BY <1>2, <3>3
    <3>7. head = t2.mem[AvailCell(l, s + p)]
      <4>1. AvailCell(l, s + p) \in AvailPart(l)
        <5>1. RingOK(l, t.mem, heads, s, p, n)
          BY <1>2 DEF Turned
        <5> HIDE DEF l, heads
        <5>2. s + p \in Int
          BY <1>1, <5>1, RingIndices
        <5> QED
          BY <1>1, <5>2, CellsOf
      <4>2. AvailCell(l, s + p) \in all
        BY <4>1, <1>1 DEF Separate
      <4> QED
        BY <4>2, <3>1, <3>6 DEF Kept
    <3> HIDE DEF t2
    <3>8. /\ Serving(c, l, kept, mem0, heads, s, r, n, p + 1)
          /\ c.own = own
      <4>1. Serving(c, l, kept, mem0, heads, s, r, n, p + 1)
        <5> HIDE DEF l, kept, heads
        <5> QED
          BY <1>1, <3>5, <3>7, CompleteReturns
      <4>2. c.own = t2.own
        BY <3>6, CompleteOwn
      <4> QED
        BY <4>1, <4>2, <3>6
    <3> HIDE DEF c
    <3>9. CASE result.failed
      <4>1. Turned([t EXCEPT !.mem = m, !.stop = TRUE], l, kept, mem0, heads, s, r, n, p)
        <5> DEFINE same == t.own
        <5> HIDE DEF l, kept, heads, same
        <5>1. Serving([t EXCEPT !.mem = m, !.own = same], l, kept, mem0, heads, s, r, n, p)
          BY <1>1, <3>1, ServingKept, Zenon
        <5>2. Turned([[t EXCEPT !.mem = m, !.own = same] EXCEPT !.stop = TRUE], l, kept, mem0, heads, s, r, n, p)
          BY <5>1, TurnedIs
        <5>3. [[t EXCEPT !.mem = m, !.own = same] EXCEPT !.stop = TRUE] = [t EXCEPT !.mem = m, !.stop = TRUE]
          BY <1>2 DEF same
        <5> QED
          BY <5>2, <5>3
      <4>2. [t EXCEPT !.mem = m, !.stop = TRUE].own = t.own /\ [t EXCEPT !.mem = m, !.stop = TRUE].stop
        BY <1>2
      <4> QED
        BY <4>1, <4>2, <3>1, <3>2, <3>9, <1>1 DEF NetTurns, NetTurned
    <3>10. CASE ~result.failed
      <4>a. Turned(c, l, kept, mem0, heads, s, r, n, p + 1) /\ ~c.stop
        BY <3>8, TurnedIs
      <4>1. /\ Turned(c, l, kept, mem0, heads, s, r, n, p + 1) /\ ~c.stop
            /\ c \in [q : {c.q}, mem : {c.mem}, own : {c.own}, stop : BOOLEAN, any_completed : {r < p + 1}]
        BY <4>a DEF Turned
      <4>2. NetTurned(u, Rx, sel, mem0, s, r, n, c, p + 1)
        BY <4>1, <3>4, <3>8 DEF NetTurned
      <4> DEFINE o == t.own
      <4>3. NetTurned(u, Rx, sel, mem0, s, r, n, [c EXCEPT !.own = o], p + 1)
        <5>1. OwnOK(u, sel, o)
          BY <1>1
        <5> HIDE DEF o
        <5>2. /\ [c EXCEPT !.own = o] \in [q : {c.q}, mem : {c.mem}, own : {o}, stop : {FALSE}, any_completed : {r < p + 1}]
              /\ [c EXCEPT !.own = o].q = c.q /\ [c EXCEPT !.own = o].mem = c.mem
              /\ [c EXCEPT !.own = o].own = o /\ ~[c EXCEPT !.own = o].stop
          BY <4>1
        <5> DEFINE e == [c EXCEPT !.own = o]
        <5> HIDE DEF e
        <5>3. Turned(e, l, kept, mem0, heads, s, r, n, p + 1)
          BY <4>1, <5>2 DEF Turned, e
        <5>4. NetTurned(u, Rx, sel, mem0, s, r, n, e, p + 1)
          BY <5>1, <5>2, <5>3 DEF NetTurned, e
        <5> QED
          BY <5>4 DEF e
      <4> QED
        BY <4>2, <4>3, <3>2, <3>10 DEF NetTurns
    <3> QED
      BY <3>9, <3>10
  <2> QED
    BY <2>4, <2>5
<1> QED
  BY <1>4, <1>5

LEMMA TurnNet ==
  ASSUME NEW u \in NetSetups, NEW q \in {Rx, Tx}, NEW sel, NEW mem0, NetMemoryOK(u, mem0), NEW s, NEW r, NEW n,
         NEW t, NEW p, NetTurned(u, q, sel, mem0, s, r, n, t, p), ~t.stop, p # n,
         NEW head, head = t.mem[AvailCell(u.layouts[q], s + p)], NEW hdr
  PROVE  NetTurns(u, q, sel, mem0, s, r, n, ServeNet(q, hdr, t, head), p)
<1>1. CASE q = Tx
  <2>1. NetTurns(u, Tx, sel, mem0, s, r, n, ServeTx(t, head), p)
    BY <1>1, TurnTx
  <2> QED
    BY <1>1, <2>1 DEF ServeNet
<1>2. CASE q = Rx
  <2>1. NetTurns(u, Rx, sel, mem0, s, r, n, ServeRx(hdr, t, head), p)
    BY <1>2, TurnRx
  <2> QED
    BY <1>2, <2>1 DEF ServeNet, Rx, Tx
<1> QED
  BY <1>1, <1>2

\* The loop has ended: everything is served, or the device cannot go on.
NetServed(u, q, sel, mem0, s, r, n, t) ==
  \E p \in r .. n : NetTurned(u, q, sel, mem0, s, r, n, t, p) /\ (p = n \/ t.stop)

\* The loop over queue q of the network device.
NetLoop(q, hdr, qs, mem, own) ==
  ServeRing(LoopStart(qs, mem, own), LAMBDA t, head : ServeNet(q, hdr, t, head))

LEMMA NetServes ==
  ASSUME NEW u \in NetSetups, NEW q \in {Rx, Tx}, NEW mem, NetMemoryOK(u, mem), NEW qs, NEW s, NEW r, NEW n,
         InUse(u.layouts[q], qs, mem, u.heads[q], s, r, n), NEW sel, NEW own, OwnOK(u, sel, own), NEW hdr
  PROVE  NetServed(u, q, sel, mem, s, r, n, NetLoop(q, hdr, qs, mem, own))
<1> DEFINE l == u.layouts[q]
           heads == u.heads[q]
           first == LoopStart(qs, mem, own)
           end == (s + n) % IndexModulus
           step(t) ==
             IF t.stop \/ t.q.last_avail = first.mem[AvailIdxCell(first.q)] THEN t
             ELSE IF ~InRam(AvailCell(t.q, t.q.last_avail), 1) THEN [t EXCEPT !.stop = TRUE]
             ELSE ServeNet(q, hdr, t, t.mem[AvailCell(t.q, t.q.last_avail)])
           last == IndexModulus - 1
           After(g, k) == IF k = 0 THEN first ELSE With(g[k - 1], step)
           IsAfter(g) == g = [k \in 0 .. last |-> After(g, k)]
           after == CHOOSE g : IsAfter(g)
           Holds(k) == k <= last => \E g : g = [j \in 0 .. k |-> After(g, j)]
           Reached(t, p) == NetTurned(u, q, sel, mem, s, r, n, t, p)
           whole == NetLoop(q, hdr, qs, mem, own)
<1>s. SoundLayout(l) /\ NetKept(u, q) \subseteq RamCells
  BY NetNumbers
<1>r. RingOK(l, mem, heads, s, r, n)
  BY DEF InUse
<1>0. last \in Nat /\ r \in Nat /\ n \in Nat /\ r <= n /\ n <= last
  <2> HIDE DEF l, heads
  <2> QED
    BY <1>s, <1>r, RingIndices, RingNumbers
<1>a. first.q = qs /\ first.mem = mem /\ first.own = own
  BY DEF LoopStart
<1>1. whole = IF Usable(first.q) /\ InRam(AvailIdxCell(first.q), 1) THEN after[last] ELSE first
  BY DEF NetLoop, ServeRing
<1>b. /\ Reached(first, r) /\ ~first.stop /\ Usable(qs) /\ InRam(AvailIdxCell(qs), 1)
      /\ mem[AvailIdxCell(qs)] = end
  <2> DEFINE kept == NetKept(u, q)
  <2>1. Aligned(qs, l) /\ qs.last_avail = (s + r) % IndexModulus /\ qs.used_idx = (s + r) % IndexModulus
    BY DEF InUse
  <2>2. mem = [c \in RamCells |-> mem[c]]
    BY DEF NetMemoryOK
  <2> HIDE DEF l, heads, kept
  <2>3. /\ Serving(first, l, kept, mem, heads, s, r, n, r)
        /\ Usable(qs) /\ InRam(AvailIdxCell(qs), 1) /\ mem[AvailIdxCell(qs)] = (s + n) % IndexModulus
    BY <1>s, <1>r, <2>1, <2>2, ServingStarts DEF kept
  <2> HIDE DEF first
  <2>4. Turned(first, l, kept, mem, heads, s, r, n, r) /\ ~first.stop
    BY <2>3, TurnedIs
  <2> QED
    BY <1>a, <2>3, <2>4 DEF NetTurned, l, heads, kept
<1>c. ASSUME NEW t, NEW p, Reached(t, p)
      PROVE  \/ (t.stop \/ p = n) /\ step(t) = t
             \/ p # n /\ (Reached(step(t), p + 1) \/ (step(t).stop /\ Reached(step(t), p)))
  <2>1. CASE t.stop
    BY <2>1
  <2>2. CASE ~t.stop
    <3> DEFINE kept == NetKept(u, q)
    <3>1. Turned(t, l, kept, mem, heads, s, r, n, p)
      BY <1>c DEF NetTurned
    <3> HIDE DEF l, heads, kept
    <3>a. Serving(t, l, kept, mem, heads, s, r, n, p)
      BY <3>1, <2>2, TurnedIs
    <3>2. /\ (t.q.last_avail = end <=> p = n)
          /\ AvailCell(t.q, t.q.last_avail) = AvailCell(l, s + p)
          /\ InRam(AvailCell(t.q, t.q.last_avail), 1)
      BY <1>s, <3>a, ServingHead
    <3>3. first.mem[AvailIdxCell(first.q)] = end
      BY <1>a, <1>b
    <3>4. p # n => NetTurns(u, q, sel, mem, s, r, n, ServeNet(q, hdr, t, t.mem[AvailCell(l, s + p)]), p)
      BY <1>c, <2>2, TurnNet DEF l
    <3> HIDE DEF first, end
    <3>5. CASE p = n
      BY <3>2, <3>3, <3>5
    <3>6. CASE p # n
      <4>1. step(t) = ServeNet(q, hdr, t, t.mem[AvailCell(l, s + p)])
        BY <2>2, <3>2, <3>3, <3>6
      <4> HIDE DEF step
      <4> QED
        BY <4>1, <3>4, <3>6 DEF NetTurns
    <3> QED
      BY <3>5, <3>6
  <2> QED
    BY <2>1, <2>2
<1> HIDE DEF After, last, first, step, Reached, whole
<1>2. Holds(0)
  <2> DEFINE g == [k \in 0 .. 0 |-> first]
  <2>1. \A k \in 0 .. 0 : g[k] = After(g, k)
    BY DEF After
  <2>2. g = [k \in 0 .. 0 |-> g[k]]
    OBVIOUS
  <2> HIDE DEF g
  <2>3. g = [k \in 0 .. 0 |-> After(g, k)]
    BY <2>1, <2>2
  <2> QED
    BY <2>3
<1>3. ASSUME NEW m \in Nat, Holds(m) PROVE Holds(m + 1)
  <2> SUFFICES ASSUME m + 1 <= last PROVE \E g : g = [k \in 0 .. m + 1 |-> After(g, k)]
    OBVIOUS
  <2>1. PICK g : g = [k \in 0 .. m |-> After(g, k)]
    BY <1>0, <1>3
  <2> DEFINE h == [k \in 0 .. m + 1 |-> IF k = m + 1 THEN After(g, k) ELSE g[k]]
  <2>2. \A k \in 0 .. m + 1 : h[k] = After(h, k)
    <3> TAKE k \in 0 .. m + 1
    <3>1. k # 0 => h[k - 1] = g[k - 1]
      OBVIOUS
    <3>2. h[k] = After(g, k)
      BY <2>1
    <3> HIDE DEF h
    <3> QED
      BY <3>1, <3>2 DEF After
  <2>3. h = [k \in 0 .. m + 1 |-> h[k]]
    OBVIOUS
  <2> HIDE DEF h
  <2>4. h = [k \in 0 .. m + 1 |-> After(h, k)]
    BY <2>2, <2>3
  <2> QED
    BY <2>4
<1>4. IsAfter(after)
  <2> DEFINE S == {k \in Nat : Holds(k)}
  <2> HIDE DEF Holds
  <2>1. \A k \in Nat : k \in S
    <3>1. 0 \in S
      BY <1>2
    <3>2. \A k \in Nat : k \in S => k + 1 \in S
      BY <1>3
    <3> HIDE DEF S
    <3> QED
      BY <3>1, <3>2, Inductive
  <2>2. Holds(last)
    BY <2>1, <1>0
  <2>3. \E g : IsAfter(g)
    BY <2>2, <1>0 DEF Holds
  <2> QED
    BY <2>3
<1> HIDE DEF after
<1>5. \A k \in 0 .. last : after[k] = After(after, k)
  BY <1>4
<1> DEFINE There(t, p, k) == Reached(t, p) /\ (p = n \/ t.stop \/ p = r + k)
<1>6. \A k \in Nat : k <= last => \E p \in r .. n : There(after[k], p, k)
  <2> DEFINE S == {k \in Nat : k <= last => \E p \in r .. n : There(after[k], p, k)}
  <2>1. 0 \in S
    <3>1. 0 \in 0 .. last /\ r \in r .. n /\ r = r + 0
      BY <1>0
    <3>2. after[0] = After(after, 0)
      BY <3>1, <1>5
    <3>3. After(after, 0) = first
      BY DEF After
    <3> QED
      BY <3>1, <3>2, <3>3, <1>b
  <2>2. ASSUME NEW k \in Nat, k \in S PROVE k + 1 \in S
    <3> SUFFICES ASSUME k + 1 <= last PROVE \E p \in r .. n : There(after[k + 1], p, k + 1)
      OBVIOUS
    <3>1. PICK p \in r .. n : There(after[k], p, k)
      BY <2>2, <1>0
    <3>2. k + 1 \in 0 .. last /\ k + 1 # 0 /\ k + 1 - 1 = k
      BY <1>0
    <3>3. after[k + 1] = After(after, k + 1)
      BY <1>5, <3>2
    <3>4. After(after, k + 1) = step(after[k])
      BY <3>2 DEF After, With
    <3>5. \/ (after[k].stop \/ p = n) /\ step(after[k]) = after[k]
          \/ /\ p # n
             /\ Reached(step(after[k]), p + 1) \/ (step(after[k]).stop /\ Reached(step(after[k]), p))
      BY <3>1, <1>c
    <3>6. CASE after[k].stop \/ p = n
      <4>1. after[k].stop => step(after[k]) = after[k]
        BY DEF step
      <4>2. Reached(after[k + 1], p) /\ (p = n \/ after[k + 1].stop)
        BY <3>1, <3>3, <3>4, <3>5, <3>6, <4>1
      <4> QED
        BY <3>1, <4>2
    <3>7. CASE ~(after[k].stop \/ p = n)
      <4>1. p + 1 \in r .. n /\ p + 1 = r + (k + 1)
        BY <3>1, <3>7, <1>0
      <4>2. Reached(after[k + 1], p + 1) \/ (after[k + 1].stop /\ Reached(after[k + 1], p))
        BY <3>3, <3>4, <3>5, <3>7
      <4> QED
        BY <3>1, <4>1, <4>2
    <3> QED
      BY <3>6, <3>7
  <2> HIDE DEF S
  <2>3. \A k \in Nat : k \in S
    BY <2>1, <2>2, Inductive
  <2> QED
    BY <2>3 DEF S
<1>7. \E p \in r .. n : Reached(after[last], p) /\ (p = n \/ after[last].stop)
  <2>1. PICK p \in r .. n : There(after[last], p, last)
    BY <1>0, <1>6
  <2>2. p = r + last => p = n
    BY <2>1, <1>0
  <2> QED
    BY <2>1, <2>2
<1>8. whole = after[last]
  BY <1>1, <1>a, <1>b
<1> QED
  BY <1>7, <1>8 DEF NetServed, Reached, whole

\* The device, and one of its queues: in use, or stopped.
NetDeviceOK(u, dev) ==
  /\ {"loopback", "regs", "queues", "pending", "guest_header", "interrupt_status", "config_generation", "told"}
       \subseteq DOMAIN dev
  /\ dev.told = (dev.interrupt_status # 0) /\ dev.loopback = u.loopback /\ "queue_sel" \in DOMAIN dev.regs
  /\ DOMAIN dev.queues = {Rx, Tx} /\ \A q \in {Rx, Tx} : QueueOK(dev.queues[q])
  /\ FramesOK(u, dev.pending)

(* What has come back is told to the driver; and unless the device is      *)
(* idle, a roomy receive queue has nothing left.                           *)
NetQueueOK(u, q, qs, mem, seen, told, idle) ==
  /\ qs.ready => \E r, n \in Nat : /\ InUse(u.layouts[q], qs, mem, u.heads[q], seen, r, n)
                                   /\ r # 0 => told
                                   /\ q = Rx /\ Roomy(u) /\ ~idle => r = n
  /\ ~qs.ready => Stopped(qs)

QueueKept(u, q, qs, mem, mem2, seen, told, idle) ==
  /\ NetQueueOK(u, q, qs, mem2, seen, told, idle)
  /\ Lent(u.layouts[q], qs, mem2) = Lent(u.layouts[q], qs, mem)
  /\ Back(u.layouts[q], qs, mem2, seen) = Back(u.layouts[q], qs, mem, seen)

LEMMA QueueUntouched ==
  ASSUME NEW u \in NetSetups, NEW q \in {Rx, Tx}, NEW qs, QueueOK(qs), NEW mem, NEW seen, NEW told, NEW idle,
         NetQueueOK(u, q, qs, mem, seen, told, idle),
         NEW mem2, \A c \in RingCells(u.layouts[q]) : mem2[c] = mem[c]
  PROVE  QueueKept(u, q, qs, mem, mem2, seen, told, idle)
<1> DEFINE l == u.layouts[q]
           heads == u.heads[q]
<1>1. SoundLayout(l) /\ qs.ready \in BOOLEAN /\ qs.last_avail \in Int
  <2>1. qs.ready \in BOOLEAN /\ qs.last_avail \in Int
    BY RingNumbers DEF QueueOK
  <2> QED
    BY <2>1, NetNumbers
<1>2. qs.ready => seen \in Int
  <2> SUFFICES ASSUME qs.ready PROVE seen \in Int
    OBVIOUS
  <2>1. PICK r, n \in Nat : InUse(l, qs, mem, heads, seen, r, n)
    BY DEF NetQueueOK
  <2>2. RingOK(l, mem, heads, seen, r, n)
    BY <2>1 DEF InUse
  <2> HIDE DEF l, heads
  <2>3. seen \in Nat
    BY <1>1, <2>2, RingIndices
  <2> QED
    BY <2>3
<1>3. /\ Lent(l, qs, mem2) = Lent(l, qs, mem) /\ Back(l, qs, mem2, seen) = Back(l, qs, mem, seen)
      /\ \A h, r, n : InUse(l, qs, mem, h, seen, r, n) => InUse(l, qs, mem2, h, seen, r, n)
  <2>1. \A c \in RingCells(l) : mem2[c] = mem[c]
    OBVIOUS
  <2> HIDE DEF l
  <2> QED
    BY <1>1, <1>2, <2>1, ViewSame
<1>4. NetQueueOK(u, q, qs, mem2, seen, told, idle)
  BY <1>3 DEF NetQueueOK
<1> QED
  BY <1>3, <1>4 DEF QueueKept

(* What serving queue q does to w.dev and w.mem, and what it leaves alone; *)
(* the driver, which has seen the used elements up to seen, will be told.  *)
NetWorked(u, q, w, x, seen, told) ==
  /\ x.completed \in BOOLEAN /\ (w.completed => x.completed)
  /\ NetDeviceOK(u, x.dev) /\ x.dev.interrupt_status = w.dev.interrupt_status
  /\ x.dev.regs.queue_sel = w.dev.regs.queue_sel /\ x.dev.queues[1 - q] = w.dev.queues[1 - q]
  /\ NetMemoryOK(u, x.mem) /\ \A c \in RingCells(u.layouts[1 - q]) : x.mem[c] = w.mem[c]
  /\ x.dev.queues[q].ready = w.dev.queues[q].ready
  /\ ~w.dev.queues[q].ready => x.dev.queues[q] = w.dev.queues[q] /\ x.mem = w.mem
  /\ NetQueueOK(u, q, x.dev.queues[q], x.mem, seen, told \/ x.completed, x.dev.pending = <<>>)
  /\ QueueStep(Lent(u.layouts[q], w.dev.queues[q], w.mem), Back(u.layouts[q], w.dev.queues[q], w.mem, seen),
               Lent(u.layouts[q], x.dev.queues[q], x.mem), Back(u.layouts[q], x.dev.queues[q], x.mem, seen))

\* The device after the loop.
DeviceAfter(dev, q, own, qs) ==
  [dev EXCEPT !.regs = own.regs, !.guest_header = own.guest_header, !.pending = own.pending, !.queues[q] = qs]

DeviceServed(u, q, dev, own, qs, dev2) ==
  /\ NetDeviceOK(u, dev2) /\ dev2.interrupt_status = dev.interrupt_status
  /\ dev2.regs.queue_sel = dev.regs.queue_sel /\ dev2.queues[1 - q] = dev.queues[1 - q]
  /\ dev2.queues[q] = qs /\ dev2.pending = own.pending

LEMMA ServedDevice ==
  ASSUME NEW u, NEW q \in {Rx, Tx}, NEW dev, NetDeviceOK(u, dev), NEW own, OwnOK(u, dev.regs.queue_sel, own),
         NEW qs, QueueOK(qs), NEW dev2, dev2 = DeviceAfter(dev, q, own, qs)
  PROVE  DeviceServed(u, q, dev, own, qs, dev2)
<1> DEFINE queues == [dev.queues EXCEPT ![q] = qs]
<1>1. /\ DOMAIN queues = {Rx, Tx} /\ queues[q] = qs /\ queues[1 - q] = dev.queues[1 - q]
      /\ \A k \in {Rx, Tx} : QueueOK(queues[k])
  <2>1. 1 - q # q
    BY DEF Rx, Tx
  <2> QED
    BY <2>1 DEF NetDeviceOK
<1>2. dev2 = [dev EXCEPT !.regs = own.regs, !.guest_header = own.guest_header, !.pending = own.pending, !.queues = queues]
  BY DEF DeviceAfter
<1> HIDE DEF queues
<1>3. /\ dev2.regs = own.regs /\ dev2.pending = own.pending /\ dev2.queues = queues
      /\ dev2.interrupt_status = dev.interrupt_status /\ dev2.told = dev.told /\ dev2.loopback = dev.loopback
      /\ DOMAIN dev2 = DOMAIN dev
  BY <1>2 DEF NetDeviceOK
<1> QED
  BY <1>1, <1>3 DEF NetDeviceOK, OwnOK, DeviceServed

\* What the device has when it starts to serve a queue.
LEMMA OwnStarts ==
  ASSUME NEW u, NEW dev, NetDeviceOK(u, dev)
  PROVE  OwnOK(u, dev.regs.queue_sel, Own(dev))
BY DEF NetDeviceOK, OwnOK, Own

\* The part of the loop's result that reaches the device.
ServedAs(w, q, done, x) ==
  /\ x.dev = DeviceAfter(w.dev, q, done.own, done.q) /\ x.mem = done.mem
  /\ x.completed = (w.completed \/ done.any_completed)

LEMMA ServedIs ==
  ASSUME NEW w, NEW q, NEW done, done = NetLoop(q, ActiveHeader(w.dev), w.dev.queues[q], w.mem, Own(w.dev)),
         NEW x, x = ServeQueue(w, q)
  PROVE  ServedAs(w, q, done, x)
<1> DEFINE dev == DeviceAfter(w.dev, q, done.own, done.q)
           sent == w.sent \o done.own.sent
           completed == w.completed \/ done.any_completed
<1>1. x = Served(w, q, done)
  BY Zenon DEF ServeQueue, With, NetLoop
<1>2. Served(w, q, done) = [dev |-> dev, mem |-> done.mem, sent |-> sent, completed |-> completed]
  BY DEF Served, DeviceAfter
<1> HIDE DEF dev, sent, completed
<1>3. x.dev = dev /\ x.mem = done.mem /\ x.completed = completed
  BY <1>1, <1>2
<1> QED
  BY <1>3 DEF ServedAs, dev, completed

\* What holds before queue q is served.
NetWorks(u, q, w, qs, seen, told) ==
  /\ w.completed \in BOOLEAN /\ told \in BOOLEAN /\ NetDeviceOK(u, w.dev) /\ NetMemoryOK(u, w.mem)
  /\ qs = w.dev.queues[q] /\ NetQueueOK(u, q, qs, w.mem, seen, told, TRUE)

LEMMA ReadyServed ==
  ASSUME NEW u \in NetSetups, NEW q \in {Rx, Tx}, NEW w, NEW qs, NEW seen, NEW told,
         NetWorks(u, q, w, qs, seen, told), qs.ready,
         NEW done, done = NetLoop(q, ActiveHeader(w.dev), qs, w.mem, Own(w.dev)),
         NEW x, ServedAs(w, q, done, x)
  PROVE  NetWorked(u, q, w, x, seen, told)
<1> DEFINE l == u.layouts[q]
           heads == u.heads[q]
           kept == NetKept(u, q)
           own == Own(w.dev)
           sel == w.dev.regs.queue_sel
           mem == w.mem
<1>1. /\ w.completed \in BOOLEAN /\ told \in BOOLEAN /\ NetDeviceOK(u, w.dev) /\ NetMemoryOK(u, w.mem)
      /\ qs = w.dev.queues[q] /\ NetQueueOK(u, q, qs, w.mem, seen, told, TRUE) /\ QueueOK(qs)
  BY DEF NetWorks, NetDeviceOK
<1>2. OwnOK(u, sel, own)
  BY <1>1, OwnStarts
<1>4. SoundLayout(l) /\ RingCells(u.layouts[1 - q]) \subseteq kept /\ TableCells(u.layouts[1 - q]) \subseteq kept
      /\ TableCells(l) \subseteq kept /\ AvailPart(l) \subseteq kept
  <2>1. SoundLayout(l) /\ Separate(kept, l)
    BY NetNumbers
  <2>2. RingCells(u.layouts[1 - q]) \subseteq kept /\ TableCells(u.layouts[1 - q]) \subseteq kept
    BY NetNumbers
  <2> QED
    BY <2>1, <2>2 DEF Separate
<1>5. PICK r, n \in Nat : InUse(l, qs, mem, heads, seen, r, n) /\ (r # 0 => told)
  BY <1>1 DEF NetQueueOK
<1>6. NetServed(u, q, sel, mem, seen, r, n, done)
  <2> DEFINE hdr == ActiveHeader(w.dev)
  <2>1. InUse(u.layouts[q], qs, mem, u.heads[q], seen, r, n) /\ NetMemoryOK(u, mem)
    BY <1>1, <1>5
  <2>2. done = NetLoop(q, hdr, qs, mem, own)
    BY <1>1
  <2> HIDE DEF mem, own, sel, hdr
  <2>3. NetServed(u, q, sel, mem, seen, r, n, NetLoop(q, hdr, qs, mem, own))
    BY <1>2, <2>1, NetServes
  <2> QED
    BY <2>2, <2>3
<1>7. PICK p \in r .. n : NetTurned(u, q, sel, mem, seen, r, n, done, p) /\ (p = n \/ done.stop)
  BY <1>6 DEF NetServed
<1>8. /\ Turned(done, l, kept, mem, heads, seen, r, n, p) /\ OwnOK(u, sel, done.own)
      /\ q = Rx /\ Roomy(u) /\ done.stop => done.own.pending = <<>>
  BY <1>7 DEF NetTurned
<1>9. /\ done.any_completed = (r < p) /\ Aligned(done.q, l)
      /\ done.q.last_avail = (seen + p) % IndexModulus /\ done.q.used_idx = (seen + p) % IndexModulus
      /\ Kept(kept, mem, done.mem) /\ RingOK(l, done.mem, heads, seen, p, n)
  BY <1>8 DEF Turned
<1>10. QueueOK(done.q) /\ done.q.ready
  BY <1>4, <1>9, AlignedIsOK
<1>11. /\ NetDeviceOK(u, x.dev) /\ x.dev.interrupt_status = w.dev.interrupt_status
       /\ x.dev.regs.queue_sel = w.dev.regs.queue_sel /\ x.dev.queues[1 - q] = w.dev.queues[1 - q]
       /\ x.dev.queues[q] = done.q /\ x.dev.pending = done.own.pending
  <2> DEFINE dev == w.dev
             own2 == done.own
             qs2 == done.q
             dev2 == x.dev
  <2>1. NetDeviceOK(u, dev) /\ OwnOK(u, dev.regs.queue_sel, own2) /\ QueueOK(qs2)
        /\ dev2 = DeviceAfter(dev, q, own2, qs2)
    BY <1>1, <1>8, <1>10 DEF ServedAs
  <2> HIDE DEF dev, own2, qs2, dev2
  <2>2. DeviceServed(u, q, dev, own2, qs2, dev2)
    BY <2>1, ServedDevice
  <2> QED
    BY <2>2 DEF dev, own2, qs2, dev2, DeviceServed
<1>12. NetMemoryOK(u, x.mem) /\ (\A c \in RingCells(u.layouts[1 - q]) : x.mem[c] = w.mem[c])
       /\ \A c \in AvailPart(l) : x.mem[c] = w.mem[c]
  <2>1. \A o \in {Rx, Tx} : TableCells(u.layouts[o]) \subseteq kept
    BY <1>4 DEF Rx, Tx
  <2> DEFINE mem2 == x.mem
  <2>2. Kept(kept, mem, mem2)
    BY <1>9 DEF ServedAs
  <2> HIDE DEF kept, l, mem, mem2
  <2>3. NetMemoryOK(u, mem)
    BY <1>1 DEF mem
  <2>4. NetMemoryOK(u, mem2)
    BY <2>1, <2>2, <2>3 DEF NetMemoryOK, Kept
  <2>5. \A c \in kept : mem2[c] = mem[c]
    BY <2>2 DEF Kept
  <2>6. (\A c \in RingCells(u.layouts[1 - q]) : mem2[c] = mem[c]) /\ \A c \in AvailPart(l) : mem2[c] = mem[c]
    BY <1>4, <2>5
  <2> QED
    BY <2>4, <2>6 DEF mem, mem2
<1>13. InUse(l, x.dev.queues[q], x.mem, heads, seen, p, n)
  BY <1>9, <1>11 DEF InUse, ServedAs
<1>14. p \in Nat /\ r <= p /\ (r < p \/ (p # 0 => r # 0))
  BY <1>7
<1>15. (p # 0 => told \/ x.completed) /\ x.completed \in BOOLEAN /\ (w.completed => x.completed)
  <2>1. x.completed = (w.completed \/ r < p)
    BY <1>9 DEF ServedAs
  <2> QED
    BY <1>1, <1>5, <1>14, <2>1
<1>16. q = Rx /\ Roomy(u) /\ ~(x.dev.pending = <<>>) => p = n
  BY <1>7, <1>8, <1>11
<1>17. NetQueueOK(u, q, x.dev.queues[q], x.mem, seen, told \/ x.completed, x.dev.pending = <<>>)
  <2> DEFINE t2 == told \/ x.completed
             idle == x.dev.pending = <<>>
             q2 == x.dev.queues[q]
             m2 == x.mem
  <2>1. /\ InUse(u.layouts[q], q2, m2, u.heads[q], seen, p, n) /\ p \in Nat /\ n \in Nat /\ q2.ready
        /\ (p # 0 => t2) /\ (q = Rx /\ Roomy(u) /\ ~idle => p = n)
    BY <1>5, <1>10, <1>11, <1>13, <1>14, <1>15, <1>16
  <2> HIDE DEF t2, idle, q2, m2
  <2>2. NetQueueOK(u, q, q2, m2, seen, t2, idle)
    BY <2>1 DEF NetQueueOK
  <2> QED
    BY <2>2 DEF t2, idle, q2, m2
<1>18. QueueStep(Lent(l, qs, mem), Back(l, qs, mem, seen),
                 Lent(l, x.dev.queues[q], x.mem), Back(l, x.dev.queues[q], x.mem, seen))
  <2> DEFINE q2 == x.dev.queues[q]
             mem2 == x.mem
  <2>1. /\ InUse(l, qs, mem, heads, seen, r, n) /\ InUse(l, q2, mem2, heads, seen, p, n) /\ r <= p
        /\ \A c \in AvailPart(l) : mem2[c] = mem[c]
    BY <1>5, <1>12, <1>13, <1>14
  <2> HIDE DEF q2, mem, mem2, l, heads
  <2>2. QueueStep(Lent(l, qs, mem), Back(l, qs, mem, seen), Lent(l, q2, mem2), Back(l, q2, mem2, seen))
    BY <1>4, <2>1, UseReturn
  <2> QED
    BY <2>2 DEF q2, mem2
<1>19. x.dev.queues[q].ready = w.dev.queues[q].ready /\ w.dev.queues[q].ready
  BY <1>1, <1>10, <1>11 DEF QueueOK
<1> QED
  BY <1>1, <1>11, <1>12, <1>15, <1>17, <1>18, <1>19 DEF NetWorked

LEMMA StoppedServed ==
  ASSUME NEW u \in NetSetups, NEW q \in {Rx, Tx}, NEW w, NEW qs, NEW seen, NEW told,
         NetWorks(u, q, w, qs, seen, told), ~qs.ready,
         NEW done, done = NetLoop(q, ActiveHeader(w.dev), qs, w.mem, Own(w.dev)),
         NEW x, ServedAs(w, q, done, x)
  PROVE  NetWorked(u, q, w, x, seen, told)
<1> DEFINE own == Own(w.dev)
           l == u.layouts[q]
<1>a. /\ w.completed \in BOOLEAN /\ told \in BOOLEAN /\ NetDeviceOK(u, w.dev) /\ NetMemoryOK(u, w.mem)
      /\ qs = w.dev.queues[q] /\ NetQueueOK(u, q, qs, w.mem, seen, told, TRUE) /\ QueueOK(qs)
  BY DEF NetWorks, NetDeviceOK
<1>1. done = LoopStart(qs, w.mem, own)
  <2>1. ~Usable(qs)
    BY DEF Usable
  <2> QED
    BY <2>1 DEF NetLoop, ServeRing, LoopStart
<1>2. done.q = qs /\ done.mem = w.mem /\ done.own = own /\ ~done.any_completed
  BY <1>1 DEF LoopStart
<1>3. OwnOK(u, w.dev.regs.queue_sel, own)
  BY <1>a, OwnStarts
<1>4. /\ NetDeviceOK(u, x.dev) /\ x.dev.interrupt_status = w.dev.interrupt_status
      /\ x.dev.regs.queue_sel = w.dev.regs.queue_sel /\ x.dev.queues[1 - q] = w.dev.queues[1 - q]
      /\ x.dev.queues[q] = qs
  <2> DEFINE dev == w.dev
             own2 == done.own
             dev2 == x.dev
  <2>1. NetDeviceOK(u, dev) /\ OwnOK(u, dev.regs.queue_sel, own2) /\ QueueOK(qs)
        /\ dev2 = DeviceAfter(dev, q, own2, qs)
    BY <1>a, <1>2, <1>3 DEF ServedAs
  <2> HIDE DEF dev, own2, dev2
  <2>2. DeviceServed(u, q, dev, own2, qs, dev2)
    BY <2>1, ServedDevice
  <2> QED
    BY <2>2 DEF dev, own2, dev2, DeviceServed
<1>5. x.mem = w.mem /\ x.completed = w.completed
  BY <1>a, <1>2 DEF ServedAs
<1>6. NetQueueOK(u, q, x.dev.queues[q], x.mem, seen, told \/ x.completed, x.dev.pending = <<>>)
  BY <1>a, <1>4 DEF NetQueueOK
<1>7. QueueStep(Lent(l, qs, w.mem), Back(l, qs, w.mem, seen),
                Lent(l, x.dev.queues[q], x.mem), Back(l, x.dev.queues[q], x.mem, seen))
  BY <1>a, <1>4, <1>5 DEF QueueStep
<1> QED
  BY <1>a, <1>4, <1>5, <1>6, <1>7 DEF NetWorked

LEMMA QueueServed ==
  ASSUME NEW u \in NetSetups, NEW q \in {Rx, Tx}, NEW w, NEW seen, NEW told,
         NetWorks(u, q, w, w.dev.queues[q], seen, told), NEW x, x = ServeQueue(w, q)
  PROVE  NetWorked(u, q, w, x, seen, told)
<1> DEFINE qs == w.dev.queues[q]
           done == NetLoop(q, ActiveHeader(w.dev), qs, w.mem, Own(w.dev))
<1>1. ServedAs(w, q, done, x)
  BY ServedIs
<1>2. NetWorks(u, q, w, qs, seen, told)
  OBVIOUS
<1>3. done = NetLoop(q, ActiveHeader(w.dev), qs, w.mem, Own(w.dev))
  OBVIOUS
<1> HIDE DEF done, qs
<1>4. CASE qs.ready
  BY <1>1, <1>2, <1>3, <1>4, ReadyServed
<1>5. CASE ~qs.ready
  BY <1>1, <1>2, <1>3, <1>5, StoppedServed
<1> QED
  BY <1>4, <1>5

\* Both queues, and what a driver sees of one.
QueuesOK(u, dev, mem, seen, told, idle) ==
  \A k \in {Rx, Tx} : NetQueueOK(u, k, dev.queues[k], mem, seen[k], told, idle)

LentIn(u, k, dev, mem) == Lent(u.layouts[k], dev.queues[k], mem)
BackIn(u, k, dev, mem, seen) == Back(u.layouts[k], dev.queues[k], mem, seen[k])

\* A step that starts and stops no queue, and leaves a stopped one alone.
Calm(u, k, dev, mem, dev2, mem2) ==
  /\ dev2.queues[k].ready = dev.queues[k].ready
  /\ ~dev.queues[k].ready => /\ dev2.queues[k] = dev.queues[k]
                             /\ \A c \in RingCells(u.layouts[k]) : mem2[c] = mem[c]

Stepped(u, k, dev, mem, dev2, mem2, seen) ==
  QueueStep(LentIn(u, k, dev, mem), BackIn(u, k, dev, mem, seen),
            LentIn(u, k, dev2, mem2), BackIn(u, k, dev2, mem2, seen))

Unseen(u, k, dev, mem, dev2, mem2, seen) ==
  LentIn(u, k, dev2, mem2) = LentIn(u, k, dev, mem) /\ BackIn(u, k, dev2, mem2, seen) = BackIn(u, k, dev, mem, seen)

\* What serving queue q, or leaving it, does to w.
Rounded(u, q, w, x, seen, told) ==
  /\ x.completed \in BOOLEAN /\ (w.completed => x.completed)
  /\ NetDeviceOK(u, x.dev) /\ x.dev.interrupt_status = w.dev.interrupt_status
  /\ x.dev.regs.queue_sel = w.dev.regs.queue_sel /\ NetMemoryOK(u, x.mem)
  /\ QueuesOK(u, x.dev, x.mem, seen, told \/ x.completed, x.dev.pending = <<>> \/ q = Tx)
  /\ \A k \in {Rx, Tx} : Calm(u, k, w.dev, w.mem, x.dev, x.mem)
  /\ Stepped(u, q, w.dev, w.mem, x.dev, x.mem, seen) /\ Unseen(u, 1 - q, w.dev, w.mem, x.dev, x.mem, seen)

Rounds(u, w, seen, told) ==
  /\ w.completed \in BOOLEAN /\ told \in BOOLEAN /\ NetDeviceOK(u, w.dev) /\ NetMemoryOK(u, w.mem)
  /\ QueuesOK(u, w.dev, w.mem, seen, told, TRUE)

LEMMA QueueRounded ==
  ASSUME NEW u \in NetSetups, NEW q \in {Rx, Tx}, NEW w, NEW seen, NEW told, Rounds(u, w, seen, told),
         NEW x, x = ServeQueue(w, q)
  PROVE  Rounded(u, q, w, x, seen, told)
<1> DEFINE o == 1 - q
           told2 == told \/ x.completed
           idle == x.dev.pending = <<>>
           idle2 == idle \/ q = Tx
<1>1. o \in {Rx, Tx} /\ q # o /\ (\A k \in {Rx, Tx} : k = q \/ k = o) /\ 1 - q = o
  BY DEF Rx, Tx
<1>2. /\ w.completed \in BOOLEAN /\ told \in BOOLEAN /\ NetDeviceOK(u, w.dev) /\ NetMemoryOK(u, w.mem)
      /\ \A k \in {Rx, Tx} : NetQueueOK(u, k, w.dev.queues[k], w.mem, seen[k], told, TRUE)
  BY DEF Rounds, QueuesOK
<1>3. NetWorked(u, q, w, x, seen[q], told)
  <2> DEFINE s == seen[q]
  <2>1. NetWorks(u, q, w, w.dev.queues[q], s, told)
    BY <1>2 DEF NetWorks
  <2> HIDE DEF s
  <2>2. NetWorked(u, q, w, x, s, told)
    BY <2>1, QueueServed
  <2> QED
    BY <2>2 DEF s
<1> HIDE DEF o
<1>4. /\ x.completed \in BOOLEAN /\ (w.completed => x.completed)
      /\ NetDeviceOK(u, x.dev) /\ x.dev.interrupt_status = w.dev.interrupt_status
      /\ x.dev.regs.queue_sel = w.dev.regs.queue_sel /\ x.dev.queues[o] = w.dev.queues[o]
      /\ NetMemoryOK(u, x.mem) /\ \A c \in RingCells(u.layouts[o]) : x.mem[c] = w.mem[c]
  BY <1>1, <1>3 DEF NetWorked
<1>5. /\ x.dev.queues[q].ready = w.dev.queues[q].ready
      /\ ~w.dev.queues[q].ready => x.dev.queues[q] = w.dev.queues[q] /\ x.mem = w.mem
      /\ NetQueueOK(u, q, x.dev.queues[q], x.mem, seen[q], told2, idle)
      /\ Stepped(u, q, w.dev, w.mem, x.dev, x.mem, seen)
  BY <1>3 DEF NetWorked, Stepped, LentIn, BackIn
<1>6. /\ NetQueueOK(u, o, x.dev.queues[o], x.mem, seen[o], told2, TRUE)
      /\ Unseen(u, o, w.dev, w.mem, x.dev, x.mem, seen)
  <2> DEFINE qs == w.dev.queues[o]
             mem == w.mem
             mem2 == x.mem
             s == seen[o]
  <2>1. /\ QueueOK(qs) /\ NetQueueOK(u, o, qs, mem, s, told, TRUE)
        /\ \A c \in RingCells(u.layouts[o]) : mem2[c] = mem[c]
    BY <1>1, <1>2, <1>4 DEF NetDeviceOK
  <2> HIDE DEF qs, mem, mem2, s
  <2>2. QueueKept(u, o, qs, mem, mem2, s, told, TRUE)
    BY <1>1, <2>1, QueueUntouched
  <2>3. told => told2
    OBVIOUS
  <2> HIDE DEF told2
  <2>4. NetQueueOK(u, o, qs, mem2, s, told2, TRUE)
    BY <2>2, <2>3 DEF QueueKept, NetQueueOK
  <2> QED
    BY <1>4, <2>2, <2>4 DEF qs, mem, mem2, s, QueueKept, Unseen, LentIn, BackIn
<1>7. ASSUME NEW k \in {Rx, Tx} PROVE NetQueueOK(u, k, x.dev.queues[k], x.mem, seen[k], told2, idle2)
  <2>1. CASE k = q
    <3>1. idle => idle2
      OBVIOUS
    <3> HIDE DEF told2, idle, idle2
    <3> QED
      BY <1>5, <2>1, <3>1 DEF NetQueueOK
  <2>2. CASE k = o
    <3>1. k = Rx => idle2
      BY <1>1, <2>2 DEF Rx, Tx
    <3> HIDE DEF told2, idle, idle2
    <3> QED
      BY <1>6, <2>2, <3>1 DEF NetQueueOK
  <2> QED
    BY <1>1, <2>1, <2>2
<1>8. \A k \in {Rx, Tx} : Calm(u, k, w.dev, w.mem, x.dev, x.mem)
  BY <1>1, <1>4, <1>5 DEF Calm
<1>9. QueuesOK(u, x.dev, x.mem, seen, told \/ x.completed, x.dev.pending = <<>> \/ q = Tx)
  BY <1>7 DEF QueuesOK
<1> QED
  BY <1>1, <1>4, <1>5, <1>6, <1>8, <1>9 DEF Rounded

LEMMA RxRounded ==
  ASSUME NEW u \in NetSetups, NEW w, NEW seen, NEW told, Rounds(u, w, seen, told), NEW x, x = ProcessRx(w)
  PROVE  Rounded(u, Rx, w, x, seen, told)
<1>1. CASE w.dev.pending = <<>>
  <2>1. x = w
    BY <1>1 DEF ProcessRx
  <2>2. /\ w.completed \in BOOLEAN /\ told \in BOOLEAN /\ NetDeviceOK(u, w.dev) /\ NetMemoryOK(u, w.mem)
        /\ \A k \in {Rx, Tx} : NetQueueOK(u, k, w.dev.queues[k], w.mem, seen[k], told, TRUE)
    BY DEF Rounds, QueuesOK
  <2>3. QueuesOK(u, x.dev, x.mem, seen, told \/ x.completed, x.dev.pending = <<>> \/ Rx = Tx)
    <3> DEFINE told2 == told \/ x.completed
               idle2 == x.dev.pending = <<>> \/ Rx = Tx
    <3>1. (told => told2) /\ idle2
      BY <1>1, <2>1
    <3> HIDE DEF told2, idle2
    <3>2. QueuesOK(u, x.dev, x.mem, seen, told2, idle2)
      BY <2>1, <2>2, <3>1 DEF QueuesOK, NetQueueOK
    <3> QED
      BY <3>2 DEF told2, idle2
  <2>4. \A k \in {Rx, Tx} : Calm(u, k, w.dev, w.mem, x.dev, x.mem)
    BY <2>1 DEF Calm
  <2>5. /\ Stepped(u, Rx, w.dev, w.mem, x.dev, x.mem, seen)
        /\ Unseen(u, 1 - Rx, w.dev, w.mem, x.dev, x.mem, seen)
    BY <2>1 DEF Stepped, Unseen, QueueStep
  <2> QED
    BY <2>1, <2>2, <2>3, <2>4, <2>5 DEF Rounded
<1>2. CASE w.dev.pending # <<>>
  <2>1. x = ServeQueue(w, Rx)
    BY <1>2 DEF ProcessRx
  <2> QED
    BY <2>1, QueueRounded
<1> QED
  BY <1>1, <1>2

\* What a notification, or a frame from the host, does to w.
Processed(u, w, x, seen, told) ==
  /\ x.completed \in BOOLEAN
  /\ NetDeviceOK(u, x.dev) /\ x.dev.interrupt_status = w.dev.interrupt_status
  /\ x.dev.regs.queue_sel = w.dev.regs.queue_sel /\ NetMemoryOK(u, x.mem)
  /\ QueuesOK(u, x.dev, x.mem, seen, told \/ x.completed, x.dev.pending = <<>>)
  /\ \A k \in {Rx, Tx} : /\ Calm(u, k, w.dev, w.mem, x.dev, x.mem)
                         /\ Stepped(u, k, w.dev, w.mem, x.dev, x.mem, seen)

LEMMA UnseenStep ==
  ASSUME NEW u, NEW k, NEW dev, NEW mem, NEW dev2, NEW mem2, NEW seen, Unseen(u, k, dev, mem, dev2, mem2, seen)
  PROVE  Stepped(u, k, dev, mem, dev2, mem2, seen)
BY DEF Unseen, Stepped, QueueStep

LEMMA RxProcessed ==
  ASSUME NEW u \in NetSetups, NEW w, NEW seen, NEW told, Rounds(u, w, seen, told), NEW x, x = ProcessRx(w)
  PROVE  Processed(u, w, x, seen, told)
<1>1. Rounded(u, Rx, w, x, seen, told)
  BY RxRounded
<1>2. /\ x.completed \in BOOLEAN /\ NetDeviceOK(u, x.dev) /\ x.dev.interrupt_status = w.dev.interrupt_status
      /\ x.dev.regs.queue_sel = w.dev.regs.queue_sel /\ NetMemoryOK(u, x.mem)
      /\ \A k \in {Rx, Tx} : Calm(u, k, w.dev, w.mem, x.dev, x.mem)
  BY <1>1 DEF Rounded
<1>3. QueuesOK(u, x.dev, x.mem, seen, told \/ x.completed, x.dev.pending = <<>>)
  <2> DEFINE told2 == told \/ x.completed
             idle == x.dev.pending = <<>> \/ Rx = Tx
             idle2 == x.dev.pending = <<>>
  <2>1. QueuesOK(u, x.dev, x.mem, seen, told2, idle)
    BY <1>1 DEF Rounded
  <2>2. idle => idle2
    BY DEF Rx, Tx
  <2> HIDE DEF told2, idle, idle2
  <2>3. QueuesOK(u, x.dev, x.mem, seen, told2, idle2)
    BY <2>1, <2>2 DEF QueuesOK, NetQueueOK
  <2> QED
    BY <2>3 DEF told2, idle2
<1>4. Stepped(u, Rx, w.dev, w.mem, x.dev, x.mem, seen) /\ Unseen(u, Tx, w.dev, w.mem, x.dev, x.mem, seen)
  <2>1. 1 - Rx = Tx
    BY DEF Rx, Tx
  <2> QED
    BY <1>1, <2>1 DEF Rounded
<1>5. \A k \in {Rx, Tx} : Stepped(u, k, w.dev, w.mem, x.dev, x.mem, seen)
  BY <1>4, UnseenStep
<1> QED
  BY <1>2, <1>3, <1>5 DEF Processed

LEMMA TxProcessed ==
  ASSUME NEW u \in NetSetups, NEW w, NEW seen, NEW told, Rounds(u, w, seen, told),
         NEW y, y = ProcessTx(w), NEW x, x = ProcessRx(y)
  PROVE  Processed(u, w, x, seen, told)
<1> DEFINE told1 == told \/ y.completed
<1>1. Rounded(u, Tx, w, y, seen, told)
  BY QueueRounded DEF ProcessTx
<1>2. /\ y.completed \in BOOLEAN /\ NetDeviceOK(u, y.dev) /\ y.dev.interrupt_status = w.dev.interrupt_status
      /\ y.dev.regs.queue_sel = w.dev.regs.queue_sel /\ NetMemoryOK(u, y.mem)
      /\ \A k \in {Rx, Tx} : Calm(u, k, w.dev, w.mem, y.dev, y.mem)
      /\ QueuesOK(u, y.dev, y.mem, seen, told1, y.dev.pending = <<>> \/ Tx = Tx)
      /\ Stepped(u, Tx, w.dev, w.mem, y.dev, y.mem, seen)
      /\ Unseen(u, 1 - Tx, w.dev, w.mem, y.dev, y.mem, seen)
  BY <1>1 DEF Rounded
<1>3. Rounds(u, y, seen, told1)
  <2>1. told1 \in BOOLEAN
    BY <1>2 DEF Rounds
  <2> DEFINE idle == y.dev.pending = <<>> \/ Tx = Tx
  <2>2. QueuesOK(u, y.dev, y.mem, seen, told1, idle) /\ idle
    BY <1>2
  <2> HIDE DEF told1, idle
  <2>3. QueuesOK(u, y.dev, y.mem, seen, told1, TRUE)
    BY <2>2 DEF QueuesOK, NetQueueOK
  <2> QED
    BY <1>2, <2>1, <2>3 DEF Rounds
<1>4. Rounded(u, Rx, y, x, seen, told1)
  <2> HIDE DEF told1
  <2> QED
    BY <1>3, RxRounded
<1>5. Processed(u, y, x, seen, told1)
  <2> HIDE DEF told1
  <2> QED
    BY <1>3, RxProcessed
<1>6. /\ x.completed \in BOOLEAN /\ (y.completed => x.completed)
      /\ NetDeviceOK(u, x.dev) /\ x.dev.interrupt_status = y.dev.interrupt_status
      /\ x.dev.regs.queue_sel = y.dev.regs.queue_sel /\ NetMemoryOK(u, x.mem)
      /\ \A k \in {Rx, Tx} : Calm(u, k, y.dev, y.mem, x.dev, x.mem)
      /\ Stepped(u, Rx, y.dev, y.mem, x.dev, x.mem, seen)
      /\ Unseen(u, 1 - Rx, y.dev, y.mem, x.dev, x.mem, seen)
  BY <1>4 DEF Rounded
<1>7. QueuesOK(u, x.dev, x.mem, seen, told \/ x.completed, x.dev.pending = <<>>)
  <2> DEFINE told2 == told1 \/ x.completed
             told3 == told \/ x.completed
             idle == x.dev.pending = <<>>
  <2>1. QueuesOK(u, x.dev, x.mem, seen, told2, idle)
    BY <1>5 DEF Processed
  <2>2. told2 => told3
    BY <1>6
  <2> HIDE DEF told2, told3, idle
  <2>3. QueuesOK(u, x.dev, x.mem, seen, told3, idle)
    BY <2>1, <2>2 DEF QueuesOK, NetQueueOK
  <2> QED
    BY <2>3 DEF told3, idle
<1>8. 1 - Tx = Rx /\ 1 - Rx = Tx
  BY DEF Rx, Tx
<1>9. Stepped(u, Rx, w.dev, w.mem, x.dev, x.mem, seen) /\ Stepped(u, Tx, w.dev, w.mem, x.dev, x.mem, seen)
  BY <1>2, <1>6, <1>8 DEF Stepped, Unseen
<1>10. \A k \in {Rx, Tx} : Calm(u, k, w.dev, w.mem, x.dev, x.mem)
  BY <1>2, <1>6 DEF Calm
<1> QED
  BY <1>2, <1>6, <1>7, <1>9, <1>10 DEF Processed

-----------------------------------------------------------------------------
(* The network driver's script                                             *)

\* The write that starts queue q, and the one that stops it.
StartAt(c, q) == Len(c) - 9 + 9 * q
StopAt(c, q) == IF c[1][1] = "Status" THEN 1 ELSE 4 - 2 * q
StopsBy(c) == IF c[1][1] = "Status" THEN 1 ELSE 4
Emptied(c, pc) == \E k \in 1 .. pc - 1 : c[k][1] = "EmptyRings"

NetScriptOK(c, layouts) ==
  /\ Len(c) \in Nat /\ StopsBy(c) \in {1, 4} /\ Len(c) >= StopsBy(c) + 19
  /\ \A k \in 1 .. Len(c) : c[k][2] \in Nat
  /\ StopsBy(c) = 1 => c[1] = <<"Status", 0>>
  /\ StopsBy(c) = 4 => /\ c[1] = <<"QueueSel", Tx>> /\ c[2] = <<"QueueReady", 0>>
                       /\ c[3] = <<"QueueSel", Rx>> /\ c[4] = <<"QueueReady", 0>>
  /\ \A k \in StopsBy(c) + 1 .. Len(c) - 18 : c[k][1] # "QueueReady"
  /\ \E k \in StopsBy(c) + 1 .. Len(c) - 18 : c[k][1] = "EmptyRings"
  /\ \A q \in {Rx, Tx}, k \in 1 .. 9 : c[Len(c) - 18 + 9 * q + k] = Program(q, layouts[q])[k]

LEMMA NetScriptIs ==
  ASSUME NEW c, NEW layouts, SoundNetScript(c, layouts)
  PROVE  NetScriptOK(c, layouts)
<1>1. c \in Seq(STRING \X Nat) /\ Len(c) \in Nat
  BY DEF SoundNetScript
<1>2. \A k \in 1 .. Len(c) : c[k] \in STRING \X Nat
  BY <1>1
<1> DEFINE start == Len(c) - 2 * ProgramLength
<1>3. start = Len(c) - 18 /\ \A q : q * ProgramLength = q * 9
  BY <1>1 DEF ProgramLength
<1>4. PICK stop \in NetStops :
        /\ \A k \in DOMAIN stop : c[k] = stop[k]
        /\ \A k \in (Len(stop) + 1)..start : c[k][1] # "QueueReady"
        /\ \E k \in (Len(stop) + 1)..start : c[k][1] = "EmptyRings"
  BY DEF SoundNetScript
<1>5. \A q \in {Rx, Tx}, k \in 1 .. 9 : c[Len(c) - 18 + 9 * q + k] = Program(q, layouts[q])[k]
  <2>1. \A q \in {Rx, Tx}, k \in 1 .. ProgramLength : c[start + q * ProgramLength + k] = Program(q, layouts[q])[k]
    BY DEF SoundNetScript
  <2> TAKE q \in {Rx, Tx}, k \in 1 .. 9
  <2>2. c[start + q * ProgramLength + k] = Program(q, layouts[q])[k]
    BY <2>1 DEF ProgramLength
  <2>3. start + q * ProgramLength + k = Len(c) - 18 + 9 * q + k
    BY <1>1, <1>3 DEF Rx, Tx
  <2> QED
    BY <2>2, <2>3
<1>6. \/ /\ Len(stop) = 1 /\ c[1] = <<"Status", 0>>
      \/ /\ Len(stop) = 4 /\ c[1] = <<"QueueSel", Tx>> /\ c[2] = <<"QueueReady", 0>>
         /\ c[3] = <<"QueueSel", Rx>> /\ c[4] = <<"QueueReady", 0>>
  <2>1. CASE stop = <<<<"Status", 0>>>>
    <3>1. Len(stop) = 1 /\ 1 \in DOMAIN stop /\ stop[1] = <<"Status", 0>>
      BY <2>1
    <3> QED
      BY <1>4, <3>1
  <2>2. CASE stop = <<<<"QueueSel", Tx>>, <<"QueueReady", 0>>, <<"QueueSel", Rx>>, <<"QueueReady", 0>>>>
    <3>1. /\ Len(stop) = 4 /\ {1, 2, 3, 4} \subseteq DOMAIN stop /\ stop[1] = <<"QueueSel", Tx>>
          /\ stop[2] = <<"QueueReady", 0>> /\ stop[3] = <<"QueueSel", Rx>> /\ stop[4] = <<"QueueReady", 0>>
      BY <2>2
    <3> QED
      BY <1>4, <3>1
  <2> QED
    BY <2>1, <2>2 DEF NetStops
<1>7. StopsBy(c) = Len(stop) /\ StopsBy(c) \in {1, 4}
  BY <1>6 DEF StopsBy
<1>8. \A k \in 1 .. Len(c) : c[k][2] \in Nat
  BY <1>2
<1>9. /\ \A k \in StopsBy(c) + 1 .. Len(c) - 18 : c[k][1] # "QueueReady"
      /\ \E k \in StopsBy(c) + 1 .. Len(c) - 18 : c[k][1] = "EmptyRings"
  BY <1>3, <1>4, <1>7
<1>10. Len(c) >= StopsBy(c) + 19
  BY <1>1, <1>7, <1>9
<1>11. /\ StopsBy(c) = 1 => c[1] = <<"Status", 0>>
       /\ StopsBy(c) = 4 => /\ c[1] = <<"QueueSel", Tx>> /\ c[2] = <<"QueueReady", 0>>
                            /\ c[3] = <<"QueueSel", Rx>> /\ c[4] = <<"QueueReady", 0>>
  <2>1. (StopsBy(c) = 1 => Len(stop) # 4) /\ (StopsBy(c) = 4 => Len(stop) # 1)
    BY <1>7
  <2> QED
    BY <1>6, <2>1, Zenon
<1> QED
  BY <1>1, <1>5, <1>7, <1>8, <1>9, <1>10, <1>11 DEF NetScriptOK

\* Where the script c is at pc, queue q is what the writes so far made of it.
ScriptAt(u, q, c, pc, sel, qs, seen, mem) ==
  /\ pc > StartAt(c, q) => qs.ready
  /\ pc > StopAt(c, q) /\ pc <= StartAt(c, q) => ~qs.ready
  /\ Emptied(c, pc) /\ pc <= StartAt(c, q) => seen = 0 /\ \A x \in RingCells(u.layouts[q]) : mem[x] = 0
  /\ \A j \in 0 .. 8 : pc = StartAt(c, q) - 8 + j => Programmed(j, sel, qs, q, u.layouts[q])
  /\ c[1][1] # "Status" /\ pc = StopAt(c, q) => sel = q

NetDriverOK(u, d) ==
  /\ d = [script |-> d.script, pc |-> d.pc, acked |-> d.acked, seen |-> d.seen, kick |-> d.kick]
  /\ d.script \in DOMAIN u.scripts /\ d.pc \in 1 .. Len(u.scripts[d.script]) + 1 /\ d.acked \in BOOLEAN
  /\ d.seen \in [{Rx, Tx} -> 0 .. IndexModulus - 1] /\ d.kick \in [{Rx, Tx} -> BOOLEAN]

(* The invariant: what has come back is told to the driver, and where a    *)
(* frame waits a roomy queue has nothing left but what was not notified.   *)
NetOK(u, dev, mem, d) ==
  /\ NetMemoryOK(u, mem) /\ NetDeviceOK(u, dev) /\ NetDriverOK(u, d)
  /\ QueuesOK(u, dev, mem, d.seen, dev.interrupt_status # 0 \/ d.acked, dev.pending = <<>> \/ d.kick[Rx])
  /\ \A q \in {Rx, Tx} : ScriptAt(u, q, u.scripts[d.script], d.pc, dev.regs.queue_sel, dev.queues[q], d.seen[q], mem)

NetInv == net_setup \in NetSetups /\ NetOK(net_setup, net, net_mem, net_driver)

ViewStep(u, k, dev, mem, seen, dev2, mem2, seen2) ==
  QueueStep(LentIn(u, k, dev, mem), BackIn(u, k, dev, mem, seen),
            LentIn(u, k, dev2, mem2), BackIn(u, k, dev2, mem2, seen2))

\* The step keeps the invariant, and is one of each queue or none.
NetGoes(u, dev, mem, d, dev2, mem2, d2) ==
  NetOK(u, dev2, mem2, d2) /\ \A k \in {Rx, Tx} : ViewStep(u, k, dev, mem, d.seen, dev2, mem2, d2.seen)

LEMMA ScriptNumbers ==
  ASSUME NEW c, NEW layouts, NetScriptOK(c, layouts)
  PROVE  /\ Len(c) \in Nat /\ StopsBy(c) \in {1, 4} /\ Len(c) >= StopsBy(c) + 19
         /\ StartAt(c, Rx) = Len(c) - 9 /\ StartAt(c, Tx) = Len(c)
         /\ \A q \in {Rx, Tx} : StopAt(c, q) \in 1 .. StopsBy(c)
         /\ \A pc \in Nat : Emptied(c, pc) => pc > StopsBy(c) + 1
<1>1. Len(c) \in Nat /\ StopsBy(c) \in {1, 4} /\ Len(c) >= StopsBy(c) + 19
  BY DEF NetScriptOK
<1>2. StartAt(c, Rx) = Len(c) - 9 /\ StartAt(c, Tx) = Len(c)
  BY <1>1 DEF StartAt, Rx, Tx
<1>3. \A q \in {Rx, Tx} : StopAt(c, q) \in 1 .. StopsBy(c)
  BY DEF StopAt, StopsBy, Rx, Tx
<1>4. \A k \in 1 .. StopsBy(c) : c[k][1] # "EmptyRings"
  <2>1. CASE StopsBy(c) = 1
    <3>1. c[1] = <<"Status", 0>>
      BY <2>1, Zenon DEF NetScriptOK
    <3>2. c[1][1] = "Status"
      BY <3>1
    <3>3. \A k \in 1 .. StopsBy(c) : k = 1
      BY <2>1
    <3> QED
      BY <3>2, <3>3
  <2>2. CASE StopsBy(c) = 4
    <3>1. c[1][1] = "QueueSel" /\ c[2][1] = "QueueReady" /\ c[3][1] = "QueueSel" /\ c[4][1] = "QueueReady"
      <4>1. /\ c[1] = <<"QueueSel", Tx>> /\ c[2] = <<"QueueReady", 0>>
            /\ c[3] = <<"QueueSel", Rx>> /\ c[4] = <<"QueueReady", 0>>
        BY <2>2, Zenon DEF NetScriptOK
      <4> QED
        BY <4>1
    <3>2. \A k \in 1 .. StopsBy(c) : k = 1 \/ k = 2 \/ k = 3 \/ k = 4
      BY <2>2
    <3> QED
      BY <3>1, <3>2
  <2> QED
    BY <1>1, <2>1, <2>2
<1>5. ASSUME NEW pc \in Nat, Emptied(c, pc) PROVE pc > StopsBy(c) + 1
  <2>1. PICK k \in 1 .. pc - 1 : c[k][1] = "EmptyRings"
    BY <1>5 DEF Emptied
  <2>2. k \notin 1 .. StopsBy(c)
    BY <1>4, <2>1
  <2> QED
    BY <1>1, <2>1, <2>2
<1> QED
  BY <1>1, <1>2, <1>3, <1>5

\* A step that leaves the script where it is.
LEMMA ScriptStays ==
  ASSUME NEW u, NEW c, NetScriptOK(c, u.layouts), NEW q \in {Rx, Tx}, NEW pc \in 1 .. Len(c) + 1, NEW sel, NEW qs,
         NEW seen, NEW mem, ScriptAt(u, q, c, pc, sel, qs, seen, mem), NEW qs2, NEW seen2, NEW mem2,
         qs2.ready <=> qs.ready,
         ~qs.ready => qs2 = qs /\ seen2 = seen /\ \A x \in RingCells(u.layouts[q]) : mem2[x] = mem[x]
  PROVE  ScriptAt(u, q, c, pc, sel, qs2, seen2, mem2)
<1> DEFINE start == StartAt(c, q)
           stop == StopAt(c, q)
<1>1. /\ Len(c) \in Nat /\ start \in Nat /\ stop \in Nat /\ pc \in Nat /\ stop < start - 8
      /\ Emptied(c, pc) => pc > stop
  <2>1. /\ Len(c) \in Nat /\ StopsBy(c) \in {1, 4} /\ Len(c) >= StopsBy(c) + 19
        /\ StartAt(c, Rx) = Len(c) - 9 /\ StartAt(c, Tx) = Len(c) /\ StopAt(c, q) \in 1 .. StopsBy(c)
        /\ \A p \in Nat : Emptied(c, p) => p > StopsBy(c) + 1
    BY ScriptNumbers
  <2>2. start = Len(c) - 9 \/ start = Len(c)
    BY <2>1
  <2>3. pc \in Nat
    BY <2>1
  <2>4. Emptied(c, pc) => pc > StopsBy(c) + 1
    BY <2>1, <2>3
  <2> HIDE DEF start, stop
  <2>5. stop \in 1 .. StopsBy(c)
    BY <2>1 DEF stop
  <2> QED
    BY <2>1, <2>2, <2>3, <2>4, <2>5, SMTT(30)
<1>2. /\ pc > start => qs.ready
      /\ pc > stop /\ pc <= start => ~qs.ready
      /\ Emptied(c, pc) /\ pc <= start => seen = 0 /\ \A x \in RingCells(u.layouts[q]) : mem[x] = 0
      /\ \A j \in 0 .. 8 : pc = start - 8 + j => Programmed(j, sel, qs, q, u.layouts[q])
      /\ c[1][1] # "Status" /\ pc = stop => sel = q
  BY DEF ScriptAt
<1>3. \A j \in 0 .. 8 : pc = start - 8 + j => pc > stop /\ pc <= start
  BY <1>1
<1>4. \A j \in 0 .. 8 : pc = start - 8 + j => Programmed(j, sel, qs2, q, u.layouts[q])
  BY <1>2, <1>3
<1>5. Emptied(c, pc) /\ pc <= start => seen2 = 0 /\ \A x \in RingCells(u.layouts[q]) : mem2[x] = 0
  BY <1>1, <1>2, Zenon
<1> QED
  BY <1>2, <1>4, <1>5 DEF ScriptAt

\* What holds of the driver.
LEMMA NetSound ==
  ASSUME NEW u \in NetSetups, NEW dev, NEW mem, NEW d, NetOK(u, dev, mem, d), NEW c, c = u.scripts[d.script]
  PROVE  /\ NetScriptOK(c, u.layouts) /\ d.pc \in 1 .. Len(c) + 1 /\ Len(c) \in Nat
         /\ \A q \in {Rx, Tx} : ScriptAt(u, q, c, d.pc, dev.regs.queue_sel, dev.queues[q], d.seen[q], mem)
         /\ NetMemoryOK(u, mem) /\ NetDeviceOK(u, dev) /\ NetDriverOK(u, d)
<1>1. NetMemoryOK(u, mem) /\ NetDeviceOK(u, dev) /\ NetDriverOK(u, d)
  BY DEF NetOK
<1>2. d.script \in DOMAIN u.scripts /\ d.pc \in 1 .. Len(c) + 1
  BY <1>1 DEF NetDriverOK
<1>3. NetScriptOK(c, u.layouts)
  <2>1. SoundNetScript(c, u.layouts)
    BY <1>2, NetNumbers
  <2> DEFINE layouts == u.layouts
  <2> HIDE DEF layouts
  <2>2. SoundNetScript(c, layouts)
    BY <2>1 DEF layouts
  <2>3. NetScriptOK(c, layouts)
    BY <2>2, NetScriptIs
  <2> QED
    BY <2>3 DEF layouts
<1>4. \A q \in {Rx, Tx} : ScriptAt(u, q, c, d.pc, dev.regs.queue_sel, dev.queues[q], d.seen[q], mem)
  BY DEF NetOK
<1> QED
  BY <1>1, <1>2, <1>3, <1>4, Zenon DEF NetScriptOK

NetTold(dev, d) == dev.interrupt_status # 0 \/ d.acked
NetIdle(dev, d) == dev.pending = <<>> \/ d.kick[Rx]

\* A step that is not one of the script.
LEMMA NetStays ==
  ASSUME NEW u \in NetSetups, NEW dev, NEW mem, NEW d, NetOK(u, dev, mem, d), NEW dev2, NEW mem2, NEW d2,
         NetMemoryOK(u, mem2), NetDeviceOK(u, dev2), NetDriverOK(u, d2),
         d2.script = d.script, d2.pc = d.pc, dev2.regs.queue_sel = dev.regs.queue_sel,
         \A k \in {Rx, Tx} : /\ Calm(u, k, dev, mem, dev2, mem2)
                             /\ ~dev.queues[k].ready => d2.seen[k] = d.seen[k]
                             /\ ViewStep(u, k, dev, mem, d.seen, dev2, mem2, d2.seen),
         QueuesOK(u, dev2, mem2, d2.seen, NetTold(dev2, d2), NetIdle(dev2, d2))
  PROVE  NetGoes(u, dev, mem, d, dev2, mem2, d2)
<1> DEFINE c == u.scripts[d.script]
           sel == dev.regs.queue_sel
           pc == d.pc
<1>1. /\ NetScriptOK(c, u.layouts) /\ pc \in 1 .. Len(c) + 1
      /\ \A q \in {Rx, Tx} : ScriptAt(u, q, c, pc, sel, dev.queues[q], d.seen[q], mem)
  BY NetSound
<1>2. ASSUME NEW q \in {Rx, Tx} PROVE ScriptAt(u, q, c, pc, sel, dev2.queues[q], d2.seen[q], mem2)
  <2> DEFINE qs == dev.queues[q]
             qs2 == dev2.queues[q]
             s == d.seen[q]
             s2 == d2.seen[q]
  <2>1. /\ qs2.ready <=> qs.ready
        /\ ~qs.ready => qs2 = qs /\ s2 = s /\ \A x \in RingCells(u.layouts[q]) : mem2[x] = mem[x]
    BY DEF Calm
  <2>2. ScriptAt(u, q, c, pc, sel, qs, s, mem) /\ NetScriptOK(c, u.layouts) /\ pc \in 1 .. Len(c) + 1
    BY <1>1
  <2> HIDE DEF c, sel, pc, qs, qs2, s, s2
  <2>3. ScriptAt(u, q, c, pc, sel, qs2, s2, mem2)
    BY <2>1, <2>2, ScriptStays
  <2> QED
    BY <2>3 DEF qs2, s2
<1>3. \A q \in {Rx, Tx} :
        ScriptAt(u, q, u.scripts[d2.script], d2.pc, dev2.regs.queue_sel, dev2.queues[q], d2.seen[q], mem2)
  BY <1>2
<1>4. NetOK(u, dev2, mem2, d2)
  BY <1>3 DEF NetOK, NetTold, NetIdle
<1> QED
  BY <1>4 DEF NetGoes

\* A step that leaves the queues and the memory where they are.
LEMMA NetQuiet ==
  ASSUME NEW u \in NetSetups, NEW dev, NEW mem, NEW d, NetOK(u, dev, mem, d), NEW dev2, NEW d2,
         NetDeviceOK(u, dev2), NetDriverOK(u, d2), d2.script = d.script, d2.pc = d.pc, d2.seen = d.seen,
         dev2.regs.queue_sel = dev.regs.queue_sel, dev2.queues = dev.queues,
         QueuesOK(u, dev, mem, d.seen, NetTold(dev2, d2), NetIdle(dev2, d2))
  PROVE  NetGoes(u, dev, mem, d, dev2, mem, d2)
<1>1. \A k \in {Rx, Tx} : Calm(u, k, dev, mem, dev2, mem) /\ ViewStep(u, k, dev, mem, d.seen, dev2, mem, d2.seen)
  BY DEF Calm, ViewStep, LentIn, BackIn, QueueStep
<1>2. QueuesOK(u, dev2, mem, d2.seen, NetTold(dev2, d2), NetIdle(dev2, d2))
  <2> DEFINE told == NetTold(dev2, d2)
             idle == NetIdle(dev2, d2)
  <2>1. QueuesOK(u, dev, mem, d.seen, told, idle)
    OBVIOUS
  <2> HIDE DEF told, idle
  <2>2. QueuesOK(u, dev2, mem, d2.seen, told, idle)
    BY <2>1 DEF QueuesOK
  <2> QED
    BY <2>2 DEF told, idle
<1>3. NetMemoryOK(u, mem)
  BY DEF NetOK
<1> QED
  BY <1>1, <1>2, <1>3, NetStays

\* What is told stays told, and what is idle idle.
LEMMA QueuesWeaker ==
  ASSUME NEW u, NEW dev, NEW mem, NEW seen, NEW told, NEW idle, QueuesOK(u, dev, mem, seen, told, idle),
         NEW told2, NEW idle2
  PROVE  (told => told2) /\ (idle => idle2) => QueuesOK(u, dev, mem, seen, told2, idle2)
BY DEF QueuesOK, NetQueueOK

LEMMA NetInterruptTold ==
  ASSUME NEW u, NEW dev, NetDeviceOK(u, dev), NEW value
  PROVE  LET w == SetInterrupt(dev, value)
         IN  /\ NetDeviceOK(u, w) /\ w.regs = dev.regs /\ w.queues = dev.queues /\ w.pending = dev.pending
             /\ w.interrupt_status = value
<1> DEFINE w == [dev EXCEPT !.interrupt_status = value, !.told = value # 0]
<1>1. CASE value = dev.interrupt_status
  BY <1>1 DEF SetInterrupt
<1>2. CASE value # dev.interrupt_status
  <2>1. SetInterrupt(dev, value) = w
    BY <1>2 DEF SetInterrupt
  <2>2. /\ w.interrupt_status = value /\ w.told = (value # 0) /\ w.regs = dev.regs /\ w.queues = dev.queues
        /\ w.pending = dev.pending /\ w.loopback = dev.loopback /\ DOMAIN w = DOMAIN dev
    BY DEF NetDeviceOK
  <2> HIDE DEF w
  <2>3. NetDeviceOK(u, w)
    BY <2>2 DEF NetDeviceOK
  <2> QED
    BY <2>1, <2>2, <2>3
<1> QED
  BY <1>1, <1>2

\* The driver's fields after a step.
LEMMA DriverFields ==
  ASSUME NEW u, NEW d, NetDriverOK(u, d)
  PROVE  /\ d = [script |-> d.script, pc |-> d.pc, acked |-> d.acked, seen |-> d.seen, kick |-> d.kick]
         /\ d.script \in DOMAIN u.scripts /\ d.pc \in 1 .. Len(u.scripts[d.script]) + 1 /\ d.acked \in BOOLEAN
         /\ d.seen \in [{Rx, Tx} -> 0 .. IndexModulus - 1] /\ d.kick \in [{Rx, Tx} -> BOOLEAN]
BY DEF NetDriverOK

AckedTo(u, d, e, b) ==
  NetDriverOK(u, e) /\ e.script = d.script /\ e.pc = d.pc /\ e.acked = b /\ e.seen = d.seen /\ e.kick = d.kick

KickedTo(u, d, e, q, b) ==
  /\ NetDriverOK(u, e) /\ e.script = d.script /\ e.pc = d.pc /\ e.acked = d.acked
  /\ e.seen = d.seen /\ e.kick[q] = b /\ e.kick[1 - q] = d.kick[1 - q]

SeenTo(u, d, e, q) ==
  /\ NetDriverOK(u, e) /\ e.script = d.script /\ e.pc = d.pc /\ e.acked = d.acked
  /\ e.seen[q] = (d.seen[q] + 1) % IndexModulus /\ e.seen[1 - q] = d.seen[1 - q] /\ e.kick = d.kick

LEMMA DriverAcked ==
  ASSUME NEW u, NEW d, NetDriverOK(u, d), NEW b \in BOOLEAN, NEW e, e = [d EXCEPT !.acked = b]
  PROVE  AckedTo(u, d, e, b)
<1>1. /\ d = [script |-> d.script, pc |-> d.pc, acked |-> d.acked, seen |-> d.seen, kick |-> d.kick]
      /\ d.script \in DOMAIN u.scripts /\ d.pc \in 1 .. Len(u.scripts[d.script]) + 1 /\ d.acked \in BOOLEAN
      /\ d.seen \in [{Rx, Tx} -> 0 .. IndexModulus - 1] /\ d.kick \in [{Rx, Tx} -> BOOLEAN]
  BY DEF NetDriverOK
<1>2. e = [script |-> d.script, pc |-> d.pc, acked |-> b, seen |-> d.seen, kick |-> d.kick]
  BY <1>1
<1>3. e.script = d.script /\ e.pc = d.pc /\ e.acked = b /\ e.seen = d.seen /\ e.kick = d.kick
  BY <1>2
<1> QED
  BY <1>1, <1>2, <1>3 DEF NetDriverOK, AckedTo

LEMMA DriverKicks ==
  ASSUME NEW u, NEW d, NetDriverOK(u, d), NEW q \in {Rx, Tx}, NEW b \in BOOLEAN, NEW e, e = [d EXCEPT !.kick[q] = b]
  PROVE  KickedTo(u, d, e, q, b)
<1>1. /\ d = [script |-> d.script, pc |-> d.pc, acked |-> d.acked, seen |-> d.seen, kick |-> d.kick]
      /\ d.script \in DOMAIN u.scripts /\ d.pc \in 1 .. Len(u.scripts[d.script]) + 1 /\ d.acked \in BOOLEAN
      /\ d.seen \in [{Rx, Tx} -> 0 .. IndexModulus - 1] /\ d.kick \in [{Rx, Tx} -> BOOLEAN]
  BY DEF NetDriverOK
<1> DEFINE kick == [d.kick EXCEPT ![q] = b]
<1>2. e = [d EXCEPT !.kick = kick] /\ kick \in [{Rx, Tx} -> BOOLEAN]
  BY <1>1
<1>3. kick[q] = b /\ kick[1 - q] = d.kick[1 - q]
  BY <1>1 DEF Rx, Tx
<1> HIDE DEF kick
<1>4. e = [script |-> d.script, pc |-> d.pc, acked |-> d.acked, seen |-> d.seen, kick |-> kick]
  BY <1>1, <1>2
<1>5. e.script = d.script /\ e.pc = d.pc /\ e.acked = d.acked /\ e.seen = d.seen /\ e.kick = kick
  BY <1>4
<1>6. NetDriverOK(u, e)
  BY <1>1, <1>2, <1>4, <1>5 DEF NetDriverOK
<1> QED
  BY <1>3, <1>5, <1>6 DEF KickedTo

LEMMA DriverSees ==
  ASSUME NEW u, NEW d, NetDriverOK(u, d), NEW q \in {Rx, Tx}, NEW e, e = [d EXCEPT !.seen[q] = (@ + 1) % IndexModulus]
  PROVE  SeenTo(u, d, e, q)
<1>1. /\ d = [script |-> d.script, pc |-> d.pc, acked |-> d.acked, seen |-> d.seen, kick |-> d.kick]
      /\ d.script \in DOMAIN u.scripts /\ d.pc \in 1 .. Len(u.scripts[d.script]) + 1 /\ d.acked \in BOOLEAN
      /\ d.seen \in [{Rx, Tx} -> 0 .. IndexModulus - 1] /\ d.kick \in [{Rx, Tx} -> BOOLEAN]
  BY DEF NetDriverOK
<1> DEFINE next == (d.seen[q] + 1) % IndexModulus
           seen == [d.seen EXCEPT ![q] = next]
<1>2. next \in 0 .. IndexModulus - 1
  <2>1. d.seen[q] \in Int
    BY <1>1
  <2> QED
    BY <2>1, RingNumbers
<1>3. e = [d EXCEPT !.seen = seen]
  BY <1>1
<1> HIDE DEF next
<1>4. seen \in [{Rx, Tx} -> 0 .. IndexModulus - 1] /\ seen[q] = next /\ seen[1 - q] = d.seen[1 - q]
  BY <1>1, <1>2 DEF Rx, Tx
<1> HIDE DEF seen
<1>5. e = [script |-> d.script, pc |-> d.pc, acked |-> d.acked, seen |-> seen, kick |-> d.kick]
  BY <1>1, <1>3
<1>6. e.script = d.script /\ e.pc = d.pc /\ e.acked = d.acked /\ e.seen = seen /\ e.kick = d.kick
  BY <1>5
<1>7. NetDriverOK(u, e)
  BY <1>1, <1>4, <1>5, <1>6 DEF NetDriverOK
<1> QED
  BY <1>4, <1>6, <1>7 DEF next, SeenTo

\* How far the used index is ahead of what the driver has seen.
LEMMA SeenAll ==
  ASSUME NEW s \in 0 .. IndexModulus - 1, NEW i \in Nat, i < IndexModulus
  PROVE  /\ (s + i) % IndexModulus = s <=> i = 0
         /\ (((s + i) % IndexModulus) - s) % IndexModulus = i
<1>1. s \in Nat /\ IndexModulus \in Nat \ {0}
  BY RingNumbers
<1>2. (((s + i) % IndexModulus) - ((s + 0) % IndexModulus)) % IndexModulus = i - 0
  <2>1. 0 <= i /\ i - 0 < IndexModulus /\ 0 \in Nat
    OBVIOUS
  <2> QED
    BY <1>1, <2>1, Behind
<1>3. (s + 0) % IndexModulus = s
  <2>1. s + 0 = s
    BY <1>1
  <2>2. s % IndexModulus = s
    BY <1>1, RemainderOfSmall
  <2> QED
    BY <2>1, <2>2
<1>4. ASSUME (s + i) % IndexModulus = s PROVE i = 0
  <2>1. (s - s) % IndexModulus = i
    BY <1>2, <1>3, <1>4
  <2>2. s - s = 0 /\ 0 % IndexModulus = 0
    BY <1>1, RemainderOfSmall
  <2> QED
    BY <2>1, <2>2
<1>5. i = 0 => (s + i) % IndexModulus = s
  BY <1>3
<1>6. (((s + i) % IndexModulus) - s) % IndexModulus = i
  BY <1>2, <1>3
<1> QED
  BY <1>4, <1>5, <1>6

-----------------------------------------------------------------------------
(* Every step of the network device and its driver                         *)

NetStep == net_setup' = net_setup /\ NetGoes(net_setup, net, net_mem, net_driver, net', net_mem', net_driver')

LEMMA NetHolds ==
  ASSUME NetInv
  PROVE  /\ net_setup \in NetSetups /\ NetOK(net_setup, net, net_mem, net_driver)
         /\ NetMemoryOK(net_setup, net_mem) /\ NetDeviceOK(net_setup, net) /\ NetDriverOK(net_setup, net_driver)
         /\ QueuesOK(net_setup, net, net_mem, net_driver.seen, NetTold(net, net_driver), NetIdle(net, net_driver))
BY DEF NetInv, NetOK, NetTold, NetIdle

LEMMA NetAckStep == ASSUME NetInv, NetAck PROVE NetStep
<1> DEFINE u == net_setup
           dev == net
           mem == net_mem
           d == net_driver
           dev2 == net'
           d2 == net_driver'
<1>1. net_setup' = u /\ net_mem' = mem /\ d2 = [d EXCEPT !.acked = TRUE] /\ dev2 = SetInterrupt(dev, 0)
  BY DEF NetAck, WriteNetRegister, CommonRegisters
<1>2. /\ u \in NetSetups /\ NetOK(u, dev, mem, d) /\ NetDeviceOK(u, dev) /\ NetDriverOK(u, d)
      /\ QueuesOK(u, dev, mem, d.seen, NetTold(dev, d), NetIdle(dev, d))
  BY NetHolds
<1> HIDE DEF u, dev, mem, d, dev2, d2
<1>3. /\ NetDriverOK(u, d2) /\ d2.script = d.script /\ d2.pc = d.pc /\ d2.acked = TRUE
      /\ d2.seen = d.seen /\ d2.kick = d.kick
  <2>1. AckedTo(u, d, d2, TRUE)
    BY <1>1, <1>2, DriverAcked
  <2> QED
    BY <2>1 DEF AckedTo
<1>4. NetDeviceOK(u, dev2) /\ dev2.regs = dev.regs /\ dev2.queues = dev.queues /\ dev2.pending = dev.pending
  BY <1>1, <1>2, NetInterruptTold
<1>5. QueuesOK(u, dev, mem, d.seen, NetTold(dev2, d2), NetIdle(dev2, d2))
  <2>1. (NetTold(dev, d) => NetTold(dev2, d2)) /\ (NetIdle(dev, d) => NetIdle(dev2, d2))
    BY <1>3, <1>4 DEF NetTold, NetIdle
  <2> QED
    BY <1>2, <2>1, QueuesWeaker
<1>6. NetGoes(u, dev, mem, d, dev2, mem, d2)
  BY <1>2, <1>3, <1>4, <1>5, NetQuiet
<1> QED
  BY <1>1, <1>6 DEF NetStep, u, dev, mem, d, dev2, d2

\* The handler ends when nothing is left to collect.
LEMMA NetHandlerEndsStep == ASSUME NetInv, NetHandlerEnds PROVE NetStep
<1> DEFINE u == net_setup
           dev == net
           mem == net_mem
           d == net_driver
           d2 == net_driver'
<1>1. /\ net_setup' = u /\ net_mem' = mem /\ net' = dev /\ d2 = [d EXCEPT !.acked = FALSE]
      /\ \A q \in {Rx, Tx} : mem[UsedIdxCell(u.layouts[q])] = d.seen[q]
  BY DEF NetHandlerEnds
<1>2. /\ u \in NetSetups /\ NetOK(u, dev, mem, d) /\ NetDeviceOK(u, dev) /\ NetDriverOK(u, d)
      /\ QueuesOK(u, dev, mem, d.seen, NetTold(dev, d), NetIdle(dev, d))
  BY NetHolds
<1> HIDE DEF u, dev, mem, d, d2
<1>3. /\ NetDriverOK(u, d2) /\ d2.script = d.script /\ d2.pc = d.pc /\ d2.seen = d.seen /\ d2.kick = d.kick
  <2>1. AckedTo(u, d, d2, FALSE)
    BY <1>1, <1>2, DriverAcked
  <2> QED
    BY <2>1 DEF AckedTo
<1>4. QueuesOK(u, dev, mem, d.seen, NetTold(dev, d2), NetIdle(dev, d2))
  <2>1. NetIdle(dev, d2) <=> NetIdle(dev, d)
    BY <1>3 DEF NetIdle
  <2> SUFFICES ASSUME NEW q \in {Rx, Tx}
               PROVE  NetQueueOK(u, q, dev.queues[q], mem, d.seen[q], NetTold(dev, d2), NetIdle(dev, d2))
    BY DEF QueuesOK
  <2> DEFINE l == u.layouts[q]
             heads == u.heads[q]
             qs == dev.queues[q]
             s == d.seen[q]
             told == NetTold(dev, d)
             told2 == NetTold(dev, d2)
             idle == NetIdle(dev, d)
             idle2 == NetIdle(dev, d2)
  <2>2. NetQueueOK(u, q, qs, mem, s, told, idle)
    BY <1>2 DEF QueuesOK
  <2>3. SoundLayout(l) /\ mem[UsedIdxCell(l)] = s
    BY <1>1, <1>2, NetNumbers
  <2>4. ASSUME NEW r \in Nat, NEW n \in Nat, InUse(l, qs, mem, heads, s, r, n) PROVE r = 0
    <3> HIDE DEF l, heads, qs, s
    <3>1. RingOK(l, mem, heads, s, r, n)
      BY <2>4 DEF InUse
    <3>0. r <= n /\ n < IndexModulus
      BY <2>3, <3>1, RingIndices
    <3>2. (s + r) % IndexModulus = s /\ s \in 0 .. IndexModulus - 1 /\ r < IndexModulus
      BY <2>3, <3>0, <3>1, RingNumbers DEF RingOK
    <3> QED
      BY <3>2, SeenAll
  <2> HIDE DEF told, told2, idle, idle2
  <2>5. NetQueueOK(u, q, qs, mem, s, told2, idle2)
    BY <2>1, <2>2, <2>4 DEF NetQueueOK, idle, idle2
  <2> QED
    BY <2>5 DEF told2, idle2
<1>5. NetGoes(u, dev, mem, d, dev, mem, d2)
  BY <1>2, <1>3, <1>4, NetQuiet
<1> QED
  BY <1>1, <1>5 DEF NetStep, u, dev, mem, d, d2

LEMMA NetRestoreStep == ASSUME NetInv, NetRestore PROVE NetStep
<1> DEFINE u == net_setup
           dev == net
           mem == net_mem
           d == net_driver
           dev2 == net'
           header == Negotiated(dev.regs)
           told == dev.interrupt_status # 0
<1>1. net_setup' = u /\ net_mem' = mem /\ net_driver' = d /\ dev2 = NetLoad(dev)
  BY DEF NetRestore
<1>2. /\ u \in NetSetups /\ NetOK(u, dev, mem, d) /\ NetDeviceOK(u, dev) /\ NetDriverOK(u, d)
      /\ QueuesOK(u, dev, mem, d.seen, NetTold(dev, d), NetIdle(dev, d))
  BY NetHolds
<1>3. dev2 = [dev EXCEPT !.guest_header = header, !.told = told]
  BY <1>1 DEF NetLoad
<1> HIDE DEF u, dev, mem, d, dev2, header
<1>4. /\ dev2.regs = dev.regs /\ dev2.queues = dev.queues /\ dev2.pending = dev.pending
      /\ dev2.interrupt_status = dev.interrupt_status /\ dev2.loopback = dev.loopback /\ dev2.told = told
      /\ DOMAIN dev2 = DOMAIN dev
  BY <1>2, <1>3 DEF NetDeviceOK
<1>5. NetDeviceOK(u, dev2)
  BY <1>2, <1>4 DEF NetDeviceOK
<1>6. QueuesOK(u, dev, mem, d.seen, NetTold(dev2, d), NetIdle(dev2, d))
  BY <1>2, <1>4 DEF NetTold, NetIdle
<1>7. NetGoes(u, dev, mem, d, dev2, mem, d)
  BY <1>2, <1>4, <1>5, <1>6, NetQuiet
<1> QED
  BY <1>1, <1>7 DEF NetStep, u, dev, mem, d, dev2

\* The driver starts one of its scripts over.
LEMMA NetRestartStep == ASSUME NetInv, NetDriverRestart PROVE NetStep
<1> DEFINE u == net_setup
           dev == net
           mem == net_mem
           d == net_driver
           d2 == net_driver'
<1>1. net_setup' = u /\ net_mem' = mem /\ net' = dev
  BY DEF NetDriverRestart
<1>2. PICK k \in DOMAIN u.scripts : d2 = [d EXCEPT !.script = k, !.pc = 1]
  BY Zenon DEF NetDriverRestart
<1>3. /\ u \in NetSetups /\ NetOK(u, dev, mem, d) /\ NetDeviceOK(u, dev) /\ NetDriverOK(u, d) /\ NetMemoryOK(u, mem)
      /\ QueuesOK(u, dev, mem, d.seen, NetTold(dev, d), NetIdle(dev, d))
  BY NetHolds
<1> HIDE DEF u, dev, mem, d, d2
<1> DEFINE c == u.scripts[k]
<1>4. NetScriptOK(c, u.layouts)
  <2> DEFINE layouts == u.layouts
  <2>1. SoundNetScript(c, layouts)
    BY <1>3, NetNumbers
  <2> HIDE DEF layouts, c
  <2>2. NetScriptOK(c, layouts)
    BY <2>1, NetScriptIs
  <2> QED
    BY <2>2 DEF layouts
<1> HIDE DEF c
<1>5. /\ Len(c) \in Nat /\ Len(c) >= 20 /\ StartAt(c, Rx) = Len(c) - 9 /\ StartAt(c, Tx) = Len(c)
      /\ \A q \in {Rx, Tx} : StopAt(c, q) \in 1 .. StopsBy(c) /\ StopAt(c, q) \in Nat /\ StopAt(c, q) >= 1
      /\ ~Emptied(c, 1) /\ (StopsBy(c) = 1 <=> c[1][1] = "Status")
      /\ \A q \in {Rx, Tx} : StopsBy(c) # 1 => StopAt(c, q) # 1
  <2>1. /\ Len(c) \in Nat /\ StopsBy(c) \in {1, 4} /\ Len(c) >= StopsBy(c) + 19
        /\ StartAt(c, Rx) = Len(c) - 9 /\ StartAt(c, Tx) = Len(c)
        /\ \A q \in {Rx, Tx} : StopAt(c, q) \in 1 .. StopsBy(c)
    BY <1>4, ScriptNumbers
  <2>2. ~Emptied(c, 1)
    BY DEF Emptied
  <2>3. (StopsBy(c) = 1 <=> c[1][1] = "Status") /\ \A q \in {Rx, Tx} : StopsBy(c) # 1 => StopAt(c, q) # 1
    BY DEF StopsBy, StopAt, Rx, Tx
  <2> QED
    BY <2>1, <2>2, <2>3
<1>6. /\ d2.script = k /\ d2.pc = 1 /\ d2.acked = d.acked /\ d2.seen = d.seen /\ d2.kick = d.kick /\ NetDriverOK(u, d2)
  <2>1. /\ d = [script |-> d.script, pc |-> d.pc, acked |-> d.acked, seen |-> d.seen, kick |-> d.kick]
        /\ d.acked \in BOOLEAN
        /\ d.seen \in [{Rx, Tx} -> 0 .. IndexModulus - 1] /\ d.kick \in [{Rx, Tx} -> BOOLEAN]
    BY <1>3, DriverFields
  <2>2. d2 = [script |-> k, pc |-> 1, acked |-> d.acked, seen |-> d.seen, kick |-> d.kick]
    BY <1>2, <2>1, Zenon
  <2>3. d2.script = k /\ d2.pc = 1 /\ d2.acked = d.acked /\ d2.seen = d.seen /\ d2.kick = d.kick
    BY <2>2
  <2>4. 1 \in 1 .. Len(u.scripts[k]) + 1
    BY <1>5 DEF c
  <2> QED
    BY <2>1, <2>2, <2>3, <2>4 DEF NetDriverOK
<1>7. ASSUME NEW q \in {Rx, Tx} PROVE ScriptAt(u, q, c, 1, dev.regs.queue_sel, dev.queues[q], d2.seen[q], mem)
  <2> DEFINE start == StartAt(c, q)
             stop == StopAt(c, q)
  <2>1. start \in Nat /\ start >= 11 /\ stop \in Nat /\ stop >= 1 /\ (c[1][1] # "Status" => stop # 1) /\ ~Emptied(c, 1)
    BY <1>5
  <2> HIDE DEF start, stop
  <2>2. ~(1 > start) /\ ~(1 > stop) /\ \A j \in 0 .. 8 : 1 # start - 8 + j
    BY <2>1
  <2> QED
    BY <2>1, <2>2 DEF ScriptAt, start, stop
<1>8. QueuesOK(u, dev, mem, d2.seen, NetTold(dev, d2), NetIdle(dev, d2))
  BY <1>3, <1>6 DEF NetTold, NetIdle
<1>9. NetOK(u, dev, mem, d2)
  BY <1>3, <1>6, <1>7, <1>8 DEF NetOK, NetTold, NetIdle, c
<1>10. \A q \in {Rx, Tx} : ViewStep(u, q, dev, mem, d.seen, dev, mem, d2.seen)
  BY <1>6 DEF ViewStep, QueueStep
<1> QED
  BY <1>1, <1>9, <1>10 DEF NetStep, NetGoes, u, dev, mem, d, d2

\* A step in which the device serves its queues.
LEMMA ProcessedGoes ==
  ASSUME NEW u \in NetSetups, NEW dev, NEW mem, NEW d, NetOK(u, dev, mem, d),
         NEW w, w.dev.queues = dev.queues, w.dev.regs = dev.regs, w.dev.interrupt_status = dev.interrupt_status,
         w.mem = mem, NEW x, Processed(u, w, x, d.seen, NetTold(dev, d)),
         NEW dev2, dev2 = IF x.completed THEN SetInterrupt(x.dev, 1) ELSE x.dev,
         NEW d2, NetDriverOK(u, d2), d2.script = d.script, d2.pc = d.pc, d2.acked <=> d.acked, d2.seen = d.seen
  PROVE  NetGoes(u, dev, mem, d, dev2, x.mem, d2)
<1> DEFINE told == NetTold(dev, d) \/ x.completed
           idle == x.dev.pending = <<>>
<1>1. /\ x.completed \in BOOLEAN
      /\ NetDeviceOK(u, x.dev) /\ x.dev.interrupt_status = dev.interrupt_status
      /\ x.dev.regs.queue_sel = dev.regs.queue_sel /\ NetMemoryOK(u, x.mem)
      /\ QueuesOK(u, x.dev, x.mem, d.seen, told, idle)
      /\ \A k \in {Rx, Tx} : /\ Calm(u, k, w.dev, mem, x.dev, x.mem)
                             /\ Stepped(u, k, w.dev, mem, x.dev, x.mem, d.seen)
  BY DEF Processed
<1>2. /\ NetDeviceOK(u, dev2) /\ dev2.regs = x.dev.regs /\ dev2.queues = x.dev.queues /\ dev2.pending = x.dev.pending
      /\ dev2.interrupt_status = IF x.completed THEN 1 ELSE x.dev.interrupt_status
  <2>1. CASE x.completed
    <3> DEFINE y == SetInterrupt(x.dev, 1)
    <3>1. dev2 = y
      BY <2>1
    <3>2. /\ NetDeviceOK(u, y) /\ y.regs = x.dev.regs /\ y.queues = x.dev.queues /\ y.pending = x.dev.pending
          /\ y.interrupt_status = 1
      BY <1>1, NetInterruptTold
    <3> HIDE DEF y
    <3> QED
      BY <2>1, <3>1, <3>2
  <2>2. CASE ~x.completed
    BY <1>1, <2>2
  <2> QED
    BY <2>1, <2>2
<1>3. QueuesOK(u, dev2, x.mem, d2.seen, NetTold(dev2, d2), NetIdle(dev2, d2))
  <2> DEFINE told2 == NetTold(dev2, d2)
             idle2 == NetIdle(dev2, d2)
  <2>1. told => told2
    BY <1>1, <1>2 DEF NetTold
  <2>2. idle => idle2
    BY <1>2 DEF NetIdle
  <2> HIDE DEF told, told2, idle, idle2
  <2>3. QueuesOK(u, x.dev, x.mem, d.seen, told2, idle2)
    BY <1>1, <2>1, <2>2, QueuesWeaker
  <2>4. QueuesOK(u, dev2, x.mem, d2.seen, told2, idle2)
    BY <1>2, <2>3 DEF QueuesOK
  <2> QED
    BY <2>4 DEF told2, idle2
<1>4. ASSUME NEW k \in {Rx, Tx}
      PROVE  /\ Calm(u, k, dev, mem, dev2, x.mem)
             /\ ~dev.queues[k].ready => d2.seen[k] = d.seen[k]
             /\ ViewStep(u, k, dev, mem, d.seen, dev2, x.mem, d2.seen)
  <2>1. Calm(u, k, dev, mem, dev2, x.mem)
    BY <1>1, <1>2 DEF Calm
  <2>2. ViewStep(u, k, dev, mem, d.seen, dev2, x.mem, d2.seen)
    <3>1. Stepped(u, k, w.dev, mem, x.dev, x.mem, d.seen)
      BY <1>1
    <3>2. /\ LentIn(u, k, w.dev, mem) = LentIn(u, k, dev, mem) /\ BackIn(u, k, w.dev, mem, d.seen) = BackIn(u, k, dev, mem, d.seen)
          /\ LentIn(u, k, x.dev, x.mem) = LentIn(u, k, dev2, x.mem)
          /\ BackIn(u, k, x.dev, x.mem, d.seen) = BackIn(u, k, dev2, x.mem, d2.seen)
      BY <1>2 DEF LentIn, BackIn
    <3> QED
      BY <3>1, <3>2 DEF Stepped, ViewStep
  <2> QED
    BY <2>1, <2>2
<1>5. dev2.regs.queue_sel = dev.regs.queue_sel
  BY <1>1, <1>2
<1> HIDE DEF told, idle
<1> QED
  BY <1>1, <1>2, <1>3, <1>4, <1>5, NetStays

LEMMA NetNotifyStep == ASSUME NetInv, NEW q \in {Rx, Tx}, NetNotify(q) PROVE NetStep
<1> DEFINE u == net_setup
           dev == net
           mem == net_mem
           d == net_driver
           dev2 == net'
           mem2 == net_mem'
           d2 == net_driver'
           w == Quiet(dev, mem)
           told == NetTold(dev, d)
<1>1. PICK x \in {NetProcess(q, dev, mem)} : Apply(x)
  BY DEF NetNotify
<1>2. /\ net_setup' = u /\ mem2 = x.mem /\ dev2 = (IF x.completed THEN SetInterrupt(x.dev, 1) ELSE x.dev)
      /\ d2 = [d EXCEPT !.kick[q] = FALSE] /\ x = NetProcess(q, dev, mem)
  BY <1>1 DEF NetNotify, Apply
<1>3. /\ u \in NetSetups /\ NetOK(u, dev, mem, d) /\ NetDeviceOK(u, dev) /\ NetDriverOK(u, d) /\ NetMemoryOK(u, mem)
      /\ QueuesOK(u, dev, mem, d.seen, NetTold(dev, d), NetIdle(dev, d)) /\ d.acked \in BOOLEAN
  BY NetHolds, DriverFields
<1> HIDE DEF u, dev, mem, d, dev2, mem2, d2
<1>4. w.dev = dev /\ w.mem = mem /\ w.completed = FALSE
  BY DEF Quiet
<1>5. x = IF q = Tx THEN ProcessRx(ProcessTx(w)) ELSE ProcessRx(w)
  BY <1>2 DEF NetProcess, With, Rx, Tx
<1> HIDE DEF w
<1>6. Rounds(u, w, d.seen, told)
  <2>1. told \in BOOLEAN
    BY <1>3 DEF NetTold
  <2> DEFINE idle == NetIdle(dev, d)
             yes == TRUE
  <2>2. idle => yes
    OBVIOUS
  <2>3. QueuesOK(u, dev, mem, d.seen, told, idle)
    BY <1>3
  <2> HIDE DEF idle, told, yes
  <2>4. QueuesOK(u, dev, mem, d.seen, told, yes)
    BY <2>2, <2>3, QueuesWeaker
  <2> QED
    BY <1>3, <1>4, <2>1, <2>4 DEF Rounds, yes
<1>7. Processed(u, w, x, d.seen, told)
  <2> HIDE DEF told
  <2>1. CASE q = Tx
    <3> DEFINE y == ProcessTx(w)
    <3>1. x = ProcessRx(y) /\ y = ProcessTx(w)
      BY <1>5, <2>1
    <3> HIDE DEF y
    <3> QED
      BY <1>3, <1>6, <3>1, TxProcessed
  <2>2. CASE q # Tx
    <3>1. x = ProcessRx(w)
      BY <1>5, <2>2
    <3> QED
      BY <1>3, <1>6, <3>1, RxProcessed
  <2> QED
    BY <2>1, <2>2
<1>8. KickedTo(u, d, d2, q, FALSE)
  BY <1>2, <1>3, DriverKicks
<1>9. NetDriverOK(u, d2) /\ d2.script = d.script /\ d2.pc = d.pc /\ (d2.acked <=> d.acked) /\ d2.seen = d.seen
  BY <1>8 DEF KickedTo
<1>10. NetGoes(u, dev, mem, d, dev2, x.mem, d2)
  BY <1>2, <1>3, <1>4, <1>7, <1>9, ProcessedGoes
<1> QED
  BY <1>2, <1>10 DEF NetStep, u, dev, mem, d, dev2, mem2, d2

\* A frame from the host joins those that wait.
LEMMA NetHostFrameStep == ASSUME NetInv, HostFrame PROVE NetStep
<1> DEFINE u == net_setup
           dev == net
           mem == net_mem
           d == net_driver
           dev2 == net'
           mem2 == net_mem'
           frame == <<net_flow.rx_next>>
           longer == Append(dev.pending, frame)
           dev1 == [dev EXCEPT !.pending = longer]
           w == Quiet(dev1, mem)
           told == NetTold(dev, d)
<1>1. PICK x \in {ProcessRx(w)} :
        mem2 = x.mem /\ dev2 = (IF x.completed THEN SetInterrupt(x.dev, 1) ELSE x.dev)
  BY DEF HostFrame
<1>2. net_setup' = u /\ net_driver' = d /\ x = ProcessRx(w)
  BY <1>1 DEF HostFrame
<1>3. /\ u \in NetSetups /\ NetOK(u, dev, mem, d) /\ NetDeviceOK(u, dev) /\ NetDriverOK(u, d) /\ NetMemoryOK(u, mem)
      /\ QueuesOK(u, dev, mem, d.seen, NetTold(dev, d), NetIdle(dev, d)) /\ d.acked \in BOOLEAN
  BY NetHolds, DriverFields
<1>4. FrameOK(u, frame)
  <2>1. frame \in Seq({net_flow.rx_next}) /\ Len(frame) = 1
    OBVIOUS
  <2>2. FrameFits(u, 1)
    BY DEF FrameFits, Roomy, RxChain
  <2> HIDE DEF frame
  <2> QED
    BY <2>1, <2>2 DEF FrameOK
<1> HIDE DEF u, dev, mem, d, dev2, mem2, frame
<1>5. FramesOK(u, longer)
  <2>1. FramesOK(u, dev.pending)
    BY <1>3 DEF NetDeviceOK
  <2> QED
    BY <1>4, <2>1, OneFrameMore
<1> HIDE DEF longer
<1>6. /\ dev1.queues = dev.queues /\ dev1.regs = dev.regs /\ dev1.interrupt_status = dev.interrupt_status
      /\ NetDeviceOK(u, dev1)
  <2>1. /\ dev1.queues = dev.queues /\ dev1.regs = dev.regs /\ dev1.interrupt_status = dev.interrupt_status
        /\ dev1.told = dev.told /\ dev1.pending = longer /\ dev1.loopback = dev.loopback /\ DOMAIN dev1 = DOMAIN dev
    BY <1>3 DEF NetDeviceOK
  <2> HIDE DEF dev1
  <2> QED
    BY <1>3, <1>5, <2>1 DEF NetDeviceOK
<1> HIDE DEF dev1
<1>7. w.dev = dev1 /\ w.mem = mem /\ w.completed = FALSE
  BY DEF Quiet
<1> HIDE DEF w
<1>8. Rounds(u, w, d.seen, told)
  <2>1. told \in BOOLEAN
    BY <1>3 DEF NetTold
  <2> DEFINE idle == NetIdle(dev, d)
             yes == TRUE
  <2>2. idle => yes
    OBVIOUS
  <2>3. QueuesOK(u, dev, mem, d.seen, told, idle)
    BY <1>3
  <2> HIDE DEF idle, told, yes
  <2>4. QueuesOK(u, dev, mem, d.seen, told, yes)
    BY <2>2, <2>3, QueuesWeaker
  <2>5. QueuesOK(u, dev1, mem, d.seen, told, yes)
    BY <1>6, <2>4 DEF QueuesOK
  <2> QED
    BY <1>3, <1>6, <1>7, <2>1, <2>5 DEF Rounds, yes
<1>9. Processed(u, w, x, d.seen, told)
  <2> HIDE DEF told
  <2> QED
    BY <1>2, <1>3, <1>8, RxProcessed
<1>10. NetGoes(u, dev, mem, d, dev2, x.mem, d)
  BY <1>1, <1>3, <1>6, <1>7, <1>9, ProcessedGoes
<1> QED
  BY <1>1, <1>2, <1>10 DEF NetStep, u, dev, mem, d, dev2, mem2

\* While the driver runs both queues are in use.
LEMMA NetReady ==
  ASSUME NetInv, NetRunning, NEW q \in {Rx, Tx}
  PROVE  net.queues[q].ready
<1> DEFINE u == net_setup
           d == net_driver
           c == u.scripts[d.script]
<1>1. u \in NetSetups /\ NetOK(u, net, net_mem, d)
  BY NetHolds
<1>2. d.pc > Len(c)
  BY DEF NetRunning, NetScript
<1>3. /\ NetScriptOK(c, u.layouts) /\ d.pc \in 1 .. Len(c) + 1
      /\ ScriptAt(u, q, c, d.pc, net.regs.queue_sel, net.queues[q], d.seen[q], net_mem)
  BY <1>1, NetSound
<1> HIDE DEF c
<1>4. d.pc > StartAt(c, q)
  <2>1. Len(c) \in Nat /\ StartAt(c, Rx) = Len(c) - 9 /\ StartAt(c, Tx) = Len(c)
    <3> DEFINE layouts == u.layouts
    <3>1. NetScriptOK(c, layouts)
      BY <1>3
    <3> HIDE DEF layouts
    <3> QED
      BY <3>1, ScriptNumbers
  <2> QED
    BY <1>2, <1>3, <2>1
<1> QED
  BY <1>3, <1>4 DEF ScriptAt

\* What the driver has in flight in a queue in use.
LEMMA UseInFlight ==
  ASSUME NEW l, SoundLayout(l), NEW q, NEW mem, NEW heads, NEW s, NEW r \in Nat, NEW n \in Nat,
         InUse(l, q, mem, heads, s, r, n), NEW idx, idx = mem[AvailIdxCell(l)]
  PROVE  /\ (idx - s) % IndexModulus = n /\ idx \in Int /\ s + n \in Int
         /\ AvailCell(l, idx) = AvailCell(l, s + n)
         /\ AvailIdxCell(l) \in AvailPart(l) /\ AvailCell(l, s + n) \in AvailPart(l)
         /\ AvailCell(l, s + n) # AvailIdxCell(l)
<1>1. RingOK(l, mem, heads, s, r, n)
  BY DEF InUse
<1>2. s \in 0 .. IndexModulus - 1 /\ n < IndexModulus /\ idx = (s + n) % IndexModulus
  BY <1>1 DEF RingOK
<1>3. s + n \in Int /\ idx \in Int
  BY <1>2, RingNumbers
<1>4. (idx - s) % IndexModulus = n
  BY <1>2, SeenAll
<1>5. AvailCell(l, idx) = AvailCell(l, s + n)
  BY <1>2, <1>3, CellOfIndex
<1> QED
  BY <1>3, <1>4, <1>5, CellsOf

\* What the running driver does to one of its queues.
LEMMA NetTouched ==
  ASSUME NEW u \in NetSetups, NEW dev, NEW mem, NEW d, NetOK(u, dev, mem, d), \A k \in {Rx, Tx} : dev.queues[k].ready,
         NEW q \in {Rx, Tx}, NEW mem2, NetMemoryOK(u, mem2), \A c \in RingCells(u.layouts[1 - q]) : mem2[c] = mem[c],
         NEW d2, NetDriverOK(u, d2), d2.script = d.script, d2.pc = d.pc, d2.acked <=> d.acked,
         d2.seen[1 - q] = d.seen[1 - q], NetIdle(dev, d) => NetIdle(dev, d2),
         NetQueueOK(u, q, dev.queues[q], mem2, d2.seen[q], NetTold(dev, d), NetIdle(dev, d2)),
         ViewStep(u, q, dev, mem, d.seen, dev, mem2, d2.seen)
  PROVE  NetGoes(u, dev, mem, d, dev, mem2, d2)
<1> DEFINE o == 1 - q
           told == NetTold(dev, d)
           told2 == NetTold(dev, d2)
           idle == NetIdle(dev, d)
           idle2 == NetIdle(dev, d2)
<1>1. o \in {Rx, Tx} /\ q # o /\ (\A k \in {Rx, Tx} : k = q \/ k = o) /\ 1 - q = o
  BY DEF Rx, Tx
<1>2. /\ NetDeviceOK(u, dev) /\ QueuesOK(u, dev, mem, d.seen, told, idle)
  BY DEF NetOK, NetTold, NetIdle
<1>3. (told => told2) /\ (idle => idle2)
  BY SMTT(30) DEF NetTold
<1>4. NetQueueOK(u, o, dev.queues[o], mem2, d2.seen[o], told, idle) /\ ViewStep(u, o, dev, mem, d.seen, dev, mem2, d2.seen)
  <2> DEFINE qs == dev.queues[o]
             s == d.seen[o]
  <2>1. QueueOK(qs) /\ NetQueueOK(u, o, qs, mem, s, told, idle) /\ \A c \in RingCells(u.layouts[o]) : mem2[c] = mem[c]
    BY <1>1, <1>2 DEF NetDeviceOK, QueuesOK
  <2> HIDE DEF qs, s, told, idle
  <2>2. QueueKept(u, o, qs, mem, mem2, s, told, idle)
    BY <1>1, <2>1, QueueUntouched
  <2>3. d2.seen[o] = s
    BY <1>1 DEF s
  <2> HIDE DEF o
  <2> QED
    BY <2>2, <2>3, Zenon DEF QueueKept, ViewStep, LentIn, BackIn, QueueStep, qs, s
<1>5. \A k \in {Rx, Tx} : NetQueueOK(u, k, dev.queues[k], mem2, d2.seen[k], told2, idle2)
  <2>1. NetQueueOK(u, q, dev.queues[q], mem2, d2.seen[q], told, idle2)
    OBVIOUS
  <2> HIDE DEF o, told, idle, told2, idle2
  <2>2. NetQueueOK(u, q, dev.queues[q], mem2, d2.seen[q], told2, idle2)
    BY <1>3, <2>1 DEF NetQueueOK
  <2>3. NetQueueOK(u, o, dev.queues[o], mem2, d2.seen[o], told2, idle2)
    BY <1>3, <1>4 DEF NetQueueOK
  <2> QED
    BY <1>1, <2>2, <2>3
<1>6. QueuesOK(u, dev, mem2, d2.seen, told2, idle2)
  BY <1>5 DEF QueuesOK
<1>7. \A k \in {Rx, Tx} : /\ Calm(u, k, dev, mem, dev, mem2)
                          /\ ~dev.queues[k].ready => d2.seen[k] = d.seen[k]
                          /\ ViewStep(u, k, dev, mem, d.seen, dev, mem2, d2.seen)
  <2> HIDE DEF o
  <2>1. ViewStep(u, q, dev, mem, d.seen, dev, mem2, d2.seen)
    OBVIOUS
  <2> QED
    BY <1>1, <1>4, <2>1 DEF Calm
<1> HIDE DEF o, told, idle, told2, idle2
<1> QED
  BY <1>2, <1>6, <1>7, NetStays DEF told2, idle2

\* The driver offers a buffer of queue q, with contents in cells of its own.
LEMMA NetOfferStep ==
  ASSUME NetInv, NEW q \in {Rx, Tx}, NEW head \in net_setup.heads[q], NEW contents, OfferBuffer(q, head, contents),
         DOMAIN contents \subseteq {net_setup.frame_cell[q][head]}
  PROVE  NetStep
<1> DEFINE u == net_setup
           dev == net
           mem == net_mem
           d == net_driver
           mem2 == net_mem'
           d2 == net_driver'
           l == u.layouts[q]
           heads == u.heads[q]
           s == d.seen[q]
           qs == dev.queues[q]
           idx == mem[AvailIdxCell(l)]
           filled == DOMAIN contents
<1>1. /\ net_setup' = u /\ net' = dev /\ NetRunning /\ d2 = [d EXCEPT !.kick[q] = TRUE]
      /\ head \notin {mem[AvailCell(l, s + k)] : k \in 0 .. ((idx - s) % IndexModulus) - 1}
      /\ mem2 = [c \in RamCells |->
           CASE c = AvailIdxCell(l) -> (idx + 1) % IndexModulus
             [] c = AvailCell(l, idx) -> head
             [] c \in filled -> contents[c]
             [] OTHER -> mem[c]]
  BY DEF OfferBuffer, NetInFlight
<1>2. /\ u \in NetSetups /\ NetOK(u, dev, mem, d) /\ NetDeviceOK(u, dev) /\ NetDriverOK(u, d) /\ NetMemoryOK(u, mem)
      /\ QueuesOK(u, dev, mem, d.seen, NetTold(dev, d), NetIdle(dev, d)) /\ d.acked \in BOOLEAN
  BY NetHolds, DriverFields
<1>3. \A k \in {Rx, Tx} : dev.queues[k].ready
  BY <1>1, NetReady
<1>4. /\ SoundLayout(l) /\ SoundHeads(l, heads) /\ head \in heads
      /\ \A c \in filled : c \notin NetKept(u, q) \cup UsedPart(l)
      /\ TableCells(u.layouts[1 - q]) \subseteq NetKept(u, q) /\ RingCells(u.layouts[1 - q]) \subseteq NetKept(u, q)
      /\ QueueCells(l) \cap QueueCells(u.layouts[1 - q]) = {} /\ NetKept(u, q) \subseteq RamCells
  <2>1. filled \subseteq {u.frame_cell[q][head]} /\ head \in heads /\ u \in NetSetups
    BY <1>2
  <2> HIDE DEF filled, u
  <2>2. /\ SoundLayout(l) /\ SoundHeads(l, heads)
        /\ \A h \in heads : u.frame_cell[q][h] \notin NetKept(u, q) \cup UsedPart(l)
        /\ TableCells(u.layouts[1 - q]) \subseteq NetKept(u, q) /\ RingCells(u.layouts[1 - q]) \subseteq NetKept(u, q)
        /\ QueueCells(l) \cap QueueCells(u.layouts[1 - q]) = {} /\ NetKept(u, q) \subseteq RamCells
    BY <2>1, NetNumbers
  <2> QED
    BY <2>1, <2>2
<1>5. NetKept(u, q) = TableCells(l) \cup AvailPart(l) \cup QueueCells(u.layouts[1 - q])
  BY DEF NetKept
<1>6. u.layouts[1 - q] \in {u.layouts[Rx], u.layouts[Tx]} /\ SoundLayout(u.layouts[1 - q])
  <2>1. 1 - q \in {Rx, Tx}
    BY DEF Rx, Tx
  <2> QED
    BY <1>2, <2>1, NetNumbers
<1> HIDE DEF u, dev, mem, d, mem2, d2, l, heads, s, qs, idx, filled
<1> DEFINE told == NetTold(dev, d)
           idle == NetIdle(dev, d)
           o == u.layouts[1 - q]
<1>7. PICK r, n \in Nat : InUse(l, qs, mem, heads, s, r, n) /\ (r # 0 => told)
  <2>1. NetQueueOK(u, q, qs, mem, s, told, idle) /\ qs.ready
    BY <1>2, <1>3 DEF QueuesOK, qs, s
  <2> QED
    BY <2>1 DEF NetQueueOK, l, heads
<1>8. /\ (idx - s) % IndexModulus = n /\ AvailCell(l, idx) = AvailCell(l, s + n) /\ s + n \in Int
      /\ AvailIdxCell(l) \in AvailPart(l) /\ AvailCell(l, s + n) \in AvailPart(l)
      /\ AvailCell(l, s + n) # AvailIdxCell(l)
  BY <1>4, <1>7, UseInFlight DEF idx
<1>9. /\ RingCells(l) = AvailPart(l) \cup UsedPart(l) /\ QueueCells(l) = TableCells(l) \cup RingCells(l)
      /\ TableCells(l) \cap RingCells(l) = {} /\ QueueCells(o) = TableCells(o) \cup RingCells(o)
  BY <1>4, <1>6, LayoutNumbers DEF SoundLayout
<1>10. /\ mem2[AvailIdxCell(l)] = (idx + 1) % IndexModulus /\ mem2[AvailCell(l, s + n)] = head
       /\ \A c \in NetKept(u, q) \cup UsedPart(l) :
            c \notin {AvailIdxCell(l), AvailCell(l, s + n)} => mem2[c] = mem[c]
       /\ mem2 = [c \in RamCells |-> mem2[c]]
  <2> DEFINE ai == AvailIdxCell(l)
             ac == AvailCell(l, s + n)
             cells == NetKept(u, q) \cup UsedPart(l)
             next == (idx + 1) % IndexModulus
  <2>1. mem2 = [c \in RamCells |->
          CASE c = ai -> next
            [] c = ac -> head
            [] c \in filled -> contents[c]
            [] OTHER -> mem[c]]
    BY <1>1, <1>8
  <2>2. QueueCells(l) \subseteq RamCells
    BY <1>4 DEF SoundLayout
  <2>3. /\ ai \in cells /\ ac \in cells /\ ac # ai /\ cells \subseteq RamCells /\ \A c \in cells : c \notin filled
    BY <1>4, <1>5, <1>8, <1>9, <2>2
  <2> HIDE DEF ai, ac, cells, next
  <2>4. mem2[ai] = next /\ mem2[ac] = head /\ \A c \in cells : c \notin {ai, ac} => mem2[c] = mem[c]
    BY <2>1, <2>3
  <2>5. mem2 = [c \in RamCells |-> mem2[c]]
    BY <2>1
  <2> QED
    BY <2>4, <2>5 DEF ai, ac, cells, next
<1>11. /\ \A c \in RingCells(l) \ {AvailIdxCell(l), AvailCell(l, s + n)} : mem2[c] = mem[c]
       /\ \A c \in TableCells(l) : mem2[c] = mem[c]
       /\ \A c \in QueueCells(o) : mem2[c] = mem[c]
  <2> DEFINE ai == AvailIdxCell(l)
             ac == AvailCell(l, s + n)
             cells == NetKept(u, q) \cup UsedPart(l)
  <2>1. /\ RingCells(l) \subseteq cells /\ TableCells(l) \subseteq cells /\ QueueCells(o) \subseteq cells
        /\ ai \notin TableCells(l) /\ ac \notin TableCells(l) /\ ai \notin QueueCells(o) /\ ac \notin QueueCells(o)
    BY <1>4, <1>5, <1>8, <1>9
  <2>2. \A c \in cells : c \notin {ai, ac} => mem2[c] = mem[c]
    BY <1>10
  <2> HIDE DEF ai, ac, cells
  <2> QED
    BY <2>1, <2>2 DEF ai, ac
<1>12. /\ InUse(l, qs, mem2, heads, s, r, n + 1)
       /\ QueueStep(Lent(l, qs, mem), Back(l, qs, mem, s), Lent(l, qs, mem2), Back(l, qs, mem2, s))
  <2>1. head \notin {mem[AvailCell(l, s + k)] : k \in 0 .. n - 1}
    BY <1>1, <1>8
  <2>2. mem2[AvailIdxCell(l)] = (mem[AvailIdxCell(l)] + 1) % IndexModulus
    BY <1>10 DEF idx
  <2>3. /\ SoundLayout(l) /\ SoundHeads(l, heads) /\ InUse(l, qs, mem, heads, s, r, n) /\ head \in heads
        /\ mem2[AvailCell(l, s + n)] = head
        /\ \A c \in RingCells(l) \ {AvailIdxCell(l), AvailCell(l, s + n)} : mem2[c] = mem[c]
    BY <1>4, <1>7, <1>10, <1>11
  <2> QED
    BY <2>1, <2>2, <2>3, UseOffer
<1>13. KickedTo(u, d, d2, q, TRUE)
  BY <1>1, <1>2, DriverKicks
<1>14. /\ NetDriverOK(u, d2) /\ d2.script = d.script /\ d2.pc = d.pc /\ (d2.acked <=> d.acked) /\ d2.seen = d.seen
       /\ q = Rx => d2.kick[Rx] = TRUE
       /\ q # Rx => d2.kick[Rx] = d.kick[Rx]
  <2>1. q # Rx => 1 - q = Rx
    BY DEF Rx, Tx
  <2> QED
    BY <1>13, <2>1 DEF KickedTo
<1>15. NetMemoryOK(u, mem2)
  <2>1. \A k \in {Rx, Tx} : k = q \/ k = 1 - q
    BY DEF Rx, Tx
  <2>2. \A c \in TableCells(l) \cup TableCells(o) : mem2[c] = mem[c]
    BY <1>9, <1>11
  <2>3. \A k \in {Rx, Tx} : \A c \in TableCells(u.layouts[k]) : mem2[c] = mem[c]
    BY <2>1, <2>2 DEF l
  <2> QED
    BY <1>2, <1>10, <2>3 DEF NetMemoryOK
<1>16. idle => NetIdle(dev, d2)
  BY <1>14 DEF NetIdle
<1>17. NetQueueOK(u, q, qs, mem2, d2.seen[q], told, NetIdle(dev, d2))
  <2>1. q = Rx => NetIdle(dev, d2)
    BY <1>14 DEF NetIdle
  <2>2. n + 1 \in Nat /\ r \in Nat /\ qs.ready /\ d2.seen[q] = s
    BY <1>3, <1>14 DEF qs, s
  <2> HIDE DEF told
  <2> QED
    BY <1>7, <1>12, <2>1, <2>2 DEF NetQueueOK, l, heads
<1>18. ViewStep(u, q, dev, mem, d.seen, dev, mem2, d2.seen)
  BY <1>12, <1>14 DEF ViewStep, LentIn, BackIn, l, qs, s
<1>19. NetGoes(u, dev, mem, d, dev, mem2, d2)
  <2>1. \A c \in RingCells(u.layouts[1 - q]) : mem2[c] = mem[c]
    BY <1>9, <1>11
  <2>2. NetQueueOK(u, q, dev.queues[q], mem2, d2.seen[q], NetTold(dev, d), NetIdle(dev, d2))
    BY <1>17 DEF qs
  <2>3. d2.seen[1 - q] = d.seen[1 - q]
    BY <1>14
  <2> HIDE DEF o, told, idle
  <2>4. NetIdle(dev, d) => NetIdle(dev, d2)
    BY <1>16 DEF idle
  <2> QED
    BY <1>2, <1>3, <1>14, <1>15, <1>18, <2>1, <2>2, <2>3, <2>4, NetTouched
<1> QED
  BY <1>1, <1>19 DEF NetStep, u, dev, mem, d, mem2, d2

\* The driver collects the oldest buffer that came back in queue q.
LEMMA NetCollectStep == ASSUME NetInv, NEW q \in {Rx, Tx}, NetCollect(q) PROVE NetStep
<1> DEFINE u == net_setup
           dev == net
           mem == net_mem
           d == net_driver
           mem2 == net_mem'
           d2 == net_driver'
           l == u.layouts[q]
           heads == u.heads[q]
           s == d.seen[q]
           qs == dev.queues[q]
           used == UsedCell(l, s)
           fc == u.frame_cell[q][mem[used]]
           cleared == {AvailCell(l, s), UsedCell(l, s), UsedCell(l, s) + 1}
           t == (s + 1) % IndexModulus
           o == u.layouts[1 - q]
           told == NetTold(dev, d)
           idle == NetIdle(dev, d)
<1>1. /\ net_setup' = u /\ net' = dev /\ NetRunning /\ mem[UsedIdxCell(l)] # s
      /\ d2 = [d EXCEPT !.seen[q] = (@ + 1) % IndexModulus]
      /\ mem2 = [c \in RamCells |-> IF c \in {AvailCell(l, s), used, used + 1, fc} THEN 0 ELSE mem[c]]
  BY DEF NetCollect
<1>2. /\ u \in NetSetups /\ NetOK(u, dev, mem, d) /\ NetDeviceOK(u, dev) /\ NetDriverOK(u, d) /\ NetMemoryOK(u, mem)
      /\ QueuesOK(u, dev, mem, d.seen, told, idle) /\ d.acked \in BOOLEAN
  BY NetHolds, DriverFields
<1>3. \A k \in {Rx, Tx} : dev.queues[k].ready
  BY <1>1, NetReady
<1> HIDE DEF u, dev, mem, d, mem2, d2, l, heads, s, qs, o, told, idle
<1>4. /\ SoundLayout(l) /\ SoundLayout(o) /\ (\A h \in heads : u.frame_cell[q][h] \notin NetKept(u, q) \cup UsedPart(l))
      /\ QueueCells(l) \cap QueueCells(o) = {} /\ NetKept(u, q) \subseteq RamCells
      /\ NetKept(u, q) = TableCells(l) \cup AvailPart(l) \cup QueueCells(o)
  <2>1. 1 - q \in {Rx, Tx}
    BY DEF Rx, Tx
  <2>2. SoundLayout(o)
    BY <1>2, <2>1, NetNumbers DEF o
  <2>3. /\ SoundLayout(l) /\ (\A h \in heads : u.frame_cell[q][h] \notin NetKept(u, q) \cup UsedPart(l))
        /\ QueueCells(l) \cap QueueCells(o) = {} /\ NetKept(u, q) \subseteq RamCells
    BY <1>2, NetNumbers DEF l, o, heads
  <2> QED
    BY <2>2, <2>3 DEF NetKept, l, o
<1>5. PICK r, n \in Nat :
        InUse(l, qs, mem, heads, s, r, n) /\ (r # 0 => told) /\ (q = Rx /\ Roomy(u) /\ ~idle => r = n)
  <2>1. NetQueueOK(u, q, qs, mem, s, told, idle) /\ qs.ready
    BY <1>2, <1>3 DEF QueuesOK, qs, s
  <2> QED
    BY <2>1 DEF NetQueueOK, l, heads
<1>6. r # 0 /\ s \in Int /\ mem[used] \in heads
  <2>1. RingOK(l, mem, heads, s, r, n)
    BY <1>5 DEF InUse
  <2>2. /\ s \in 0 .. IndexModulus - 1 /\ r <= n /\ n < IndexModulus /\ mem[UsedIdxCell(l)] = (s + r) % IndexModulus
        /\ \A k \in 0 .. n - 1 : mem[AvailCell(l, s + k)] \in heads
        /\ \A k \in 0 .. r - 1 : mem[UsedCell(l, s + k)] = mem[AvailCell(l, s + k)]
    BY <2>1 DEF RingOK
  <2>3. r # 0
    <3>1. r < IndexModulus
      BY <1>5, <2>2, RingNumbers
    <3> QED
      BY <1>1, <1>5, <2>2, <3>1, SeenAll
  <2>4. s \in Int /\ s + 0 = s
    BY <2>2
  <2>5. 0 \in 0 .. r - 1 /\ 0 \in 0 .. n - 1
    BY <1>5, <2>2, <2>3
  <2>6. mem[UsedCell(l, s + 0)] \in heads
    BY <2>2, <2>5
  <2> QED
    BY <2>3, <2>4, <2>6
<1>7. /\ RingCells(l) = AvailPart(l) \cup UsedPart(l) /\ QueueCells(l) = TableCells(l) \cup RingCells(l)
      /\ TableCells(l) \cap RingCells(l) = {} /\ QueueCells(o) = TableCells(o) \cup RingCells(o)
      /\ QueueCells(l) \subseteq RamCells
  BY <1>4, LayoutNumbers DEF SoundLayout
<1>8. cleared \subseteq RingCells(l)
  BY <1>4, <1>6, <1>7, CellsOf
<1> HIDE DEF fc, cleared
<1>9. fc \notin NetKept(u, q) \cup UsedPart(l)
  BY <1>4, <1>6 DEF fc
<1>10. /\ \A c \in NetKept(u, q) \cup UsedPart(l) : c \notin cleared => mem2[c] = mem[c]
       /\ mem2 = [c \in RamCells |-> mem2[c]]
  <2> DEFINE cells == NetKept(u, q) \cup UsedPart(l)
             gone == cleared \cup {fc}
  <2>1. mem2 = [c \in RamCells |-> IF c \in gone THEN 0 ELSE mem[c]]
    <3>1. gone = {AvailCell(l, s), used, used + 1, fc}
      BY DEF cleared
    <3> QED
      BY <1>1, <3>1
  <2>2. cells \subseteq RamCells /\ \A c \in cells : c \notin cleared => c \notin gone
    BY <1>4, <1>7, <1>9
  <2> HIDE DEF cells, gone
  <2>3. \A c \in cells : c \notin cleared => mem2[c] = mem[c]
    BY <2>1, <2>2
  <2>4. mem2 = [c \in RamCells |-> mem2[c]]
    BY <2>1
  <2> QED
    BY <2>3, <2>4 DEF cells
<1>11. /\ \A c \in RingCells(l) \ cleared : mem2[c] = mem[c]
       /\ \A c \in TableCells(l) : mem2[c] = mem[c]
       /\ \A c \in QueueCells(o) : mem2[c] = mem[c]
  <2> DEFINE cells == NetKept(u, q) \cup UsedPart(l)
  <2>1. /\ RingCells(l) \subseteq cells /\ TableCells(l) \subseteq cells /\ QueueCells(o) \subseteq cells
        /\ cleared \cap TableCells(l) = {} /\ cleared \cap QueueCells(o) = {}
    BY <1>4, <1>7, <1>8
  <2>2. \A c \in cells : c \notin cleared => mem2[c] = mem[c]
    BY <1>10
  <2> HIDE DEF cells
  <2> QED
    BY <2>1, <2>2
<1>12. /\ InUse(l, qs, mem2, heads, t, r - 1, n - 1)
       /\ QueueStep(Lent(l, qs, mem), Back(l, qs, mem, s), Lent(l, qs, mem2), Back(l, qs, mem2, t))
  <2>1. /\ SoundLayout(l) /\ InUse(l, qs, mem, heads, s, r, n) /\ r # 0
        /\ \A c \in RingCells(l) \ cleared : mem2[c] = mem[c]
    BY <1>4, <1>5, <1>6, <1>11
  <2>2. cleared = {AvailCell(l, s), UsedCell(l, s), UsedCell(l, s) + 1}
    BY DEF cleared
  <2>3. t = (s + 1) % IndexModulus
    OBVIOUS
  <2> HIDE DEF used, t
  <2>4. UseCollected(l, qs, mem, heads, s, r, n, t, mem2)
    BY <2>1, <2>2, <2>3, UseCollect
  <2> QED
    BY <2>4 DEF UseCollected
<1>13. SeenTo(u, d, d2, q)
  BY <1>1, <1>2, DriverSees
<1>14. /\ NetDriverOK(u, d2) /\ d2.script = d.script /\ d2.pc = d.pc /\ (d2.acked <=> d.acked)
       /\ d2.seen[q] = t /\ d2.seen[1 - q] = d.seen[1 - q] /\ d2.kick = d.kick
  BY <1>13 DEF SeenTo, s
<1> HIDE DEF t
<1>15. NetMemoryOK(u, mem2)
  <2>1. \A k \in {Rx, Tx} : k = q \/ k = 1 - q
    BY DEF Rx, Tx
  <2>2. \A c \in TableCells(l) \cup TableCells(o) : mem2[c] = mem[c]
    BY <1>7, <1>11
  <2>3. \A k \in {Rx, Tx} : \A c \in TableCells(u.layouts[k]) : mem2[c] = mem[c]
    BY <2>1, <2>2 DEF l, o
  <2> QED
    BY <1>2, <1>10, <2>3 DEF NetMemoryOK
<1>16. NetIdle(dev, d2) <=> idle
  BY <1>14 DEF NetIdle, idle
<1>17. NetQueueOK(u, q, qs, mem2, d2.seen[q], told, NetIdle(dev, d2))
  <2> DEFINE i == r - 1
             j == n - 1
             idle2 == NetIdle(dev, d2)
  <2>1. i \in Nat /\ j \in Nat /\ (i # 0 => told) /\ (q = Rx /\ Roomy(u) /\ ~idle2 => i = j)
    <3>1. r \in Nat /\ n \in Nat /\ r # 0 /\ r <= n
      <4>1. RingOK(l, mem, heads, s, r, n)
        BY <1>5 DEF InUse
      <4> QED
        BY <1>4, <1>5, <1>6, <4>1, RingIndices
    <3> QED
      BY <1>5, <1>16, <3>1
  <2>2. qs.ready /\ d2.seen[q] = t /\ InUse(l, qs, mem2, heads, t, i, j)
    BY <1>3, <1>12, <1>14 DEF qs
  <2> HIDE DEF i, j, idle2
  <2>3. NetQueueOK(u, q, qs, mem2, d2.seen[q], told, idle2)
    BY <2>1, <2>2 DEF NetQueueOK, l, heads
  <2> QED
    BY <2>3 DEF idle2
<1>18. ViewStep(u, q, dev, mem, d.seen, dev, mem2, d2.seen)
  BY <1>12, <1>14 DEF ViewStep, LentIn, BackIn, l, qs, s
<1>19. NetGoes(u, dev, mem, d, dev, mem2, d2)
  <2>1. \A c \in RingCells(u.layouts[1 - q]) : mem2[c] = mem[c]
    BY <1>7, <1>11 DEF o
  <2>2. NetQueueOK(u, q, dev.queues[q], mem2, d2.seen[q], NetTold(dev, d), NetIdle(dev, d2))
    BY <1>17 DEF qs, told
  <2>3. NetIdle(dev, d) => NetIdle(dev, d2)
    BY <1>16 DEF idle
  <2> QED
    BY <1>2, <1>3, <1>14, <1>15, <1>18, <2>1, <2>2, <2>3, NetTouched
<1> QED
  BY <1>1, <1>19 DEF NetStep, u, dev, mem, d, mem2, d2

-----------------------------------------------------------------------------
(* The driver's writes                                                     *)

\* The device after a write that leaves its frames and its interrupt alone.
NetWritten(u, dev, dev2) ==
  /\ NetDeviceOK(u, dev2) /\ dev2.pending = dev.pending /\ dev2.interrupt_status = dev.interrupt_status

LEMMA NetSelects ==
  ASSUME NEW u, NEW dev, NetDeviceOK(u, dev), NEW k, NEW dev2, dev2 = WriteNetRegister(dev, "QueueSel", k)
  PROVE  NetWritten(u, dev, dev2) /\ dev2.queues = dev.queues /\ dev2.regs.queue_sel = k
<1> DEFINE r == [dev.regs EXCEPT !.queue_sel = k]
<1>1. dev2 = [dev EXCEPT !.regs = r]
  BY DEF WriteNetRegister, CommonRegisters, WriteCommonRegister
<1>2. r.queue_sel = k /\ "queue_sel" \in DOMAIN r
  BY DEF NetDeviceOK
<1> HIDE DEF r
<1>3. /\ dev2.regs = r /\ dev2.queues = dev.queues /\ dev2.pending = dev.pending /\ dev2.told = dev.told
      /\ dev2.interrupt_status = dev.interrupt_status /\ dev2.loopback = dev.loopback /\ DOMAIN dev2 = DOMAIN dev
  BY <1>1 DEF NetDeviceOK
<1>4. NetDeviceOK(u, dev2)
  BY <1>2, <1>3 DEF NetDeviceOK
<1> QED
  BY <1>2, <1>3, <1>4 DEF NetWritten

LEMMA NetSets ==
  ASSUME NEW u, NEW dev, NetDeviceOK(u, dev), NEW k \in {Rx, Tx}, dev.regs.queue_sel = k,
         NEW reg \in QueueRegisters, NEW value, NEW qs, qs = WriteQueueRegister(dev.queues[k], reg, value), QueueOK(qs),
         NEW dev2, dev2 = WriteNetRegister(dev, reg, value)
  PROVE  /\ NetWritten(u, dev, dev2) /\ dev2.queues[k] = qs /\ dev2.queues[1 - k] = dev.queues[1 - k]
         /\ dev2.regs.queue_sel = k
<1> DEFINE queues == [dev.queues EXCEPT ![k] = qs]
<1>0. reg # "InterruptAck" /\ reg # "Status" /\ reg \notin CommonRegisters
  BY DEF QueueRegisters, CommonRegisters
<1>1. dev2 = WriteNetQueue(dev, reg, value)
  BY <1>0 DEF WriteNetRegister
<1>a. dev2 = [dev EXCEPT !.queues = queues]
  BY <1>1 DEF WriteNetQueue
<1>2. /\ DOMAIN queues = {Rx, Tx} /\ queues[k] = qs /\ queues[1 - k] = dev.queues[1 - k]
      /\ \A q \in {Rx, Tx} : QueueOK(queues[q])
  <2>1. DOMAIN dev.queues = {Rx, Tx} /\ \A q \in {Rx, Tx} : QueueOK(dev.queues[q])
    BY DEF NetDeviceOK
  <2>2. DOMAIN queues = {Rx, Tx} /\ queues[k] = qs /\ \A q \in {Rx, Tx} : q # k => queues[q] = dev.queues[q]
    BY <2>1
  <2>3. 1 - k \in {Rx, Tx} /\ 1 - k # k
    BY DEF Rx, Tx
  <2> HIDE DEF queues
  <2>4. \A q \in {Rx, Tx} : QueueOK(queues[q])
    <3> TAKE q \in {Rx, Tx}
    <3>1. CASE q = k
      BY <2>2, <3>1
    <3>2. CASE q # k
      BY <2>1, <2>2, <3>2
    <3> QED
      BY <3>1, <3>2
  <2> QED
    BY <2>2, <2>3, <2>4
<1> HIDE DEF queues
<1>3. /\ dev2.regs = dev.regs /\ dev2.queues = queues /\ dev2.pending = dev.pending /\ dev2.told = dev.told
      /\ dev2.interrupt_status = dev.interrupt_status /\ dev2.loopback = dev.loopback /\ DOMAIN dev2 = DOMAIN dev
  BY <1>a DEF NetDeviceOK
<1>4. NetDeviceOK(u, dev2)
  BY <1>2, <1>3 DEF NetDeviceOK
<1> QED
  BY <1>2, <1>3, <1>4 DEF NetWritten

LEMMA NetResets ==
  ASSUME NEW u, NEW dev, NetDeviceOK(u, dev), NEW dev2, dev2 = ResetNet(dev)
  PROVE  NetDeviceOK(u, dev2) /\ \A q \in {Rx, Tx} : Stopped(dev2.queues[q])
<1> DEFINE queues == [q \in {Rx, Tx} |-> ResetQueue]
           dev1 == [dev EXCEPT !.regs = ResetRegisters, !.guest_header = NetHdr, !.queues = queues]
<1>1. dev2 = SetInterrupt(dev1, 0)
  BY DEF ResetNet
<1>2. /\ dev1.regs = ResetRegisters /\ dev1.queues = queues /\ dev1.pending = dev.pending /\ dev1.told = dev.told
      /\ dev1.interrupt_status = dev.interrupt_status /\ dev1.loopback = dev.loopback /\ DOMAIN dev1 = DOMAIN dev
  BY DEF NetDeviceOK
<1>3. QueueOK(ResetQueue) /\ Stopped(ResetQueue)
  <2>1. 0 \in 0 .. IndexModulus - 1
    BY RingNumbers
  <2> QED
    BY <2>1 DEF QueueOK, ResetQueue, Stopped
<1>4. DOMAIN queues = {Rx, Tx} /\ \A q \in {Rx, Tx} : QueueOK(queues[q]) /\ Stopped(queues[q])
  BY <1>3
<1>5. "queue_sel" \in DOMAIN ResetRegisters
  BY DEF ResetRegisters
<1> HIDE DEF queues, dev1
<1>6. NetDeviceOK(u, dev1)
  BY <1>2, <1>4, <1>5 DEF NetDeviceOK
<1>7. NetDeviceOK(u, dev2) /\ dev2.queues = dev1.queues
  BY <1>1, <1>6, NetInterruptTold
<1> QED
  BY <1>2, <1>4, <1>7

LEMMA NetStaysStopped ==
  ASSUME NEW u, NEW dev, NetDeviceOK(u, dev), \A q \in {Rx, Tx} : Stopped(dev.queues[q]),
         NEW reg, reg # "QueueReady", NEW value \in Nat, NEW dev2, dev2 = WriteNetRegister(dev, reg, value)
  PROVE  NetDeviceOK(u, dev2) /\ \A q \in {Rx, Tx} : Stopped(dev2.queues[q])
<1>1. CASE reg = "InterruptAck"
  <2> DEFINE v == IF value % 2 = 1 THEN 0 ELSE dev.interrupt_status
  <2>1. dev2 = SetInterrupt(dev, v)
    BY <1>1 DEF WriteNetRegister, CommonRegisters
  <2> HIDE DEF v
  <2>2. NetDeviceOK(u, dev2) /\ dev2.queues = dev.queues
    BY <2>1, NetInterruptTold
  <2> QED
    BY <2>2
<1>2. CASE reg = "Status"
  <2>1. CASE value = 0
    <3>1. dev2 = ResetNet(dev)
      BY <1>2, <2>1 DEF WriteNetRegister, CommonRegisters
    <3> QED
      BY <3>1, NetResets
  <2>2. CASE value # 0
    <3>1. dev2 = [dev EXCEPT !.regs.status = value]
      BY <1>2, <2>2 DEF WriteNetRegister, CommonRegisters
    <3> DEFINE r == [dev.regs EXCEPT !.status = value]
    <3>2. dev2 = [dev EXCEPT !.regs = r] /\ "queue_sel" \in DOMAIN r
      BY <3>1 DEF NetDeviceOK
    <3> HIDE DEF r
    <3> QED
      BY <3>2 DEF NetDeviceOK
  <2> QED
    BY <2>1, <2>2
<1>3. CASE reg \in CommonRegisters
  <2> DEFINE r == WriteCommonRegister(dev.regs, reg, value)
  <2>1. dev2 = [dev EXCEPT !.regs = r]
    BY <1>3 DEF WriteNetRegister, CommonRegisters
  <2>2. "queue_sel" \in DOMAIN r
    BY <1>3 DEF WriteCommonRegister, CommonRegisters, NetDeviceOK
  <2> HIDE DEF r
  <2> QED
    BY <2>1, <2>2 DEF NetDeviceOK
<1>4. CASE reg \notin CommonRegisters \cup {"InterruptAck", "Status"}
  <2>1. dev2 = WriteNetQueue(dev, reg, value)
    BY <1>4 DEF WriteNetRegister
  <2>2. CASE dev.regs.queue_sel \notin {Rx, Tx}
    BY <2>1, <2>2 DEF WriteNetQueue
  <2>3. CASE dev.regs.queue_sel \in {Rx, Tx}
    <3> DEFINE k == dev.regs.queue_sel
               qs == WriteQueueRegister(dev.queues[k], reg, value)
               queues == [dev.queues EXCEPT ![k] = qs]
    <3>1. QueueOK(qs) /\ Stopped(qs)
      <4>1. QueueOK(dev.queues[k]) /\ Stopped(dev.queues[k])
        BY <2>3 DEF NetDeviceOK
      <4> HIDE DEF k
      <4> QED
        BY <4>1, QueueWritten DEF Stopped
    <3>2. dev2 = [dev EXCEPT !.queues = queues]
      BY <2>1, <2>3 DEF WriteNetQueue
    <3> HIDE DEF qs
    <3>3. DOMAIN queues = {Rx, Tx} /\ \A q \in {Rx, Tx} : QueueOK(queues[q]) /\ Stopped(queues[q])
      BY <3>1 DEF NetDeviceOK
    <3> HIDE DEF queues
    <3> QED
      BY <3>2, <3>3 DEF NetDeviceOK
  <2> QED
    BY <2>2, <2>3
<1> QED
  BY <1>1, <1>2, <1>3, <1>4

\* The next write of the script, by the driver or to the device.
NetWrites(u, c, dev, mem, d, dev2, mem2, d2) ==
  /\ u \in NetSetups /\ NetOK(u, dev, mem, d) /\ c = u.scripts[d.script] /\ d.pc \in 1 .. Len(c)
  /\ NetDriverOK(u, d2) /\ d2.script = d.script /\ d2.pc = d.pc + 1
  /\ c[d.pc][1] = "EmptyRings" =>
       /\ mem2 = [x \in RamCells |->
                    IF x \in RingCells(u.layouts[Rx]) \cup RingCells(u.layouts[Tx]) THEN 0 ELSE mem[x]]
       /\ dev2 = dev /\ \A q \in {Rx, Tx} : d2.seen[q] = 0
  /\ c[d.pc][1] # "EmptyRings" =>
       /\ dev2 = WriteNetRegister(dev, c[d.pc][1], c[d.pc][2]) /\ mem2 = mem
       /\ d2.seen = d.seen /\ (d2.acked <=> d.acked) /\ d2.kick = d.kick

LEMMA NetAdvance ==
  ASSUME NetInv, NetDriverWrite
  PROVE  /\ net_setup' = net_setup
         /\ NetWrites(net_setup, NetScript, net, net_mem, net_driver, net', net_mem', net_driver')
<1> DEFINE u == net_setup
           dev == net
           mem == net_mem
           d == net_driver
           d2 == net_driver'
           c == NetScript
           w == c[d.pc]
           none == [q \in {Rx, Tx} |-> 0]
           calm == [q \in {Rx, Tx} |-> FALSE]
<1>1. /\ ~NetRunning /\ net_setup' = u
      /\ IF w[1] = "EmptyRings"
         THEN /\ net_mem' = [x \in RamCells |->
                   IF x \in RingCells(u.layouts[Rx]) \cup RingCells(u.layouts[Tx]) THEN 0 ELSE mem[x]]
              /\ d2 = [d EXCEPT !.pc = @ + 1, !.acked = FALSE, !.seen = none, !.kick = calm]
              /\ net' = dev
         ELSE net' = WriteNetRegister(dev, w[1], w[2]) /\ d2 = [d EXCEPT !.pc = @ + 1] /\ net_mem' = mem
  BY DEF NetDriverWrite, RxLayout, TxLayout
<1>2. /\ u \in NetSetups /\ NetOK(u, dev, mem, d) /\ NetDriverOK(u, d)
  BY NetHolds
<1>3. /\ d = [script |-> d.script, pc |-> d.pc, acked |-> d.acked, seen |-> d.seen, kick |-> d.kick]
      /\ d.script \in DOMAIN u.scripts /\ d.pc \in 1 .. Len(u.scripts[d.script]) + 1 /\ d.acked \in BOOLEAN
      /\ d.seen \in [{Rx, Tx} -> 0 .. IndexModulus - 1] /\ d.kick \in [{Rx, Tx} -> BOOLEAN]
  BY <1>2, DriverFields
<1>4. c = u.scripts[d.script] /\ Len(c) \in Nat /\ ~(d.pc > Len(c))
  <2>1. c = u.scripts[d.script] /\ ~(d.pc > Len(c))
    BY <1>1 DEF NetScript, NetRunning
  <2>2. Len(u.scripts[d.script]) \in Nat
    BY <1>2, NetSound
  <2> QED
    BY <2>1, <2>2
<1>5. d.pc \in 1 .. Len(c) /\ d.pc + 1 \in 1 .. Len(u.scripts[d.script]) + 1
  BY <1>3, <1>4
<1>6. none \in [{Rx, Tx} -> 0 .. IndexModulus - 1] /\ calm \in [{Rx, Tx} -> BOOLEAN] /\ \A q \in {Rx, Tx} : none[q] = 0
  BY RingNumbers
<1> HIDE DEF u, dev, mem, d, d2, w, none, calm, c
<1>7. CASE w[1] = "EmptyRings"
  <2>1. d2 = [d EXCEPT !.pc = @ + 1, !.acked = FALSE, !.seen = none, !.kick = calm]
    BY <1>1, <1>7
  <2>2. d2 = [script |-> d.script, pc |-> d.pc + 1, acked |-> FALSE, seen |-> none, kick |-> calm]
    BY <1>3, <2>1, Zenon
  <2>3. d2.script = d.script /\ d2.pc = d.pc + 1 /\ d2.acked = FALSE /\ d2.seen = none /\ d2.kick = calm
    BY <2>2
  <2>4. NetDriverOK(u, d2)
    BY <1>3, <1>5, <1>6, <2>2, <2>3 DEF NetDriverOK
  <2>5. \A q \in {Rx, Tx} : d2.seen[q] = 0
    BY <1>6, <2>3
  <2>6. NetWrites(u, c, dev, mem, d, net', net_mem', d2)
    BY <1>1, <1>2, <1>4, <1>5, <1>7, <2>3, <2>4, <2>5 DEF NetWrites, w
  <2> QED
    BY <1>1, <2>6 DEF u, c, dev, mem, d, d2
<1>8. CASE w[1] # "EmptyRings"
  <2>1. d2 = [d EXCEPT !.pc = @ + 1]
    BY <1>1, <1>8
  <2>2. d2 = [script |-> d.script, pc |-> d.pc + 1, acked |-> d.acked, seen |-> d.seen, kick |-> d.kick]
    BY <1>3, <2>1, Zenon
  <2>3. d2.script = d.script /\ d2.pc = d.pc + 1 /\ d2.acked = d.acked /\ d2.seen = d.seen /\ d2.kick = d.kick
    BY <2>2
  <2>4. NetDriverOK(u, d2)
    BY <1>3, <1>5, <2>2, <2>3, SMTT(30) DEF NetDriverOK
  <2>6. NetWrites(u, c, dev, mem, d, net', net_mem', d2)
    BY <1>1, <1>2, <1>4, <1>5, <1>8, <2>3, <2>4 DEF NetWrites, w
  <2> QED
    BY <1>1, <2>6 DEF u, c, dev, mem, d, d2
<1> QED
  BY <1>7, <1>8

\* A write that is not to queue q takes its script one further.
LEMMA ScriptPasses ==
  ASSUME NEW u, NEW c, NetScriptOK(c, u.layouts), NEW q \in {Rx, Tx}, NEW pc \in 1 .. Len(c), NEW sel, NEW qs,
         NEW seen, NEW mem, ScriptAt(u, q, c, pc, sel, qs, seen, mem), c[pc][1] # "EmptyRings", NEW sel2,
         pc # StopAt(c, q), pc > StartAt(c, q) \/ pc < StartAt(c, q) - 8,
         c[1][1] # "Status" /\ pc + 1 = StopAt(c, q) => sel2 = q
  PROVE  ScriptAt(u, q, c, pc + 1, sel2, qs, seen, mem)
<1> DEFINE start == StartAt(c, q)
           stop == StopAt(c, q)
<1>1. Len(c) \in Nat /\ start \in Nat /\ stop \in Nat /\ pc \in Nat /\ stop < start - 8
  <2>1. /\ Len(c) \in Nat /\ StopsBy(c) \in {1, 4} /\ Len(c) >= StopsBy(c) + 19
        /\ StartAt(c, Rx) = Len(c) - 9 /\ StartAt(c, Tx) = Len(c) /\ StopAt(c, q) \in 1 .. StopsBy(c)
    BY ScriptNumbers
  <2>2. start = Len(c) - 9 \/ start = Len(c)
    BY <2>1
  <2>3. pc \in Nat
    BY <2>1
  <2> HIDE DEF start, stop
  <2>5. stop \in 1 .. StopsBy(c)
    BY <2>1 DEF stop
  <2> QED
    BY <2>1, <2>2, <2>3, <2>5
<1>2. /\ pc > start => qs.ready
      /\ pc > stop /\ pc <= start => ~qs.ready
      /\ Emptied(c, pc) /\ pc <= start => seen = 0 /\ \A x \in RingCells(u.layouts[q]) : mem[x] = 0
  BY DEF ScriptAt
<1>3. Emptied(c, pc + 1) => Emptied(c, pc)
  <2> HAVE Emptied(c, pc + 1)
  <2>1. PICK k \in 1 .. pc : c[k][1] = "EmptyRings"
    BY <1>1 DEF Emptied
  <2>2. k \in 1 .. pc - 1
    BY <1>1, <2>1
  <2> QED
    BY <2>1, <2>2 DEF Emptied
<1>4. pc # stop /\ (pc > start \/ pc < start - 8)
  OBVIOUS
<1> HIDE DEF start, stop
<1>5. /\ pc + 1 > start => qs.ready
      /\ pc + 1 > stop /\ pc + 1 <= start => ~qs.ready
      /\ Emptied(c, pc + 1) /\ pc + 1 <= start => seen = 0 /\ \A x \in RingCells(u.layouts[q]) : mem[x] = 0
  BY <1>1, <1>2, <1>3, <1>4
<1>6. \A j \in 0 .. 8 : pc + 1 = start - 8 + j => Programmed(j, sel2, qs, q, u.layouts[q])
  <2> TAKE j \in 0 .. 8
  <2> HAVE pc + 1 = start - 8 + j
  <2>1. j = 0
    BY <1>1, <1>4
  <2> QED
    BY <2>1 DEF Programmed
<1> QED
  BY <1>5, <1>6 DEF ScriptAt, start, stop

\* The write that stops queue q.
LEMMA ScriptStops ==
  ASSUME NEW u, NEW c, NetScriptOK(c, u.layouts), NEW q \in {Rx, Tx}, NEW sel, NEW qs, Stopped(qs), NEW seen, NEW mem
  PROVE  ScriptAt(u, q, c, StopAt(c, q) + 1, sel, qs, seen, mem)
<1> DEFINE start == StartAt(c, q)
           stop == StopAt(c, q)
<1>1. stop \in Nat /\ start \in Nat /\ stop + 1 < start - 8 /\ ~Emptied(c, stop + 1)
  <2>1. /\ Len(c) \in Nat /\ StopsBy(c) \in {1, 4} /\ Len(c) >= StopsBy(c) + 19
        /\ StartAt(c, Rx) = Len(c) - 9 /\ StartAt(c, Tx) = Len(c) /\ StopAt(c, q) \in 1 .. StopsBy(c)
        /\ \A p \in Nat : Emptied(c, p) => p > StopsBy(c) + 1
    BY ScriptNumbers
  <2>2. start = Len(c) - 9 \/ start = Len(c)
    BY <2>1
  <2> HIDE DEF start, stop
  <2>3. stop \in 1 .. StopsBy(c)
    BY <2>1 DEF stop
  <2>4. stop + 1 \in Nat /\ ~(stop + 1 > StopsBy(c) + 1)
    BY <2>1, <2>3
  <2> QED
    BY <2>1, <2>2, <2>3, <2>4
<1> HIDE DEF start, stop
<1>2. /\ ~(stop + 1 > start) /\ stop + 1 # stop /\ \A j \in 0 .. 8 : stop + 1 # start - 8 + j
  BY <1>1
<1> QED
  BY <1>1, <1>2 DEF ScriptAt, Stopped, start, stop

\* What the step does to queue k.
NetMoved(u, c, k, dev, mem, d, dev2, mem2, d2) ==
  /\ NetQueueOK(u, k, dev2.queues[k], mem2, d2.seen[k], NetTold(dev2, d2), NetIdle(dev2, d2))
  /\ ScriptAt(u, k, c, d.pc + 1, dev2.regs.queue_sel, dev2.queues[k], d2.seen[k], mem2)
  /\ ViewStep(u, k, dev, mem, d.seen, dev2, mem2, d2.seen)

LEMMA NetMoves ==
  ASSUME NEW u, NEW c, NEW dev, NEW mem, NEW d, NEW dev2, NEW mem2, NEW d2,
         NetWrites(u, c, dev, mem, d, dev2, mem2, d2), NetDeviceOK(u, dev2), NetMemoryOK(u, mem2),
         \A k \in {Rx, Tx} : NetMoved(u, c, k, dev, mem, d, dev2, mem2, d2)
  PROVE  NetGoes(u, dev, mem, d, dev2, mem2, d2)
<1>1. NetDriverOK(u, d2) /\ c = u.scripts[d2.script] /\ d2.pc = d.pc + 1
  BY DEF NetWrites
<1>2. QueuesOK(u, dev2, mem2, d2.seen, dev2.interrupt_status # 0 \/ d2.acked, dev2.pending = <<>> \/ d2.kick[Rx])
  BY DEF NetMoved, QueuesOK, NetTold, NetIdle
<1>3. \A q \in {Rx, Tx} :
        ScriptAt(u, q, u.scripts[d2.script], d2.pc, dev2.regs.queue_sel, dev2.queues[q], d2.seen[q], mem2)
  BY <1>1 DEF NetMoved
<1>4. NetOK(u, dev2, mem2, d2)
  BY <1>1, <1>2, <1>3 DEF NetOK
<1>5. \A k \in {Rx, Tx} : ViewStep(u, k, dev, mem, d.seen, dev2, mem2, d2.seen)
  BY DEF NetMoved
<1> QED
  BY <1>4, <1>5 DEF NetGoes

\* A queue that is stopped, or has not been started yet, shows nothing.
LEMMA StoppedMoves ==
  ASSUME NEW u, NEW c, NEW k, NEW dev, NEW mem, NEW d, NEW dev2, NEW mem2, NEW d2, Stopped(dev2.queues[k]),
         ScriptAt(u, k, c, d.pc + 1, dev2.regs.queue_sel, dev2.queues[k], d2.seen[k], mem2)
  PROVE  NetMoved(u, c, k, dev, mem, d, dev2, mem2, d2)
<1>1. ~dev2.queues[k].ready
  BY DEF Stopped
<1>2. NetQueueOK(u, k, dev2.queues[k], mem2, d2.seen[k], NetTold(dev2, d2), NetIdle(dev2, d2))
  BY <1>1 DEF NetQueueOK
<1>3. LentIn(u, k, dev2, mem2) = <<>> /\ BackIn(u, k, dev2, mem2, d2.seen) = <<>>
  BY <1>1 DEF LentIn, BackIn, Lent, Back
<1>4. ViewStep(u, k, dev, mem, d.seen, dev2, mem2, d2.seen)
  BY <1>3 DEF ViewStep, QueueStep
<1> QED
  BY <1>2, <1>4 DEF NetMoved

\* A queue that the write does not concern.
LEMMA PassedMoves ==
  ASSUME NEW u, NEW c, NEW k \in {Rx, Tx}, NEW dev, NEW mem, NEW d, NEW dev2, NEW mem2, NEW d2,
         NetWrites(u, c, dev, mem, d, dev2, mem2, d2), NetWritten(u, dev, dev2), c[d.pc][1] # "EmptyRings",
         dev2.queues[k] = dev.queues[k],
         d.pc # StopAt(c, k), d.pc > StartAt(c, k) \/ d.pc < StartAt(c, k) - 8,
         c[1][1] # "Status" /\ d.pc + 1 = StopAt(c, k) => dev2.regs.queue_sel = k
  PROVE  NetMoved(u, c, k, dev, mem, d, dev2, mem2, d2)
<1> DEFINE qs == dev.queues[k]
           s == d.seen[k]
           sel == dev.regs.queue_sel
           sel2 == dev2.regs.queue_sel
           pc == d.pc
<1>1. /\ u \in NetSetups /\ NetOK(u, dev, mem, d) /\ c = u.scripts[d.script] /\ pc \in 1 .. Len(c)
      /\ mem2 = mem /\ d2.seen = d.seen /\ (d2.acked <=> d.acked) /\ d2.kick = d.kick
  BY DEF NetWrites
<1>2. NetScriptOK(c, u.layouts) /\ ScriptAt(u, k, c, pc, sel, qs, s, mem)
  BY <1>1, NetSound
<1>3. (NetTold(dev2, d2) <=> NetTold(dev, d)) /\ (NetIdle(dev2, d2) <=> NetIdle(dev, d))
  BY <1>1 DEF NetWritten, NetTold, NetIdle
<1>4. NetQueueOK(u, k, qs, mem, s, NetTold(dev, d), NetIdle(dev, d))
  BY <1>1 DEF NetOK, QueuesOK, NetTold, NetIdle
<1>5. NetQueueOK(u, k, qs, mem, s, NetTold(dev2, d2), NetIdle(dev2, d2))
  BY <1>3, <1>4 DEF NetQueueOK
<1>6. ScriptAt(u, k, c, pc + 1, sel2, qs, s, mem)
  <2>1. /\ pc # StopAt(c, k) /\ (pc > StartAt(c, k) \/ pc < StartAt(c, k) - 8) /\ c[pc][1] # "EmptyRings"
        /\ (c[1][1] # "Status" /\ pc + 1 = StopAt(c, k) => sel2 = k)
    OBVIOUS
  <2> HIDE DEF pc, sel, sel2, qs, s
  <2> QED
    BY <1>1, <1>2, <2>1, ScriptPasses
<1>7. ViewStep(u, k, dev, mem, d.seen, dev2, mem2, d2.seen)
  BY <1>1 DEF ViewStep, LentIn, BackIn, QueueStep
<1> QED
  BY <1>1, <1>5, <1>6, <1>7 DEF NetMoved

\* The writes that stop the queues: a reset,
LEMMA NetResetMoves ==
  ASSUME NEW u, NEW c, NEW dev, NEW mem, NEW d, NEW dev2, NEW mem2, NEW d2,
         NetWrites(u, c, dev, mem, d, dev2, mem2, d2), d.pc <= StopsBy(c), StopsBy(c) = 1
  PROVE  NetGoes(u, dev, mem, d, dev2, mem2, d2)
<1>1. /\ u \in NetSetups /\ NetOK(u, dev, mem, d) /\ c = u.scripts[d.script] /\ d.pc \in 1 .. Len(c)
  BY DEF NetWrites
<1>2. NetScriptOK(c, u.layouts) /\ NetMemoryOK(u, mem) /\ NetDeviceOK(u, dev)
  BY <1>1, NetSound
<1>3. c[1] = <<"Status", 0>> /\ c[1][1] = "Status" /\ c[1][2] = 0
  <2>1. c[1] = <<"Status", 0>>
    BY <1>2, Zenon DEF NetScriptOK
  <2> QED
    BY <2>1
<1>4. d.pc = 1
  BY <1>1
<1>5. dev2 = ResetNet(dev) /\ mem2 = mem
  <2>1. c[d.pc][1] = "Status" /\ c[d.pc][2] = 0
    BY <1>3, <1>4
  <2>2. dev2 = WriteNetRegister(dev, "Status", 0) /\ mem2 = mem
    BY <2>1 DEF NetWrites
  <2> QED
    BY <2>2 DEF WriteNetRegister, CommonRegisters
<1>6. NetDeviceOK(u, dev2) /\ \A q \in {Rx, Tx} : Stopped(dev2.queues[q])
  BY <1>2, <1>5, NetResets
<1>7. ASSUME NEW k \in {Rx, Tx} PROVE NetMoved(u, c, k, dev, mem, d, dev2, mem2, d2)
  <2> DEFINE qs == dev2.queues[k]
             sel == dev2.regs.queue_sel
             s == d2.seen[k]
  <2>1. Stopped(qs) /\ StopAt(c, k) = 1
    BY <1>3, <1>6 DEF StopAt
  <2> HIDE DEF qs, sel, s
  <2>2. ScriptAt(u, k, c, StopAt(c, k) + 1, sel, qs, s, mem2)
    BY <1>2, <2>1, ScriptStops
  <2>3. ScriptAt(u, k, c, d.pc + 1, sel, qs, s, mem2)
    BY <1>4, <2>1, <2>2
  <2> QED
    BY <2>1, <2>3, StoppedMoves DEF qs, sel, s
<1> QED
  BY <1>2, <1>5, <1>6, <1>7, NetMoves

\* or one queue after the other.
LEMMA NetStopMoves ==
  ASSUME NEW u, NEW c, NEW dev, NEW mem, NEW d, NEW dev2, NEW mem2, NEW d2,
         NetWrites(u, c, dev, mem, d, dev2, mem2, d2), d.pc <= StopsBy(c), StopsBy(c) = 4
  PROVE  NetGoes(u, dev, mem, d, dev2, mem2, d2)
<1> DEFINE pc == d.pc
<1>1. u \in NetSetups /\ NetOK(u, dev, mem, d) /\ c = u.scripts[d.script] /\ pc \in 1 .. Len(c)
  BY DEF NetWrites
<1>2. /\ NetScriptOK(c, u.layouts) /\ NetMemoryOK(u, mem) /\ NetDeviceOK(u, dev)
      /\ \A q \in {Rx, Tx} : ScriptAt(u, q, c, pc, dev.regs.queue_sel, dev.queues[q], d.seen[q], mem)
  BY <1>1, NetSound
<1>3. /\ c[1] = <<"QueueSel", Tx>> /\ c[2] = <<"QueueReady", 0>>
      /\ c[3] = <<"QueueSel", Rx>> /\ c[4] = <<"QueueReady", 0>>
  BY <1>2, Zenon DEF NetScriptOK
<1>4. /\ c[1][1] = "QueueSel" /\ c[1][2] = Tx /\ c[2][1] = "QueueReady" /\ c[2][2] = 0
      /\ c[3][1] = "QueueSel" /\ c[3][2] = Rx /\ c[4][1] = "QueueReady" /\ c[4][2] = 0
  BY <1>3
<1>5. StopAt(c, Tx) = 2 /\ StopAt(c, Rx) = 4
  BY <1>4 DEF StopAt, Rx, Tx
<1>6. pc \in {1, 2, 3, 4} /\ \A k \in {Rx, Tx} : StartAt(c, k) \in Int /\ pc < StartAt(c, k) - 8
  <2>1. /\ Len(c) \in Nat /\ Len(c) >= StopsBy(c) + 19
        /\ StartAt(c, Rx) = Len(c) - 9 /\ StartAt(c, Tx) = Len(c)
    BY <1>2, ScriptNumbers
  <2>2. Len(c) >= 23 /\ pc \in Nat /\ pc >= 1 /\ pc <= 4
    BY <1>1, <2>1
  <2>3. \A k \in {Rx, Tx} : StartAt(c, k) = Len(c) - 9 \/ StartAt(c, k) = Len(c)
    BY <2>1
  <2> HIDE DEF pc
  <2> QED
    BY <2>1, <2>2, <2>3
<1>7. /\ c[pc][1] # "EmptyRings" /\ dev2 = WriteNetRegister(dev, c[pc][1], c[pc][2]) /\ mem2 = mem
  <2>1. c[pc][1] # "EmptyRings"
    BY <1>4, <1>6
  <2> QED
    BY <2>1 DEF NetWrites
<1>8. CASE pc \in {1, 3}
  <2> DEFINE k == IF pc = 1 THEN Tx ELSE Rx
  <2>1. c[pc][1] = "QueueSel" /\ c[pc][2] = k
    BY <1>4, <1>8
  <2>2. NetWritten(u, dev, dev2) /\ dev2.queues = dev.queues /\ dev2.regs.queue_sel = k
    BY <1>2, <1>7, <2>1, NetSelects
  <2>3. ASSUME NEW q \in {Rx, Tx} PROVE NetMoved(u, c, q, dev, mem, d, dev2, mem2, d2)
    <3>1. pc # StopAt(c, q) /\ (c[1][1] # "Status" /\ pc + 1 = StopAt(c, q) => dev2.regs.queue_sel = q)
      BY <1>5, <1>8, <2>2
    <3>2. pc > StartAt(c, q) \/ pc < StartAt(c, q) - 8
      BY <1>6
    <3> QED
      BY <1>7, <2>2, <3>1, <3>2, PassedMoves
  <2>4. NetDeviceOK(u, dev2)
    BY <2>2 DEF NetWritten
  <2> QED
    BY <1>2, <1>7, <2>3, <2>4, NetMoves
<1>9. CASE pc \in {2, 4}
  <2> DEFINE k == IF pc = 2 THEN Tx ELSE Rx
             qs == WriteQueueRegister(dev.queues[k], "QueueReady", 0)
  <2>1. c[pc][1] = "QueueReady" /\ c[pc][2] = 0 /\ k \in {Rx, Tx} /\ pc = StopAt(c, k) /\ c[1][1] # "Status"
    BY <1>4, <1>5, <1>9
  <2>2. dev.regs.queue_sel = k
    BY <1>2, <2>1 DEF ScriptAt
  <2>3. dev2 = WriteNetRegister(dev, "QueueReady", 0)
    BY <1>7, <2>1
  <2>4. QueueOK(qs) /\ Stopped(qs)
    <3>1. QueueOK(dev.queues[k])
      BY <1>2, <2>1 DEF NetDeviceOK
    <3> DEFINE old == dev.queues[k]
    <3> HIDE DEF old
    <3>2. LET w == WriteQueueRegister(old, "QueueReady", 0) IN QueueOK(w) /\ Stopped(w)
      BY <3>1, QueueStarted DEF old, Stopped
    <3> QED
      BY <3>2 DEF old
  <2>5. "QueueReady" \in QueueRegisters
    BY DEF QueueRegisters
  <2> HIDE DEF k
  <2>6. qs = WriteQueueRegister(dev.queues[k], "QueueReady", 0)
    OBVIOUS
  <2> HIDE DEF qs
  <2>7. /\ NetWritten(u, dev, dev2) /\ dev2.queues[k] = qs /\ dev2.queues[1 - k] = dev.queues[1 - k]
    BY <1>2, <2>1, <2>2, <2>3, <2>4, <2>5, <2>6, NetSets
  <2>8. NetMoved(u, c, k, dev, mem, d, dev2, mem2, d2)
    <3> DEFINE qs2 == dev2.queues[k]
               sel == dev2.regs.queue_sel
               s == d2.seen[k]
    <3>1. Stopped(qs2)
      BY <2>4, <2>7
    <3> HIDE DEF qs2, sel, s
    <3>2. ScriptAt(u, k, c, StopAt(c, k) + 1, sel, qs2, s, mem2)
      BY <1>2, <2>1, <3>1, ScriptStops
    <3>3. ScriptAt(u, k, c, pc + 1, sel, qs2, s, mem2)
      BY <2>1, <3>2
    <3> QED
      BY <3>1, <3>3, StoppedMoves DEF qs2, sel, s
  <2>9. NetMoved(u, c, 1 - k, dev, mem, d, dev2, mem2, d2)
    <3> DEFINE q == 1 - k
    <3>1. /\ q \in {Rx, Tx} /\ pc # StopAt(c, q) /\ ~(c[1][1] # "Status" /\ pc + 1 = StopAt(c, q))
          /\ dev2.queues[q] = dev.queues[q]
      BY <1>5, <1>9, <2>1, <2>7 DEF Rx, Tx, k
    <3>2. pc > StartAt(c, q) \/ pc < StartAt(c, q) - 8
      BY <1>6, <3>1
    <3> HIDE DEF q
    <3>3. NetMoved(u, c, q, dev, mem, d, dev2, mem2, d2)
      BY <1>7, <2>7, <3>1, <3>2, PassedMoves
    <3> QED
      BY <3>3 DEF q
  <2>10. ASSUME NEW q \in {Rx, Tx} PROVE NetMoved(u, c, q, dev, mem, d, dev2, mem2, d2)
    <3>1. q = k \/ q = 1 - k
      BY <2>1 DEF Rx, Tx
    <3> QED
      BY <2>8, <2>9, <3>1
  <2>11. NetDeviceOK(u, dev2)
    BY <2>7 DEF NetWritten
  <2> QED
    BY <1>2, <1>7, <2>10, <2>11, NetMoves
<1> QED
  BY <1>6, <1>8, <1>9

\* The memory after the driver has emptied the rings.
LEMMA NetEmpties ==
  ASSUME NEW u \in NetSetups, NEW mem, NetMemoryOK(u, mem), NEW mem2,
         mem2 = [x \in RamCells |->
                   IF x \in RingCells(u.layouts[Rx]) \cup RingCells(u.layouts[Tx]) THEN 0 ELSE mem[x]]
  PROVE  NetMemoryOK(u, mem2) /\ \A q \in {Rx, Tx} : \A x \in RingCells(u.layouts[q]) : mem2[x] = 0
<1> DEFINE rings == RingCells(u.layouts[Rx]) \cup RingCells(u.layouts[Tx])
<1>1. ASSUME NEW q \in {Rx, Tx}
      PROVE  /\ TableCells(u.layouts[q]) \cap rings = {} /\ TableCells(u.layouts[q]) \subseteq RamCells
             /\ RingCells(u.layouts[q]) \subseteq RamCells /\ RingCells(u.layouts[q]) \subseteq rings
  <2> DEFINE l == u.layouts[q]
             o == u.layouts[1 - q]
  <2>1. /\ SoundLayout(l) /\ QueueCells(l) = TableCells(l) \cup RingCells(l)
        /\ QueueCells(l) \cap QueueCells(o) = {} /\ RingCells(o) \subseteq QueueCells(o)
    BY NetNumbers DEF QueueCells
  <2>2. rings = RingCells(l) \cup RingCells(o)
    BY DEF Rx, Tx
  <2> HIDE DEF l, o, rings
  <2>3. QueueCells(l) \subseteq RamCells /\ TableCells(l) \cap RingCells(l) = {}
    BY <2>1, LayoutNumbers DEF SoundLayout
  <2>4. TableCells(l) \cap rings = {} /\ TableCells(l) \subseteq RamCells /\ RingCells(l) \subseteq RamCells
    BY <2>1, <2>2, <2>3
  <2> QED
    BY <2>2, <2>4 DEF l
<1> HIDE DEF rings
<1>2. mem2 = [x \in RamCells |-> IF x \in rings THEN 0 ELSE mem[x]]
  BY DEF rings
<1>3. mem2 = [x \in RamCells |-> mem2[x]]
  BY <1>2
<1>4. \A q \in {Rx, Tx} : \A x \in TableCells(u.layouts[q]) : mem2[x] = mem[x]
  BY <1>1, <1>2
<1>5. \A q \in {Rx, Tx} : \A x \in RingCells(u.layouts[q]) : mem2[x] = 0
  BY <1>1, <1>2
<1>6. \A q \in {Rx, Tx} : \A x \in TableCells(u.layouts[q]) : mem[x] = u.mem[x]
  BY DEF NetMemoryOK
<1> QED
  BY <1>3, <1>4, <1>5, <1>6 DEF NetMemoryOK

\* The writes while both queues are stopped.
LEMMA NetRestMoves ==
  ASSUME NEW u, NEW c, NEW dev, NEW mem, NEW d, NEW dev2, NEW mem2, NEW d2,
         NetWrites(u, c, dev, mem, d, dev2, mem2, d2), d.pc > StopsBy(c), d.pc <= Len(c) - 18
  PROVE  NetGoes(u, dev, mem, d, dev2, mem2, d2)
<1> DEFINE pc == d.pc
           seen == d.seen
           seen2 == d2.seen
           sel2 == dev2.regs.queue_sel
<1>1. u \in NetSetups /\ NetOK(u, dev, mem, d) /\ c = u.scripts[d.script] /\ pc \in 1 .. Len(c)
  BY DEF NetWrites
<1>2. /\ NetScriptOK(c, u.layouts) /\ NetMemoryOK(u, mem) /\ NetDeviceOK(u, dev)
      /\ \A q \in {Rx, Tx} : ScriptAt(u, q, c, pc, dev.regs.queue_sel, dev.queues[q], seen[q], mem)
  BY <1>1, NetSound
<1>3. /\ Len(c) \in Nat /\ pc \in Nat /\ pc > StopsBy(c) /\ pc <= Len(c) - 18 /\ StopsBy(c) \in {1, 4}
      /\ \A q \in {Rx, Tx} : /\ StopAt(c, q) \in Nat /\ StopAt(c, q) < pc
                             /\ StartAt(c, q) \in Nat /\ pc < StartAt(c, q) - 8
  <2>1. /\ Len(c) \in Nat /\ StartAt(c, Rx) = Len(c) - 9 /\ StartAt(c, Tx) = Len(c) /\ StopsBy(c) \in {1, 4}
        /\ \A q \in {Rx, Tx} : StopAt(c, q) \in 1 .. StopsBy(c)
    BY <1>2, ScriptNumbers
  <2>2. pc \in Nat /\ Len(c) >= 18
    BY <1>1, <2>1
  <2>3. \A k \in {Rx, Tx} : StartAt(c, k) = Len(c) - 9 \/ StartAt(c, k) = Len(c)
    BY <2>1
  <2>4. pc > StopsBy(c) /\ pc <= Len(c) - 18
    OBVIOUS
  <2> HIDE DEF pc
  <2> QED
    BY <2>1, <2>2, <2>3, <2>4
<1>4. \A q \in {Rx, Tx} : Stopped(dev.queues[q])
  <2> TAKE q \in {Rx, Tx}
  <2>0. /\ pc > StopAt(c, q) /\ pc <= StartAt(c, q)
        /\ ScriptAt(u, q, c, pc, dev.regs.queue_sel, dev.queues[q], seen[q], mem)
    BY <1>2, <1>3
  <2>1. ~dev.queues[q].ready
    BY <2>0, Zenon DEF ScriptAt
  <2>2. NetQueueOK(u, q, dev.queues[q], mem, d.seen[q], NetTold(dev, d), NetIdle(dev, d))
    BY <1>1 DEF NetOK, QueuesOK, NetTold, NetIdle
  <2> QED
    BY <2>1, <2>2 DEF NetQueueOK
<1>5. c[pc][1] # "QueueReady" /\ c[pc][2] \in Nat
  <2>1. pc \in StopsBy(c) + 1 .. Len(c) - 18
    BY <1>3
  <2> QED
    BY <1>1, <1>2, <2>1, Zenon DEF NetScriptOK
<1>6. /\ NetDeviceOK(u, dev2) /\ NetMemoryOK(u, mem2) /\ \A q \in {Rx, Tx} : Stopped(dev2.queues[q])
      /\ \/ \A q \in {Rx, Tx} : seen2[q] = 0 /\ \A x \in RingCells(u.layouts[q]) : mem2[x] = 0
         \/ c[pc][1] # "EmptyRings" /\ mem2 = mem /\ seen2 = seen
  <2>1. CASE c[pc][1] = "EmptyRings"
    <3>1. /\ mem2 = [x \in RamCells |->
                       IF x \in RingCells(u.layouts[Rx]) \cup RingCells(u.layouts[Tx]) THEN 0 ELSE mem[x]]
          /\ dev2 = dev /\ \A q \in {Rx, Tx} : seen2[q] = 0
      BY <2>1 DEF NetWrites
    <3>2. NetMemoryOK(u, mem2) /\ \A q \in {Rx, Tx} : \A x \in RingCells(u.layouts[q]) : mem2[x] = 0
      BY <1>1, <1>2, <3>1, NetEmpties
    <3> QED
      BY <1>2, <1>4, <3>1, <3>2
  <2>2. CASE c[pc][1] # "EmptyRings"
    <3> DEFINE reg == c[pc][1]
               value == c[pc][2]
    <3>1. dev2 = WriteNetRegister(dev, reg, value) /\ mem2 = mem /\ seen2 = seen
      BY <2>2 DEF NetWrites
    <3>2. reg # "QueueReady" /\ value \in Nat
      BY <1>5
    <3> HIDE DEF reg, value
    <3>3. NetDeviceOK(u, dev2) /\ \A q \in {Rx, Tx} : Stopped(dev2.queues[q])
      BY <1>2, <1>4, <3>1, <3>2, NetStaysStopped
    <3> QED
      BY <1>2, <2>2, <3>1, <3>3
  <2> QED
    BY <2>1, <2>2
<1>7. ASSUME NEW k \in {Rx, Tx} PROVE NetMoved(u, c, k, dev, mem, d, dev2, mem2, d2)
  <2> DEFINE start == StartAt(c, k)
             stop == StopAt(c, k)
             qs == dev2.queues[k]
             s == seen2[k]
  <2>1. Stopped(qs) /\ ~qs.ready
    BY <1>6 DEF Stopped
  <2>2. Emptied(c, pc + 1) => s = 0 /\ \A x \in RingCells(u.layouts[k]) : mem2[x] = 0
    <3>1. CASE \A q \in {Rx, Tx} : seen2[q] = 0 /\ \A x \in RingCells(u.layouts[q]) : mem2[x] = 0
      BY <3>1
    <3>2. CASE c[pc][1] # "EmptyRings" /\ mem2 = mem /\ seen2 = seen
      <4> HAVE Emptied(c, pc + 1)
      <4>1. PICK i \in 1 .. pc : c[i][1] = "EmptyRings"
        BY <1>3 DEF Emptied
      <4>a. i # pc /\ pc \in Nat
        BY <1>3, <3>2, <4>1
      <4>2. i \in 1 .. pc - 1
        BY <4>a
      <4>3. Emptied(c, pc) /\ pc <= start
        BY <1>3, <4>1, <4>2, SMTT(30) DEF Emptied
      <4>4. seen[k] = 0 /\ \A x \in RingCells(u.layouts[k]) : mem[x] = 0
        BY <1>2, <4>3 DEF ScriptAt
      <4> QED
        BY <3>2, <4>4
    <3> QED
      BY <1>6, <3>1, <3>2
  <2>3. start \in Nat /\ stop \in Nat /\ stop < pc /\ pc < start - 8
    BY <1>3
  <2> HIDE DEF start, stop, qs, s, pc
  <2>4. /\ ~(pc + 1 > start) /\ pc + 1 # stop
        /\ \A j \in 0 .. 8 : pc + 1 = start - 8 + j => j = 0
    BY <1>3, <2>3
  <2>5. \A j \in 0 .. 8 : pc + 1 = start - 8 + j => Programmed(j, sel2, qs, k, u.layouts[k])
    BY <2>4 DEF Programmed
  <2>6. ScriptAt(u, k, c, pc + 1, sel2, qs, s, mem2)
    BY <2>1, <2>2, <2>4, <2>5 DEF ScriptAt, start, stop
  <2> QED
    BY <2>1, <2>6, StoppedMoves DEF qs, s, pc
<1> QED
  BY <1>6, <1>7, NetMoves

\* The write at pc is the (j + 1)-th that programs queue k.
Programs(c, layouts, pc, k, j) ==
  /\ k \in {Rx, Tx} /\ j \in 0 .. 8 /\ pc \in Nat
  /\ StartAt(c, k) \in Nat /\ StopAt(c, k) \in Nat
  /\ pc = StartAt(c, k) - 8 + j /\ pc > StopAt(c, k) /\ pc <= StartAt(c, k)
  /\ c[pc] = Program(k, layouts[k])[j + 1] /\ Emptied(c, pc)
  /\ pc # StopAt(c, 1 - k) /\ pc + 1 # StopAt(c, 1 - k)
  /\ pc > StartAt(c, 1 - k) \/ pc < StartAt(c, 1 - k) - 8

LEMMA ScriptPrograms ==
  ASSUME NEW c, NEW layouts, NetScriptOK(c, layouts), NEW pc \in 1 .. Len(c), pc > Len(c) - 18
  PROVE  \E k \in {Rx, Tx}, j \in 0 .. 8 : Programs(c, layouts, pc, k, j)
<1> DEFINE n == Len(c)
           k == IF pc <= n - 9 THEN Rx ELSE Tx
           j == IF pc <= n - 9 THEN pc - n + 17 ELSE pc - n + 8
<1>1. /\ n \in Nat /\ StopsBy(c) \in {1, 4} /\ n >= StopsBy(c) + 19
      /\ StartAt(c, Rx) = n - 9 /\ StartAt(c, Tx) = n
      /\ \A q \in {Rx, Tx} : StopAt(c, q) \in 1 .. StopsBy(c)
  BY ScriptNumbers
<1>2. pc \in Nat /\ pc <= n /\ pc > n - 18
  BY <1>1
<1>3. \A q \in {Rx, Tx}, i \in 1 .. 9 : c[n - 18 + 9 * q + i] = Program(q, layouts[q])[i]
  BY DEF NetScriptOK
<1>4. Emptied(c, pc)
  <2>1. PICK i \in StopsBy(c) + 1 .. n - 18 : c[i][1] = "EmptyRings"
    BY Zenon DEF NetScriptOK
  <2>2. i \in 1 .. pc - 1
    BY <1>1, <1>2, <2>1
  <2> QED
    BY <2>1, <2>2 DEF Emptied
<1> HIDE DEF n
<1>5. k \in {Rx, Tx} /\ j \in 0 .. 8 /\ n - 18 + 9 * k + (j + 1) = pc
  <2>1. CASE pc <= n - 9
    BY <1>1, <1>2, <2>1 DEF Rx
  <2>2. CASE ~(pc <= n - 9)
    BY <1>1, <1>2, <2>2 DEF Tx
  <2> QED
    BY <2>1, <2>2
<1>6. c[pc] = Program(k, layouts[k])[j + 1]
  <2> HIDE DEF k, j
  <2>1. j + 1 \in 1 .. 9
    BY <1>5
  <2>2. c[n - 18 + 9 * k + (j + 1)] = Program(k, layouts[k])[j + 1]
    BY <1>3, <1>5, <2>1
  <2> QED
    BY <1>5, <2>2
<1>7. \A q \in {Rx, Tx} : StopAt(c, q) \in Nat /\ StopAt(c, q) < pc
  <2> TAKE q \in {Rx, Tx}
  <2>1. StopAt(c, q) \in 1 .. StopsBy(c)
    BY <1>1
  <2> QED
    BY <1>1, <1>2, <2>1
<1>8. pc = StartAt(c, k) - 8 + j /\ pc <= StartAt(c, k) /\ (pc > StartAt(c, 1 - k) \/ pc < StartAt(c, 1 - k) - 8)
  <2>0. 1 - Rx = Tx /\ 1 - Tx = Rx
    BY DEF Rx, Tx
  <2>1. CASE pc <= n - 9
    <3>1. k = Rx /\ j = pc - n + 17 /\ StartAt(c, 1 - k) = n
      BY <1>1, <2>0, <2>1
    <3> HIDE DEF k, j
    <3> QED
      BY <1>1, <1>2, <2>1, <3>1, SMTT(30)
  <2>2. CASE ~(pc <= n - 9)
    <3>1. k = Tx /\ j = pc - n + 8 /\ StartAt(c, 1 - k) = n - 9
      BY <1>1, <2>0, <2>2
    <3> HIDE DEF k, j
    <3> QED
      BY <1>1, <1>2, <2>2, <3>1
  <2> QED
    BY <2>1, <2>2
<1>9. StartAt(c, k) \in Nat /\ 1 - k \in {Rx, Tx}
  <2>1. n \in Nat /\ n - 9 \in Nat
    BY <1>1
  <2> QED
    BY <1>1, <2>1 DEF Rx, Tx
<1> HIDE DEF k, j
<1>10. /\ StopAt(c, k) \in Nat /\ pc > StopAt(c, k) /\ pc # StopAt(c, 1 - k) /\ pc + 1 # StopAt(c, 1 - k)
  <2>1. StopAt(c, k) \in Nat /\ StopAt(c, k) < pc /\ StopAt(c, 1 - k) \in Nat /\ StopAt(c, 1 - k) < pc
    BY <1>5, <1>7, <1>9
  <2> QED
    BY <1>2, <2>1
<1>11. Programs(c, layouts, pc, k, j)
  BY <1>2, <1>4, <1>5, <1>6, <1>8, <1>9, <1>10 DEF Programs
<1> QED
  BY <1>5, <1>11

\* A queue that has been programmed one register further.
LEMMA ScriptProgrammed ==
  ASSUME NEW u, NEW c, NEW pc, NEW k, NEW j \in 0 .. 7, Programs(c, u.layouts, pc, k, j), NEW sel, NEW qs, Stopped(qs),
         Programmed(j + 1, sel, qs, k, u.layouts[k]), NEW mem, \A x \in RingCells(u.layouts[k]) : mem[x] = 0
  PROVE  ScriptAt(u, k, c, pc + 1, sel, qs, 0, mem)
<1> DEFINE start == StartAt(c, k)
           stop == StopAt(c, k)
<1>1. start \in Nat /\ stop \in Nat /\ pc \in Nat /\ pc = start - 8 + j /\ pc > stop
  BY DEF Programs
<1> HIDE DEF start, stop
<1>2. /\ ~(pc + 1 > start) /\ pc + 1 # stop
      /\ \A i \in 0 .. 8 : pc + 1 = start - 8 + i => i = j + 1
  BY <1>1
<1>3. \A i \in 0 .. 8 : pc + 1 = start - 8 + i => Programmed(i, sel, qs, k, u.layouts[k])
  BY <1>2
<1> QED
  BY <1>2, <1>3 DEF ScriptAt, Stopped, start, stop

(* What the (j + 1)-th write that programs queue k finds, and does: e is   *)
(* the register and the value.                                             *)
ProgramFinds(u, k, j, e, dev, mem, d, dev2, mem2, d2) ==
  /\ NetMemoryOK(u, mem) /\ NetDeviceOK(u, dev) /\ SoundLayout(u.layouts[k]) /\ QueueOK(dev.queues[k])
  /\ Programmed(j, dev.regs.queue_sel, dev.queues[k], k, u.layouts[k]) /\ Stopped(dev.queues[k])
  /\ d.seen[k] = 0 /\ \A x \in RingCells(u.layouts[k]) : mem[x] = 0
  /\ e = Program(k, u.layouts[k])[j + 1] /\ e[2] \in Nat
  /\ e[1] # "EmptyRings" => dev2 = WriteNetRegister(dev, e[1], e[2]) /\ mem2 = mem /\ d2.seen = d.seen

LEMMA NetProgramHolds ==
  ASSUME NEW u, NEW c, NEW dev, NEW mem, NEW d, NEW dev2, NEW mem2, NEW d2,
         NetWrites(u, c, dev, mem, d, dev2, mem2, d2), NEW k, NEW j, Programs(c, u.layouts, d.pc, k, j)
  PROVE  ProgramFinds(u, k, j, c[d.pc], dev, mem, d, dev2, mem2, d2)
<1> DEFINE pc == d.pc
           e == Program(k, u.layouts[k])[j + 1]
<1>1. u \in NetSetups /\ NetOK(u, dev, mem, d) /\ c = u.scripts[d.script] /\ pc \in 1 .. Len(c)
  BY DEF NetWrites
<1>2. /\ k \in {Rx, Tx} /\ j \in 0 .. 8 /\ pc = StartAt(c, k) - 8 + j /\ pc > StopAt(c, k) /\ pc <= StartAt(c, k)
      /\ c[pc] = e /\ Emptied(c, pc)
  BY DEF Programs
<1>3. /\ NetScriptOK(c, u.layouts) /\ NetMemoryOK(u, mem) /\ NetDeviceOK(u, dev)
      /\ ScriptAt(u, k, c, pc, dev.regs.queue_sel, dev.queues[k], d.seen[k], mem)
  BY <1>1, <1>2, NetSound
<1>4. /\ Programmed(j, dev.regs.queue_sel, dev.queues[k], k, u.layouts[k]) /\ ~dev.queues[k].ready
      /\ d.seen[k] = 0 /\ \A x \in RingCells(u.layouts[k]) : mem[x] = 0
  <2> HIDE DEF pc, e
  <2> QED
    BY <1>2, <1>3 DEF ScriptAt
<1>5. Stopped(dev.queues[k])
  <2>1. NetQueueOK(u, k, dev.queues[k], mem, d.seen[k], NetTold(dev, d), NetIdle(dev, d))
    BY <1>1, <1>2 DEF NetOK, QueuesOK, NetTold, NetIdle
  <2> QED
    BY <1>4, <2>1 DEF NetQueueOK
<1>6. SoundLayout(u.layouts[k]) /\ QueueOK(dev.queues[k])
  <2>1. SoundLayout(u.layouts[k])
    BY <1>1, <1>2, NetNumbers, Zenon
  <2> QED
    BY <1>2, <1>3, <2>1 DEF NetDeviceOK
<1>7. c[pc][2] \in Nat
  BY <1>1, <1>3 DEF NetScriptOK
<1>8. e[1] # "EmptyRings" => dev2 = WriteNetRegister(dev, e[1], e[2]) /\ mem2 = mem /\ d2.seen = d.seen
  BY <1>2 DEF NetWrites
<1> QED
  BY <1>2, <1>3, <1>4, <1>5, <1>6, <1>7, <1>8 DEF ProgramFinds

\* The write leaves the other queue alone.
LEMMA OtherMoves ==
  ASSUME NEW u, NEW c, NEW dev, NEW mem, NEW d, NEW dev2, NEW mem2, NEW d2,
         NetWrites(u, c, dev, mem, d, dev2, mem2, d2), NEW k, NEW j, Programs(c, u.layouts, d.pc, k, j),
         c[d.pc][1] # "EmptyRings", NetWritten(u, dev, dev2), dev2.queues[1 - k] = dev.queues[1 - k],
         NetMemoryOK(u, mem2), NetMoved(u, c, k, dev, mem, d, dev2, mem2, d2)
  PROVE  NetGoes(u, dev, mem, d, dev2, mem2, d2)
<1> DEFINE o == 1 - k
<1>1. k \in {Rx, Tx} /\ d.pc # StopAt(c, o) /\ d.pc + 1 # StopAt(c, o) /\ (d.pc > StartAt(c, o) \/ d.pc < StartAt(c, o) - 8)
  BY DEF Programs
<1>2. o \in {Rx, Tx} /\ \A q \in {Rx, Tx} : q = k \/ q = o
  BY <1>1 DEF Rx, Tx
<1>3. dev2.queues[o] = dev.queues[o]
  OBVIOUS
<1> HIDE DEF o
<1>4. NetMoved(u, c, o, dev, mem, d, dev2, mem2, d2)
  BY <1>1, <1>2, <1>3, PassedMoves
<1>5. \A q \in {Rx, Tx} : NetMoved(u, c, q, dev, mem, d, dev2, mem2, d2)
  BY <1>2, <1>4
<1>6. NetDeviceOK(u, dev2)
  BY DEF NetWritten
<1> QED
  BY <1>5, <1>6, NetMoves

\* The queue is selected, its registers are written,
LEMMA NetProgramMoves ==
  ASSUME NEW u, NEW c, NEW dev, NEW mem, NEW d, NEW dev2, NEW mem2, NEW d2,
         NetWrites(u, c, dev, mem, d, dev2, mem2, d2), NEW k, NEW j \in 0 .. 7, Programs(c, u.layouts, d.pc, k, j)
  PROVE  NetGoes(u, dev, mem, d, dev2, mem2, d2)
<1> DEFINE l == u.layouts[k]
           e == c[d.pc]
           qs == dev.queues[k]
           qs2 == dev2.queues[k]
           sel == dev.regs.queue_sel
           sel2 == dev2.regs.queue_sel
<1>1. /\ NetMemoryOK(u, mem) /\ NetDeviceOK(u, dev) /\ SoundLayout(l) /\ QueueOK(qs)
      /\ Programmed(j, sel, qs, k, l) /\ Stopped(qs)
      /\ d.seen[k] = 0 /\ \A x \in RingCells(l) : mem[x] = 0
      /\ e = Program(k, l)[j + 1] /\ e[2] \in Nat
      /\ e[1] # "EmptyRings" => dev2 = WriteNetRegister(dev, e[1], e[2]) /\ mem2 = mem /\ d2.seen = d.seen
  <2>1. ProgramFinds(u, k, j, e, dev, mem, d, dev2, mem2, d2)
    BY NetProgramHolds
  <2> QED
    BY <2>1 DEF ProgramFinds
<1>2. k \in {Rx, Tx}
  BY DEF Programs
<1>3. /\ e[1] # "EmptyRings" /\ NetWritten(u, dev, dev2) /\ dev2.queues[1 - k] = dev.queues[1 - k]
      /\ Stopped(qs2) /\ Programmed(j + 1, sel2, qs2, k, l)
  <2>1. CASE j = 0
    <3>0. e = Program(k, l)[1] /\ Program(k, l)[1] = <<"QueueSel", k>>
      BY <1>1, <2>1, ProgramIs
    <3>1. e[1] = "QueueSel" /\ e[2] = k
      BY <3>0
    <3>2. dev2 = WriteNetRegister(dev, "QueueSel", k)
      BY <1>1, <3>1
    <3>3. NetWritten(u, dev, dev2) /\ dev2.queues = dev.queues /\ sel2 = k
      BY <1>1, <3>2, NetSelects
    <3>4. Programmed(j + 1, sel2, qs2, k, l)
      BY <2>1, <3>3 DEF Programmed
    <3> QED
      BY <1>1, <3>1, <3>3, <3>4
  <2>2. CASE j # 0
    <3> DEFINE w == WriteQueueRegister(qs, e[1], e[2])
    <3>1. j \in 1 .. 7
      BY <2>2
    <3>2. sel = k
      BY <1>1, <3>1 DEF Programmed
    <3>3. Programmed(j + 1, k, w, k, l) /\ e[1] \in QueueRegisters \ {"QueueReady"}
      <4>1. Programmed(j, k, qs, k, l)
        BY <1>1, <3>2
      <4> HIDE DEF l, qs
      <4> QED
        BY <1>1, <3>1, <4>1, ProgramQueueStep
    <3>4. e[1] # "EmptyRings"
      BY <3>3 DEF QueueRegisters
    <3> DEFINE reg == e[1]
               value == e[2]
    <3>5. reg # "QueueReady" /\ reg \in QueueRegisters /\ value \in Nat
      BY <1>1, <3>3
    <3>6. dev2 = WriteNetRegister(dev, reg, value) /\ w = WriteQueueRegister(dev.queues[k], reg, value)
      BY <1>1, <3>4
    <3> HIDE DEF e, reg, value, l
    <3>7. QueueOK(w) /\ w.ready = qs.ready /\ w.last_avail = qs.last_avail /\ w.used_idx = qs.used_idx
      <4> HIDE DEF qs
      <4>1. LET v == WriteQueueRegister(qs, reg, value)
            IN QueueOK(v) /\ v.ready = qs.ready /\ v.last_avail = qs.last_avail /\ v.used_idx = qs.used_idx
        BY <1>1, <3>5, QueueWritten
      <4> QED
        BY <4>1 DEF reg, value
    <3>8. Stopped(w)
      BY <1>1, <3>7 DEF Stopped
    <3> HIDE DEF w
    <3>9. /\ NetWritten(u, dev, dev2) /\ dev2.queues[k] = w /\ dev2.queues[1 - k] = dev.queues[1 - k]
          /\ dev2.regs.queue_sel = k
      BY <1>1, <1>2, <3>2, <3>5, <3>6, <3>7, NetSets
    <3> QED
      BY <3>3, <3>4, <3>8, <3>9
  <2> QED
    BY <2>1, <2>2
<1>4. mem2 = mem /\ d2.seen[k] = 0
  BY <1>1, <1>3
<1>5. ScriptAt(u, k, c, d.pc + 1, sel2, qs2, 0, mem2)
  <2>1. \A x \in RingCells(u.layouts[k]) : mem2[x] = 0
    BY <1>1, <1>4
  <2>2. Programmed(j + 1, sel2, qs2, k, u.layouts[k])
    BY <1>3
  <2> HIDE DEF sel2, qs2
  <2> DEFINE pc == d.pc
  <2>3. Programs(c, u.layouts, pc, k, j)
    OBVIOUS
  <2> HIDE DEF pc
  <2>4. ScriptAt(u, k, c, pc + 1, sel2, qs2, 0, mem2)
    BY <1>3, <2>1, <2>2, <2>3, ScriptProgrammed
  <2> QED
    BY <2>4 DEF pc
<1>6. NetMoved(u, c, k, dev, mem, d, dev2, mem2, d2)
  BY <1>3, <1>4, <1>5, StoppedMoves
<1>7. c[d.pc][1] # "EmptyRings" /\ NetMemoryOK(u, mem2)
  BY <1>1, <1>3, <1>4
<1> QED
  BY <1>3, <1>6, <1>7, OtherMoves

\* and it is started, with nothing in its rings.
LEMMA NetStartMoves ==
  ASSUME NEW u, NEW c, NEW dev, NEW mem, NEW d, NEW dev2, NEW mem2, NEW d2,
         NetWrites(u, c, dev, mem, d, dev2, mem2, d2), NEW k, Programs(c, u.layouts, d.pc, k, 8)
  PROVE  NetGoes(u, dev, mem, d, dev2, mem2, d2)
<1> DEFINE l == u.layouts[k]
           e == c[d.pc]
           qs == dev.queues[k]
           w == WriteQueueRegister(qs, "QueueReady", 1)
<1>1. /\ NetMemoryOK(u, mem) /\ NetDeviceOK(u, dev) /\ SoundLayout(l) /\ QueueOK(qs)
      /\ Programmed(8, dev.regs.queue_sel, qs, k, l) /\ Stopped(qs)
      /\ d.seen[k] = 0 /\ \A x \in RingCells(l) : mem[x] = 0
      /\ e = Program(k, l)[9]
      /\ e[1] # "EmptyRings" => dev2 = WriteNetRegister(dev, e[1], e[2]) /\ mem2 = mem /\ d2.seen = d.seen
  <2>1. ProgramFinds(u, k, 8, e, dev, mem, d, dev2, mem2, d2)
    BY NetProgramHolds
  <2>2. 8 + 1 = 9
    OBVIOUS
  <2> HIDE DEF e
  <2> QED
    BY <2>1, <2>2 DEF ProgramFinds
<1>2. /\ k \in {Rx, Tx} /\ StartAt(c, k) \in Nat /\ StopAt(c, k) \in Nat /\ d.pc = StartAt(c, k) - 8 + 8
      /\ d.pc > StopAt(c, k)
  BY DEF Programs
<1>3. c[d.pc][1] = "QueueReady" /\ dev2 = WriteNetRegister(dev, "QueueReady", 1) /\ mem2 = mem /\ d2.seen = d.seen
  <2>1. Program(k, l)[9] = <<"QueueReady", 1>>
    BY ProgramIs
  <2> QED
    BY <1>1, <2>1
<1>4. dev.regs.queue_sel = k
  BY <1>1 DEF Programmed
<1>5. QueueOK(w) /\ w.ready /\ Aligned(w, l) /\ w.last_avail = 0 /\ w.used_idx = 0
  <2> HIDE DEF qs, l
  <2>1. LET v == WriteQueueRegister(qs, "QueueReady", 1)
        IN  QueueOK(v) /\ v.ready /\ v.last_avail = qs.last_avail /\ v.used_idx = qs.used_idx
    BY <1>1, QueueStarted
  <2>2. Programmed(8, k, qs, k, l)
    BY <1>1, <1>4
  <2>3. Aligned(w, l)
    BY <1>1, <2>2, StartedIsAligned
  <2> QED
    BY <1>1, <2>1, <2>3 DEF Stopped
<1>6. "QueueReady" \in QueueRegisters /\ w = WriteQueueRegister(dev.queues[k], "QueueReady", 1)
  BY DEF QueueRegisters
<1> HIDE DEF w
<1>7. /\ NetWritten(u, dev, dev2) /\ dev2.queues[k] = w /\ dev2.queues[1 - k] = dev.queues[1 - k]
  BY <1>1, <1>2, <1>3, <1>4, <1>5, <1>6, NetSets
<1>8. InUse(l, w, mem, u.heads[k], 0, 0, 0) /\ Lent(l, w, mem) = <<>> /\ Back(l, w, mem, 0) = <<>>
  <2> HIDE DEF l
  <2> QED
    BY <1>1, <1>5, UseStarts
<1>9. NetMoved(u, c, k, dev, mem, d, dev2, mem2, d2)
  <2>1. mem2 = mem /\ d2.seen[k] = 0 /\ dev2.queues[k] = w
    BY <1>1, <1>3, <1>7
  <2>2. NetQueueOK(u, k, w, mem, 0, NetTold(dev2, d2), NetIdle(dev2, d2))
    BY <1>5, <1>8 DEF NetQueueOK
  <2>3. ViewStep(u, k, dev, mem, d.seen, dev2, mem2, d2.seen)
    BY <1>8, <2>1 DEF ViewStep, LentIn, BackIn, QueueStep
  <2>4. ScriptAt(u, k, c, d.pc + 1, dev2.regs.queue_sel, w, 0, mem)
    <3> DEFINE start == StartAt(c, k)
               stop == StopAt(c, k)
               pc == d.pc
    <3>1. start \in Nat /\ stop \in Nat /\ pc = start - 8 + 8 /\ pc > stop
      BY <1>2
    <3> HIDE DEF start, stop, pc
    <3>2. ~(pc + 1 <= start) /\ pc + 1 # stop /\ \A i \in 0 .. 8 : pc + 1 # start - 8 + i
      BY <3>1
    <3> QED
      BY <1>5, <3>2 DEF ScriptAt, start, stop, pc
  <2> QED
    BY <2>1, <2>2, <2>3, <2>4 DEF NetMoved
<1>10. c[d.pc][1] # "EmptyRings" /\ NetMemoryOK(u, mem2)
  BY <1>1, <1>3
<1> QED
  BY <1>7, <1>9, <1>10, OtherMoves

LEMMA NetWriteStep == ASSUME NetInv, NetDriverWrite PROVE NetStep
<1> DEFINE u == net_setup
           c == NetScript
           dev == net
           mem == net_mem
           d == net_driver
           dev2 == net'
           mem2 == net_mem'
           d2 == net_driver'
<1>1. net_setup' = u /\ NetWrites(u, c, dev, mem, d, dev2, mem2, d2)
  BY NetAdvance
<1> HIDE DEF u, c, dev, mem, d, dev2, mem2, d2
<1>2. u \in NetSetups /\ NetOK(u, dev, mem, d) /\ c = u.scripts[d.script] /\ d.pc \in 1 .. Len(c)
  BY <1>1 DEF NetWrites
<1>3. NetScriptOK(c, u.layouts)
  BY <1>2, NetSound
<1>4. Len(c) \in Nat /\ StopsBy(c) \in {1, 4}
  BY <1>3, ScriptNumbers
<1>5. NetGoes(u, dev, mem, d, dev2, mem2, d2)
  <2>1. CASE d.pc <= StopsBy(c)
    BY <1>1, <1>4, <2>1, NetResetMoves, NetStopMoves
  <2>2. CASE d.pc > StopsBy(c) /\ d.pc <= Len(c) - 18
    BY <1>1, <2>2, NetRestMoves
  <2>3. CASE d.pc > Len(c) - 18
    <3> DEFINE pc == d.pc
    <3>1. pc \in 1 .. Len(c) /\ pc > Len(c) - 18
      BY <1>2, <2>3
    <3> HIDE DEF pc
    <3>2. PICK k \in {Rx, Tx}, j \in 0 .. 8 : Programs(c, u.layouts, pc, k, j)
      BY <1>3, <3>1, ScriptPrograms
    <3>3. CASE j \in 0 .. 7
      BY <1>1, <3>2, <3>3, NetProgramMoves DEF pc
    <3>4. CASE j = 8
      BY <1>1, <3>2, <3>4, NetStartMoves DEF pc
    <3> QED
      BY <3>3, <3>4
  <2>4. d.pc \in Nat
    BY <1>2, <1>4
  <2> QED
    BY <1>4, <2>1, <2>2, <2>3, <2>4
<1> QED
  BY <1>1, <1>5 DEF NetStep, u, dev, mem, d, dev2, mem2, d2

-----------------------------------------------------------------------------
(* The network device's queues                                             *)

\* What a driver sees of queue q.
LEMMA NetView ==
  ASSUME NEW q
  PROVE  /\ NetOffered(q) = LentIn(net_setup, q, net, net_mem)
         /\ NetReturned(q) = BackIn(net_setup, q, net, net_mem, net_driver.seen)
         /\ NetOffered(q)' = LentIn(net_setup', q, net', net_mem')
         /\ NetReturned(q)' = BackIn(net_setup', q, net', net_mem', net_driver'.seen)
<1>1. NetOffered(q) = LentIn(net_setup, q, net, net_mem)
  BY DEF NetOffered, NetEntries, LentIn, Lent
<1>2. NetReturned(q) = BackIn(net_setup, q, net, net_mem, net_driver.seen)
  BY DEF NetReturned, NetEntries, BackIn, Back
<1>3. NetOffered(q)' = LentIn(net_setup', q, net', net_mem')
  BY DEF NetOffered, NetEntries, LentIn, Lent
<1>4. NetReturned(q)' = BackIn(net_setup', q, net', net_mem', net_driver'.seen)
  BY DEF NetReturned, NetEntries, BackIn, Back
<1> QED
  BY <1>1, <1>2, <1>3, <1>4

\* The device and the driver before anything has happened.
LEMMA NetInitial ==
  ASSUME NetInit
  PROVE  NetInv /\ \A q \in {Rx, Tx} : NetOffered(q) = <<>> /\ NetReturned(q) = <<>>
<1> DEFINE u == net_setup
           dev == net
           mem == net_mem
           d == net_driver
           seen0 == [q \in {Rx, Tx} |-> 0]
           kick0 == [q \in {Rx, Tx} |-> FALSE]
           queues0 == [q \in {Rx, Tx} |-> ResetQueue]
<1>1. /\ u \in NetSetups /\ mem = u.mem
      /\ dev = [loopback |-> u.loopback, regs |-> ResetRegisters, queues |-> queues0,
                pending |-> <<>>, guest_header |-> NetHdr, interrupt_status |-> 0,
                config_generation |-> 1, told |-> FALSE]
      /\ d = [script |-> 1, pc |-> 1, acked |-> FALSE, seen |-> seen0, kick |-> kick0]
  BY DEF NetInit, AttachedNet
<1> HIDE DEF u, dev, mem, d
<1>2. u.mem = [c \in RamCells |-> u.mem[c]] /\ 1 \in DOMAIN u.scripts
  BY <1>1, NetNumbers
<1>3. NetMemoryOK(u, mem)
  BY <1>1, <1>2 DEF NetMemoryOK
<1>4. QueueOK(ResetQueue) /\ Stopped(ResetQueue)
  <2>1. 0 \in 0 .. IndexModulus - 1
    BY RingNumbers
  <2> QED
    BY <2>1 DEF QueueOK, ResetQueue, Stopped
<1>5. DOMAIN queues0 = {Rx, Tx} /\ \A q \in {Rx, Tx} : QueueOK(queues0[q]) /\ Stopped(queues0[q])
  BY <1>4
<1>6. /\ seen0 \in [{Rx, Tx} -> 0 .. IndexModulus - 1] /\ kick0 \in [{Rx, Tx} -> BOOLEAN]
      /\ \A q \in {Rx, Tx} : seen0[q] = 0
  BY RingNumbers
<1> HIDE DEF queues0, seen0, kick0
<1>7. /\ {"loopback", "regs", "queues", "pending", "guest_header", "interrupt_status", "config_generation", "told"}
           \subseteq DOMAIN dev
      /\ dev.told = FALSE /\ dev.interrupt_status = 0 /\ dev.loopback = u.loopback /\ dev.regs = ResetRegisters
      /\ dev.queues = queues0 /\ dev.pending = <<>>
  BY <1>1
<1>8. NetDeviceOK(u, dev)
  <2>1. "queue_sel" \in DOMAIN ResetRegisters
    BY DEF ResetRegisters
  <2>2. FramesOK(u, <<>>)
    BY NoFrames
  <2> QED
    BY <1>5, <1>7, <2>1, <2>2 DEF NetDeviceOK
<1> DEFINE c == u.scripts[1]
<1>9. NetScriptOK(c, u.layouts)
  <2> DEFINE layouts == u.layouts
  <2>1. SoundNetScript(c, layouts)
    BY <1>1, <1>2, NetNumbers
  <2> HIDE DEF layouts, c
  <2>2. NetScriptOK(c, layouts)
    BY <2>1, NetScriptIs
  <2> QED
    BY <2>2 DEF layouts
<1>10. d.script = 1 /\ d.pc = 1 /\ d.acked = FALSE /\ d.seen = seen0 /\ d.kick = kick0
  BY <1>1
<1> HIDE DEF c
<1>11. /\ Len(c) \in Nat /\ \A q \in {Rx, Tx} : /\ StartAt(c, q) \in Nat /\ StartAt(c, q) >= 11 /\ StopAt(c, q) \in Nat
                                                /\ StopAt(c, q) >= 1 /\ (c[1][1] # "Status" => StopAt(c, q) # 1)
       /\ ~Emptied(c, 1)
  <2>1. /\ Len(c) \in Nat /\ StopsBy(c) \in {1, 4} /\ Len(c) >= StopsBy(c) + 19
        /\ StartAt(c, Rx) = Len(c) - 9 /\ StartAt(c, Tx) = Len(c)
        /\ \A q \in {Rx, Tx} : StopAt(c, q) \in 1 .. StopsBy(c)
    BY <1>9, ScriptNumbers
  <2>2. ~Emptied(c, 1)
    BY DEF Emptied
  <2>3. \A q \in {Rx, Tx} : c[1][1] # "Status" => StopAt(c, q) # 1
    BY DEF StopAt, Rx, Tx
  <2>4. \A q \in {Rx, Tx} : StartAt(c, q) \in Nat /\ StartAt(c, q) >= 11
    BY <2>1
  <2> QED
    BY <2>1, <2>2, <2>3, <2>4
<1>12. NetDriverOK(u, d)
  <2>1. 1 \in 1 .. Len(u.scripts[1]) + 1
    BY <1>11 DEF c
  <2>2. d = [script |-> d.script, pc |-> d.pc, acked |-> d.acked, seen |-> d.seen, kick |-> d.kick]
    BY <1>1
  <2> QED
    BY <1>2, <1>6, <1>10, <2>1, <2>2 DEF NetDriverOK
<1>13. ASSUME NEW q \in {Rx, Tx} PROVE ScriptAt(u, q, c, 1, dev.regs.queue_sel, dev.queues[q], d.seen[q], mem)
  <2> DEFINE start == StartAt(c, q)
             stop == StopAt(c, q)
  <2>1. start \in Nat /\ start >= 11 /\ stop \in Nat /\ stop >= 1 /\ (c[1][1] # "Status" => stop # 1) /\ ~Emptied(c, 1)
    BY <1>11
  <2> HIDE DEF start, stop
  <2>2. ~(1 > start) /\ ~(1 > stop) /\ \A j \in 0 .. 8 : 1 # start - 8 + j
    BY <2>1
  <2> QED
    BY <2>1, <2>2 DEF ScriptAt, start, stop
<1>14. \A q \in {Rx, Tx} : ~dev.queues[q].ready /\ Stopped(dev.queues[q])
  BY <1>5, <1>7 DEF Stopped
<1>15. QueuesOK(u, dev, mem, d.seen, dev.interrupt_status # 0 \/ d.acked, dev.pending = <<>> \/ d.kick[Rx])
  BY <1>14 DEF QueuesOK, NetQueueOK
<1>16. NetOK(u, dev, mem, d)
  BY <1>3, <1>8, <1>10, <1>12, <1>13, <1>15 DEF NetOK, c
<1>17. \A q \in {Rx, Tx} : LentIn(u, q, dev, mem) = <<>> /\ BackIn(u, q, dev, mem, d.seen) = <<>>
  BY <1>14 DEF LentIn, BackIn, Lent, Back
<1>18. \A q \in {Rx, Tx} : NetOffered(q) = <<>> /\ NetReturned(q) = <<>>
  BY <1>17, NetView DEF u, dev, mem, d
<1> QED
  BY <1>1, <1>16, <1>18 DEF NetInv, u, dev, mem, d

\* Every step of the device, its driver and its back end.
LEMMA NetEveryStep == ASSUME NetInv, [NetNext]_net_vars PROVE NetInv' /\ NetStep
<1>1. NetStep
  <2>1. CASE UNCHANGED net_vars
    <3>1. net_setup' = net_setup /\ net' = net /\ net_mem' = net_mem /\ net_driver' = net_driver
      BY <2>1 DEF net_vars
    <3>2. NetOK(net_setup, net, net_mem, net_driver)
      BY NetHolds
    <3> QED
      BY <3>1, <3>2 DEF NetStep, NetGoes, ViewStep, QueueStep
  <2>2. CASE NetNext
    <3>1. ASSUME NEW head \in net_setup.heads[Rx], OfferRx(head) PROVE NetStep
      <4> DEFINE contents == [c \in {} |-> 0]
      <4>1. OfferBuffer(Rx, head, contents) /\ Rx \in {Rx, Tx}
        BY <3>1 DEF OfferRx
      <4>2. DOMAIN contents \subseteq {net_setup.frame_cell[Rx][head]}
        OBVIOUS
      <4> HIDE DEF contents
      <4> QED
        BY <4>1, <4>2, NetOfferStep
    <3>2. ASSUME NEW head \in net_setup.heads[Tx], OfferTx(head) PROVE NetStep
      <4> DEFINE contents == [c \in {net_setup.frame_cell[Tx][head]} |-> net_flow.tx_next]
      <4>1. OfferBuffer(Tx, head, contents) /\ Tx \in {Rx, Tx}
        BY <3>2 DEF OfferTx
      <4>2. DOMAIN contents \subseteq {net_setup.frame_cell[Tx][head]}
        OBVIOUS
      <4> HIDE DEF contents
      <4> QED
        BY <4>1, <4>2, NetOfferStep
    <3>3. ASSUME NEW q \in {Rx, Tx}, NetNotify(q) \/ NetCollect(q) PROVE NetStep
      BY <3>3, NetNotifyStep, NetCollectStep
    <3> QED
      BY <2>2, <3>1, <3>2, <3>3, NetWriteStep, NetRestartStep, NetAckStep, NetHandlerEndsStep, NetHostFrameStep,
         NetRestoreStep DEF NetNext
  <2> QED
    BY <2>1, <2>2
<1>2. net_setup \in NetSetups
  BY NetHolds
<1>3. net_setup' = net_setup /\ NetOK(net_setup, net', net_mem', net_driver')
  BY <1>1 DEF NetStep, NetGoes
<1>4. NetInv'
  BY <1>2, <1>3 DEF NetInv
<1> QED
  BY <1>1, <1>4

\* A step of a queue's view is one of BufferQueue.
LEMMA NetQueuesStep ==
  ASSUME NetStep
  PROVE  [RxQueue!Next]_(RxQueue!queue_vars) /\ [TxQueue!Next]_(TxQueue!queue_vars)
<1>1. ASSUME NEW q \in {Rx, Tx} PROVE QueueStep(NetOffered(q), NetReturned(q), NetOffered(q)', NetReturned(q)')
  BY NetView DEF NetStep, NetGoes, ViewStep
<1>2. [RxQueue!Next]_(RxQueue!queue_vars)
  <2> DEFINE lent == NetOffered(Rx)
             back == NetReturned(Rx)
             lent2 == NetOffered(Rx)'
             back2 == NetReturned(Rx)'
  <2>1. QueueStep(lent, back, lent2, back2)
    BY <1>1
  <2> QED
    BY <2>1 DEF QueueStep, RxQueue!Next, RxQueue!Offer, RxQueue!Return, RxQueue!Collect, RxQueue!Stop, RxQueue!queue_vars
<1>3. [TxQueue!Next]_(TxQueue!queue_vars)
  <2> DEFINE lent == NetOffered(Tx)
             back == NetReturned(Tx)
             lent2 == NetOffered(Tx)'
             back2 == NetReturned(Tx)'
  <2>1. QueueStep(lent, back, lent2, back2)
    BY <1>1
  <2> QED
    BY <2>1 DEF QueueStep, TxQueue!Next, TxQueue!Offer, TxQueue!Return, TxQueue!Collect, TxQueue!Stop, TxQueue!queue_vars
<1> QED
  BY <1>2, <1>3

\* What an invariant queue shows, in use or not.
LEMMA NetQueueShows ==
  ASSUME NetInv, NEW q \in {Rx, Tx}
  PROVE  /\ NetReturned(q) # <<>> => NetTold(net, net_driver)
         /\ q = Rx /\ Roomy(net_setup) /\ ~NetIdle(net, net_driver) => NetOffered(q) = <<>>
<1> DEFINE u == net_setup
           l == u.layouts[q]
           qs == net.queues[q]
           s == net_driver.seen[q]
           told == NetTold(net, net_driver)
           idle == NetIdle(net, net_driver)
<1>1. u \in NetSetups /\ QueuesOK(u, net, net_mem, net_driver.seen, told, idle)
  BY NetHolds
<1>2. NetQueueOK(u, q, qs, net_mem, s, told, idle) /\ SoundLayout(l)
  BY <1>1, NetNumbers DEF QueuesOK
<1>3. NetOffered(q) = Lent(l, qs, net_mem) /\ NetReturned(q) = Back(l, qs, net_mem, s)
  BY NetView DEF LentIn, BackIn
<1> HIDE DEF told, idle
<1>4. CASE ~qs.ready
  <2>1. NetOffered(q) = <<>> /\ NetReturned(q) = <<>>
    BY <1>3, <1>4 DEF Lent, Back
  <2> QED
    BY <2>1
<1>5. CASE qs.ready
  <2>1. PICK r, n \in Nat : /\ InUse(l, qs, net_mem, u.heads[q], s, r, n)
                            /\ r # 0 => told
                            /\ q = Rx /\ Roomy(u) /\ ~idle => r = n
    BY <1>2, <1>5 DEF NetQueueOK
  <2> HIDE DEF l, qs, s
  <2>2. NetOffered(q) = OfferedOf(l, net_mem, s, r, n) /\ NetReturned(q) = ReturnedOf(l, net_mem, s, r)
    BY <1>2, <1>3, <2>1, ViewIs
  <2>3. r = 0 => NetReturned(q) = <<>>
    BY <2>2 DEF ReturnedOf
  <2>4. r = n => NetOffered(q) = <<>>
    <3> HAVE r = n
    <3>1. n - r = 0
      OBVIOUS
    <3> QED
      BY <2>2, <3>1 DEF OfferedOf
  <2> QED
    BY <2>1, <2>3, <2>4 DEF told, idle
<1> QED
  BY <1>4, <1>5

(* Both queues of the network device, its registers, the frames that wait  *)
(* and the driver fit together through every step: the invariant that      *)
(* process_tx, process_rx, enqueue_rx_frame, the register writes and a     *)
(* snapshot keep.                                                          *)
THEOREM NetInvariant == NetSpec => []NetInv
<1>1. NetInit => NetInv
  BY NetInitial
<1>2. NetInv /\ [NetNext]_net_vars => NetInv'
  BY NetEveryStep
<1> QED
  BY <1>1, <1>2, PTL DEF NetSpec

(* process_tx, process_rx and the driver's ring accesses implement the     *)
(* queue of BufferQueue twice: whatever the chains are and however wide    *)
(* the header, a buffer comes back once and in order on the queue it was   *)
(* offered on, and a restart of one queue leaves the other alone.          *)
THEOREM NetRingsImplementQueues == NetSpec => NetRingsAreQueues
<1>1. NetInit => NetInv /\ RxQueue!Init /\ TxQueue!Init
  <2>1. Rx \in {Rx, Tx} /\ Tx \in {Rx, Tx}
    OBVIOUS
  <2> QED
    BY <2>1, NetInitial DEF RxQueue!Init, TxQueue!Init
<1>2. NetInv /\ [NetNext]_net_vars =>
        NetInv' /\ [RxQueue!Next]_(RxQueue!queue_vars) /\ [TxQueue!Next]_(TxQueue!queue_vars)
  BY NetEveryStep, NetQueuesStep
<1> QED
  BY <1>1, <1>2, PTL DEF NetSpec, NetRingsAreQueues, RxQueue!Spec, TxQueue!Spec

(* The network driver is told of what came back on either queue, and the   *)
(* SoC of every change of the interrupt (raise_interrupt, clear_interrupt, *)
(* load_state).                                                            *)
THEOREM NetDriverIsTold == NetSpec => []NetDriverTold
<1>1. NetInv => NetDriverTold
  <2> SUFFICES ASSUME NetInv PROVE NetDriverTold
    OBVIOUS
  <2>1. net.told = (net.interrupt_status # 0)
    BY NetHolds DEF NetDeviceOK
  <2>2. \A q \in {Rx, Tx} : NetReturned(q) # <<>> => NetTold(net, net_driver)
    BY NetQueueShows
  <2> QED
    BY <2>1, <2>2 DEF NetDriverTold, NetTold
<1> QED
  BY <1>1, NetInvariant, PTL

(* enqueue_rx_frame, process_rx and the loopback in process_queue never    *)
(* leave a frame waiting beside a receive buffer they have been notified   *)
(* of, when every receive buffer is large enough for a frame behind the    *)
(* long header.                                                            *)
THEOREM NetFramesFindBuffers == NetSpec => [](Roomy(net_setup) => NetNoFrameStuck)
<1>1. NetInv => (Roomy(net_setup) => NetNoFrameStuck)
  <2> SUFFICES ASSUME NetInv, Roomy(net_setup) PROVE NetNoFrameStuck
    OBVIOUS
  <2>1. ~NetIdle(net, net_driver) => NetOffered(Rx) = <<>>
    BY NetQueueShows
  <2> QED
    BY <2>1 DEF NetNoFrameStuck, NetIdle
<1> QED
  BY <1>1, NetInvariant, PTL

(* All rings of both devices implement the queue their drivers rely on.    *)
THEOREM VirtioRingsImplementQueues == BlkSpec /\ NetSpec => RingsAreQueues
BY BlkRingImplementsQueue, NetRingsImplementQueues, PTL DEF RingsAreQueues

(* The driver of either device is told of what it has to collect.          *)
THEOREM VirtioDriversAreTold == BlkSpec /\ NetSpec => []DriversTold
BY BlkDriverIsTold, NetDriverIsTold, PTL DEF DriversTold
=============================================================================
