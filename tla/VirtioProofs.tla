---------------------------- MODULE VirtioProofs ----------------------------
(***************************************************************************)
(* What the driver of the virtio block device may rely on, proved: the     *)
(* ring in guest memory implements the abstract queue of BufferQueue, for  *)
(* any size of the queue, any width of the indices and any layout that     *)
(* keeps queue and buffers apart.  The lemmas about one ring, its          *)
(* descriptor chains and its registers hold for either device.             *)
(***************************************************************************)
EXTENDS VirtioBlk, TimerProofs, FiniteSetTheorems, SequenceTheorems

-----------------------------------------------------------------------------
(* Arithmetic                                                              *)

LEMMA RingNumbers ==
  /\ FirstRamCell \in Nat \ {0} /\ LastRamCell \in Nat \ {0} /\ IndexModulus \in Nat \ {0}
  /\ AddressHalf \in Nat \ {0} /\ QueueSize \in Nat \ {0} /\ QueueSize <= IndexModulus
  BY RingAssumption

\* An index that wraps at m still finds its slot, when n divides m.
LEMMA SlotOfIndex ==
  ASSUME NEW m \in Nat \ {0}, NEW n \in Nat \ {0}, m % n = 0, NEW i \in Int
  PROVE  (i % m) % n = i % n
<1> DEFINE p == m \div n
           q == i \div m
           j == i % m
           a == j \div n
           b == j % n
<1>1. p \in Int /\ q \in Int /\ j \in Int
  OBVIOUS
<1>2. m = n * p
  BY Division
<1>3. i = m * q + j
  BY Division
<1> HIDE DEF p, q, j
<1>4. a \in Int /\ b \in 0 .. n - 1 /\ j = n * a + b
  BY <1>1, Division
<1> HIDE DEF a, b
<1>5. (n * p) * q = (p * q) * n /\ p * q \in Int
  BY <1>1
<1>6. i = (p * q + a) * n + b /\ p * q + a \in Int
  BY <1>1, <1>2, <1>3, <1>4, <1>5
<1>7. i % n = b
  BY <1>4, <1>6, RemainderIs
<1> QED
  BY <1>7 DEF b, j

\* Slots less than n apart are different ones.
LEMMA SlotsApart ==
  ASSUME NEW n \in Nat \ {0}, NEW i \in Nat, NEW j \in 0 .. n - 1, NEW k \in 0 .. n - 1,
         (i + j) % n = (i + k) % n
  PROVE  j = k
<1> DEFINE r == (i + j) % n
           p == (i + j) \div n
           q == (i + k) \div n
<1>1. p \in Int /\ q \in Int /\ r \in Int
  OBVIOUS
<1>2. i + j = n * p + r /\ i + k = n * q + r
  BY Division
<1> HIDE DEF p, q, r
<1>3. CASE p >= q + 1
  <2>1. n * p >= n * (q + 1) /\ n * (q + 1) = n * q + n
    BY <1>1, <1>3
  <2> QED
    BY <2>1, <1>1, <1>2
<1>4. CASE q >= p + 1
  <2>1. n * q >= n * (p + 1) /\ n * (p + 1) = n * p + n
    BY <1>1, <1>4
  <2> QED
    BY <2>1, <1>1, <1>2
<1>5. CASE p = q
  BY <1>1, <1>2, <1>5
<1> QED
  BY <1>1, <1>3, <1>4, <1>5

\* How far one index is behind another one.
LEMMA Behind ==
  ASSUME NEW m \in Nat \ {0}, NEW i \in Nat, NEW j \in Nat, NEW k \in Nat, j <= k, k - j < m
  PROVE  (((i + k) % m) - ((i + j) % m)) % m = k - j
<1> DEFINE x == (i + k) % m
           y == (i + j) % m
<1>1. x \in Int /\ y \in Int
  OBVIOUS
<1>2. (x - y) % m = ((i + k) - y) % m
  <2>1. -y \in Int /\ i + k \in Int /\ x + (-y) = x - y /\ (i + k) + (-y) = (i + k) - y
    BY <1>1
  <2> HIDE DEF y
  <2>2. (((i + k) % m) + (-y)) % m = ((i + k) + (-y)) % m
    BY <2>1, RemainderAdds
  <2> QED
    BY <2>1, <2>2
<1> DEFINE q == (i + j) \div m
<1>3. q \in Int /\ i + j = m * q + y
  BY Division
<1> HIDE DEF q, x, y
<1>4. (i + k) - y = q * m + (k - j) /\ k - j \in 0 .. m - 1
  BY <1>1, <1>3
<1> QED
  BY <1>2, <1>3, <1>4, RemainderIs DEF x, y

-----------------------------------------------------------------------------
(* The cells of a queue                                                    *)

AvailPart(l) == l.avail .. (l.avail + 1 + l.num)
UsedPart(l) == l.used .. (l.used + 1 + 2 * l.num)

LEMMA LayoutNumbers ==
  ASSUME NEW l, SoundLayout(l)
  PROVE  /\ l.num \in Nat \ {0} /\ l.num <= QueueSize /\ l.num <= IndexModulus /\ IndexModulus % l.num = 0
         /\ l.desc \in Nat \ {0} /\ l.avail \in Nat \ {0} /\ l.used \in Nat \ {0}
         /\ RingCells(l) = AvailPart(l) \cup UsedPart(l) /\ AvailPart(l) \cap UsedPart(l) = {}
         /\ QueueCells(l) = TableCells(l) \cup RingCells(l)
<1>1. l.num \in Nat \ {0} /\ l.num <= QueueSize /\ l.num <= IndexModulus /\ IndexModulus % l.num = 0
  BY RingNumbers DEF SoundLayout
<1>2. l.desc \in Nat \ {0} /\ l.avail \in Nat \ {0} /\ l.used \in Nat \ {0}
  BY DEF SoundLayout
<1>3. RingCells(l) = AvailPart(l) \cup UsedPart(l)
  BY DEF RingCells, AvailPart, UsedPart
<1>4. l.avail + 1 + l.num < l.used \/ l.used + 1 + 2 * l.num < l.avail
  BY DEF SoundLayout
<1>5. AvailPart(l) \cap UsedPart(l) = {}
  BY <1>1, <1>2, <1>4 DEF AvailPart, UsedPart
<1> QED
  BY <1>1, <1>2, <1>3, <1>5 DEF QueueCells

LEMMA CellsOf ==
  ASSUME NEW l, SoundLayout(l), NEW i \in Int
  PROVE  /\ AvailIdxCell(l) \in AvailPart(l) /\ UsedIdxCell(l) \in UsedPart(l)
         /\ AvailCell(l, i) \in AvailPart(l) /\ AvailCell(l, i) # AvailIdxCell(l)
         /\ UsedCell(l, i) \in UsedPart(l) /\ UsedCell(l, i) + 1 \in UsedPart(l)
         /\ UsedIdxCell(l) \notin {UsedCell(l, i), UsedCell(l, i) + 1}
         /\ InRam(AvailIdxCell(l), 1) /\ InRam(UsedIdxCell(l), 1)
         /\ InRam(AvailCell(l, i), 1) /\ InRam(UsedCell(l, i), 2)
<1> DEFINE p == i % l.num
<1>1. l.num \in Nat \ {0} /\ l.avail \in Nat /\ l.used \in Nat /\ p \in 0 .. l.num - 1
  BY LayoutNumbers
<1>2. /\ AvailCell(l, i) = l.avail + 2 + p /\ UsedCell(l, i) = l.used + 2 + 2 * p
      /\ AvailIdxCell(l) = l.avail + 1 /\ UsedIdxCell(l) = l.used + 1
  BY DEF AvailCell, UsedCell, AvailIdxCell, UsedIdxCell
<1> HIDE DEF p
<1>3. AvailPart(l) \subseteq RamCells /\ UsedPart(l) \subseteq RamCells
  BY LayoutNumbers DEF SoundLayout
<1>4. /\ AvailIdxCell(l) \in AvailPart(l) /\ UsedIdxCell(l) \in UsedPart(l)
      /\ AvailCell(l, i) \in AvailPart(l) /\ AvailCell(l, i) # AvailIdxCell(l)
      /\ UsedCell(l, i) \in UsedPart(l) /\ UsedCell(l, i) + 1 \in UsedPart(l)
      /\ UsedIdxCell(l) \notin {UsedCell(l, i), UsedCell(l, i) + 1}
  BY <1>1, <1>2 DEF AvailPart, UsedPart
<1>5. /\ AvailIdxCell(l) \in RamCells /\ UsedIdxCell(l) \in RamCells /\ AvailCell(l, i) \in RamCells
      /\ UsedCell(l, i) \in RamCells /\ UsedCell(l, i) + 1 \in RamCells
  BY <1>3, <1>4
<1>6. /\ InRam(AvailIdxCell(l), 1) /\ InRam(UsedIdxCell(l), 1)
      /\ InRam(AvailCell(l, i), 1) /\ InRam(UsedCell(l, i), 2)
  BY <1>5, RingNumbers DEF InRam, RamCells
<1> QED
  BY <1>4, <1>6

\* Two indices share a cell only if they share a slot.
LEMMA CellsApart ==
  ASSUME NEW l, SoundLayout(l), NEW i \in Int, NEW j \in Int
  PROVE  /\ AvailCell(l, i) = AvailCell(l, j) <=> i % l.num = j % l.num
         /\ UsedCell(l, i) = UsedCell(l, j) <=> i % l.num = j % l.num
         /\ UsedCell(l, i) # UsedCell(l, j) + 1
<1> DEFINE p == i % l.num
           q == j % l.num
<1>1. l.avail \in Nat /\ l.used \in Nat /\ p \in Int /\ q \in Int
  BY LayoutNumbers
<1>2. /\ AvailCell(l, i) = l.avail + 2 + p /\ UsedCell(l, i) = l.used + 2 + 2 * p
      /\ AvailCell(l, j) = l.avail + 2 + q /\ UsedCell(l, j) = l.used + 2 + 2 * q
  BY DEF AvailCell, UsedCell
<1> HIDE DEF p, q
<1>3. /\ AvailCell(l, i) = AvailCell(l, j) <=> p = q
      /\ UsedCell(l, i) = UsedCell(l, j) <=> p = q
      /\ UsedCell(l, i) # UsedCell(l, j) + 1
  BY <1>1, <1>2
<1> QED
  BY <1>3 DEF p, q

\* The cell of an index that wraps.
LEMMA CellOfIndex ==
  ASSUME NEW l, SoundLayout(l), NEW i \in Int
  PROVE  /\ AvailCell(l, i % IndexModulus) = AvailCell(l, i)
         /\ UsedCell(l, i % IndexModulus) = UsedCell(l, i)
<1>1. (i % IndexModulus) % l.num = i % l.num /\ i % IndexModulus \in Int
  <2>1. IndexModulus \in Nat \ {0} /\ l.num \in Nat \ {0} /\ IndexModulus % l.num = 0
    BY LayoutNumbers, RingNumbers
  <2>2. (i % IndexModulus) % l.num = i % l.num
    BY <2>1, SlotOfIndex
  <2> QED
    BY <2>1, <2>2
<1> QED
  BY <1>1, CellsApart

\* Entries that are less than a ring apart have cells of their own.
LEMMA CellsInOrder ==
  ASSUME NEW l, SoundLayout(l), NEW s \in Nat, NEW j \in 0 .. l.num - 1, NEW k \in 0 .. l.num - 1, j # k
  PROVE  /\ AvailCell(l, s + j) # AvailCell(l, s + k)
         /\ UsedCell(l, s + j) # UsedCell(l, s + k)
<1>1. (s + j) % l.num # (s + k) % l.num
  BY LayoutNumbers, SlotsApart
<1>2. s + j \in Int /\ s + k \in Int
  BY LayoutNumbers
<1> QED
  BY <1>1, <1>2, CellsApart

-----------------------------------------------------------------------------
(* A ring in use                                                           *)

(* The driver has seen the used elements up to index s; n heads are in     *)
(* flight, the first r of them have been returned.                         *)
RingOK(l, mem, heads, s, r, n) ==
  /\ s \in 0 .. IndexModulus - 1 /\ n \in 0 .. l.num /\ n < IndexModulus /\ r \in 0 .. n
  /\ mem[AvailIdxCell(l)] = (s + n) % IndexModulus
  /\ mem[UsedIdxCell(l)] = (s + r) % IndexModulus
  /\ \A k \in 0 .. n - 1 : mem[AvailCell(l, s + k)] \in heads
  /\ \A j, k \in 0 .. n - 1 : mem[AvailCell(l, s + j)] = mem[AvailCell(l, s + k)] => j = k
  /\ \A k \in 0 .. r - 1 : mem[UsedCell(l, s + k)] = mem[AvailCell(l, s + k)]

LEMMA RingIndices ==
  ASSUME NEW l, SoundLayout(l), NEW mem, NEW heads, NEW s, NEW r, NEW n, RingOK(l, mem, heads, s, r, n)
  PROVE  /\ s \in Nat /\ n \in Nat /\ r \in Nat /\ r <= n /\ n <= l.num /\ n < IndexModulus
         /\ \A k \in 0 .. n - 1 : k \in 0 .. l.num - 1 /\ s + k \in Nat
         /\ \A k \in 0 .. r - 1 : k \in 0 .. n - 1
  BY LayoutNumbers, RingNumbers DEF RingOK

LEMMA RingSame ==
  ASSUME NEW l, SoundLayout(l), NEW mem, NEW heads, NEW s, NEW r, NEW n, RingOK(l, mem, heads, s, r, n),
         NEW mem2, \A c \in RingCells(l) : mem2[c] = mem[c]
  PROVE  RingOK(l, mem2, heads, s, r, n)
<1>1. mem2[AvailIdxCell(l)] = mem[AvailIdxCell(l)] /\ mem2[UsedIdxCell(l)] = mem[UsedIdxCell(l)]
  BY CellsOf, LayoutNumbers
<1>2. ASSUME NEW k \in 0 .. n - 1
      PROVE  mem2[AvailCell(l, s + k)] = mem[AvailCell(l, s + k)] /\ mem2[UsedCell(l, s + k)] = mem[UsedCell(l, s + k)]
  <2>1. s + k \in Int
    BY RingIndices
  <2> QED
    BY <2>1, CellsOf, LayoutNumbers
<1>3. \A k \in 0 .. r - 1 : k \in 0 .. n - 1
  BY RingIndices
<1> QED
  BY <1>1, <1>2, <1>3 DEF RingOK

LEMMA RingEmpty ==
  ASSUME NEW l, SoundLayout(l), NEW mem, NEW heads, \A c \in RingCells(l) : mem[c] = 0
  PROVE  RingOK(l, mem, heads, 0, 0, 0)
<1>1. mem[AvailIdxCell(l)] = 0 /\ mem[UsedIdxCell(l)] = 0
  BY CellsOf, LayoutNumbers
<1>2. (0 + 0) % IndexModulus = 0 /\ 0 \in 0 .. IndexModulus - 1 /\ 0 < IndexModulus
  BY RingNumbers
<1>3. 0 \in 0 .. l.num
  BY LayoutNumbers
<1> QED
  BY <1>1, <1>2, <1>3 DEF RingOK

\* The heads in flight are different ones, so there is room for one that is not.
LEMMA RoomForOne ==
  ASSUME NEW l, SoundLayout(l), NEW mem, NEW heads, NEW s, NEW r, NEW n, RingOK(l, mem, heads, s, r, n),
         SoundHeads(l, heads), NEW head \in heads,
         head \notin {mem[AvailCell(l, s + k)] : k \in 0 .. n - 1}
  PROVE  n + 1 <= l.num /\ n + 1 < IndexModulus
<1> DEFINE f == [k \in 0 .. n - 1 |-> mem[AvailCell(l, s + k)]]
           taken == {mem[AvailCell(l, s + k)] : k \in 0 .. n - 1}
           all == 0 .. l.num - 1
<1>1. n \in Nat /\ l.num \in Nat \ {0} /\ IndexModulus \in Nat \ {0} /\ l.num <= IndexModulus
  BY RingIndices, LayoutNumbers, RingNumbers
<1>2. IsFiniteSet(0 .. n - 1) /\ Cardinality(0 .. n - 1) = n
  <2>1. n - 1 - 0 + 1 = n
    BY <1>1
  <2>2. CASE n = 0
    <3>1. 0 .. n - 1 = {}
      BY <2>2
    <3> QED
      BY <3>1, <2>2, FS_EmptySet
  <2>3. CASE n # 0
    <3>1. 0 \in Int /\ n - 1 \in Int /\ ~(0 > n - 1)
      BY <1>1, <2>3
    <3> QED
      BY <3>1, <2>1, FS_Interval
  <2> QED
    BY <2>2, <2>3
<1>3. IsFiniteSet(all) /\ Cardinality(all) = l.num
  <2>1. 0 \in Int /\ l.num - 1 \in Int /\ ~(0 > l.num - 1) /\ l.num - 1 - 0 + 1 = l.num
    BY <1>1
  <2> QED
    BY <2>1, FS_Interval
<1>4. heads \subseteq all /\ taken \subseteq heads
  BY ZenonT(40) DEF SoundHeads, RingOK
<1>5. IsFiniteSet(heads) /\ Cardinality(heads) \in Nat /\ Cardinality(heads) <= l.num
      /\ (heads # all => Cardinality(heads) < l.num)
  <2> HIDE DEF all
  <2>1. /\ IsFiniteSet(heads) /\ Cardinality(heads) <= Cardinality(all)
        /\ (Cardinality(all) = Cardinality(heads) => all = heads)
    BY <1>3, <1>4, FS_Subset
  <2>2. Cardinality(heads) \in Nat
    BY <2>1, FS_CardinalityType
  <2> QED
    BY <1>1, <1>3, <2>1, <2>2
<1>6. IsFiniteSet(taken) /\ Cardinality(taken) = n
  <2>1. f \in Bijection(0 .. n - 1, taken)
    <3>1. f \in [0 .. n - 1 -> taken]
      OBVIOUS
    <3>2. \A j, k \in 0 .. n - 1 : f[j] = f[k] => j = k
      BY DEF RingOK
    <3>3. \A x \in taken : \E k \in 0 .. n - 1 : f[k] = x
      OBVIOUS
    <3> HIDE DEF f, taken
    <3> QED
      BY <3>1, <3>2, <3>3 DEF Bijection, Injection, Surjection, IsInjective
  <2> HIDE DEF f, taken
  <2>2. ExistsBijection(0 .. n - 1, taken)
    BY <2>1 DEF ExistsBijection
  <2> QED
    BY <2>2, <1>2, FS_Bijection
<1> HIDE DEF taken, all
<1>7. taken \subseteq heads /\ taken # heads
  BY <1>4 DEF taken
<1>8. n < Cardinality(heads)
  <2>1. Cardinality(taken) <= Cardinality(heads) /\ Cardinality(taken) # Cardinality(heads)
    BY <1>5, <1>7, FS_Subset
  <2> QED
    BY <2>1, <1>1, <1>5, <1>6
<1>9. n + 1 <= l.num
  BY <1>1, <1>5, <1>8
<1>10. CASE heads = all
  <2>1. l.num # IndexModulus
    BY <1>10 DEF SoundHeads, all
  <2> QED
    BY <2>1, <1>1, <1>9
<1>11. CASE heads # all
  BY <1>1, <1>5, <1>8, <1>11
<1> QED
  BY <1>9, <1>10, <1>11

-----------------------------------------------------------------------------
(* Sequences, element by element                                           *)

LEMMA TableIsSequence ==
  ASSUME NEW n \in Nat, NEW f, f = [k \in 1 .. n |-> f[k]], NEW S, \A k \in 1 .. n : f[k] \in S
  PROVE  f \in Seq(S) /\ Len(f) = n
<1>1. f \in [1 .. n -> S]
  BY Zenon
<1>2. f \in Seq(S)
  BY <1>1
<1>3. DOMAIN f = 1 .. n
  BY Zenon
<1>4. Len(f) \in Nat /\ DOMAIN f = 1 .. Len(f)
  BY <1>2, LenProperties
<1> QED
  BY <1>2, <1>3, <1>4

LEMMA SequenceIsTable ==
  ASSUME NEW S, NEW f \in Seq(S)
  PROVE  f = [k \in 1 .. Len(f) |-> f[k]]
  OBVIOUS

LEMMA TailIs ==
  ASSUME NEW n \in Nat, n # 0, NEW f, f = [k \in 1 .. n |-> f[k]]
  PROVE  Tail(f) = [k \in 1 .. n - 1 |-> f[k + 1]]
<1> DEFINE S == {f[k] : k \in 1 .. n}
<1>1. f \in Seq(S) /\ Len(f) = n
  <2>1. \A k \in 1 .. n : f[k] \in S
    OBVIOUS
  <2> HIDE DEF S
  <2> QED
    BY <2>1, TableIsSequence
<1> HIDE DEF S
<1>2. /\ Tail(f) \in Seq(S) /\ Len(Tail(f)) = n - 1
      /\ \A i \in 1 .. Len(Tail(f)) : Tail(f)[i] = f[i + 1]
  <2>1. f # <<>>
    BY <1>1
  <2> QED
    BY <2>1, <1>1, HeadTailProperties
<1>3. Tail(f) = [k \in 1 .. n - 1 |-> Tail(f)[k]]
  BY <1>2, SequenceIsTable
<1> QED
  BY <1>2, <1>3

LEMMA JoinIs ==
  ASSUME NEW n \in Nat, NEW m \in Nat, NEW f, NEW g,
         f = [k \in 1 .. n |-> f[k]], g = [k \in 1 .. m |-> g[k]]
  PROVE  f \o g = [k \in 1 .. n + m |-> IF k <= n THEN f[k] ELSE g[k - n]]
<1> DEFINE S == {f[k] : k \in 1 .. n} \cup {g[k] : k \in 1 .. m}
<1>1. f \in Seq(S) /\ Len(f) = n
  <2>1. \A k \in 1 .. n : f[k] \in S
    OBVIOUS
  <2> HIDE DEF S
  <2> QED
    BY <2>1, TableIsSequence
<1>2. g \in Seq(S) /\ Len(g) = m
  <2>1. \A k \in 1 .. m : g[k] \in S
    OBVIOUS
  <2> HIDE DEF S
  <2> QED
    BY <2>1, TableIsSequence
<1> HIDE DEF S
<1>3. /\ f \o g \in Seq(S) /\ Len(f \o g) = n + m
      /\ \A i \in 1 .. n + m : (f \o g)[i] = IF i <= n THEN f[i] ELSE g[i - n]
  BY <1>1, <1>2, ConcatProperties, ZenonT(40)
<1>4. f \o g = [k \in 1 .. n + m |-> (f \o g)[k]]
  BY <1>3, SequenceIsTable
<1> QED
  BY <1>3, <1>4

LEMMA PartIs ==
  ASSUME NEW f, NEW i \in Int, NEW j \in Int
  PROVE  SubSeq(f, i, j) = [k \in 1 .. j - i + 1 |-> f[i + k - 1]]
  OBVIOUS

-----------------------------------------------------------------------------
(* What the ring holds, as the abstract queue sees it                      *)

OfferedOf(l, mem, s, r, n) == [k \in 1 .. n - r |-> mem[AvailCell(l, s + r + k - 1)]]
ReturnedOf(l, mem, s, r) == [k \in 1 .. r |-> mem[UsedCell(l, s + k - 1)]]

LEMMA CellFrom ==
  ASSUME NEW l, SoundLayout(l), NEW i \in Int, NEW k \in Int
  PROVE  /\ AvailCell(l, ((i % IndexModulus) + k) % IndexModulus) = AvailCell(l, i + k)
         /\ UsedCell(l, ((i % IndexModulus) + k) % IndexModulus) = UsedCell(l, i + k)
         /\ AvailCell(l, (i % IndexModulus) + k) = AvailCell(l, i + k)
         /\ UsedCell(l, (i % IndexModulus) + k) = UsedCell(l, i + k)
<1> DEFINE j == i % IndexModulus
<1>1. j \in Int /\ j + k \in Int /\ i + k \in Int
  BY RingNumbers
<1>2. (j + k) % IndexModulus = (i + k) % IndexModulus
  BY RingNumbers, RemainderAdds
<1>3. /\ AvailCell(l, (j + k) % IndexModulus) = AvailCell(l, j + k)
      /\ UsedCell(l, (j + k) % IndexModulus) = UsedCell(l, j + k)
  <2> HIDE DEF j
  <2> QED
    BY <1>1, CellOfIndex
<1>4. /\ AvailCell(l, (i + k) % IndexModulus) = AvailCell(l, i + k)
      /\ UsedCell(l, (i + k) % IndexModulus) = UsedCell(l, i + k)
  BY <1>1, CellOfIndex
<1> QED
  BY <1>2, <1>3, <1>4

LEMMA EntriesAre ==
  ASSUME NEW l, SoundLayout(l), NEW mem, NEW heads, NEW s, NEW r, NEW n, RingOK(l, mem, heads, s, r, n),
         NEW last, last = (s + r) % IndexModulus
  PROVE  /\ [k \in 1 .. (mem[AvailIdxCell(l)] - last) % IndexModulus |->
               mem[AvailCell(l, (last + k - 1) % IndexModulus)]] = OfferedOf(l, mem, s, r, n)
         /\ [k \in 1 .. (mem[UsedIdxCell(l)] - s) % IndexModulus |->
               mem[UsedCell(l, (s + k - 1) % IndexModulus)]] = ReturnedOf(l, mem, s, r)
<1>1. s \in Nat /\ n \in Nat /\ r \in Nat /\ r <= n /\ n < IndexModulus
  BY RingIndices
<1>2. (mem[AvailIdxCell(l)] - last) % IndexModulus = n - r
  <2>1. (((s + n) % IndexModulus) - ((s + r) % IndexModulus)) % IndexModulus = n - r
    <3>1. n - r < IndexModulus /\ IndexModulus \in Nat \ {0}
      BY <1>1, RingNumbers
    <3> QED
      BY <3>1, <1>1, Behind, ZenonT(60)
  <2> QED
    BY <2>1 DEF RingOK
<1>3. (mem[UsedIdxCell(l)] - s) % IndexModulus = r
  <2>1. (((s + r) % IndexModulus) - ((s + 0) % IndexModulus)) % IndexModulus = r - 0
    <3>1. r - 0 < IndexModulus /\ IndexModulus \in Nat \ {0} /\ 0 <= r /\ 0 \in Nat
      BY <1>1, RingNumbers
    <3> QED
      BY <3>1, <1>1, Behind, ZenonT(60)
  <2>2. (s + 0) % IndexModulus = s
    <3>1. s \in 0 .. IndexModulus - 1 /\ s + 0 = s
      BY <1>1 DEF RingOK
    <3> QED
      BY <3>1, RingNumbers, RemainderOfSmall
  <2> QED
    BY <2>1, <2>2, <1>1 DEF RingOK
<1>4. ASSUME NEW k \in Int PROVE AvailCell(l, (last + k - 1) % IndexModulus) = AvailCell(l, s + r + k - 1)
  <2>1. s + r \in Int /\ k - 1 \in Int
    BY <1>1
  <2>2. AvailCell(l, (((s + r) % IndexModulus) + (k - 1)) % IndexModulus) = AvailCell(l, (s + r) + (k - 1))
    BY <2>1, CellFrom
  <2>3. last \in Int
    BY <1>1, RingNumbers
  <2>4. last + (k - 1) = last + k - 1 /\ (s + r) + (k - 1) = s + r + k - 1
    BY <2>3, <1>1
  <2> QED
    BY <2>2, <2>4
<1>5. ASSUME NEW k \in Int PROVE UsedCell(l, (s + k - 1) % IndexModulus) = UsedCell(l, s + k - 1)
  BY <1>1, CellOfIndex
<1> QED
  BY <1>2, <1>3, <1>4, <1>5 DEF OfferedOf, ReturnedOf

-----------------------------------------------------------------------------
(* What a step does to a ring                                              *)

\* The driver offers a head that is not in flight.
LEMMA RingOffer ==
  ASSUME NEW l, SoundLayout(l), NEW mem, NEW heads, NEW s, NEW r, NEW n, RingOK(l, mem, heads, s, r, n),
         NEW head \in heads, head \notin {mem[AvailCell(l, s + k)] : k \in 0 .. n - 1},
         n + 1 <= l.num, n + 1 < IndexModulus,
         NEW mem2, mem2[AvailIdxCell(l)] = (mem[AvailIdxCell(l)] + 1) % IndexModulus,
         mem2[AvailCell(l, s + n)] = head,
         \A c \in RingCells(l) \ {AvailIdxCell(l), AvailCell(l, s + n)} : mem2[c] = mem[c]
  PROVE  /\ RingOK(l, mem2, heads, s, r, n + 1)
         /\ OfferedOf(l, mem2, s, r, n + 1) = Append(OfferedOf(l, mem, s, r, n), head)
         /\ ReturnedOf(l, mem2, s, r) = ReturnedOf(l, mem, s, r)
<1>1. /\ s \in Nat /\ n \in Nat /\ r \in Nat /\ r <= n /\ n <= l.num
      /\ \A k \in 0 .. n - 1 : k \in 0 .. l.num - 1 /\ s + k \in Int
      /\ \A k \in 0 .. r - 1 : k \in 0 .. n - 1
  BY RingIndices
<1>2. s + n \in Int /\ n \in 0 .. l.num - 1 /\ n + 1 \in 0 .. l.num /\ r \in 0 .. n + 1 /\ l.num \in Nat
  BY <1>1, LayoutNumbers
<1>3. /\ AvailPart(l) \subseteq RingCells(l) /\ UsedPart(l) \subseteq RingCells(l)
      /\ AvailPart(l) \cap UsedPart(l) = {}
  BY LayoutNumbers
<1>4. mem2[UsedIdxCell(l)] = mem[UsedIdxCell(l)]
  <2>1. UsedIdxCell(l) \in UsedPart(l) /\ AvailIdxCell(l) \in AvailPart(l) /\ AvailCell(l, s + n) \in AvailPart(l)
    BY <1>2, CellsOf
  <2> QED
    BY <2>1, <1>3
<1>5. ASSUME NEW i \in Int PROVE mem2[UsedCell(l, i)] = mem[UsedCell(l, i)]
  <2>1. UsedCell(l, i) \in UsedPart(l) /\ AvailIdxCell(l) \in AvailPart(l)
    BY CellsOf
  <2>2. AvailCell(l, s + n) \in AvailPart(l)
    BY <1>2, CellsOf
  <2> QED
    BY <2>1, <2>2, <1>3
<1>6. ASSUME NEW k \in 0 .. n - 1 PROVE mem2[AvailCell(l, s + k)] = mem[AvailCell(l, s + k)]
  <2>1. k \in 0 .. l.num - 1 /\ s + k \in Int /\ k # n
    BY <1>1
  <2>2. AvailCell(l, s + k) # AvailCell(l, s + n)
    BY <2>1, <1>1, <1>2, CellsInOrder
  <2>3. AvailCell(l, s + k) \in AvailPart(l) /\ AvailCell(l, s + k) # AvailIdxCell(l)
    BY <2>1, CellsOf
  <2> QED
    BY <2>2, <2>3, <1>3
<1>7. mem2[AvailIdxCell(l)] = (s + (n + 1)) % IndexModulus
  <2>1. (((s + n) % IndexModulus) + 1) % IndexModulus = (s + n + 1) % IndexModulus
    BY <1>2, RingNumbers, RemainderAdds
  <2>2. s + n + 1 = s + (n + 1)
    BY <1>1
  <2> QED
    BY <2>1, <2>2 DEF RingOK
<1>8. ASSUME NEW k \in 0 .. (n + 1) - 1 PROVE k = n \/ k \in 0 .. n - 1
  BY <1>1
<1>9. RingOK(l, mem2, heads, s, r, n + 1)
  <2>1. \A k \in 0 .. (n + 1) - 1 : mem2[AvailCell(l, s + k)] \in heads
    BY <1>6, <1>8 DEF RingOK
  <2>2. \A j, k \in 0 .. (n + 1) - 1 : mem2[AvailCell(l, s + j)] = mem2[AvailCell(l, s + k)] => j = k
    <3> TAKE j, k \in 0 .. (n + 1) - 1
    <3>1. CASE j \in 0 .. n - 1 /\ k \in 0 .. n - 1
      BY <3>1, <1>6 DEF RingOK
    <3>2. CASE j \in 0 .. n - 1 /\ k = n
      BY <3>2, <1>6
    <3>3. CASE j = n /\ k \in 0 .. n - 1
      BY <3>3, <1>6
    <3> QED
      BY <3>1, <3>2, <3>3, <1>8
  <2>3. \A k \in 0 .. r - 1 : mem2[UsedCell(l, s + k)] = mem2[AvailCell(l, s + k)]
    BY <1>1, <1>5, <1>6 DEF RingOK
  <2>4. /\ s \in 0 .. IndexModulus - 1 /\ n + 1 \in 0 .. l.num /\ n + 1 < IndexModulus /\ r \in 0 .. n + 1
        /\ mem2[UsedIdxCell(l)] = (s + r) % IndexModulus
    BY <1>2, <1>4 DEF RingOK
  <2> QED
    BY <2>1, <2>2, <2>3, <2>4, <1>7 DEF RingOK
<1>10. OfferedOf(l, mem2, s, r, n + 1) = Append(OfferedOf(l, mem, s, r, n), head)
  <2> DEFINE old == OfferedOf(l, mem, s, r, n)
             new == OfferedOf(l, mem2, s, r, n + 1)
  <2>1. n - r \in Nat /\ (n + 1) - r = (n - r) + 1
    BY <1>1
  <2>2. old = [k \in 1 .. n - r |-> old[k]] /\ new = [k \in 1 .. (n - r) + 1 |-> new[k]]
    BY <2>1 DEF OfferedOf
  <2>3. ASSUME NEW k \in 1 .. n - r PROVE new[k] = old[k]
    <3> DEFINE i == r + k - 1
    <3>1. i \in 0 .. n - 1 /\ s + r + k - 1 = s + i /\ k \in 1 .. (n + 1) - r
      BY <1>1
    <3> HIDE DEF i
    <3>2. mem2[AvailCell(l, s + i)] = mem[AvailCell(l, s + i)]
      BY <3>1, <1>6
    <3> QED
      BY <3>1, <3>2 DEF OfferedOf
  <2>4. new[(n - r) + 1] = head
    <3>1. (n - r) + 1 \in 1 .. (n + 1) - r /\ s + r + ((n - r) + 1) - 1 = s + n
      BY <1>1
    <3> QED
      BY <3>1 DEF OfferedOf
  <2> HIDE DEF old, new
  <2>5. Append(old, head) = [k \in 1 .. (n - r) + 1 |-> IF k <= n - r THEN old[k] ELSE head]
    BY <2>1, <2>2
  <2>6. \A k \in 1 .. (n - r) + 1 : new[k] = IF k <= n - r THEN old[k] ELSE head
    BY <2>1, <2>3, <2>4
  <2> QED
    BY <2>2, <2>5, <2>6 DEF old, new
<1>11. ReturnedOf(l, mem2, s, r) = ReturnedOf(l, mem, s, r)
  <2>1. \A k \in 1 .. r : s + k - 1 \in Int
    BY <1>1
  <2> QED
    BY <2>1, <1>5 DEF ReturnedOf
<1> QED
  BY <1>9, <1>10, <1>11

\* Seen from the next index, everything is one nearer.
LEMMA IndexCollected ==
  ASSUME NEW s \in Nat, NEW k \in Nat
  PROVE  (((s + 1) % IndexModulus) + (k - 1)) % IndexModulus = (s + k) % IndexModulus
<1>1. (s + 1) + (k - 1) = s + k /\ s + 1 \in Int /\ k - 1 \in Int /\ IndexModulus \in Nat \ {0}
  BY RingNumbers
<1>2. (((s + 1) % IndexModulus) + (k - 1)) % IndexModulus = ((s + 1) + (k - 1)) % IndexModulus
  BY <1>1, RemainderAdds
<1> QED
  BY <1>1, <1>2

\* From the ring in mem the oldest element that was returned has been taken; t is now seen.
Collected(l, mem, mem2, heads, s, t, r, n) ==
  /\ RingOK(l, mem2, heads, t, r - 1, n - 1)
  /\ OfferedOf(l, mem2, t, r - 1, n - 1) = OfferedOf(l, mem, s, r, n)
  /\ ReturnedOf(l, mem2, t, r - 1) = Tail(ReturnedOf(l, mem, s, r))

\* The driver collects the oldest element that was returned.
LEMMA RingCollect ==
  ASSUME NEW l, SoundLayout(l), NEW mem, NEW heads, NEW s, NEW r, NEW n, RingOK(l, mem, heads, s, r, n),
         r # 0, NEW t, t = (s + 1) % IndexModulus,
         NEW cleared, cleared = {AvailCell(l, s), UsedCell(l, s), UsedCell(l, s) + 1},
         NEW mem2, \A c \in RingCells(l) \ cleared : mem2[c] = mem[c]
  PROVE  Collected(l, mem, mem2, heads, s, t, r, n)
<1>1. /\ s \in Nat /\ n \in Nat /\ r \in Nat /\ r <= n /\ n <= l.num /\ n < IndexModulus
      /\ \A k \in 0 .. n - 1 : k \in 0 .. l.num - 1 /\ s + k \in Int
      /\ \A k \in 0 .. r - 1 : k \in 0 .. n - 1
  BY RingIndices
<1>2. t \in 0 .. IndexModulus - 1 /\ s + 1 \in Int /\ l.num \in Nat
  BY <1>1, RingNumbers, LayoutNumbers
<1>3. /\ AvailPart(l) \subseteq RingCells(l) /\ UsedPart(l) \subseteq RingCells(l)
      /\ AvailPart(l) \cap UsedPart(l) = {}
  BY LayoutNumbers
<1>4. /\ AvailCell(l, s) \in AvailPart(l) /\ AvailCell(l, s) # AvailIdxCell(l) /\ AvailIdxCell(l) \in AvailPart(l)
      /\ UsedCell(l, s) \in UsedPart(l) /\ UsedCell(l, s) + 1 \in UsedPart(l)
      /\ UsedIdxCell(l) \in UsedPart(l) /\ UsedIdxCell(l) \notin {UsedCell(l, s), UsedCell(l, s) + 1}
  BY <1>1, CellsOf
<1>5. mem2[AvailIdxCell(l)] = mem[AvailIdxCell(l)] /\ mem2[UsedIdxCell(l)] = mem[UsedIdxCell(l)]
  BY <1>3, <1>4
<1>6. ASSUME NEW k \in 1 .. n - 1
      PROVE  /\ mem2[AvailCell(l, s + k)] = mem[AvailCell(l, s + k)]
             /\ mem2[UsedCell(l, s + k)] = mem[UsedCell(l, s + k)]
  <2>1. k \in 0 .. l.num - 1 /\ 0 \in 0 .. l.num - 1 /\ k # 0 /\ s + 0 = s /\ s + k \in Int
    BY <1>1, <1>2
  <2>2. AvailCell(l, s + k) # AvailCell(l, s) /\ UsedCell(l, s + k) # UsedCell(l, s)
    BY <2>1, <1>1, CellsInOrder
  <2>3. /\ AvailCell(l, s + k) \in AvailPart(l) /\ UsedCell(l, s + k) \in UsedPart(l)
    BY <2>1, CellsOf
  <2>4. UsedCell(l, s + k) # UsedCell(l, s) + 1
    BY <2>1, <1>1, CellsApart
  <2> QED
    BY <2>2, <2>3, <2>4, <1>3, <1>4
<1>7. ASSUME NEW k \in Int
      PROVE  AvailCell(l, t + k) = AvailCell(l, s + (k + 1)) /\ UsedCell(l, t + k) = UsedCell(l, s + (k + 1))
  <2>1. s + 1 + k = s + (k + 1)
    BY <1>1
  <2>2. AvailCell(l, t + k) = AvailCell(l, s + 1 + k) /\ UsedCell(l, t + k) = UsedCell(l, s + 1 + k)
    BY <1>2, CellFrom
  <2> QED
    BY <2>1, <2>2
<1>9. ASSUME NEW k \in 0 .. (n - 1) - 1
      PROVE  /\ k \in Int /\ k + 1 \in 1 .. n - 1 /\ k + 1 \in 0 .. n - 1
             /\ mem2[AvailCell(l, t + k)] = mem[AvailCell(l, s + (k + 1))]
             /\ mem2[UsedCell(l, t + k)] = mem[UsedCell(l, s + (k + 1))]
  <2>1. k \in Int /\ k + 1 \in 1 .. n - 1 /\ k + 1 \in 0 .. n - 1
    BY <1>1
  <2> QED
    BY <2>1, <1>6, <1>7
<1>10. (t + (n - 1)) % IndexModulus = (s + n) % IndexModulus /\ (t + (r - 1)) % IndexModulus = (s + r) % IndexModulus
  BY <1>1, IndexCollected
<1>11. RingOK(l, mem2, heads, t, r - 1, n - 1)
  <2>1. \A k \in 0 .. (n - 1) - 1 : mem2[AvailCell(l, t + k)] \in heads
    BY <1>9 DEF RingOK
  <2>2. \A j, k \in 0 .. (n - 1) - 1 : mem2[AvailCell(l, t + j)] = mem2[AvailCell(l, t + k)] => j = k
    <3> TAKE j, k \in 0 .. (n - 1) - 1
    <3>1. HAVE mem2[AvailCell(l, t + j)] = mem2[AvailCell(l, t + k)]
    <3>2. mem[AvailCell(l, s + (j + 1))] = mem[AvailCell(l, s + (k + 1))] /\ j + 1 \in 0 .. n - 1 /\ k + 1 \in 0 .. n - 1
      BY <3>1, <1>9
    <3>3. j + 1 = k + 1
      BY <3>2 DEF RingOK
    <3> QED
      BY <3>3
  <2>3. \A k \in 0 .. (r - 1) - 1 : mem2[UsedCell(l, t + k)] = mem2[AvailCell(l, t + k)]
    <3> TAKE k \in 0 .. (r - 1) - 1
    <3>1. k \in 0 .. (n - 1) - 1 /\ k + 1 \in 0 .. r - 1
      BY <1>1
    <3>2. mem[UsedCell(l, s + (k + 1))] = mem[AvailCell(l, s + (k + 1))]
      BY <3>1 DEF RingOK
    <3> QED
      BY <3>1, <3>2, <1>9
  <2>4. n - 1 \in 0 .. l.num /\ n - 1 < IndexModulus /\ r - 1 \in 0 .. n - 1
    BY <1>1, <1>2, RingNumbers
  <2> QED
    BY <2>1, <2>2, <2>3, <2>4, <1>2, <1>5, <1>10 DEF RingOK
<1>12. OfferedOf(l, mem2, t, r - 1, n - 1) = OfferedOf(l, mem, s, r, n)
  <2>1. (n - 1) - (r - 1) = n - r
    BY <1>1
  <2>2. ASSUME NEW k \in 1 .. n - r
        PROVE  mem2[AvailCell(l, t + (r - 1) + k - 1)] = mem[AvailCell(l, s + r + k - 1)]
    <3> DEFINE i == (r - 1) + k - 1
    <3>1. i \in 0 .. (n - 1) - 1 /\ t + (r - 1) + k - 1 = t + i /\ s + r + k - 1 = s + (i + 1)
      BY <1>1, <1>2
    <3> HIDE DEF i
    <3> QED
      BY <3>1, <1>9
  <2> QED
    BY <2>1, <2>2 DEF OfferedOf
<1>13. ReturnedOf(l, mem2, t, r - 1) = Tail(ReturnedOf(l, mem, s, r))
  <2> DEFINE old == ReturnedOf(l, mem, s, r)
  <2>1. old = [k \in 1 .. r |-> old[k]] /\ Len(old) = r /\ r - 1 \in Nat
    BY <1>1 DEF ReturnedOf
  <2>2. ASSUME NEW k \in 1 .. r - 1 PROVE mem2[UsedCell(l, t + k - 1)] = old[k + 1]
    <3> DEFINE i == k - 1
    <3>1. i \in 0 .. (n - 1) - 1 /\ t + k - 1 = t + i /\ s + (k + 1) - 1 = s + (i + 1) /\ k + 1 \in 1 .. r
      BY <1>1, <1>2
    <3> HIDE DEF i
    <3> QED
      BY <3>1, <1>9 DEF ReturnedOf
  <2>3. Tail(old) = [k \in 1 .. r - 1 |-> old[k + 1]]
    <3> HIDE DEF old
    <3> QED
      BY <2>1, <1>1, r # 0, TailIs
  <2> QED
    BY <2>2, <2>3 DEF ReturnedOf
<1> QED
  BY <1>11, <1>12, <1>13 DEF Collected

LEMMA ViewsAreSequences ==
  ASSUME NEW l, SoundLayout(l), NEW mem, NEW heads, NEW s, NEW r, NEW n, RingOK(l, mem, heads, s, r, n)
  PROVE  /\ OfferedOf(l, mem, s, r, n) \in Seq(heads) /\ Len(OfferedOf(l, mem, s, r, n)) = n - r
         /\ ReturnedOf(l, mem, s, r) \in Seq(heads) /\ Len(ReturnedOf(l, mem, s, r)) = r
<1>1. s \in Nat /\ n \in Nat /\ r \in Nat /\ n - r \in Nat
  BY RingIndices
<1> DEFINE f == OfferedOf(l, mem, s, r, n)
           g == ReturnedOf(l, mem, s, r)
<1>2. f = [k \in 1 .. n - r |-> f[k]] /\ \A k \in 1 .. n - r : f[k] \in heads
  <2>1. ASSUME NEW k \in 1 .. n - r PROVE f[k] \in heads
    <3> DEFINE i == r + k - 1
    <3>1. s + r + k - 1 = s + i /\ i \in 0 .. n - 1
      BY <1>1
    <3> HIDE DEF i
    <3> QED
      BY <3>1 DEF OfferedOf, RingOK
  <2> QED
    BY <2>1 DEF OfferedOf
<1>3. g = [k \in 1 .. r |-> g[k]] /\ \A k \in 1 .. r : g[k] \in heads
  <2>1. ASSUME NEW k \in 1 .. r PROVE g[k] \in heads
    <3> DEFINE i == k - 1
    <3>1. s + k - 1 = s + i /\ i \in 0 .. n - 1 /\ i \in 0 .. r - 1
      BY <1>1
    <3> HIDE DEF i
    <3> QED
      BY <3>1 DEF ReturnedOf, RingOK
  <2> QED
    BY <2>1 DEF ReturnedOf
<1> HIDE DEF f, g
<1>4. f \in Seq(heads) /\ Len(f) = n - r
  BY <1>1, <1>2, TableIsSequence
<1>5. g \in Seq(heads) /\ Len(g) = r
  BY <1>1, <1>3, TableIsSequence
<1> QED
  BY <1>4, <1>5 DEF f, g

\* The device returns the oldest head it owns.
LEMMA RingServe ==
  ASSUME NEW l, SoundLayout(l), NEW mem, NEW heads, NEW s, NEW p, NEW n, RingOK(l, mem, heads, s, p, n),
         p # n,
         NEW mem2, \A c \in AvailPart(l) : mem2[c] = mem[c],
         mem2[UsedIdxCell(l)] = (s + (p + 1)) % IndexModulus,
         mem2[UsedCell(l, s + p)] = mem[AvailCell(l, s + p)],
         \A c \in UsedPart(l) \ {UsedIdxCell(l), UsedCell(l, s + p), UsedCell(l, s + p) + 1} : mem2[c] = mem[c]
  PROVE  RingOK(l, mem2, heads, s, p + 1, n)
<1>1. /\ s \in Nat /\ n \in Nat /\ p \in Nat /\ p <= n /\ n <= l.num /\ l.num \in Nat
      /\ \A k \in 0 .. n - 1 : k \in 0 .. l.num - 1 /\ s + k \in Int
      /\ \A k \in 0 .. p - 1 : k \in 0 .. n - 1
  BY RingIndices, LayoutNumbers
<1>2. p \in 0 .. n - 1 /\ p + 1 \in 0 .. n /\ s + p \in Int
  BY <1>1, p # n
<1>3. mem2[AvailIdxCell(l)] = mem[AvailIdxCell(l)]
  BY <1>2, CellsOf
<1>4. ASSUME NEW k \in 0 .. n - 1 PROVE mem2[AvailCell(l, s + k)] = mem[AvailCell(l, s + k)]
  BY <1>1, CellsOf
<1>5. ASSUME NEW k \in 0 .. p - 1 PROVE mem2[UsedCell(l, s + k)] = mem[UsedCell(l, s + k)]
  <2>1. k \in 0 .. l.num - 1 /\ p \in 0 .. l.num - 1 /\ k # p /\ s + k \in Int
    BY <1>1, <1>2
  <2>2. UsedCell(l, s + k) # UsedCell(l, s + p)
    BY <2>1, <1>1, CellsInOrder
  <2>3. UsedCell(l, s + k) # UsedCell(l, s + p) + 1
    BY <2>1, <1>2, CellsApart
  <2>4. UsedCell(l, s + k) \in UsedPart(l) /\ UsedCell(l, s + k) # UsedIdxCell(l)
    BY <2>1, CellsOf
  <2> QED
    BY <2>2, <2>3, <2>4
<1>6. ASSUME NEW k \in 0 .. (p + 1) - 1 PROVE mem2[UsedCell(l, s + k)] = mem2[AvailCell(l, s + k)]
  <2>1. CASE k = p
    BY <2>1, <1>2, <1>4
  <2>2. CASE k # p
    <3>1. k \in 0 .. p - 1
      BY <2>2, <1>1
    <3> QED
      BY <3>1, <1>1, <1>4, <1>5 DEF RingOK
  <2> QED
    BY <2>1, <2>2
<1> QED
  BY <1>2, <1>3, <1>4, <1>6 DEF RingOK

\* What the abstract queue sees of all that the device returned.
LEMMA RingReturned ==
  ASSUME NEW l, SoundLayout(l), NEW mem, NEW heads, NEW s, NEW r, NEW n, RingOK(l, mem, heads, s, r, n),
         NEW mem2, NEW p, RingOK(l, mem2, heads, s, p, n), r <= p, \A c \in AvailPart(l) : mem2[c] = mem[c]
  PROVE  LET offered == OfferedOf(l, mem, s, r, n)
         IN  /\ ReturnedOf(l, mem2, s, p) = ReturnedOf(l, mem, s, r) \o SubSeq(offered, 1, p - r)
             /\ OfferedOf(l, mem2, s, p, n) = SubSeq(offered, (p - r) + 1, Len(offered))
             /\ p - r \in 0 .. Len(offered)
<1> DEFINE offered == OfferedOf(l, mem, s, r, n)
           returned == ReturnedOf(l, mem, s, r)
<1>1. s \in Nat /\ n \in Nat /\ r \in Nat /\ p \in Nat /\ r <= p /\ p <= n /\ n - r \in Nat /\ p - r \in Nat
  BY RingIndices
<1>2. ASSUME NEW k \in 0 .. n - 1 PROVE mem2[AvailCell(l, s + k)] = mem[AvailCell(l, s + k)]
  <2>1. s + k \in Int
    BY <1>1
  <2> QED
    BY <2>1, CellsOf
<1>3. Len(offered) = n - r /\ offered = [k \in 1 .. n - r |-> offered[k]] /\ returned = [k \in 1 .. r |-> returned[k]]
  <2>1. Len(offered) = n - r
    BY ViewsAreSequences
  <2> QED
    BY <2>1 DEF OfferedOf, ReturnedOf
<1>4. /\ \A k \in 1 .. n - r : offered[k] = mem[AvailCell(l, s + r + k - 1)]
      /\ \A k \in 1 .. r : returned[k] = mem[UsedCell(l, s + k - 1)]
  BY DEF OfferedOf, ReturnedOf
<1> HIDE DEF offered, returned
<1>5. SubSeq(offered, 1, p - r) = [k \in 1 .. p - r |-> offered[k]]
  <2>1. p - r \in Int /\ (p - r) - 1 + 1 = p - r
    BY <1>1
  <2>2. SubSeq(offered, 1, p - r) = [k \in 1 .. (p - r) - 1 + 1 |-> offered[1 + k - 1]]
    BY <2>1, PartIs
  <2>3. \A k \in 1 .. p - r : 1 + k - 1 = k
    OBVIOUS
  <2> QED
    BY <2>1, <2>2, <2>3
<1>6. SubSeq(offered, (p - r) + 1, n - r) = [k \in 1 .. n - p |-> offered[(p - r) + k]]
  <2>1. /\ (p - r) + 1 \in Int /\ n - r \in Int
        /\ (n - r) - ((p - r) + 1) + 1 = n - p
    BY <1>1
  <2>2. SubSeq(offered, (p - r) + 1, n - r)
          = [k \in 1 .. (n - r) - ((p - r) + 1) + 1 |-> offered[((p - r) + 1) + k - 1]]
    BY <2>1, PartIs
  <2>3. \A k \in 1 .. n - p : ((p - r) + 1) + k - 1 = (p - r) + k
    BY <1>1
  <2> QED
    BY <2>1, <2>2, <2>3
<1>7. OfferedOf(l, mem2, s, p, n) = SubSeq(offered, (p - r) + 1, n - r)
  <2>1. ASSUME NEW k \in 1 .. n - p
        PROVE  mem2[AvailCell(l, s + p + k - 1)] = offered[(p - r) + k]
    <3>1. /\ s + p + k - 1 = s + (p + k - 1) /\ p + k - 1 \in 0 .. n - 1 /\ (p - r) + k \in 1 .. n - r
          /\ s + r + ((p - r) + k) - 1 = s + (p + k - 1)
      BY <1>1
    <3> QED
      BY <3>1, <1>2, <1>4
  <2> QED
    BY <2>1, <1>6 DEF OfferedOf
<1>8. ReturnedOf(l, mem2, s, p) = returned \o SubSeq(offered, 1, p - r)
  <2> DEFINE part == [k \in 1 .. p - r |-> offered[k]]
  <2>1. part = [k \in 1 .. p - r |-> part[k]] /\ r + (p - r) = p
    BY <1>1
  <2>2. returned \o part = [k \in 1 .. r + (p - r) |-> IF k <= r THEN returned[k] ELSE part[k - r]]
    <3>1. r \in Nat /\ p - r \in Nat
      BY <1>1
    <3>2. part = [k \in 1 .. p - r |-> part[k]] /\ returned = [k \in 1 .. r |-> returned[k]]
      BY <2>1, <1>3
    <3> HIDE DEF part
    <3> QED
      BY <3>1, <3>2, JoinIs
  <2>3. ASSUME NEW k \in 1 .. p
        PROVE  mem2[UsedCell(l, s + k - 1)] = IF k <= r THEN returned[k] ELSE part[k - r]
    <3> DEFINE i == k - 1
    <3>1. i \in 0 .. p - 1 /\ i \in 0 .. n - 1 /\ s + k - 1 = s + i
      BY <1>1
    <3> HIDE DEF i
    <3>2. mem2[UsedCell(l, s + i)] = mem[AvailCell(l, s + i)]
      BY <3>1, <1>2 DEF RingOK
    <3>3. CASE k <= r
      <4>1. i \in 0 .. r - 1 /\ k \in 1 .. r
        BY <3>3, <1>1 DEF i
      <4>2. mem[UsedCell(l, s + i)] = mem[AvailCell(l, s + i)]
        BY <4>1 DEF RingOK
      <4> QED
        BY <4>1, <4>2, <3>1, <3>2, <3>3, <1>4
    <3>4. CASE ~(k <= r)
      <4>1. k - r \in 1 .. p - r /\ k - r \in 1 .. n - r /\ s + r + (k - r) - 1 = s + i
        BY <3>4, <1>1 DEF i
      <4> QED
        BY <4>1, <3>1, <3>2, <3>4, <1>4
    <3> QED
      BY <3>3, <3>4
  <2> QED
    BY <2>1, <2>2, <2>3, <1>5 DEF ReturnedOf
<1>9. p - r \in 0 .. n - r
  BY <1>1
<1> QED
  BY <1>3, <1>7, <1>8, <1>9 DEF offered, returned

-----------------------------------------------------------------------------
(* Walking a chain                                                         *)

LEMMA Inductive ==
  ASSUME NEW S, 0 \in S, \A n \in Nat : n \in S => n + 1 \in S
  PROVE  \A n \in Nat : n \in S
<1> SUFFICES ASSUME NEW k \in Nat, k \notin S PROVE FALSE
  OBVIOUS
<1> DEFINE Out == {n \in Nat : n \notin S}
<1>1. Out \in SUBSET Nat /\ Out # {}
  OBVIOUS
<1> HIDE DEF Out
<1>2. PICK m \in Out : \A n \in Out : m <= n
  BY <1>1, LeastOfNaturals
<1> USE DEF Out
<1>3. m \in Nat /\ m # 0
  OBVIOUS
<1>4. m - 1 \in Nat /\ m - 1 \notin Out /\ (m - 1) + 1 = m
  BY <1>2, <1>3
<1>5. (m - 1) + 1 \in S
  BY <1>4
<1> QED
  BY <1>4, <1>5

\* Walking a chain: where it starts, what a step makes of it, and where it ends.
ChainStarts(q, mem, i) == IF Readable(q, mem, i) THEN <<mem[q.desc + i]>> ELSE <<>>
ChainGrows(q, mem, w) ==
  IF w = <<>> \/ ~HasNext(Last(w)) THEN w
  ELSE IF Readable(q, mem, Last(w).next) THEN Append(w, mem[q.desc + Last(w).next]) ELSE <<>>
ChainEnds(w) == IF w # <<>> /\ HasNext(Last(w)) THEN <<>> ELSE w

LEMMA ChainIs ==
  ASSUME NEW q, q.num \in Nat \ {0}, NEW mem, NEW i
  PROVE  \E walk : /\ walk[1] = ChainStarts(q, mem, i)
                   /\ \A n \in Nat \ {0} : n + 1 <= q.num => walk[n + 1] = ChainGrows(q, mem, walk[n])
                   /\ Chain(q, mem, i) = ChainEnds(walk[q.num])
<1> DEFINE first == IF Readable(q, mem, i) THEN <<mem[q.desc + i]>> ELSE <<>>
           Step(w) == IF w = <<>> \/ ~HasNext(Last(w)) THEN w
                      ELSE IF Readable(q, mem, Last(w).next)
                           THEN Append(w, mem[q.desc + Last(w).next]) ELSE <<>>
           After(g, n) == IF n = 1 THEN first ELSE With(g[n - 1], Step)
           IsWalk(g) == g = [n \in 1 .. q.num |-> After(g, n)]
           walk == CHOOSE g : IsWalk(g)
           Holds(n) == n <= q.num => \E g : g = [k \in 1 .. n |-> After(g, k)]
<1>1. Chain(q, mem, i) = With(walk[q.num], LAMBDA w : IF w # <<>> /\ HasNext(Last(w)) THEN <<>> ELSE w)
  BY Zenon DEF Chain
<1>a. first = ChainStarts(q, mem, i) /\ \A w : Step(w) = ChainGrows(q, mem, w)
  BY DEF ChainStarts, ChainGrows
<1> HIDE DEF After, first, Step
<1>2. Holds(0)
  <2> DEFINE g == [k \in 1 .. 0 |-> first]
  <2>1. g = [k \in 1 .. 0 |-> After(g, k)]
    OBVIOUS
  <2> QED
    BY <2>1
<1>3. ASSUME NEW n \in Nat, Holds(n) PROVE Holds(n + 1)
  <2> SUFFICES ASSUME n + 1 <= q.num PROVE \E g : g = [k \in 1 .. n + 1 |-> After(g, k)]
    OBVIOUS
  <2>1. PICK g : g = [k \in 1 .. n |-> After(g, k)]
    BY <1>3
  <2> DEFINE h == [k \in 1 .. n + 1 |-> IF k = n + 1 THEN After(g, k) ELSE g[k]]
  <2>2. \A k \in 1 .. n + 1 : h[k] = After(h, k)
    <3> TAKE k \in 1 .. n + 1
    <3>1. k # 1 => h[k - 1] = g[k - 1]
      OBVIOUS
    <3>2. h[k] = After(g, k)
      BY <2>1
    <3> HIDE DEF h
    <3> QED
      BY <3>1, <3>2 DEF After
  <2>3. h = [k \in 1 .. n + 1 |-> h[k]]
    OBVIOUS
  <2> HIDE DEF h
  <2>4. h = [k \in 1 .. n + 1 |-> After(h, k)]
    BY <2>2, <2>3
  <2> QED
    BY <2>4
<1>4. IsWalk(walk)
  <2> DEFINE S == {n \in Nat : Holds(n)}
  <2> HIDE DEF Holds
  <2>1. \A n \in Nat : n \in S
    <3>1. 0 \in S
      BY <1>2
    <3>2. \A n \in Nat : n \in S => n + 1 \in S
      BY <1>3
    <3> HIDE DEF S
    <3> QED
      BY <3>1, <3>2, Inductive
  <2>2. Holds(q.num)
    BY <2>1
  <2>3. \E g : IsWalk(g)
    BY <2>2 DEF Holds
  <2> QED
    BY <2>3
<1> HIDE DEF walk
<1>5. \A n \in 1 .. q.num : walk[n] = After(walk, n)
  BY <1>4
<1>6. walk[1] = ChainStarts(q, mem, i)
  <2>1. 1 \in 1 .. q.num
    OBVIOUS
  <2>2. walk[1] = After(walk, 1)
    BY <2>1, <1>5
  <2>3. After(walk, 1) = first
    BY DEF After
  <2> QED
    BY <2>2, <2>3, <1>a
<1>7. ASSUME NEW n \in Nat \ {0}, n + 1 <= q.num PROVE walk[n + 1] = ChainGrows(q, mem, walk[n])
  <2>1. n + 1 \in 1 .. q.num /\ n + 1 # 1 /\ (n + 1) - 1 = n
    BY <1>7
  <2>2. walk[n + 1] = With(walk[n], Step)
    BY <1>5, <2>1 DEF After
  <2>3. walk[n + 1] = Step(walk[n])
    BY <2>2 DEF With
  <2> QED
    BY <2>3, <1>a
<1>8. Chain(q, mem, i) = ChainEnds(walk[q.num])
  BY <1>1 DEF With, ChainEnds
<1> QED
  BY <1>6, <1>7, <1>8

\* The descriptors of a chain are descriptors of the table.
LEMMA ChainInTable ==
  ASSUME NEW q, q.num \in Nat \ {0}, q.desc \in Nat, NEW mem, NEW i \in Nat,
         \A c \in TableCells(q) : mem[c].next \in Nat \cup {-1}
  PROVE  Chain(q, mem, i) \in Seq({mem[c] : c \in TableCells(q)})
<1> DEFINE Table == {mem[c] : c \in TableCells(q)}
<1>1. PICK walk : /\ walk[1] = ChainStarts(q, mem, i)
                  /\ \A n \in Nat \ {0} : n + 1 <= q.num => walk[n + 1] = ChainGrows(q, mem, walk[n])
                  /\ Chain(q, mem, i) = ChainEnds(walk[q.num])
  BY ChainIs
<1>2. ChainStarts(q, mem, i) \in Seq(Table)
  <2>1. CASE Readable(q, mem, i)
    <3>1. q.desc + i \in TableCells(q)
      BY <2>1 DEF Readable, TableCells
    <3>2. mem[q.desc + i] \in Table
      BY <3>1
    <3> HIDE DEF Table
    <3> QED
      BY <2>1, <3>2 DEF ChainStarts
  <2>2. CASE ~Readable(q, mem, i)
    <3> HIDE DEF Table
    <3> QED
      BY <2>2 DEF ChainStarts
  <2> QED
    BY <2>1, <2>2
<1>3. ASSUME NEW w \in Seq(Table) PROVE ChainGrows(q, mem, w) \in Seq(Table)
  <2> SUFFICES ASSUME w # <<>>, HasNext(Last(w)), Readable(q, mem, Last(w).next)
               PROVE  Append(w, mem[q.desc + Last(w).next]) \in Seq(Table)
    BY DEF ChainGrows
  <2>1. Last(w) \in Table
    BY DEF Last
  <2>2. Last(w).next \in Nat
    BY <2>1 DEF HasNext
  <2>3. q.desc + Last(w).next \in TableCells(q)
    BY <2>2 DEF Readable, TableCells
  <2>4. mem[q.desc + Last(w).next] \in Table
    BY <2>3
  <2> HIDE DEF Table
  <2> QED
    BY <2>4
<1> HIDE DEF Table
<1>4. \A n \in Nat : n + 1 <= q.num => walk[n + 1] \in Seq(Table)
  <2> DEFINE S == {n \in Nat : n + 1 <= q.num => walk[n + 1] \in Seq(Table)}
  <2>1. 0 \in S
    BY <1>1, <1>2
  <2>2. ASSUME NEW n \in Nat, n \in S PROVE n + 1 \in S
    <3> SUFFICES ASSUME n + 1 + 1 <= q.num PROVE walk[n + 1 + 1] \in Seq(Table)
      OBVIOUS
    <3>1. walk[n + 1] \in Seq(Table)
      BY <2>2
    <3>2. n + 1 \in Nat \ {0}
      OBVIOUS
    <3>3. walk[n + 1 + 1] = ChainGrows(q, mem, walk[n + 1])
      BY <1>1, <3>2
    <3> QED
      BY <3>1, <3>3, <1>3
  <2> HIDE DEF S
  <2>3. \A n \in Nat : n \in S
    BY <2>1, <2>2, Inductive
  <2> QED
    BY <2>3 DEF S
<1>5. walk[q.num] \in Seq(Table)
  <2>1. q.num - 1 \in Nat /\ (q.num - 1) + 1 = q.num /\ q.num <= q.num
    OBVIOUS
  <2> QED
    BY <2>1, <1>4
<1>6. <<>> \in Seq(Table)
  OBVIOUS
<1> QED
  BY <1>1, <1>5, <1>6 DEF Table, ChainEnds

\* A chain is the same in memories that agree on the table.
LEMMA ChainSame ==
  ASSUME NEW q, q.num \in Nat \ {0}, q.desc \in Nat, NEW mem, NEW i \in Nat,
         \A c \in TableCells(q) : mem[c].next \in Nat \cup {-1},
         NEW q2, q2.num = q.num, q2.desc = q.desc, NEW mem2, \A c \in TableCells(q) : mem2[c] = mem[c]
  PROVE  Chain(q2, mem2, i) = Chain(q, mem, i)
<1> DEFINE Table == {mem[c] : c \in TableCells(q)}
<1>1. PICK walk : /\ walk[1] = ChainStarts(q, mem, i)
                  /\ \A n \in Nat \ {0} : n + 1 <= q.num => walk[n + 1] = ChainGrows(q, mem, walk[n])
                  /\ Chain(q, mem, i) = ChainEnds(walk[q.num])
  BY ChainIs
<1>2. PICK walk2 : /\ walk2[1] = ChainStarts(q2, mem2, i)
                   /\ \A n \in Nat \ {0} : n + 1 <= q.num => walk2[n + 1] = ChainGrows(q2, mem2, walk2[n])
                   /\ Chain(q2, mem2, i) = ChainEnds(walk2[q.num])
  <2>1. q2.num \in Nat \ {0}
    OBVIOUS
  <2> QED
    BY <2>1, ChainIs
<1>3. ASSUME NEW k \in Nat
      PROVE  /\ Readable(q2, mem2, k) <=> Readable(q, mem, k)
             /\ Readable(q, mem, k) => mem2[q.desc + k] = mem[q.desc + k] /\ mem[q.desc + k] \in Table
  <2>1. CASE k < q.num
    <3>1. q.desc + k \in TableCells(q)
      BY <2>1 DEF TableCells
    <3> QED
      BY <3>1 DEF Readable
  <2>2. CASE ~(k < q.num)
    BY <2>2 DEF Readable
  <2> QED
    BY <2>1, <2>2
<1>4. ChainStarts(q2, mem2, i) = ChainStarts(q, mem, i) /\ ChainStarts(q, mem, i) \in Seq(Table)
  <2> HIDE DEF Table
  <2>1. CASE Readable(q, mem, i)
    BY <2>1, <1>3 DEF ChainStarts
  <2>2. CASE ~Readable(q, mem, i)
    BY <2>2, <1>3 DEF ChainStarts
  <2> QED
    BY <2>1, <2>2
<1>5. ASSUME NEW w \in Seq(Table)
      PROVE  ChainGrows(q2, mem2, w) = ChainGrows(q, mem, w) /\ ChainGrows(q, mem, w) \in Seq(Table)
  <2>1. CASE w = <<>> \/ ~HasNext(Last(w))
    BY <2>1 DEF ChainGrows
  <2>2. CASE ~(w = <<>> \/ ~HasNext(Last(w)))
    <3>1. Last(w) \in Table
      BY <2>2 DEF Last
    <3>2. Last(w).next \in Nat
      BY <2>2, <3>1 DEF HasNext
    <3> HIDE DEF Table
    <3>3. CASE Readable(q, mem, Last(w).next)
      <4>1. mem2[q.desc + Last(w).next] = mem[q.desc + Last(w).next] /\ mem[q.desc + Last(w).next] \in Table
            /\ Readable(q2, mem2, Last(w).next)
        BY <3>2, <3>3, <1>3
      <4> QED
        BY <2>2, <3>3, <4>1 DEF ChainGrows
    <3>4. CASE ~Readable(q, mem, Last(w).next)
      <4>1. ~Readable(q2, mem2, Last(w).next)
        BY <3>2, <3>4, <1>3
      <4> QED
        BY <2>2, <3>4, <4>1 DEF ChainGrows
    <3> QED
      BY <3>3, <3>4
  <2> QED
    BY <2>1, <2>2
<1> HIDE DEF Table
<1>6. \A n \in Nat : n + 1 <= q.num => walk2[n + 1] = walk[n + 1] /\ walk[n + 1] \in Seq(Table)
  <2> DEFINE S == {n \in Nat : n + 1 <= q.num => walk2[n + 1] = walk[n + 1] /\ walk[n + 1] \in Seq(Table)}
  <2>1. 0 \in S
    BY <1>1, <1>2, <1>4
  <2>2. ASSUME NEW n \in Nat, n \in S PROVE n + 1 \in S
    <3> SUFFICES ASSUME n + 1 + 1 <= q.num
                 PROVE  walk2[n + 1 + 1] = walk[n + 1 + 1] /\ walk[n + 1 + 1] \in Seq(Table)
      OBVIOUS
    <3>1. walk[n + 1] \in Seq(Table) /\ walk2[n + 1] = walk[n + 1] /\ n + 1 \in Nat \ {0}
      BY <2>2
    <3>2. walk[n + 1 + 1] = ChainGrows(q, mem, walk[n + 1]) /\ walk2[n + 1 + 1] = ChainGrows(q2, mem2, walk[n + 1])
      BY <1>1, <1>2, <3>1
    <3> QED
      BY <3>1, <3>2, <1>5
  <2> HIDE DEF S
  <2>3. \A n \in Nat : n \in S
    BY <2>1, <2>2, Inductive
  <2> QED
    BY <2>3 DEF S
<1>7. walk2[q.num] = walk[q.num]
  <2>1. q.num - 1 \in Nat /\ (q.num - 1) + 1 = q.num /\ q.num <= q.num
    OBVIOUS
  <2> QED
    BY <2>1, <1>6
<1> QED
  BY <1>1, <1>2, <1>7

-----------------------------------------------------------------------------
(* A request's chain is its header and what follows                        *)

LEMMA AppendLast ==
  ASSUME NEW S, NEW w \in Seq(S), NEW e \in S
  PROVE  Append(w, e) \in Seq(S) /\ Append(w, e) # <<>> /\ Last(Append(w, e)) = e
  BY DEF Last

Headed(e, w) == <<e>> \o w

LEMMA HeadedLast ==
  ASSUME NEW S, NEW w \in Seq(S), w # <<>>, NEW e \in S
  PROVE  /\ Headed(e, w) \in Seq(S) /\ Headed(e, w) # <<>> /\ Last(Headed(e, w)) = Last(w)
         /\ \A f \in S : Append(Headed(e, w), f) = Headed(e, Append(w, f))
         /\ Tail(Front(Headed(e, w))) = Front(w)
<1> USE DEF Headed
<1> DEFINE whole == <<e>> \o w
           L == Len(w)
<1>1. L \in Nat \ {0} /\ whole \in Seq(S) /\ Len(whole) = L + 1 /\ whole[1] = e
      /\ \A i \in 1 .. L : whole[i + 1] = w[i] /\ w[i] \in S
  OBVIOUS
<1>2. Last(whole) = Last(w)
  <2>1. Last(whole) = whole[L + 1] /\ Last(w) = w[L] /\ L \in 1 .. L
    BY <1>1 DEF Last
  <2> HIDE DEF whole, L
  <2> QED
    BY <2>1, <1>1
<1>3. ASSUME NEW f \in S PROVE Append(whole, f) = <<e>> \o Append(w, f)
  OBVIOUS
<1>4. Tail(Front(whole)) = Front(w)
  <2> HIDE DEF whole, L
  <2>1. Front(whole) = [i \in 1 .. L |-> whole[i]] /\ Front(w) = [i \in 1 .. L - 1 |-> w[i]]
    <3>1. Front(whole) = SubSeq(whole, 1, L) /\ Front(w) = SubSeq(w, 1, L - 1)
      BY <1>1 DEF Front, L
    <3> QED
      BY <1>1, <3>1
  <2>2. Tail([i \in 1 .. L |-> whole[i]]) = [i \in 1 .. L - 1 |-> whole[i + 1]]
    BY <1>1, TailIs
  <2>3. \A i \in 1 .. L - 1 : whole[i + 1] = w[i]
    BY <1>1
  <2> QED
    BY <2>1, <2>2, <2>3
<1> QED
  BY <1>1, <1>2, <1>3, <1>4

\* What a walk through a table does from one step to the next.
WalkOf(q, mem, i, walk) ==
  /\ walk[1] = ChainStarts(q, mem, i)
  /\ \A n \in Nat \ {0} : n + 1 <= q.num => walk[n + 1] = ChainGrows(q, mem, walk[n])

LEMMA ChainWalk ==
  ASSUME NEW q, q.num \in Nat \ {0}, NEW mem, NEW i
  PROVE  \E walk : WalkOf(q, mem, i, walk) /\ Chain(q, mem, i) = ChainEnds(walk[q.num])
<1>1. PICK walk : /\ walk[1] = ChainStarts(q, mem, i)
                  /\ \A n \in Nat \ {0} : n + 1 <= q.num => walk[n + 1] = ChainGrows(q, mem, walk[n])
                  /\ Chain(q, mem, i) = ChainEnds(walk[q.num])
  BY ChainIs
<1>2. WalkOf(q, mem, i, walk)
  BY <1>1, Zenon DEF WalkOf
<1> QED
  BY <1>1, <1>2, Zenon

\* A walk that has ended, or failed, stays as it is.
WalkEnded(w) == w = <<>> \/ ~HasNext(Last(w))

LEMMA WalkStays ==
  ASSUME NEW q, q.num \in Nat \ {0}, NEW mem, NEW i, NEW walk, WalkOf(q, mem, i, walk),
         NEW n \in 1 .. q.num, WalkEnded(walk[n])
  PROVE  \A m \in n .. q.num : walk[m] = walk[n]
<1> DEFINE S == {k \in Nat : n + k <= q.num => walk[n + k] = walk[n]}
<1>1. 0 \in S
  OBVIOUS
<1>2. ASSUME NEW k \in Nat, k \in S PROVE k + 1 \in S
  <2> SUFFICES ASSUME n + (k + 1) <= q.num PROVE walk[n + (k + 1)] = walk[n]
    OBVIOUS
  <2>1. n + k \in Nat \ {0} /\ (n + k) + 1 = n + (k + 1) /\ walk[n + k] = walk[n]
    BY <1>2
  <2>2. walk[(n + k) + 1] = ChainGrows(q, mem, walk[n + k])
    BY <2>1 DEF WalkOf
  <2>3. ChainGrows(q, mem, walk[n]) = walk[n]
    BY DEF ChainGrows, WalkEnded
  <2> QED
    BY <2>1, <2>2, <2>3
<1> HIDE DEF S
<1>3. \A k \in Nat : k \in S
  BY <1>1, <1>2, Inductive
<1> USE DEF S
<1>4. ASSUME NEW m \in n .. q.num PROVE walk[m] = walk[n]
  <2>1. m - n \in Nat /\ n + (m - n) = m
    OBVIOUS
  <2>2. m - n \in S
    BY <2>1, <1>3
  <2> QED
    BY <2>1, <2>2
<1> QED
  BY <1>4

(* The indices a walk meets are all different: if two were the same, so    *)
(* would be those after them, and the walk would never end.                *)
LEMMA WalkMeetsEachOnce ==
  ASSUME NEW N \in Nat \ {0}, NEW d, NEW y, \A k \in 0 .. N : y[k] \in 0 .. N - 1,
         \A k \in 0 .. N - 1 : HasNext(d[y[k]]) /\ y[k + 1] = d[y[k]].next
  PROVE  HasNext(d[y[N]])
<1>1. PICK a, b \in 0 .. N : a < b /\ y[a] = y[b]
  <2> DEFINE f == [k \in 0 .. N |-> y[k]]
  <2>1. f \in [0 .. N -> 0 .. N - 1]
    OBVIOUS
  <2>2. /\ IsFiniteSet(0 .. N) /\ Cardinality(0 .. N) = N - 0 + 1
        /\ IsFiniteSet(0 .. N - 1) /\ Cardinality(0 .. N - 1) = N - 1 - 0 + 1
    <3>1. 0 \in Int /\ N \in Int /\ N - 1 \in Int /\ ~(0 > N) /\ ~(0 > N - 1)
      OBVIOUS
    <3> QED
      BY <3>1, FS_Interval
  <2>3. Cardinality(0 .. N - 1) < Cardinality(0 .. N)
    BY <2>2
  <2> DEFINE D == 0 .. N
             R == 0 .. N - 1
  <2> HIDE DEF f, D, R
  <2>a. IsFiniteSet(D) /\ IsFiniteSet(R) /\ Cardinality(R) < Cardinality(D) /\ f \in [D -> R]
    BY <2>1, <2>2, <2>3 DEF D, R
  <2>b. \E u, v \in D : u # v /\ f[u] = f[v]
    BY <2>a, FS_PigeonHole
  <2>4. \E u, v \in 0 .. N : u # v /\ f[u] = f[v]
    BY <2>b DEF D
  <2>5. PICK u, v \in 0 .. N : u # v /\ f[u] = f[v]
    BY <2>4
  <2>6. y[u] = y[v] /\ (u < v \/ v < u)
    BY <2>5 DEF f
  <2> QED
    BY <2>6
<1> DEFINE S == {k \in Nat : b + k <= N => y[a + k] = y[b + k]}
<1>2. 0 \in S
  BY <1>1
<1>3. ASSUME NEW k \in Nat, k \in S PROVE k + 1 \in S
  <2> SUFFICES ASSUME b + (k + 1) <= N PROVE y[a + (k + 1)] = y[b + (k + 1)]
    OBVIOUS
  <2>1. /\ a + k \in 0 .. N - 1 /\ b + k \in 0 .. N - 1 /\ y[a + k] = y[b + k]
        /\ a + (k + 1) = (a + k) + 1 /\ b + (k + 1) = (b + k) + 1
    BY <1>1, <1>3
  <2>2. y[(a + k) + 1] = d[y[a + k]].next /\ y[(b + k) + 1] = d[y[b + k]].next
    BY <2>1
  <2> QED
    BY <2>1, <2>2
<1> HIDE DEF S
<1>4. \A k \in Nat : k \in S
  BY <1>2, <1>3, Inductive
<1>5. N - b \in Nat /\ b + (N - b) = N /\ a + (N - b) \in 0 .. N - 1
  BY <1>1
<1>6. y[a + (N - b)] = y[N]
  <2>1. N - b \in S
    BY <1>4, <1>5
  <2>2. b + (N - b) <= N => y[a + (N - b)] = y[b + (N - b)]
    BY <2>1 DEF S
  <2> QED
    BY <2>2, <1>5
<1> QED
  BY <1>5, <1>6

LEMMA WalkInTable ==
  ASSUME NEW q, q.num \in Nat \ {0}, q.desc \in Nat, NEW mem, NEW i \in Nat,
         \A c \in TableCells(q) : mem[c].next \in Nat \cup {-1}, NEW walk, WalkOf(q, mem, i, walk)
  PROVE  \A n \in 1 .. q.num : walk[n] \in Seq({mem[c] : c \in TableCells(q)})
<1> DEFINE Table == {mem[c] : c \in TableCells(q)}
<1>1. ASSUME NEW k \in Nat, Readable(q, mem, k) PROVE mem[q.desc + k] \in Table
  <2>1. q.desc + k \in TableCells(q)
    BY <1>1 DEF Readable, TableCells
  <2> QED
    BY <2>1
<1>2. walk[1] \in Seq(Table)
  <2> HIDE DEF Table
  <2> QED
    BY <1>1 DEF ChainStarts, WalkOf
<1>3. ASSUME NEW w \in Seq(Table) PROVE ChainGrows(q, mem, w) \in Seq(Table)
  <2> SUFFICES ASSUME w # <<>>, HasNext(Last(w)), Readable(q, mem, Last(w).next)
               PROVE  Append(w, mem[q.desc + Last(w).next]) \in Seq(Table)
    BY DEF ChainGrows
  <2>1. Last(w) \in Table
    BY DEF Last
  <2>2. Last(w).next \in Nat
    BY <2>1 DEF HasNext
  <2> HIDE DEF Table
  <2>3. mem[q.desc + Last(w).next] \in Table
    BY <2>2, <1>1
  <2> QED
    BY <2>3
<1> HIDE DEF Table
<1> DEFINE S == {n \in Nat : n + 1 <= q.num => walk[n + 1] \in Seq(Table)}
<1>4. 0 \in S
  BY <1>2
<1>5. ASSUME NEW n \in Nat, n \in S PROVE n + 1 \in S
  <2> SUFFICES ASSUME n + 1 + 1 <= q.num PROVE walk[n + 1 + 1] \in Seq(Table)
    OBVIOUS
  <2>1. walk[n + 1] \in Seq(Table) /\ n + 1 \in Nat \ {0}
    BY <1>5
  <2>2. walk[n + 1 + 1] = ChainGrows(q, mem, walk[n + 1])
    BY <2>1 DEF WalkOf
  <2> QED
    BY <2>1, <2>2, <1>3
<1> HIDE DEF S
<1>6. \A n \in Nat : n \in S
  BY <1>4, <1>5, Inductive
<1> USE DEF S
<1>7. ASSUME NEW n \in 1 .. q.num PROVE walk[n] \in Seq(Table)
  <2>1. n - 1 \in Nat /\ (n - 1) + 1 = n
    OBVIOUS
  <2>2. n - 1 \in S
    BY <2>1, <1>6
  <2> QED
    BY <2>1, <2>2
<1> QED
  BY <1>7 DEF Table

(* A chain that ends, from the header's successor on, does not meet the    *)
(* header: the whole chain is the header and what follows.                 *)
LEMMA ChainFromHead ==
  ASSUME NEW q, q.num \in Nat \ {0}, q.desc \in Nat, NEW mem, NEW h \in Nat,
         \A c \in TableCells(q) : mem[c].next \in Nat \cup {-1},
         Readable(q, mem, h), HasNext(mem[q.desc + h]), Chain(q, mem, mem[q.desc + h].next) # <<>>
  PROVE  Chain(q, mem, h) = Headed(mem[q.desc + h], Chain(q, mem, mem[q.desc + h].next))
<1> DEFINE N == q.num
           hdr == mem[q.desc + h]
           nx == hdr.next
           Table == {mem[c] : c \in TableCells(q)}
<1>1. hdr \in Table /\ nx \in Nat
  <2>1. q.desc + h \in TableCells(q)
    BY DEF Readable, TableCells
  <2> QED
    BY <2>1 DEF HasNext
<1>2. PICK a : WalkOf(q, mem, nx, a) /\ Chain(q, mem, nx) = ChainEnds(a[N])
  BY ChainWalk
<1>3. PICK b : WalkOf(q, mem, h, b) /\ Chain(q, mem, h) = ChainEnds(b[N])
  BY ChainWalk
<1>4. a[N] # <<>> /\ ~HasNext(Last(a[N])) /\ Chain(q, mem, nx) = a[N]
  BY <1>2 DEF ChainEnds
<1>5. ASSUME NEW n \in 1 .. N PROVE a[n] \in Seq(Table) /\ a[n] # <<>>
  <2>1. a[n] \in Seq(Table)
    BY <1>1, <1>2, WalkInTable
  <2>2. ASSUME a[n] = <<>> PROVE FALSE
    <3>1. WalkEnded(a[n]) /\ N \in n .. N
      BY <2>2 DEF WalkEnded
    <3>2. a[N] = a[n]
      BY <3>1, <1>2, WalkStays
    <3> QED
      BY <3>2, <2>2, <1>4
  <2> QED
    BY <2>1, <2>2
<1>6. a[1] = <<mem[q.desc + nx]>> /\ Readable(q, mem, nx)
  <2>1. 1 \in 1 .. N
    OBVIOUS
  <2> QED
    BY <2>1, <1>2, <1>5 DEF WalkOf, ChainStarts
<1>7. ASSUME NEW n \in 1 .. N - 1, HasNext(Last(a[n]))
      PROVE  /\ Last(a[n]).next \in Nat /\ Readable(q, mem, Last(a[n]).next)
             /\ mem[q.desc + Last(a[n]).next] \in Table
             /\ a[n + 1] = Append(a[n], mem[q.desc + Last(a[n]).next])
  <2>1. n \in Nat \ {0} /\ n \in 1 .. N /\ n + 1 \in 1 .. N /\ n + 1 <= q.num
    OBVIOUS
  <2>2. a[n] \in Seq(Table) /\ a[n] # <<>> /\ a[n + 1] # <<>>
    BY <2>1, <1>5
  <2>3. Last(a[n]) \in Table
    BY <2>2 DEF Last
  <2>4. Last(a[n]).next \in Nat
    BY <2>3, <1>7 DEF HasNext
  <2>5. a[n + 1] = ChainGrows(q, mem, a[n])
    BY <2>1, <1>2 DEF WalkOf
  <2>6. Readable(q, mem, Last(a[n]).next) /\ a[n + 1] = Append(a[n], mem[q.desc + Last(a[n]).next])
    BY <2>2, <2>5, <1>7 DEF ChainGrows
  <2>7. q.desc + Last(a[n]).next \in TableCells(q)
    BY <2>4, <2>6 DEF Readable, TableCells
  <2> QED
    BY <2>4, <2>6, <2>7
<1> HIDE DEF Table, hdr, nx
<1>8. PICK m \in 1 .. N - 1 : WalkEnded(a[m])
  <2> SUFFICES ASSUME \A k \in 1 .. N - 1 : HasNext(Last(a[k])) PROVE FALSE
    BY DEF WalkEnded
  <2> DEFINE d == [i \in 0 .. N - 1 |-> mem[q.desc + i]]
             y == [k \in 0 .. N |-> IF k = 0 THEN h ELSE IF k = 1 THEN nx ELSE Last(a[k - 1]).next]
  <2>1. ASSUME NEW i \in Nat, Readable(q, mem, i) PROVE i \in 0 .. N - 1 /\ d[i] = mem[q.desc + i]
    BY <2>1 DEF Readable
  <2>2. y[0] = h /\ y[1] = nx /\ \A k \in 1 .. N - 1 : y[k + 1] = Last(a[k]).next
    OBVIOUS
  <2> HIDE DEF d, y
  <2>3. y[0] \in 0 .. N - 1 /\ d[y[0]] = hdr
    BY <2>1, <2>2 DEF hdr
  <2>4. ASSUME NEW k \in 1 .. N PROVE y[k] \in 0 .. N - 1 /\ d[y[k]] = Last(a[k])
    <3>1. CASE k = 1
      <4>1. Last(a[1]) = mem[q.desc + nx]
        BY <1>6 DEF Last
      <4> QED
        BY <3>1, <4>1, <2>1, <2>2, <1>1, <1>6
    <3>2. CASE k # 1
      <4> DEFINE j == k - 1
      <4>1. j \in 1 .. N - 1 /\ j + 1 = k /\ j \in 1 .. N
        BY <3>2
      <4> HIDE DEF j
      <4>2. /\ Last(a[j]).next \in Nat /\ Readable(q, mem, Last(a[j]).next)
            /\ mem[q.desc + Last(a[j]).next] \in Table
            /\ a[j + 1] = Append(a[j], mem[q.desc + Last(a[j]).next])
        BY <4>1, <1>7
      <4>3. Last(a[j + 1]) = mem[q.desc + Last(a[j]).next]
        BY <4>1, <4>2, <1>5, AppendLast
      <4>4. y[j + 1] = Last(a[j]).next
        BY <4>1, <2>2
      <4> QED
        BY <4>1, <4>2, <4>3, <4>4, <2>1
    <3> QED
      BY <3>1, <3>2
  <2>5. ASSUME NEW k \in 0 .. N - 1 PROVE HasNext(d[y[k]]) /\ y[k + 1] = d[y[k]].next
    <3>1. CASE k = 0
      BY <3>1, <2>2, <2>3 DEF hdr, nx
    <3>2. CASE k # 0
      <4>1. k \in 1 .. N - 1 /\ k \in 1 .. N
        BY <3>2
      <4> QED
        BY <4>1, <2>2, <2>4
    <3> QED
      BY <3>1, <3>2
  <2>6. \A k \in 0 .. N : y[k] \in 0 .. N - 1
    <3> TAKE k \in 0 .. N
    <3>1. k = 0 \/ k \in 1 .. N
      OBVIOUS
    <3> QED
      BY <3>1, <2>3, <2>4
  <2>7. HasNext(d[y[N]])
    BY <2>5, <2>6, WalkMeetsEachOnce
  <2>8. N \in 1 .. N
    OBVIOUS
  <2> QED
    BY <2>4, <2>7, <2>8, <1>4
<1> DEFINE S == {n \in Nat : n + 2 <= N => b[n + 2] = Headed(hdr, a[n + 1])}
<1>9. 0 \in S
  <2>1. 1 \in 1 .. N - 1 /\ 1 \in Nat \ {0} /\ 1 + 1 <= q.num
    BY <1>8
  <2>2. b[1] = <<hdr>>
    BY <1>3 DEF WalkOf, ChainStarts, hdr
  <2>3. b[1 + 1] = ChainGrows(q, mem, b[1])
    BY <2>1, <1>3 DEF WalkOf
  <2>4. Last(b[1]) = hdr /\ HasNext(hdr) /\ b[1] # <<>>
    BY <2>2 DEF Last, hdr
  <2>5. ChainGrows(q, mem, b[1]) = Append(b[1], mem[q.desc + nx])
    BY <2>4, <1>6 DEF ChainGrows, nx
  <2>6. Append(<<hdr>>, mem[q.desc + nx]) = Headed(hdr, <<mem[q.desc + nx]>>)
    BY DEF Headed
  <2>7. b[1 + 1] = Headed(hdr, a[1])
    BY <2>2, <2>3, <2>5, <2>6, <1>6, Zenon
  <2> QED
    BY <2>7
<1>10. ASSUME NEW n \in Nat, n \in S PROVE n + 1 \in S
  <2> SUFFICES ASSUME n + 1 + 2 <= N PROVE b[n + 1 + 2] = Headed(hdr, a[n + 1 + 1])
    OBVIOUS
  <2>1. /\ n + 1 \in 1 .. N - 1 /\ n + 1 \in 1 .. N /\ n + 2 \in Nat \ {0} /\ (n + 2) + 1 <= q.num
        /\ n + 1 + 2 = (n + 2) + 1 /\ n + 1 \in Nat \ {0} /\ (n + 1) + 1 <= q.num
    OBVIOUS
  <2>2. b[n + 2] = Headed(hdr, a[n + 1])
    BY <1>10
  <2>3. b[(n + 2) + 1] = ChainGrows(q, mem, b[n + 2]) /\ a[(n + 1) + 1] = ChainGrows(q, mem, a[n + 1])
    BY <2>1, <1>2, <1>3 DEF WalkOf
  <2>4. a[n + 1] \in Seq(Table) /\ a[n + 1] # <<>>
    BY <2>1, <1>5
  <2>5. /\ b[n + 2] # <<>> /\ Last(b[n + 2]) = Last(a[n + 1])
        /\ \A f \in Table : Append(b[n + 2], f) = Headed(hdr, Append(a[n + 1], f))
    <3>1. hdr \in Table
      BY <1>1
    <3>2. /\ Headed(hdr, a[n + 1]) # <<>> /\ Last(Headed(hdr, a[n + 1])) = Last(a[n + 1])
          /\ \A f \in Table : Append(Headed(hdr, a[n + 1]), f) = Headed(hdr, Append(a[n + 1], f))
      <4> DEFINE w == a[n + 1]
      <4> HIDE DEF w
      <4>1. w \in Seq(Table) /\ w # <<>>
        BY <2>4 DEF w
      <4>2. /\ Headed(hdr, w) # <<>> /\ Last(Headed(hdr, w)) = Last(w)
            /\ \A f \in Table : Append(Headed(hdr, w), f) = Headed(hdr, Append(w, f))
        BY <4>1, <3>1, HeadedLast
      <4> QED
        BY <4>2 DEF w
    <3> QED
      BY <2>2, <3>2, Zenon
  <2>6. CASE HasNext(Last(a[n + 1]))
    <3>1. /\ Readable(q, mem, Last(a[n + 1]).next) /\ mem[q.desc + Last(a[n + 1]).next] \in Table
          /\ a[(n + 1) + 1] = Append(a[n + 1], mem[q.desc + Last(a[n + 1]).next])
      BY <2>1, <2>6, <1>7
    <3>2. ChainGrows(q, mem, b[n + 2]) = Append(b[n + 2], mem[q.desc + Last(a[n + 1]).next])
      BY <2>5, <2>6, <3>1 DEF ChainGrows
    <3> QED
      BY <2>1, <2>3, <2>5, <3>1, <3>2
  <2>7. CASE ~HasNext(Last(a[n + 1]))
    <3>1. ChainGrows(q, mem, b[n + 2]) = b[n + 2] /\ ChainGrows(q, mem, a[n + 1]) = a[n + 1]
      BY <2>5, <2>7 DEF ChainGrows
    <3> QED
      BY <2>1, <2>2, <2>3, <3>1
  <2> QED
    BY <2>6, <2>7
<1> HIDE DEF S
<1>11. \A n \in Nat : n \in S
  BY <1>9, <1>10, Inductive
<1>12. b[N] = Headed(hdr, a[N])
  <2>1. N - 2 \in Nat /\ (N - 2) + 2 = N /\ (N - 2) + 1 = N - 1 /\ m \in 1 .. N /\ N - 1 \in m .. N /\ N \in m .. N
    BY <1>8
  <2>2. N - 2 \in S
    BY <2>1, <1>11
  <2>3. (N - 2) + 2 <= N => b[(N - 2) + 2] = Headed(hdr, a[(N - 2) + 1])
    BY <2>2 DEF S
  <2>4. a[N - 1] = a[m] /\ a[N] = a[m]
    BY <2>1, <1>2, <1>8, WalkStays
  <2> QED
    BY <2>1, <2>3, <2>4
<1>13. b[N] # <<>> /\ Last(b[N]) = Last(a[N])
  <2>1. N \in 1 .. N
    OBVIOUS
  <2> QED
    BY <2>1, <1>1, <1>5, <1>12, HeadedLast
<1>14. Chain(q, mem, h) = b[N]
  BY <1>3, <1>4, <1>13 DEF ChainEnds
<1> QED
  BY <1>4, <1>12, <1>14 DEF hdr, nx

-----------------------------------------------------------------------------
(* What a block request writes                                             *)

\* mem2 is guest memory like mem, with the same contents in the cells of kept.
Kept(kept, mem, mem2) ==
  kept \subseteq RamCells /\ mem2 = [c \in RamCells |-> mem2[c]] /\ \A c \in kept : mem2[c] = mem[c]

\* The descriptors of a table give the device none of the cells of kept.
Apart(kept, table) ==
  \A d \in table : d.addr \in Nat /\ d.len \in Nat /\ GivenBy(d) \cap kept = {}

Copying(type, kept, mem, r) ==
  /\ r \in [mem : {r.mem}, disk : {r.disk}, failed : BOOLEAN, ended : BOOLEAN, at : {r.at}]
  /\ Kept(kept, mem, r.mem)
  /\ type \notin {"in", "out"} => r.at \in Int

LEMMA CopySegmentKeeps ==
  ASSUME NEW type, NEW kept, NEW mem, NEW r, Copying(type, kept, mem, r),
         NEW table, Apart(kept, table), NEW d \in table
  PROVE  Copying(type, kept, mem, CopySegment(type, r, d))
<1> DEFINE failed == [r EXCEPT !.failed = TRUE]
<1>1. /\ r \in [mem : {r.mem}, disk : {r.disk}, failed : BOOLEAN, ended : BOOLEAN, at : {r.at}]
      /\ Kept(kept, mem, r.mem)
      /\ type \notin {"in", "out"} => r.at \in Int
  BY DEF Copying
<1>2. d.addr \in Nat /\ d.len \in Nat /\ (d.write => \A c \in d.addr .. (d.addr + d.len - 1) : c \notin kept)
  BY DEF Apart, GivenBy
<1>3. Copying(type, kept, mem, failed)
  BY <1>1 DEF Copying
<1>4. CASE type = "in"
  <2>1. CASE r.failed \/ ~d.write \/ ~InRam(d.addr, d.len)
    BY <2>1, <1>3, <1>4 DEF CopySegment, CopyIn
  <2>2. CASE ~(r.failed \/ ~d.write \/ ~InRam(d.addr, d.len))
    <3> DEFINE m == Copy(r.mem, d.addr, r.disk, r.at, d.len)
    <3>1. Kept(kept, mem, m)
      <4>1. r.mem = [c \in RamCells |-> r.mem[c]]
        BY <1>1 DEF Kept
      <4>2. DOMAIN r.mem = RamCells
        BY <4>1, Zenon
      <4>3. m = [c \in RamCells |-> IF c \in d.addr .. (d.addr + d.len - 1)
                                   THEN r.disk[r.at + (c - d.addr)] ELSE r.mem[c]]
        BY <4>2 DEF Copy
      <4> HIDE DEF m
      <4> QED
        BY <4>3, <2>2, <1>1, <1>2 DEF Kept
    <3>2. CopySegment(type, r, d) = [r EXCEPT !.mem = m, !.at = r.at + d.len]
      BY <2>2, <1>4 DEF CopySegment, CopyIn
    <3> HIDE DEF m
    <3> QED
      BY <3>1, <3>2, <1>1, <1>4 DEF Copying
  <2> QED
    BY <2>1, <2>2
<1>5. CASE type = "out"
  <2>1. CASE r.failed \/ d.write \/ ~InRam(d.addr, d.len)
    BY <2>1, <1>3, <1>5 DEF CopySegment, CopyOut
  <2>2. CASE ~(r.failed \/ d.write \/ ~InRam(d.addr, d.len))
    <3> DEFINE m == Copy(r.disk, r.at, r.mem, d.addr, d.len)
    <3>1. CopySegment(type, r, d) = [r EXCEPT !.disk = m, !.at = r.at + d.len]
      BY <2>2, <1>5 DEF CopySegment, CopyOut
    <3> HIDE DEF m
    <3> QED
      BY <3>1, <1>1, <1>5 DEF Copying
  <2> QED
    BY <2>1, <2>2
<1>6. CASE type \notin {"in", "out"}
  <2> DEFINE chunk == IF d.len < IdUnits - r.at THEN d.len ELSE IdUnits - r.at
             m == [c \in DOMAIN r.mem |-> IF c \in d.addr .. (d.addr + chunk - 1) THEN IdData ELSE r.mem[c]]
  <2>1. r.at \in Int /\ IdUnits \in Nat
    BY <1>6, BlkAssumption DEF Copying
  <2>2. chunk \in Int /\ chunk <= d.len
    BY <2>1, <1>2
  <2>3. CopySegment(type, r, d) = CopyId(r, d)
    BY <1>6 DEF CopySegment
  <2>4. \/ CopyId(r, d) \in {r, failed, [r EXCEPT !.ended = TRUE]}
        \/ d.write /\ CopyId(r, d) = [r EXCEPT !.mem = m, !.at = r.at + chunk]
    BY DEF CopyId
  <2> HIDE DEF chunk
  <2>5. d.write => Kept(kept, mem, m)
    <3> SUFFICES ASSUME d.write PROVE Kept(kept, mem, m)
      OBVIOUS
    <3>1. \A c \in d.addr .. (d.addr + chunk - 1) : c \notin kept
      BY <2>2, <1>2
    <3>2. r.mem = [c \in RamCells |-> r.mem[c]]
      BY <1>1 DEF Kept
    <3>3. DOMAIN r.mem = RamCells
      BY <3>2, Zenon
    <3>4. m = [c \in RamCells |-> IF c \in d.addr .. (d.addr + chunk - 1) THEN IdData ELSE r.mem[c]]
      BY <3>3
    <3> HIDE DEF m
    <3> QED
      BY <3>1, <3>4, <1>1 DEF Kept
  <2> HIDE DEF m
  <2>6. d.write => Copying(type, kept, mem, [r EXCEPT !.mem = m, !.at = r.at + chunk])
    <3>1. r.at + chunk \in Int
      BY <2>1, <2>2
    <3> QED
      BY <3>1, <2>5, <1>1 DEF Copying
  <2>7. Copying(type, kept, mem, [r EXCEPT !.ended = TRUE])
    BY <1>1 DEF Copying
  <2> QED
    BY <2>3, <2>4, <2>6, <2>7, <1>3
<1> QED
  BY <1>4, <1>5, <1>6

\* The segments of a request, one after the other.
LEMMA CopyTurns ==
  ASSUME NEW type, NEW kept, NEW mem, NEW start, Copying(type, kept, mem, start),
         NEW table, Apart(kept, table), NEW segments \in Seq(table)
  PROVE  \E after :
           /\ after[0] = start /\ CopySegments(type, start, segments) = after[Len(segments)]
           /\ \A k \in Nat : k <= Len(segments) => Copying(type, kept, mem, after[k])
           /\ \A k \in Nat : k + 1 <= Len(segments) =>
                after[k + 1] = CopySegment(type, after[k], segments[k + 1])
<1> DEFINE last == Len(segments)
           After(g, k) == IF k = 0 THEN start
                          ELSE With(g[k - 1], LAMBDA r : CopySegment(type, r, segments[k]))
           IsAfter(g) == g = [k \in 0 .. last |-> After(g, k)]
           after == CHOOSE g : IsAfter(g)
           Holds(n) == n <= last => \E g : g = [k \in 0 .. n |-> After(g, k)]
<1>0. last \in Nat /\ \A k \in 1 .. last : segments[k] \in table
  OBVIOUS
<1>1. CopySegments(type, start, segments) = after[last]
  BY DEF CopySegments, EachSegment
<1> HIDE DEF After, last
<1>2. Holds(0)
  <2> DEFINE g == [k \in 0 .. 0 |-> start]
  <2>1. \A k \in 0 .. 0 : g[k] = After(g, k)
    BY DEF After
  <2>2. g = [k \in 0 .. 0 |-> g[k]]
    OBVIOUS
  <2> HIDE DEF g
  <2>3. g = [k \in 0 .. 0 |-> After(g, k)]
    BY <2>1, <2>2
  <2> QED
    BY <2>3
<1>3. ASSUME NEW n \in Nat, Holds(n) PROVE Holds(n + 1)
  <2> SUFFICES ASSUME n + 1 <= last PROVE \E g : g = [k \in 0 .. n + 1 |-> After(g, k)]
    OBVIOUS
  <2>1. PICK g : g = [k \in 0 .. n |-> After(g, k)]
    BY <1>0, <1>3
  <2> DEFINE h == [k \in 0 .. n + 1 |-> IF k = n + 1 THEN After(g, k) ELSE g[k]]
  <2>2. \A k \in 0 .. n + 1 : h[k] = After(h, k)
    <3> TAKE k \in 0 .. n + 1
    <3>1. k # 0 => h[k - 1] = g[k - 1]
      OBVIOUS
    <3>2. h[k] = After(g, k)
      BY <2>1, SMTT(30)
    <3> HIDE DEF h
    <3> QED
      BY <3>1, <3>2 DEF After
  <2>3. h = [k \in 0 .. n + 1 |-> h[k]]
    OBVIOUS
  <2> HIDE DEF h
  <2>4. h = [k \in 0 .. n + 1 |-> After(h, k)]
    BY <2>2, <2>3
  <2> QED
    BY <2>4
<1>4. IsAfter(after)
  <2> DEFINE S == {n \in Nat : Holds(n)}
  <2> HIDE DEF Holds
  <2>1. \A n \in Nat : n \in S
    <3>1. 0 \in S
      BY <1>2
    <3>2. \A n \in Nat : n \in S => n + 1 \in S
      BY <1>3
    <3> HIDE DEF S
    <3> QED
      BY <3>1, <3>2, Inductive
  <2>2. Holds(last)
    BY <2>1, <1>0
  <2>3. \E g : IsAfter(g)
    BY <2>2, <1>0 DEF Holds
  <2> QED
    BY <2>3
<1> HIDE DEF after
<1>5. \A k \in 0 .. last : after[k] = After(after, k)
  BY <1>4
<1>6. after[0] = start
  <2>1. 0 \in 0 .. last
    BY <1>0
  <2> QED
    BY <2>1, <1>5 DEF After
<1>7. ASSUME NEW n \in Nat, n + 1 <= last PROVE after[n + 1] = CopySegment(type, after[n], segments[n + 1])
  <2>1. n + 1 \in 0 .. last /\ n + 1 # 0 /\ n + 1 - 1 = n
    BY <1>0, <1>7
  <2>2. after[n + 1] = After(after, n + 1)
    BY <1>5, <2>1
  <2> QED
    BY <2>1, <2>2 DEF After, With
<1>8. \A n \in Nat : n <= last => Copying(type, kept, mem, after[n])
  <2> DEFINE S == {n \in Nat : n <= last => Copying(type, kept, mem, after[n])}
  <2>1. 0 \in S
    BY <1>6
  <2>2. ASSUME NEW n \in Nat, n \in S PROVE n + 1 \in S
    <3> SUFFICES ASSUME n + 1 <= last PROVE Copying(type, kept, mem, after[n + 1])
      OBVIOUS
    <3>1. Copying(type, kept, mem, after[n]) /\ n + 1 \in 1 .. last
      BY <2>2, <1>0
    <3>2. Copying(type, kept, mem, CopySegment(type, after[n], segments[n + 1]))
      BY <3>1, <1>0, CopySegmentKeeps
    <3> QED
      BY <3>2, <1>7
  <2> HIDE DEF S
  <2>3. \A n \in Nat : n \in S
    BY <2>1, <2>2, Inductive
  <2> QED
    BY <2>3 DEF S
<1> QED
  BY <1>1, <1>6, <1>7, <1>8 DEF last

LEMMA CopySegmentsKeep ==
  ASSUME NEW type, NEW kept, NEW mem, NEW start, Copying(type, kept, mem, start),
         NEW table, Apart(kept, table), NEW segments \in Seq(table)
  PROVE  Copying(type, kept, mem, CopySegments(type, start, segments))
<1>1. PICK after : /\ after[0] = start /\ CopySegments(type, start, segments) = after[Len(segments)]
                   /\ \A k \in Nat : k <= Len(segments) => Copying(type, kept, mem, after[k])
  BY CopyTurns
<1>2. Len(segments) \in Nat /\ Len(segments) <= Len(segments)
  OBVIOUS
<1> QED
  BY <1>1, <1>2

LEMMA FinishKeeps ==
  ASSUME NEW type, NEW kept, NEW mem, NEW r, Copying(type, kept, mem, r),
         NEW chain, Last(chain).addr \notin kept, NEW status, NEW len
  PROVE  Kept(kept, mem, Finish(r, chain, status, len).mem)
<1> DEFINE cell == Last(chain).addr
           new == [r.mem EXCEPT ![cell] = status]
<1>1. Kept(kept, mem, r.mem)
  BY DEF Copying
<1>2. Kept(kept, mem, new)
  <2>1. \A c \in RamCells : c # cell => new[c] = r.mem[c]
    BY <1>1 DEF Kept
  <2>2. new = [c \in RamCells |-> new[c]]
    BY <1>1 DEF Kept
  <2> HIDE DEF new
  <2> QED
    BY <2>1, <2>2, <1>1 DEF Kept
<1>3. Finish(r, chain, status, len).mem \in {new, r.mem}
  BY DEF Finish
<1> HIDE DEF new
<1> QED
  BY <1>1, <1>2, <1>3

LEMMA FrontIsSequence ==
  ASSUME NEW table, NEW chain \in Seq(table), chain # <<>>
  PROVE  Front(chain) \in Seq(table)
<1>1. Len(chain) - 1 \in Int /\ 1 \in Int /\ \A k \in 1 .. Len(chain) - 1 : chain[k] \in table
  OBVIOUS
<1>2. SubSeq(chain, 1, Len(chain) - 1) \in Seq(table)
  BY <1>1, SubSeqProperties
<1> QED
  BY <1>2 DEF Front

\* A request writes what its chain gives to the device, and nothing else.
LEMMA ExecuteKeeps ==
  ASSUME NEW kept, NEW mem, Kept(kept, mem, mem), NEW disk, NEW header,
         NEW table, Apart(kept, table), NEW chain \in Seq(table), chain # <<>>,
         Last(chain).write, Last(chain).len > 0
  PROVE  Kept(kept, mem, Execute(mem, disk, header, chain).mem)
<1> DEFINE segments == Front(chain)
           transfer == header.type \in {"in", "out"}
           start == [mem |-> mem, disk |-> disk, failed |-> FALSE, ended |-> FALSE,
                     at |-> IF transfer THEN ImageOffset(header.sector) ELSE 0]
           copied == CopySegments(header.type, start, segments)
<1>1. segments \in Seq(table)
  BY FrontIsSequence
<1>2. Copying(header.type, kept, mem, start)
  BY DEF Copying
<1>3. Copying(header.type, kept, mem, copied)
  <2> HIDE DEF start, segments
  <2> QED
    BY <1>1, <1>2, CopySegmentsKeep
<1>4. Last(chain).addr \notin kept
  <2>1. Last(chain) \in table
    BY DEF Last
  <2>2. Last(chain).addr \in Last(chain).addr .. (Last(chain).addr + Last(chain).len - 1)
    BY <2>1 DEF Apart
  <2> QED
    BY <2>1, <2>2 DEF Apart, GivenBy
<1>5. \/ \E status, len : Execute(mem, disk, header, chain) = Finish(start, chain, status, len)
      \/ \E status, len : Execute(mem, disk, header, chain) = Finish(copied, chain, status, len)
  <2> HIDE DEF copied, start, segments
  <2> QED
    BY DEF Execute, With, copied, start, segments
<1> HIDE DEF start, copied
<1>6. ASSUME NEW status, NEW len
      PROVE  /\ Kept(kept, mem, Finish(start, chain, status, len).mem)
             /\ Kept(kept, mem, Finish(copied, chain, status, len).mem)
  BY <1>2, <1>3, <1>4, FinishKeeps
<1> QED
  BY <1>5, <1>6

LEMMA ProcessRequestKeeps ==
  ASSUME NEW q, q.num \in Nat \ {0}, q.desc \in Nat, NEW kept, NEW mem, Kept(kept, mem, mem),
         SoundTable(q, mem, kept), NEW disk, NEW head \in Nat
  PROVE  Kept(kept, mem, ProcessRequest(q, mem, disk, head).mem)
<1> DEFINE hdr == mem[q.desc + head]
           table == {mem[c] : c \in TableCells(q)}
           chain == Chain(q, mem, hdr.next)
           untouched == [mem |-> mem, disk |-> disk, len |-> 1]
<1>1. /\ \A c \in TableCells(q) : mem[c].next \in Nat \cup {-1}
      /\ Apart(kept, table)
  BY DEF SoundTable, Apart
<1>2. CASE ~Readable(q, mem, head) \/ ~HasNext(hdr)
  <2>1. ProcessRequest(q, mem, disk, head) = untouched
    BY <1>2, Zenon DEF ProcessRequest
  <2> QED
    BY <2>1
<1>3. CASE Readable(q, mem, head) /\ HasNext(hdr)
  <2>1. q.desc + head \in TableCells(q)
    BY <1>3 DEF Readable, TableCells
  <2>2. hdr.next \in Nat
    BY <2>1, <1>1, <1>3 DEF HasNext
  <2>3. chain \in Seq(table)
    <3> HIDE DEF hdr
    <3> QED
      BY <2>2, <1>1, ChainInTable
  <2> HIDE DEF hdr, table
  <2>4. \/ ProcessRequest(q, mem, disk, head) = untouched
        \/ /\ chain # <<>> /\ Last(chain).write /\ Last(chain).len > 0
           /\ ProcessRequest(q, mem, disk, head) = Execute(mem, disk, mem[hdr.addr], chain)
    <3> HIDE DEF chain
    <3> QED
      BY DEF ProcessRequest, With, hdr, chain
  <2> HIDE DEF chain
  <2>5. chain # <<>> /\ Last(chain).write /\ Last(chain).len > 0
          => Kept(kept, mem, Execute(mem, disk, mem[hdr.addr], chain).mem)
    BY <2>3, <1>1, ExecuteKeeps
  <2> QED
    BY <2>4, <2>5
<1> QED
  BY <1>2, <1>3

-----------------------------------------------------------------------------
(* What a block request stores                                             *)

\* The length of a chain, one segment after the other.
LEMMA TotalIs ==
  ASSUME NEW segments, Len(segments) \in Nat
  PROVE  \E after : /\ after[0] = 0
                    /\ \A k \in Nat : k + 1 <= Len(segments) => after[k + 1] = after[k] + segments[k + 1].len
                    /\ TotalLength(segments) = after[Len(segments)]
<1> DEFINE last == Len(segments)
           Step(r, d) == r + d.len
           After(g, k) == IF k = 0 THEN 0 ELSE With(g[k - 1], LAMBDA r : Step(r, segments[k]))
           IsAfter(g) == g = [k \in 0 .. last |-> After(g, k)]
           after == CHOOSE g : IsAfter(g)
           Holds(n) == n <= last => \E g : g = [k \in 0 .. n |-> After(g, k)]
<1>1. TotalLength(segments) = after[last]
  BY Zenon DEF TotalLength, EachSegment
<1>a. \A g, n : After(g, n) = IF n = 0 THEN 0 ELSE Step(g[n - 1], segments[n])
  BY DEF With
<1>0. last \in Nat
  OBVIOUS
<1> HIDE DEF After, last, Step
<1>2. Holds(0)
  <2> DEFINE g == [k \in 0 .. 0 |-> 0]
  <2>1. \A k \in 0 .. 0 : g[k] = After(g, k)
    BY <1>a
  <2>2. g = [k \in 0 .. 0 |-> g[k]]
    OBVIOUS
  <2> HIDE DEF g
  <2>3. g = [k \in 0 .. 0 |-> After(g, k)]
    BY <2>1, <2>2
  <2> QED
    BY <2>3
<1>3. ASSUME NEW n \in Nat, Holds(n) PROVE Holds(n + 1)
  <2> SUFFICES ASSUME n + 1 <= last PROVE \E g : g = [k \in 0 .. n + 1 |-> After(g, k)]
    OBVIOUS
  <2>1. PICK g : g = [k \in 0 .. n |-> After(g, k)]
    BY <1>0, <1>3
  <2> DEFINE h == [k \in 0 .. n + 1 |-> IF k = n + 1 THEN After(g, k) ELSE g[k]]
  <2>2. \A k \in 0 .. n + 1 : h[k] = After(h, k)
    <3> TAKE k \in 0 .. n + 1
    <3>1. k # 0 => h[k - 1] = g[k - 1]
      OBVIOUS
    <3>2. h[k] = After(g, k)
      BY <2>1
    <3> HIDE DEF h
    <3>3. After(h, k) = After(g, k)
      BY <3>1, <1>a
    <3> QED
      BY <3>2, <3>3
  <2>3. h = [k \in 0 .. n + 1 |-> h[k]]
    OBVIOUS
  <2> HIDE DEF h
  <2>4. h = [k \in 0 .. n + 1 |-> After(h, k)]
    BY <2>2, <2>3
  <2> QED
    BY <2>4
<1>4. IsAfter(after)
  <2> DEFINE S == {n \in Nat : Holds(n)}
  <2> HIDE DEF Holds
  <2>1. \A n \in Nat : n \in S
    <3>1. 0 \in S
      BY <1>2
    <3>2. \A n \in Nat : n \in S => n + 1 \in S
      BY <1>3
    <3> HIDE DEF S
    <3> QED
      BY <3>1, <3>2, Inductive
  <2>2. Holds(last)
    BY <2>1, <1>0
  <2>3. \E g : IsAfter(g)
    BY <2>2, <1>0 DEF Holds
  <2> QED
    BY <2>3
<1> HIDE DEF after
<1>5. \A k \in 0 .. last : after[k] = After(after, k)
  BY <1>4
<1>6. after[0] = 0
  <2>1. 0 \in 0 .. last
    BY <1>0
  <2> QED
    BY <2>1, <1>5, <1>a
<1>7. ASSUME NEW k \in Nat, k + 1 <= last PROVE after[k + 1] = Step(after[k], segments[k + 1])
  <2>1. k + 1 \in 0 .. last /\ k + 1 # 0 /\ (k + 1) - 1 = k
    BY <1>0, <1>7
  <2>2. after[k + 1] = After(after, k + 1)
    BY <2>1, <1>5
  <2>3. After(after, k + 1) = Step(after[k], segments[k + 1])
    BY <2>1, <1>a
  <2> QED
    BY <2>2, <2>3
<1> QED
  BY <1>1, <1>6, <1>7 DEF last, Step

\* The copy has got to n units from where the transfer starts on the disk.
Storing(type, disk, r, from, n) ==
  /\ r.disk = [c \in DiskCells |-> r.disk[c]]
  /\ type = "out" => r.at \in from .. from + n
  /\ \A c \in DiskCells : r.disk[c] # disk[c] => type = "out" /\ c \in from .. from + n - 1

LEMMA CopySegmentStores ==
  ASSUME NEW type, NEW kept, NEW mem, NEW r, Copying(type, kept, mem, r), NEW disk,
         NEW from \in Nat, NEW n \in Nat, Storing(type, disk, r, from, n), NEW d, d.len \in Nat
  PROVE  Storing(type, disk, CopySegment(type, r, d), from, n + d.len)
<1>1. r \in [mem : {r.mem}, disk : {r.disk}, failed : BOOLEAN, ended : BOOLEAN, at : {r.at}]
  BY DEF Copying
<1>2. ASSUME NEW r2, r2.disk = r.disk, type = "out" => r2.at = r.at
      PROVE  Storing(type, disk, r2, from, n + d.len)
  BY <1>2 DEF Storing
<1>3. CASE type # "out"
  <2>1. CopySegment(type, r, d) \in {CopyIn(r, d), CopyId(r, d)}
    BY <1>3 DEF CopySegment
  <2>2. CopyIn(r, d).disk = r.disk
    <3>1. \/ CopyIn(r, d) = [r EXCEPT !.failed = TRUE]
          \/ CopyIn(r, d) = [r EXCEPT !.mem = Copy(r.mem, d.addr, r.disk, r.at, d.len), !.at = r.at + d.len]
      BY DEF CopyIn
    <3> DEFINE m == Copy(r.mem, d.addr, r.disk, r.at, d.len)
               a == r.at + d.len
    <3>2. CopyIn(r, d) \in {[r EXCEPT !.failed = TRUE], [r EXCEPT !.mem = m, !.at = a]}
      BY <3>1
    <3> HIDE DEF m, a
    <3> QED
      BY <3>2, <1>1
  <2>3. CopyId(r, d).disk = r.disk
    <3> DEFINE chunk == IF d.len < IdUnits - r.at THEN d.len ELSE IdUnits - r.at
               m == [c \in DOMAIN r.mem |-> IF c \in d.addr .. (d.addr + chunk - 1) THEN IdData ELSE r.mem[c]]
               a == r.at + chunk
    <3>1. CopyId(r, d) \in {r, [r EXCEPT !.failed = TRUE], [r EXCEPT !.ended = TRUE],
                            [r EXCEPT !.mem = m, !.at = a]}
      BY DEF CopyId
    <3> HIDE DEF m, a
    <3> QED
      BY <3>1, <1>1
  <2> QED
    BY <2>1, <2>2, <2>3, <1>2, <1>3
<1>4. CASE type = "out"
  <2>1. CASE r.failed \/ d.write \/ ~InRam(d.addr, d.len)
    <3>1. CopySegment(type, r, d) = [r EXCEPT !.failed = TRUE]
      BY <2>1, <1>4 DEF CopySegment, CopyOut
    <3> QED
      BY <3>1, <1>1, <1>2
  <2>2. CASE ~(r.failed \/ d.write \/ ~InRam(d.addr, d.len))
    <3> DEFINE m == Copy(r.disk, r.at, r.mem, d.addr, d.len)
    <3>1. CopySegment(type, r, d) = [r EXCEPT !.disk = m, !.at = r.at + d.len]
      BY <2>2, <1>4 DEF CopySegment, CopyOut
    <3>2. r.disk = [c \in DiskCells |-> r.disk[c]] /\ r.at \in from .. from + n
      BY <1>4 DEF Storing
    <3>3. DOMAIN r.disk = DiskCells
      BY <3>2, Zenon
    <3>4. m = [c \in DiskCells |-> IF c \in r.at .. (r.at + d.len - 1)
                                   THEN r.mem[d.addr + (c - r.at)] ELSE r.disk[c]]
      BY <3>3 DEF Copy
    <3> HIDE DEF m
    <3>5. m = [c \in DiskCells |-> m[c]] /\ \A c \in DiskCells : m[c] # r.disk[c] => c \in r.at .. (r.at + d.len - 1)
      BY <3>4
    <3>6. \A c \in r.at .. (r.at + d.len - 1) : c \in from .. from + (n + d.len) - 1
      BY <3>2
    <3>7. /\ CopySegment(type, r, d).disk = m /\ CopySegment(type, r, d).at = r.at + d.len
          /\ r.at + d.len \in from .. from + (n + d.len)
      BY <3>1, <3>2, <1>1
    <3>8. \A c \in DiskCells : m[c] # disk[c] => c \in from .. from + (n + d.len) - 1
      <4> TAKE c \in DiskCells
      <4>1. r.disk[c] # disk[c] => c \in from .. from + (n + d.len) - 1
        BY DEF Storing
      <4> QED
        BY <4>1, <3>5, <3>6
    <3> QED
      BY <3>5, <3>7, <3>8, <1>4 DEF Storing
  <2> QED
    BY <2>1, <2>2
<1> QED
  BY <1>3, <1>4

\* A request changes the disk within the length of its segments.
LEMMA CopySegmentsStore ==
  ASSUME NEW type, NEW mem, NEW start, Copying(type, {}, mem, start),
         NEW table, Apart({}, table), NEW segments \in Seq(table),
         NEW disk, NEW from \in Nat, Storing(type, disk, start, from, 0)
  PROVE  /\ TotalLength(segments) \in Nat
         /\ Storing(type, disk, CopySegments(type, start, segments), from, TotalLength(segments))
<1> DEFINE last == Len(segments)
<1>0. last \in Nat /\ \A k \in 1 .. last : segments[k].len \in Nat
  BY DEF Apart
<1>1. PICK after : /\ after[0] = start /\ CopySegments(type, start, segments) = after[last]
                   /\ \A k \in Nat : k <= last => Copying(type, {}, mem, after[k])
                   /\ \A k \in Nat : k + 1 <= last => after[k + 1] = CopySegment(type, after[k], segments[k + 1])
  BY CopyTurns
<1>2. PICK total : /\ total[0] = 0 /\ TotalLength(segments) = total[last]
                   /\ \A k \in Nat : k + 1 <= last => total[k + 1] = total[k] + segments[k + 1].len
  BY <1>0, TotalIs
<1> HIDE DEF last
<1> DEFINE S == {k \in Nat : k <= last => total[k] \in Nat /\ Storing(type, disk, after[k], from, total[k])}
<1>3. 0 \in S
  BY <1>1, <1>2
<1>4. ASSUME NEW k \in Nat, k \in S PROVE k + 1 \in S
  <2> SUFFICES ASSUME k + 1 <= last
               PROVE  total[k + 1] \in Nat /\ Storing(type, disk, after[k + 1], from, total[k + 1])
    OBVIOUS
  <2>1. k <= last /\ k + 1 \in 1 .. last
    BY <1>0
  <2>2. /\ Copying(type, {}, mem, after[k]) /\ total[k] \in Nat
        /\ Storing(type, disk, after[k], from, total[k]) /\ segments[k + 1].len \in Nat
    BY <2>1, <1>0, <1>1, <1>4
  <2>3. Storing(type, disk, CopySegment(type, after[k], segments[k + 1]), from, total[k] + segments[k + 1].len)
    BY <2>2, CopySegmentStores
  <2> QED
    BY <2>2, <2>3, <1>1, <1>2
<1> HIDE DEF S
<1>5. \A k \in Nat : k \in S
  BY <1>3, <1>4, Inductive
<1>6. last \in S /\ last <= last
  BY <1>0, <1>5
<1> QED
  BY <1>1, <1>2, <1>6 DEF S

LEMMA OffsetIsNatural == ASSUME NEW sector \in Nat PROVE ImageOffset(sector) \in Nat
<1>1. SectorUnits \in Nat /\ OffsetModulus \in Nat \ {0}
  BY BlkAssumption
<1>2. sector * SectorUnits \in Int
  BY <1>1
<1> QED
  BY <1>1, <1>2 DEF ImageOffset

\* A disk that differs from another in the n units from some unit on, if the request writes.
Stored(disk, disk2, type, from, n) ==
  /\ disk2 = [c \in DiskCells |-> disk2[c]]
  /\ \A c \in DiskCells : disk2[c] # disk[c] => type = "out" /\ c \in from .. (from + n - 1)

LEMMA ExecuteStores ==
  ASSUME NEW mem, mem = [c \in RamCells |-> mem[c]], NEW disk, disk = [c \in DiskCells |-> disk[c]],
         NEW header, header.sector \in Nat,
         NEW table, Apart({}, table), NEW chain \in Seq(table), chain # <<>>
  PROVE  Stored(disk, Execute(mem, disk, header, chain).disk, header.type, ImageOffset(header.sector),
                TotalLength(Front(chain)))
<1> DEFINE type == header.type
           r == Execute(mem, disk, header, chain)
           from == ImageOffset(header.sector)
           segments == Front(chain)
           transfer == type \in {"in", "out"}
           start == [mem |-> mem, disk |-> disk, failed |-> FALSE, ended |-> FALSE,
                     at |-> IF transfer THEN ImageOffset(header.sector) ELSE 0]
           copied == CopySegments(type, start, segments)
<1>1. segments \in Seq(table)
  BY FrontIsSequence
<1>2. from \in Nat /\ from = ImageOffset(header.sector)
  BY OffsetIsNatural
<1>3. Copying(type, {}, mem, start) /\ Storing(type, disk, start, from, 0)
  <2>1. /\ start \in [mem : {mem}, disk : {disk}, failed : BOOLEAN, ended : BOOLEAN, at : {start.at}]
        /\ start.mem = mem /\ start.disk = disk /\ (transfer => start.at = from) /\ (~transfer => start.at = 0)
    OBVIOUS
  <2> HIDE DEF start
  <2>2. Kept({}, mem, mem)
    BY DEF Kept
  <2>3. Copying(type, {}, mem, start)
    BY <2>1, <2>2 DEF Copying
  <2>4. from \in from .. from + 0
    BY <1>2
  <2>5. Storing(type, disk, start, from, 0)
    BY <2>1, <2>4 DEF Storing
  <2> QED
    BY <2>3, <2>5
<1> HIDE DEF start, segments, r, from
<1>4. TotalLength(segments) \in Nat /\ Storing(type, disk, copied, from, TotalLength(segments))
  BY <1>1, <1>2, <1>3, CopySegmentsStore
<1>5. start.disk = [c \in DiskCells |-> start.disk[c]] /\ start.disk = disk
  BY DEF start
<1>6. ASSUME NEW x, NEW status, NEW len PROVE Finish(x, chain, status, len).disk = x.disk
  BY DEF Finish
<1>7. r.disk \in {start.disk, copied.disk}
  <2>1. \/ \E status, len : r = Finish(start, chain, status, len)
        \/ \E status, len : r = Finish(copied, chain, status, len)
    <3> HIDE DEF copied
    <3> QED
      BY DEF Execute, With, copied, start, segments, r
  <2> HIDE DEF copied
  <2> QED
    BY <2>1, <1>6
<1> HIDE DEF copied
<1> QED
  BY <1>4, <1>5, <1>7 DEF Storing, Stored, segments, r, from

\* The cells that the chain of a head gives to the device, and the units it may store.
Gives(q, mem, head, c) ==
  LET chain == Chain(q, mem, head) IN \E k \in DOMAIN chain : c \in GivenBy(chain[k])
Stores(q, mem, head, c) ==
  LET chain == Chain(q, mem, head)
      addr == mem[q.desc + head].addr
      from == ImageOffset(mem[addr].sector)
  IN /\ chain # <<>> /\ ~mem[q.desc + head].write /\ InRam(addr, 1) /\ mem[addr].type = "out"
     /\ c \in from .. (from + TotalLength(Tail(Front(chain))) - 1)

\* What lies between the header of a chain and its status.
LEMMA HeadedFront ==
  \A S : \A w \in Seq(S), e \in S :
    w # <<>> => Tail(Front(Headed(e, w))) = Front(w) /\ Headed(e, w) # <<>>
<1> SUFFICES ASSUME NEW S, NEW w \in Seq(S), NEW e \in S, w # <<>>
             PROVE  Tail(Front(Headed(e, w))) = Front(w) /\ Headed(e, w) # <<>>
  BY Zenon
<1> QED
  BY HeadedLast, Zenon

\* A request writes what its chain gives to the device, in memory and on the disk.
LEMMA RequestWrites ==
  ASSUME NEW q, q.num \in Nat \ {0}, q.desc \in Nat, NEW mem, mem = [c \in RamCells |-> mem[c]],
         SoundTable(q, mem, {}), NEW disk, disk = [c \in DiskCells |-> disk[c]], NEW head \in Nat,
         NEW hdr, hdr = mem[q.desc + head],
         ~hdr.write /\ InRam(hdr.addr, 1) => mem[hdr.addr].sector \in Nat,
         NEW r, r = ProcessRequest(q, mem, disk, head)
  PROVE  /\ \A c \in RamCells : r.mem[c] # mem[c] => Gives(q, mem, head, c)
         /\ r.disk = [c \in DiskCells |-> r.disk[c]]
         /\ \A c \in DiskCells : r.disk[c] # disk[c] => Stores(q, mem, head, c)
<1> DEFINE chain == Chain(q, mem, head)
           from == ImageOffset(mem[hdr.addr].sector)
           table == {mem[c] : c \in TableCells(q)}
           rest == Chain(q, mem, hdr.next)
           untouched == [mem |-> mem, disk |-> disk, len |-> 1]
           kept == {c \in RamCells : \A k \in DOMAIN chain : c \notin GivenBy(chain[k])}
<1>1. \A c \in TableCells(q) : mem[c].next \in Nat \cup {-1}
  BY DEF SoundTable
<1>2. Apart({}, table)
  BY DEF SoundTable, Apart
<1>3. CASE r = untouched
  <2>1. r.mem = mem /\ r.disk = disk
    BY <1>3
  <2> QED
    BY <2>1, Zenon
<1>4. CASE r # untouched
  <2>1. Readable(q, mem, head) /\ ~hdr.write /\ HasNext(hdr) /\ InRam(hdr.addr, 1)
    BY <1>4, Zenon DEF ProcessRequest
  <2>2. rest # <<>> /\ Last(rest).write /\ Last(rest).len > 0 /\ r = Execute(mem, disk, mem[hdr.addr], rest)
    <3> HIDE DEF rest
    <3> QED
      BY <1>4 DEF ProcessRequest, With, rest
  <2>3. hdr \in table /\ hdr.next \in Nat
    <3>1. q.desc + head \in TableCells(q)
      BY <2>1 DEF Readable, TableCells
    <3> QED
      BY <3>1, <1>1, <2>1 DEF HasNext
  <2>4. rest \in Seq(table)
    <3> DEFINE next == hdr.next
    <3> HIDE DEF next
    <3>1. next \in Nat
      BY <2>3 DEF next
    <3>2. Chain(q, mem, next) \in Seq({mem[c] : c \in TableCells(q)})
      BY <3>1, <1>1, ChainInTable
    <3> QED
      BY <3>2 DEF next
  <2>5. chain = Headed(hdr, rest)
    BY <1>1, <2>1, <2>2, ChainFromHead
  <2> HIDE DEF rest, table, chain, from
  <2>6. Tail(Front(chain)) = Front(rest) /\ chain # <<>>
    <3>1. Tail(Front(Headed(hdr, rest))) = Front(rest) /\ Headed(hdr, rest) # <<>>
      <4>1. rest # <<>> /\ hdr \in table
        BY <2>2, <2>3
      <4> HIDE DEF kept, untouched
      <4> QED
        BY <4>1, <2>4, HeadedFront, Zenon
    <3> QED
      BY <3>1, <2>5
  <2> DEFINE used == {rest[k] : k \in DOMAIN rest}
  <2>7. used \subseteq table /\ rest \in Seq(used) /\ \A k \in DOMAIN rest : k + 1 \in DOMAIN chain /\ chain[k + 1] = rest[k]
    <3>1. used \subseteq table /\ rest \in Seq(used)
      BY <2>4
    <3>2. \A k \in DOMAIN rest : k + 1 \in DOMAIN chain /\ chain[k + 1] = rest[k]
      BY <2>3, <2>4, <2>5 DEF Headed
    <3> QED
      BY <3>1, <3>2
  <2>8. Apart(kept, used)
    <3> SUFFICES ASSUME NEW k \in DOMAIN rest
                 PROVE  rest[k].addr \in Nat /\ rest[k].len \in Nat /\ GivenBy(rest[k]) \cap kept = {}
      BY DEF Apart
    <3>1. rest[k].addr \in Nat /\ rest[k].len \in Nat
      BY <1>2, <2>7 DEF Apart
    <3>2. GivenBy(rest[k]) \cap kept = {}
      BY <2>7
    <3> QED
      BY <3>1, <3>2
  <2>9. Kept(kept, mem, r.mem)
    <3>1. Kept(kept, mem, mem)
      BY DEF Kept
    <3> DEFINE header == mem[hdr.addr]
    <3>2. r = Execute(mem, disk, header, rest)
      BY <2>2
    <3> HIDE DEF used, kept, header
    <3>3. Kept(kept, mem, Execute(mem, disk, header, rest).mem)
      BY <3>1, <2>2, <2>7, <2>8, ExecuteKeeps
    <3> QED
      BY <3>2, <3>3
  <2>10. \A c \in RamCells : r.mem[c] # mem[c] => \E k \in DOMAIN chain : c \in GivenBy(chain[k])
    BY <2>9 DEF Kept
  <2>11. /\ r.disk = [c \in DiskCells |-> r.disk[c]]
         /\ \A c \in DiskCells : r.disk[c] # disk[c] =>
              mem[hdr.addr].type = "out" /\ c \in from .. (from + TotalLength(Front(rest)) - 1)
    <3> DEFINE header == mem[hdr.addr]
    <3>1. header.sector \in Nat /\ r = Execute(mem, disk, header, rest)
      BY <2>1, <2>2
    <3>4. from = ImageOffset(header.sector)
      BY DEF from
    <3> HIDE DEF header
    <3>a. mem = [c \in RamCells |-> mem[c]] /\ disk = [c \in DiskCells |-> disk[c]] /\ rest # <<>>
      BY <2>2
    <3>2. Stored(disk, Execute(mem, disk, header, rest).disk, header.type, ImageOffset(header.sector),
                 TotalLength(Front(rest)))
      BY <3>1, <3>a, <1>2, <2>4, ExecuteStores
    <3>3. Stored(disk, r.disk, header.type, from, TotalLength(Front(rest)))
      BY <3>1, <3>2, <3>4
    <3> QED
      BY <3>3 DEF header, Stored
  <2>12. ASSUME NEW c \in DiskCells, r.disk[c] # disk[c] PROVE Stores(q, mem, head, c)
    <3>1. /\ chain # <<>> /\ ~hdr.write /\ InRam(hdr.addr, 1) /\ mem[hdr.addr].type = "out"
          /\ c \in from .. (from + TotalLength(Tail(Front(chain))) - 1)
      BY <2>1, <2>6, <2>11, <2>12
    <3> QED
      BY <3>1 DEF Stores, chain, from
  <2> QED
    BY <2>10, <2>11, <2>12 DEF Gives, chain
<1> QED
  BY <1>3, <1>4

-----------------------------------------------------------------------------
(* The loop over the available ring                                        *)

\* The registers of a queue that a driver has programmed and started.
Aligned(q, l) ==
  q \in [num : {l.num}, ready : {TRUE}, desc : {l.desc}, avail : {l.avail}, used : {l.used},
         last_avail : 0 .. IndexModulus - 1, used_idx : 0 .. IndexModulus - 1]

(* The loop started with memory mem0 and r heads returned, and has got to  *)
(* the p-th of n.                                                          *)
Serving(t, l, kept, mem0, heads, s, r, n, p) ==
  /\ t \in [q : {t.q}, mem : {t.mem}, own : {t.own}, stop : {FALSE}, any_completed : {r < p}]
  /\ Aligned(t.q, l) /\ t.q.last_avail = (s + p) % IndexModulus /\ t.q.used_idx = (s + p) % IndexModulus
  /\ Kept(kept, mem0, t.mem) /\ RingOK(l, t.mem, heads, s, p, n) /\ r \in 0 .. p

\* What the loop may not touch: the table and the available ring at least.
Separate(kept, l) ==
  TableCells(l) \subseteq kept /\ AvailPart(l) \subseteq kept /\ kept \cap UsedPart(l) = {}

LEMMA CellsOfQueue ==
  ASSUME NEW q, NEW l, Aligned(q, l), NEW i
  PROVE  /\ AvailIdxCell(q) = AvailIdxCell(l) /\ AvailCell(q, i) = AvailCell(l, i)
         /\ UsedIdxCell(q) = UsedIdxCell(l) /\ UsedCell(q, i) = UsedCell(l, i)
         /\ TableCells(q) = TableCells(l)
  BY DEF Aligned, AvailIdxCell, AvailCell, UsedIdxCell, UsedCell, TableCells

\* The used element of a served head is published.
LEMMA CompleteReturns ==
  ASSUME NEW l, SoundLayout(l), NEW kept, Separate(kept, l), NEW mem0, NEW heads, NEW s, NEW r, NEW n, NEW p,
         NEW t, Serving(t, l, kept, mem0, heads, s, r, n, p), p # n,
         NEW head, head = t.mem[AvailCell(l, s + p)], NEW len
  PROVE  Serving(Complete(t, head, len), l, kept, mem0, heads, s, r, n, p + 1)
<1> DEFINE e == UsedCell(l, s + p)
           u == UsedIdxCell(l)
           next == (s + (p + 1)) % IndexModulus
           q2 == [t.q EXCEPT !.last_avail = next, !.used_idx = next]
           m1 == [t.mem EXCEPT ![e] = head, ![e + 1] = len]
           m2 == [m1 EXCEPT ![u] = next]
<1>1. /\ t \in [q : {t.q}, mem : {t.mem}, own : {t.own}, stop : {FALSE}, any_completed : {r < p}]
      /\ Aligned(t.q, l) /\ t.q.last_avail = (s + p) % IndexModulus /\ t.q.used_idx = (s + p) % IndexModulus
      /\ Kept(kept, mem0, t.mem) /\ RingOK(l, t.mem, heads, s, p, n) /\ r \in 0 .. p
  BY DEF Serving
<1>2. s \in Nat /\ p \in Nat /\ n \in Nat /\ p <= n /\ s + p \in Int /\ r \in Nat
  BY <1>1, RingIndices
<1>3. (((s + p) % IndexModulus) + 1) % IndexModulus = next /\ next \in 0 .. IndexModulus - 1
  <2>1. (((s + p) % IndexModulus) + 1) % IndexModulus = ((s + p) + 1) % IndexModulus
    <3>1. 1 \in Int
      OBVIOUS
    <3> QED
      BY <3>1, <1>2, RingNumbers, RemainderAdds, Zenon
  <2>2. (s + p) + 1 = s + (p + 1) /\ s + (p + 1) \in Int
    BY <1>2
  <2> QED
    BY <2>1, <2>2, RingNumbers
<1>4. UsedCell(t.q, t.q.used_idx) = e
  <2>1. UsedCell(t.q, t.q.used_idx) = UsedCell(l, (s + p) % IndexModulus)
    BY <1>1, CellsOfQueue
  <2> QED
    BY <2>1, <1>2, CellOfIndex
<1>5. /\ e \in UsedPart(l) /\ e + 1 \in UsedPart(l) /\ u \in UsedPart(l) /\ u \notin {e, e + 1}
      /\ InRam(e, 2) /\ InRam(u, 1)
  BY <1>2, CellsOf
<1>6. Aligned(q2, l) /\ q2.last_avail = next /\ q2.used_idx = next
  <2> HIDE DEF next
  <2> QED
    BY <1>1, <1>3 DEF Aligned
<1>7. UsedIdxCell(q2) = u
  <2> HIDE DEF q2
  <2> QED
    BY <1>6, CellsOfQueue
<1>8. Complete(t, head, len) = [t EXCEPT !.mem = m2, !.q = q2, !.any_completed = TRUE]
  <2>1. [t.q EXCEPT !.last_avail = (t.q.last_avail + 1) % IndexModulus,
                    !.used_idx = (t.q.used_idx + 1) % IndexModulus] = q2
    <3> HIDE DEF next
    <3> QED
      BY <1>1, <1>3
  <2> HIDE DEF e, u, next, q2
  <2> QED
    BY <2>1, <1>4, <1>5, <1>6, <1>7 DEF Complete
<1>9. /\ m2 = [c \in RamCells |-> m2[c]] /\ m2[u] = next /\ m2[e] = head
      /\ \A c \in RamCells \ {u, e, e + 1} : m2[c] = t.mem[c]
  <2>1. t.mem = [c \in RamCells |-> t.mem[c]] /\ {u, e, e + 1} \subseteq RamCells
    BY <1>1, <1>5, LayoutNumbers DEF Kept, SoundLayout
  <2>2. e \in Int
    BY <1>2, LayoutNumbers DEF UsedCell
  <2> HIDE DEF e, u, next
  <2>3. m1 = [c \in RamCells |-> IF c = e + 1 THEN len ELSE IF c = e THEN head ELSE t.mem[c]]
    BY <2>1, <2>2
  <2> HIDE DEF m1
  <2>4. m2 = [c \in RamCells |-> IF c = u THEN next ELSE m1[c]]
    BY <2>1, <2>3
  <2> HIDE DEF m2
  <2>5. e # e + 1
    BY <2>2
  <2> QED
    BY <2>1, <2>3, <2>4, <2>5, <1>5
<1> HIDE DEF m1, m2, q2, next
<1>10. Kept(kept, mem0, m2)
  BY <1>1, <1>5, <1>9 DEF Kept, Separate
<1>11. RingOK(l, m2, heads, s, p + 1, n)
  <2>1. AvailPart(l) \subseteq RamCells /\ UsedPart(l) \subseteq RamCells /\ AvailPart(l) \cap UsedPart(l) = {}
    BY LayoutNumbers DEF SoundLayout
  <2>2. /\ \A c \in AvailPart(l) : m2[c] = t.mem[c]
        /\ \A c \in UsedPart(l) \ {u, e, e + 1} : m2[c] = t.mem[c]
    BY <2>1, <1>5, <1>9
  <2>3. m2[UsedIdxCell(l)] = (s + (p + 1)) % IndexModulus /\ m2[UsedCell(l, s + p)] = t.mem[AvailCell(l, s + p)]
    BY <1>9 DEF next
  <2> QED
    BY <2>2, <2>3, <1>1, RingServe
<1>12. r \in 0 .. p + 1 /\ r < p + 1
  BY <1>1, <1>2
<1> QED
  BY <1>1, <1>6, <1>8, <1>10, <1>11, <1>12 DEF Serving, next

\* A step that changes neither the table nor the rings.
LEMMA ServingKept ==
  ASSUME NEW l, SoundLayout(l), NEW kept, Separate(kept, l), NEW mem0, NEW heads, NEW s, NEW r, NEW n, NEW p,
         NEW t, Serving(t, l, kept, mem0, heads, s, r, n, p),
         NEW mem, Kept(kept \cup UsedPart(l), t.mem, mem), NEW own
  PROVE  Serving([t EXCEPT !.mem = mem, !.own = own], l, kept, mem0, heads, s, r, n, p)
<1>1. /\ t \in [q : {t.q}, mem : {t.mem}, own : {t.own}, stop : {FALSE}, any_completed : {r < p}]
      /\ Aligned(t.q, l) /\ t.q.last_avail = (s + p) % IndexModulus /\ t.q.used_idx = (s + p) % IndexModulus
      /\ Kept(kept, mem0, t.mem) /\ RingOK(l, t.mem, heads, s, p, n) /\ r \in 0 .. p
  BY DEF Serving
<1>2. Kept(kept, mem0, mem)
  BY <1>1 DEF Kept
<1>3. RingOK(l, mem, heads, s, p, n)
  <2>1. RingCells(l) \subseteq kept \cup UsedPart(l)
    BY LayoutNumbers DEF Separate
  <2>2. \A c \in RingCells(l) : mem[c] = t.mem[c]
    BY <2>1 DEF Kept
  <2> QED
    BY <2>2, <1>1, RingSame
<1> QED
  BY <1>1, <1>2, <1>3 DEF Serving

\* A driver's table stays sound while the cells of its queue stay.
LEMMA TableKept ==
  ASSUME NEW l, NEW q, TableCells(q) = TableCells(l), NEW kept, TableCells(l) \subseteq kept, NEW mem, NEW mem2,
         \A c \in TableCells(l) : mem2[c] = mem[c], NEW cells, SoundTable(l, mem, cells)
  PROVE  SoundTable(q, mem2, cells)
  BY DEF SoundTable

LEMMA ServeRequestReturns ==
  ASSUME NEW l, SoundLayout(l), NEW kept, Separate(kept, l), NEW mem0, NEW heads, NEW s, NEW r, NEW n, NEW p,
         NEW t, Serving(t, l, kept, mem0, heads, s, r, n, p), p # n,
         SoundTable(l, mem0, kept \cup UsedPart(l)), heads \subseteq Nat
  PROVE  Serving(ServeRequest(t, t.mem[AvailCell(l, s + p)]), l, kept, mem0, heads, s, r, n, p + 1)
<1> DEFINE head == t.mem[AvailCell(l, s + p)]
           request == ProcessRequest(t.q, t.mem, t.own, head)
           t2 == [t EXCEPT !.mem = request.mem, !.own = request.disk]
           all == kept \cup UsedPart(l)
<1>1. Aligned(t.q, l) /\ Kept(kept, mem0, t.mem) /\ RingOK(l, t.mem, heads, s, p, n)
      /\ t \in [q : {t.q}, mem : {t.mem}, own : {t.own}, stop : {FALSE}, any_completed : {r < p}]
  BY DEF Serving
<1>2. s \in Nat /\ p \in 0 .. n - 1 /\ s + p \in Int
  BY <1>1, RingIndices
<1>3. head \in Nat
  BY <1>1, <1>2 DEF RingOK
<1>4. Kept(all, t.mem, t.mem)
  <2>1. UsedPart(l) \subseteq RamCells
    BY LayoutNumbers DEF SoundLayout
  <2> QED
    BY <2>1, <1>1 DEF Kept
<1>5. SoundTable(t.q, t.mem, all)
  <2>1. TableCells(t.q) = TableCells(l)
    BY <1>1, CellsOfQueue
  <2>2. TableCells(l) \subseteq kept /\ \A c \in TableCells(l) : t.mem[c] = mem0[c]
    BY <1>1 DEF Separate, Kept
  <2> QED
    BY <2>1, <2>2, TableKept
<1>6. t.q.num \in Nat \ {0} /\ t.q.desc \in Nat
  BY <1>1, LayoutNumbers DEF Aligned
<1>7. Kept(all, t.mem, request.mem)
  <2> HIDE DEF head, all
  <2> QED
    BY <1>3, <1>4, <1>5, <1>6, ProcessRequestKeeps
<1>8. Serving(t2, l, kept, mem0, heads, s, r, n, p)
  <2> HIDE DEF request
  <2> QED
    BY <1>7, ServingKept, Zenon
<1>9. t2.mem[AvailCell(l, s + p)] = head
  <2>1. t2.mem = request.mem
    <3> HIDE DEF request
    <3> QED
      BY <1>1
  <2>2. AvailCell(l, s + p) \in all
    BY <1>2, CellsOf DEF Separate
  <2> HIDE DEF request, t2
  <2> QED
    BY <2>1, <2>2, <1>7 DEF Kept
<1>10. ServeRequest(t, head) = Complete(t2, head, request.len)
  <2> HIDE DEF request
  <2> QED
    BY DEF ServeRequest, With, request
<1> HIDE DEF t2, request, head
<1>11. Serving(Complete(t2, head, request.len), l, kept, mem0, heads, s, r, n, p + 1)
  BY <1>8, <1>9, CompleteReturns
<1> QED
  BY <1>10, <1>11 DEF head

\* Where the device is at the end of what the driver has published.
LEMMA AtTheEnd ==
  ASSUME NEW l, SoundLayout(l), NEW mem, NEW heads, NEW s, NEW p, NEW n, RingOK(l, mem, heads, s, p, n)
  PROVE  (s + p) % IndexModulus = (s + n) % IndexModulus <=> p = n
<1>1. s \in Nat /\ n \in Nat /\ p \in Nat /\ p <= n /\ n < IndexModulus
  BY RingIndices
<1>2. IndexModulus \in Nat \ {0} /\ n - p < IndexModulus
  BY <1>1, RingNumbers
<1>3. (((s + n) % IndexModulus) - ((s + p) % IndexModulus)) % IndexModulus = n - p
  BY <1>1, <1>2, Behind, ZenonT(60)
<1>4. ASSUME (s + p) % IndexModulus = (s + n) % IndexModulus PROVE p = n
  <2>1. (s + n) % IndexModulus \in Int
    BY <1>1, <1>2
  <2>2. 0 % IndexModulus = n - p
    <3> DEFINE x == (s + n) % IndexModulus
    <3>1. (x - x) % IndexModulus = n - p
      BY <1>3, <1>4
    <3> HIDE DEF x
    <3>2. x - x = 0
      BY <2>1 DEF x
    <3> QED
      BY <3>1, <3>2
  <2> QED
    BY <2>2, <1>1, <1>2
<1> QED
  BY <1>4

LEMMA ServingStarts ==
  ASSUME NEW l, SoundLayout(l), NEW kept, kept \subseteq RamCells, NEW mem, mem = [c \in RamCells |-> mem[c]],
         NEW heads, NEW s, NEW r, NEW n, RingOK(l, mem, heads, s, r, n),
         NEW q, Aligned(q, l), q.last_avail = (s + r) % IndexModulus, q.used_idx = (s + r) % IndexModulus,
         NEW own
  PROVE  /\ Serving(LoopStart(q, mem, own), l, kept, mem, heads, s, r, n, r)
         /\ Usable(q) /\ InRam(AvailIdxCell(q), 1) /\ mem[AvailIdxCell(q)] = (s + n) % IndexModulus
<1>1. r \in Nat
  BY RingIndices
<1>2. r \in 0 .. r /\ (r < r) = FALSE
  BY <1>1
<1>3. LoopStart(q, mem, own)
        \in [q : {q}, mem : {mem}, own : {own}, stop : {FALSE}, any_completed : {FALSE}]
  BY DEF LoopStart
<1>4. Kept(kept, mem, mem)
  BY DEF Kept
<1>5. Serving(LoopStart(q, mem, own), l, kept, mem, heads, s, r, n, r)
  <2> DEFINE t == LoopStart(q, mem, own)
  <2>1. t.q = q /\ t.mem = mem /\ t.own = own
    BY <1>3
  <2> HIDE DEF t
  <2> QED
    BY <2>1, <1>2, <1>3, <1>4 DEF Serving, t
<1>6. Usable(q)
  BY LayoutNumbers DEF Usable, Aligned
<1>7. AvailIdxCell(q) = AvailIdxCell(l)
  BY CellsOfQueue
<1>8. InRam(AvailIdxCell(l), 1)
  <2>1. s \in Int
    BY RingIndices
  <2> QED
    BY <2>1, CellsOf
<1>9. mem[AvailIdxCell(l)] = (s + n) % IndexModulus
  BY DEF RingOK
<1> QED
  BY <1>5, <1>6, <1>7, <1>8, <1>9

\* One turn of the loop, when the device has got to the p-th head.
LEMMA ServingHead ==
  ASSUME NEW l, SoundLayout(l), NEW kept, NEW mem0, NEW heads, NEW s, NEW r, NEW n, NEW p,
         NEW t, Serving(t, l, kept, mem0, heads, s, r, n, p)
  PROVE  /\ ~t.stop /\ (t.q.last_avail = (s + n) % IndexModulus <=> p = n)
         /\ AvailCell(t.q, t.q.last_avail) = AvailCell(l, s + p)
         /\ InRam(AvailCell(t.q, t.q.last_avail), 1)
<1>1. /\ t \in [q : {t.q}, mem : {t.mem}, own : {t.own}, stop : {FALSE}, any_completed : {r < p}]
      /\ Aligned(t.q, l) /\ t.q.last_avail = (s + p) % IndexModulus /\ RingOK(l, t.mem, heads, s, p, n)
  BY DEF Serving
<1>2. t.q.last_avail = (s + n) % IndexModulus <=> p = n
  BY <1>1, AtTheEnd
<1>3. s + p \in Int
  BY <1>1, RingIndices
<1>4. AvailCell(t.q, t.q.last_avail) = AvailCell(l, s + p)
  <2>1. AvailCell(t.q, t.q.last_avail) = AvailCell(l, (s + p) % IndexModulus)
    BY <1>1, CellsOfQueue
  <2> QED
    BY <2>1, <1>3, CellOfIndex
<1>5. InRam(AvailCell(l, s + p), 1)
  BY <1>3, CellsOf
<1> QED
  BY <1>1, <1>2, <1>4, <1>5

\* The states of the loop, from one head to the next.
Turns(after, dev, l, kept, mem, heads, s, r, n) ==
  /\ after[0] = LoopStart(dev.queue, mem, dev.disk) /\ ProcessQueue(dev, mem) = after[n - r]
  /\ \A k \in 0 .. n - r : Serving(after[k], l, kept, mem, heads, s, r, n, r + k)
  /\ \A k \in 0 .. n - r - 1 :
       after[k + 1] = ServeRequest(after[k], after[k].mem[AvailCell(l, s + (r + k))])

\* A notification serves the heads that are in flight, one after the other.
LEMMA BlkTurns ==
  ASSUME NEW l, SoundLayout(l), NEW kept, Separate(kept, l), kept \subseteq RamCells,
         NEW mem, mem = [c \in RamCells |-> mem[c]], SoundTable(l, mem, kept \cup UsedPart(l)),
         NEW heads, heads \subseteq Nat, NEW s, NEW r, NEW n, RingOK(l, mem, heads, s, r, n),
         NEW dev, Aligned(dev.queue, l),
         dev.queue.last_avail = (s + r) % IndexModulus, dev.queue.used_idx = (s + r) % IndexModulus
  PROVE  \E after : Turns(after, dev, l, kept, mem, heads, s, r, n)
<1> DEFINE first == LoopStart(dev.queue, mem, dev.disk)
           end == (s + n) % IndexModulus
           step(t) ==
             IF t.stop \/ t.q.last_avail = first.mem[AvailIdxCell(first.q)] THEN t
             ELSE IF ~InRam(AvailCell(t.q, t.q.last_avail), 1) THEN [t EXCEPT !.stop = TRUE]
             ELSE ServeRequest(t, t.mem[AvailCell(t.q, t.q.last_avail)])
           last == IndexModulus - 1
           After(g, k) == IF k = 0 THEN first ELSE With(g[k - 1], step)
           IsAfter(g) == g = [k \in 0 .. last |-> After(g, k)]
           after == CHOOSE g : IsAfter(g)
           Holds(k) == k <= last => \E g : g = [j \in 0 .. k |-> After(g, j)]
           Reached(t, p) == Serving(t, l, kept, mem, heads, s, r, n, p)
<1>0. last \in Nat /\ r \in Nat /\ n \in Nat /\ r <= n /\ n <= last
  BY RingIndices, RingNumbers
<1>a. first.q = dev.queue /\ first.mem = mem
  BY DEF LoopStart
<1>1. ProcessQueue(dev, mem)
        = IF Usable(first.q) /\ InRam(AvailIdxCell(first.q), 1) THEN after[last] ELSE first
  BY DEF ProcessQueue, ServeRing
<1>b. /\ Reached(first, r) /\ Usable(dev.queue) /\ InRam(AvailIdxCell(dev.queue), 1)
      /\ mem[AvailIdxCell(dev.queue)] = end
  <2> DEFINE q == dev.queue
             own == dev.disk
  <2>1. Aligned(q, l) /\ q.last_avail = (s + r) % IndexModulus /\ q.used_idx = (s + r) % IndexModulus
    OBVIOUS
  <2> HIDE DEF q, own
  <2>2. /\ Serving(LoopStart(q, mem, own), l, kept, mem, heads, s, r, n, r)
        /\ Usable(q) /\ InRam(AvailIdxCell(q), 1) /\ mem[AvailIdxCell(q)] = (s + n) % IndexModulus
    BY <2>1, ServingStarts
  <2> QED
    BY <2>2 DEF q, own
<1>c. ASSUME NEW t, NEW p, Reached(t, p)
      PROVE  \/ p = n /\ step(t) = t
             \/ /\ p # n /\ Reached(step(t), p + 1)
                /\ step(t) = ServeRequest(t, t.mem[AvailCell(l, s + p)])
  <2>1. /\ ~t.stop /\ (t.q.last_avail = end <=> p = n)
        /\ AvailCell(t.q, t.q.last_avail) = AvailCell(l, s + p)
        /\ InRam(AvailCell(t.q, t.q.last_avail), 1)
    BY <1>c, ServingHead
  <2>2. first.mem[AvailIdxCell(first.q)] = end
    BY <1>a, <1>b
  <2>3. p # n => Reached(ServeRequest(t, t.mem[AvailCell(l, s + p)]), p + 1)
    BY <1>c, ServeRequestReturns
  <2> HIDE DEF first, end, Reached
  <2> QED
    BY <2>1, <2>2, <2>3
<1> HIDE DEF After, last, first, step, Reached
<1>2. Holds(0)
  <2> DEFINE g == [k \in 0 .. 0 |-> first]
  <2>1. \A k \in 0 .. 0 : g[k] = After(g, k)
    BY DEF After
  <2>2. g = [k \in 0 .. 0 |-> g[k]]
    OBVIOUS
  <2> HIDE DEF g
  <2>3. g = [k \in 0 .. 0 |-> After(g, k)]
    BY <2>1, <2>2
  <2> QED
    BY <2>3
<1>3. ASSUME NEW m \in Nat, Holds(m) PROVE Holds(m + 1)
  <2> SUFFICES ASSUME m + 1 <= last PROVE \E g : g = [k \in 0 .. m + 1 |-> After(g, k)]
    OBVIOUS
  <2>1. PICK g : g = [k \in 0 .. m |-> After(g, k)]
    BY <1>0, <1>3
  <2> DEFINE h == [k \in 0 .. m + 1 |-> IF k = m + 1 THEN After(g, k) ELSE g[k]]
  <2>2. \A k \in 0 .. m + 1 : h[k] = After(h, k)
    <3> TAKE k \in 0 .. m + 1
    <3>1. k # 0 => h[k - 1] = g[k - 1]
      OBVIOUS
    <3>2. h[k] = After(g, k)
      BY <2>1
    <3> HIDE DEF h
    <3> QED
      BY <3>1, <3>2 DEF After
  <2>3. h = [k \in 0 .. m + 1 |-> h[k]]
    OBVIOUS
  <2> HIDE DEF h
  <2>4. h = [k \in 0 .. m + 1 |-> After(h, k)]
    BY <2>2, <2>3
  <2> QED
    BY <2>4
<1>4. IsAfter(after)
  <2> DEFINE S == {k \in Nat : Holds(k)}
  <2> HIDE DEF Holds
  <2>1. \A k \in Nat : k \in S
    <3>1. 0 \in S
      BY <1>2
    <3>2. \A k \in Nat : k \in S => k + 1 \in S
      BY <1>3
    <3> HIDE DEF S
    <3> QED
      BY <3>1, <3>2, Inductive
  <2>2. Holds(last)
    BY <2>1, <1>0
  <2>3. \E g : IsAfter(g)
    BY <2>2, <1>0 DEF Holds
  <2> QED
    BY <2>3
<1> HIDE DEF after
<1>5. \A k \in 0 .. last : after[k] = After(after, k)
  BY <1>4
<1>6. after[0] = first
  <2>1. 0 \in 0 .. last
    BY <1>0
  <2> QED
    BY <2>1, <1>5 DEF After
<1>7. ASSUME NEW k \in Nat, k + 1 <= last PROVE after[k + 1] = step(after[k])
  <2>1. k + 1 \in 0 .. last /\ k + 1 # 0 /\ k + 1 - 1 = k
    BY <1>0, <1>7
  <2>2. after[k + 1] = After(after, k + 1)
    BY <1>5, <2>1
  <2> QED
    BY <2>1, <2>2 DEF After, With
<1>8. ASSUME NEW k \in 0 .. n - r PROVE Reached(after[k], r + k)
  <2> DEFINE S == {j \in Nat : j <= n - r => Reached(after[j], r + j)}
  <2>1. 0 \in S
    BY <1>0, <1>6, <1>b
  <2>2. ASSUME NEW j \in Nat, j \in S PROVE j + 1 \in S
    <3> SUFFICES ASSUME j + 1 <= n - r PROVE Reached(after[j + 1], r + (j + 1))
      OBVIOUS
    <3>1. Reached(after[j], r + j) /\ r + j # n /\ r + (j + 1) = (r + j) + 1 /\ j + 1 <= last
      BY <2>2, <1>0
    <3> QED
      BY <3>1, <1>7, <1>c
  <2> HIDE DEF S
  <2>3. \A j \in Nat : j \in S
    BY <2>1, <2>2, Inductive
  <2>4. k \in S /\ k \in Nat /\ k <= n - r
    BY <2>3, <1>0
  <2> QED
    BY <2>4 DEF S
<1>9. ASSUME NEW k \in 0 .. n - r - 1
      PROVE  after[k + 1] = ServeRequest(after[k], after[k].mem[AvailCell(l, s + (r + k))])
  <2>1. k \in 0 .. n - r /\ r + k # n /\ k \in Nat /\ k + 1 <= last
    BY <1>0
  <2>2. Reached(after[k], r + k)
    BY <2>1, <1>8
  <2> QED
    BY <2>1, <2>2, <1>7, <1>c
<1>10. after[last] = after[n - r]
  <2> DEFINE S == {j \in Nat : n - r + j <= last => after[n - r + j] = after[n - r]}
  <2>1. 0 \in S
    BY <1>0
  <2>2. ASSUME NEW j \in Nat, j \in S PROVE j + 1 \in S
    <3> SUFFICES ASSUME n - r + (j + 1) <= last PROVE after[n - r + (j + 1)] = after[n - r]
      OBVIOUS
    <3>1. /\ n - r \in 0 .. n - r /\ r + (n - r) = n
          /\ n - r + (j + 1) = (n - r + j) + 1 /\ n - r + j \in Nat /\ (n - r + j) + 1 <= last
          /\ after[n - r + j] = after[n - r]
      BY <2>2, <1>0
    <3>2. Reached(after[n - r], n)
      BY <3>1, <1>8
    <3>3. step(after[n - r]) = after[n - r]
      BY <3>2, <1>c
    <3> QED
      BY <3>1, <3>3, <1>7
  <2> HIDE DEF S
  <2>3. \A j \in Nat : j \in S
    BY <2>1, <2>2, Inductive
  <2>4. last - (n - r) \in Nat /\ n - r + (last - (n - r)) = last
    BY <1>0
  <2>5. last - (n - r) \in S
    BY <2>3, <2>4
  <2> QED
    BY <2>4, <2>5, <1>0 DEF S
<1>11. ProcessQueue(dev, mem) = after[n - r]
  BY <1>1, <1>10, <1>a, <1>b
<1> QED
  BY <1>6, <1>8, <1>9, <1>11 DEF Turns, Reached, first

\* A notification returns all the heads that are in flight.
LEMMA BlkServed ==
  ASSUME NEW l, SoundLayout(l), NEW kept, Separate(kept, l), kept \subseteq RamCells,
         NEW mem, mem = [c \in RamCells |-> mem[c]], SoundTable(l, mem, kept \cup UsedPart(l)),
         NEW heads, heads \subseteq Nat, NEW s, NEW r, NEW n, RingOK(l, mem, heads, s, r, n),
         NEW dev, Aligned(dev.queue, l),
         dev.queue.last_avail = (s + r) % IndexModulus, dev.queue.used_idx = (s + r) % IndexModulus
  PROVE  Serving(ProcessQueue(dev, mem), l, kept, mem, heads, s, r, n, n)
<1>1. PICK after : Turns(after, dev, l, kept, mem, heads, s, r, n)
  BY BlkTurns
<1>2. n - r \in 0 .. n - r /\ r + (n - r) = n
  BY RingIndices
<1> QED
  BY <1>1, <1>2 DEF Turns

-----------------------------------------------------------------------------
(* What a notification of the block device writes                          *)

RingWritten(q, c) ==
  \/ c = UsedIdxCell(q)
  \/ \E i \in 0 .. (q.num - 1) : c - UsedCell(q, i) \in {0, 1}

LEMMA CompleteWrites ==
  ASSUME NEW l, SoundLayout(l),
         NEW t, t \in [q : {t.q}, mem : {t.mem}, own : {t.own}, stop : {t.stop},
                    any_completed : {t.any_completed}],
         Aligned(t.q, l), t.mem = [c \in RamCells |-> t.mem[c]], NEW head, NEW len,
         NEW t2, t2 = Complete(t, head, len)
  PROVE  t2.own = t.own /\ \A c \in RamCells : t2.mem[c] # t.mem[c] => RingWritten(l, c)
<1> DEFINE e == UsedCell(t.q, t.q.used_idx)
           q2 == [t.q EXCEPT !.last_avail = (@ + 1) % IndexModulus, !.used_idx = (@ + 1) % IndexModulus]
           u == UsedIdxCell(q2)
           m1 == IF InRam(e, 2) THEN [t.mem EXCEPT ![e] = head, ![e + 1] = len]
                 ELSE IF InRam(e, 1) THEN [t.mem EXCEPT ![e] = head] ELSE t.mem
           m2 == [m1 EXCEPT ![u] = q2.used_idx]
<1>1. l.num \in Nat \ {0} /\ l.used \in Nat /\ IndexModulus \in Nat \ {0}
  BY LayoutNumbers, RingNumbers
<1>2. t.q.used_idx \in 0 .. IndexModulus - 1 /\ t.q.num = l.num /\ t.q.used = l.used
  BY DEF Aligned
<1>3. u = UsedIdxCell(l)
  <2>1. q2.used = l.used
    BY <1>2 DEF Aligned
  <2> HIDE DEF q2
  <2> QED
    BY <2>1 DEF UsedIdxCell
<1>4. e \in Int /\ RingWritten(l, e) /\ RingWritten(l, e + 1) /\ RingWritten(l, u)
  <2> DEFINE i == t.q.used_idx % l.num
  <2>1. i \in 0 .. l.num - 1 /\ i % l.num = i
    <3>1. i \in 0 .. l.num - 1
      BY <1>1, <1>2
    <3> HIDE DEF i
    <3> QED
      BY <3>1, <1>1, RemainderOfSmall
  <2>2. e = l.used + 2 + 2 * i
    BY <1>2 DEF UsedCell
  <2> HIDE DEF i
  <2>3. UsedCell(l, i) = l.used + 2 + 2 * i
    BY <2>1 DEF UsedCell
  <2>4. e \in Int /\ e - UsedCell(l, i) = 0 /\ (e + 1) - UsedCell(l, i) = 1
    <3> HIDE DEF e
    <3> QED
      BY <1>1, <2>1, <2>2, <2>3
  <2> QED
    BY <2>1, <2>4, <1>3 DEF RingWritten
<1>5. t2.own = t.own /\ t2.mem \in {m1, m2}
  <2> HIDE DEF e, q2, u, m1
  <2> DEFINE m3 == [m1 EXCEPT ![u] = q2.used_idx]
  <2>1. t2 \in {[t EXCEPT !.mem = m1, !.stop = TRUE], [t EXCEPT !.mem = m1, !.q = q2, !.stop = TRUE],
                [t EXCEPT !.mem = m3, !.q = q2, !.any_completed = TRUE]}
    BY DEF Complete, e, q2, u, m1
  <2> HIDE DEF m3
  <2>2. t2.own = t.own /\ t2.mem \in {m1, m3}
    BY <2>1
  <2> QED
    BY <2>2 DEF m3
<1> HIDE DEF e, q2, u
<1>6. \A c \in RamCells : c # e /\ c # e + 1 => m1[c] = t.mem[c]
  OBVIOUS
<1>7. \A c \in RamCells : c # u => m2[c] = m1[c]
  <2>1. DOMAIN t.mem = RamCells
    OBVIOUS
  <2>2. DOMAIN m1 = RamCells
    BY <2>1
  <2> HIDE DEF m1
  <2> QED
    BY <2>2
<1> HIDE DEF m1, m2
<1> QED
  BY <1>4, <1>5, <1>6, <1>7

\* One turn writes the used ring, and what the request writes.
LEMMA TurnWrites ==
  ASSUME NEW l, SoundLayout(l), NEW kept, NEW mem0, NEW heads, NEW s, NEW r, NEW n, NEW p,
         NEW t, Serving(t, l, kept, mem0, heads, s, r, n, p),
         SoundTable(t.q, t.mem, {}), NEW head \in Nat,
         NEW request, request = ProcessRequest(t.q, t.mem, t.own, head),
         NEW t2, t2 = ServeRequest(t, head)
  PROVE  /\ t2.own = request.disk
         /\ \A c \in RamCells : t2.mem[c] # t.mem[c] => RingWritten(l, c) \/ request.mem[c] # t.mem[c]
<1> DEFINE t1 == [t EXCEPT !.mem = request.mem, !.own = request.disk]
<1>1. /\ t \in [q : {t.q}, mem : {t.mem}, own : {t.own}, stop : {FALSE}, any_completed : {r < p}]
      /\ Aligned(t.q, l) /\ t.mem = [c \in RamCells |-> t.mem[c]]
  BY DEF Serving, Kept
<1>2. t.q.num \in Nat \ {0} /\ t.q.desc \in Nat
  BY <1>1, LayoutNumbers DEF Aligned
<1>3. Kept({}, t.mem, request.mem)
  <2>1. Kept({}, t.mem, t.mem)
    BY <1>1 DEF Kept
  <2> QED
    BY <2>1, <1>2, ProcessRequestKeeps
<1>4. /\ t1 \in [q : {t.q}, mem : {request.mem}, own : {request.disk}, stop : {t1.stop},
               any_completed : {t1.any_completed}]
      /\ t1.q = t.q /\ t1.mem = request.mem /\ t1.own = request.disk
  BY <1>1
<1>5. t2 = Complete(t1, head, request.len)
  BY DEF ServeRequest, With
<1> HIDE DEF t1
<1>6. request.mem = [c \in RamCells |-> request.mem[c]]
  BY <1>3 DEF Kept
<1>7. t2.own = t1.own /\ \A c \in RamCells : t2.mem[c] # t1.mem[c] => RingWritten(l, c)
  BY <1>1, <1>4, <1>5, <1>6, CompleteWrites
<1> QED
  BY <1>4, <1>7

\* Of a driver's chains: their headers are kept, and name a sector.
HeadersIn(kept, l, mem, heads) ==
  \A h \in heads : LET d == mem[l.desc + h] IN
    ~d.write /\ InRam(d.addr, 1) => d.addr \in kept /\ mem[d.addr].sector \in Nat

\* Chains, and what they give, are the same while the table and the headers are.
SameChain(l, mem, q, mem2, head) ==
  LET d == mem[l.desc + head] IN
    /\ mem2[q.desc + head] = d
    /\ \A c : Gives(q, mem2, head, c) <=> Gives(l, mem, head, c)
    /\ ~d.write => \A c : Stores(q, mem2, head, c) <=> Stores(l, mem, head, c)
    /\ ~d.write /\ InRam(d.addr, 1) => mem2[d.addr].sector \in Nat

LEMMA GivesSame ==
  ASSUME NEW l, SoundLayout(l), NEW kept, TableCells(l) \subseteq kept, NEW mem, SoundTable(l, mem, {}),
         NEW heads, heads \subseteq 0 .. l.num - 1, HeadersIn(kept, l, mem, heads), NEW head \in heads,
         NEW q, Aligned(q, l), NEW mem2, Kept(kept, mem, mem2)
  PROVE  SameChain(l, mem, q, mem2, head)
<1>1. l.num \in Nat \ {0} /\ l.desc \in Nat /\ q.num = l.num /\ q.desc = l.desc /\ head \in Nat
  BY LayoutNumbers DEF Aligned
<1>2. \A c \in TableCells(l) : mem2[c] = mem[c] /\ mem[c].next \in Nat \cup {-1}
  BY DEF Kept, SoundTable
<1>3. Chain(q, mem2, head) = Chain(l, mem, head)
  BY <1>1, <1>2, ChainSame
<1>4. mem2[q.desc + head] = mem[l.desc + head]
  <2>1. l.desc + head \in TableCells(l)
    BY <1>1 DEF TableCells
  <2> QED
    BY <2>1, <1>1, <1>2
<1> DEFINE d == mem[l.desc + head]
<1>5. ~d.write /\ InRam(d.addr, 1) => mem2[d.addr] = mem[d.addr] /\ mem[d.addr].sector \in Nat
  BY DEF Kept, HeadersIn
<1>6. ASSUME NEW c PROVE Gives(q, mem2, head, c) <=> Gives(l, mem, head, c)
  BY <1>3 DEF Gives
<1>7. ASSUME ~d.write, NEW c PROVE Stores(q, mem2, head, c) <=> Stores(l, mem, head, c)
  <2>1. CASE InRam(d.addr, 1)
    <3>1. mem2[d.addr] = mem[d.addr]
      BY <1>5, <1>7, <2>1
    <3> HIDE DEF d
    <3>2. mem[l.desc + head] = d /\ mem2[q.desc + head] = d
      BY <1>4 DEF d
    <3> QED
      BY <3>1, <3>2, <1>3 DEF Stores
  <2>2. CASE ~InRam(d.addr, 1)
    <3> HIDE DEF d
    <3>1. mem[l.desc + head] = d /\ mem2[q.desc + head] = d
      BY <1>4 DEF d
    <3> QED
      BY <3>1, <2>2 DEF Stores
  <2> QED
    BY <2>1, <2>2
<1> QED
  BY <1>4, <1>5, <1>6, <1>7 DEF SameChain

(* What the loop has written since it started, up to the p-th head: the    *)
(* used ring, and what the chains it has served give to the device.        *)
Written(dev, l, mem, s, r, p, t) ==
  /\ t.own = [c \in DiskCells |-> t.own[c]]
  /\ \A c \in RamCells : t.mem[c] # mem[c] =>
       RingWritten(l, c) \/ \E k \in r .. p - 1 : Gives(l, mem, mem[AvailCell(l, s + k)], c)
  /\ \A c \in DiskCells : t.own[c] # dev.disk[c] =>
       \E k \in r .. p - 1 : Stores(l, mem, mem[AvailCell(l, s + k)], c)

LEMMA TurnWritten ==
  ASSUME NEW l, SoundLayout(l), NEW kept, Separate(kept, l), NEW mem, SoundTable(l, mem, {}),
         NEW heads, heads \subseteq 0 .. l.num - 1, HeadersIn(kept, l, mem, heads),
         NEW s, NEW r, NEW n, NEW p, NEW t, Serving(t, l, kept, mem, heads, s, r, n, p), p # n,
         NEW dev, Written(dev, l, mem, s, r, p, t),
         NEW t2, t2 = ServeRequest(t, t.mem[AvailCell(l, s + p)])
  PROVE  Written(dev, l, mem, s, r, p + 1, t2)
<1> DEFINE head == mem[AvailCell(l, s + p)]
           request == ProcessRequest(t.q, t.mem, t.own, head)
           hdr == t.mem[t.q.desc + head]
<1>1. Aligned(t.q, l) /\ Kept(kept, mem, t.mem) /\ RingOK(l, t.mem, heads, s, p, n) /\ r \in 0 .. p
  BY DEF Serving
<1>2. s \in Nat /\ p \in Nat /\ p \in 0 .. n - 1 /\ s + p \in Int /\ r \in Nat /\ r <= p
  BY <1>1, RingIndices
<1>3. t.mem[AvailCell(l, s + p)] = head /\ head \in heads
  <2>1. AvailCell(l, s + p) \in AvailPart(l)
    BY <1>2, CellsOf
  <2>2. t.mem[AvailCell(l, s + p)] = mem[AvailCell(l, s + p)]
    BY <2>1, <1>1 DEF Separate, Kept
  <2>3. t.mem[AvailCell(l, s + p)] \in heads
    BY <1>1, <1>2 DEF RingOK
  <2> QED
    BY <2>2, <2>3
<1>4. TableCells(l) \subseteq kept
  BY DEF Separate
<1> HIDE DEF head
<1>5. /\ \A c : Gives(t.q, t.mem, head, c) <=> Gives(l, mem, head, c)
      /\ ~mem[l.desc + head].write => \A c : Stores(t.q, t.mem, head, c) <=> Stores(l, mem, head, c)
      /\ hdr = mem[l.desc + head]
      /\ ~hdr.write /\ InRam(hdr.addr, 1) => t.mem[hdr.addr].sector \in Nat
  <2> HIDE DEF hdr
  <2>1. SameChain(l, mem, t.q, t.mem, head)
    BY <1>1, <1>3, <1>4, GivesSame
  <2> QED
    BY <2>1 DEF hdr, SameChain
<1>6. t.q.num \in Nat \ {0} /\ t.q.desc \in Nat /\ head \in Nat
  <2>1. l.num \in Nat \ {0} /\ l.desc \in Nat /\ t.q.num = l.num /\ t.q.desc = l.desc
    BY <1>1, LayoutNumbers DEF Aligned
  <2>2. head \in 0 .. l.num - 1
    BY <1>3
  <2> QED
    BY <2>1, <2>2
<1>7. SoundTable(t.q, t.mem, {})
  <2>1. TableCells(t.q) = TableCells(l)
    BY <1>1, CellsOfQueue
  <2>2. \A c \in TableCells(l) : t.mem[c] = mem[c]
    BY <1>1, <1>4 DEF Kept
  <2> QED
    BY <2>1, <2>2, <1>4, TableKept
<1>8. t.mem = [c \in RamCells |-> t.mem[c]] /\ t.own = [c \in DiskCells |-> t.own[c]]
  BY <1>1 DEF Kept, Written
<1> HIDE DEF hdr
<1>9. /\ \A c \in RamCells : request.mem[c] # t.mem[c] => Gives(t.q, t.mem, head, c)
      /\ request.disk = [c \in DiskCells |-> request.disk[c]]
      /\ \A c \in DiskCells : request.disk[c] # t.own[c] => Stores(t.q, t.mem, head, c)
  <2> DEFINE q == t.q
             m == t.mem
             disk == t.own
  <2>1. hdr = m[q.desc + head] /\ request = ProcessRequest(q, m, disk, head)
    BY DEF hdr
  <2>2. /\ q.num \in Nat \ {0} /\ q.desc \in Nat /\ head \in Nat /\ SoundTable(q, m, {})
        /\ m = [c \in RamCells |-> m[c]] /\ disk = [c \in DiskCells |-> disk[c]]
        /\ ~hdr.write /\ InRam(hdr.addr, 1) => m[hdr.addr].sector \in Nat
    BY <1>5, <1>6, <1>7, <1>8
  <2> HIDE DEF request, q, m, disk
  <2>3. /\ \A c \in RamCells : request.mem[c] # m[c] => Gives(q, m, head, c)
        /\ request.disk = [c \in DiskCells |-> request.disk[c]]
        /\ \A c \in DiskCells : request.disk[c] # disk[c] => Stores(q, m, head, c)
    BY <2>1, <2>2, RequestWrites
  <2> QED
    BY <2>3 DEF q, m, disk
<1>10. hdr.write => request.disk = t.own
  BY <1>6, Zenon DEF ProcessRequest, hdr
<1>11. /\ t2.own = request.disk
       /\ \A c \in RamCells : t2.mem[c] # t.mem[c] => RingWritten(l, c) \/ request.mem[c] # t.mem[c]
  <2> HIDE DEF request
  <2>1. request = ProcessRequest(t.q, t.mem, t.own, head) /\ t2 = ServeRequest(t, head)
    BY <1>3 DEF request
  <2> QED
    BY <2>1, <1>6, <1>7, TurnWrites
<1> HIDE DEF request
<1>12. ASSUME NEW c \in RamCells, t2.mem[c] # mem[c]
       PROVE  RingWritten(l, c) \/ \E k \in r .. (p + 1) - 1 : Gives(l, mem, mem[AvailCell(l, s + k)], c)
  <2>1. CASE t2.mem[c] # t.mem[c]
    <3>1. RingWritten(l, c) \/ Gives(l, mem, head, c)
      BY <2>1, <1>5, <1>9, <1>11
    <3>2. p \in r .. (p + 1) - 1
      BY <1>2
    <3> QED
      BY <3>1, <3>2 DEF head
  <2>2. CASE t2.mem[c] = t.mem[c]
    <3>1. RingWritten(l, c) \/ \E k \in r .. p - 1 : Gives(l, mem, mem[AvailCell(l, s + k)], c)
      BY <2>2, <1>12 DEF Written
    <3>2. \A k \in r .. p - 1 : k \in r .. (p + 1) - 1
      BY <1>2
    <3> QED
      BY <3>1, <3>2
  <2> QED
    BY <2>1, <2>2
<1>13. ASSUME NEW c \in DiskCells, t2.own[c] # dev.disk[c]
       PROVE  \E k \in r .. (p + 1) - 1 : Stores(l, mem, mem[AvailCell(l, s + k)], c)
  <2>1. CASE t2.own[c] # t.own[c]
    <3>1. ~hdr.write
      BY <2>1, <1>10, <1>11
    <3>2. Stores(l, mem, head, c)
      BY <2>1, <3>1, <1>5, <1>9, <1>11
    <3>3. p \in r .. (p + 1) - 1
      BY <1>2
    <3> QED
      BY <3>2, <3>3 DEF head
  <2>2. CASE t2.own[c] = t.own[c]
    <3>1. \E k \in r .. p - 1 : Stores(l, mem, mem[AvailCell(l, s + k)], c)
      BY <2>2, <1>13 DEF Written
    <3>2. \A k \in r .. p - 1 : k \in r .. (p + 1) - 1
      BY <1>2
    <3> QED
      BY <3>1, <3>2
  <2> QED
    BY <2>1, <2>2
<1>14. t2.own = [c \in DiskCells |-> t2.own[c]]
  BY <1>9, <1>11
<1> QED
  BY <1>12, <1>13, <1>14 DEF Written

\* What a notification writes.
LEMMA NotifyWrites ==
  ASSUME NEW l, SoundLayout(l), NEW kept, Separate(kept, l), kept \subseteq RamCells,
         NEW mem, mem = [c \in RamCells |-> mem[c]], SoundTable(l, mem, kept \cup UsedPart(l)),
         NEW heads, heads \subseteq 0 .. l.num - 1, HeadersIn(kept, l, mem, heads),
         NEW s, NEW r, NEW n, RingOK(l, mem, heads, s, r, n),
         NEW dev, Aligned(dev.queue, l), dev.disk = [c \in DiskCells |-> dev.disk[c]],
         dev.queue.last_avail = (s + r) % IndexModulus, dev.queue.used_idx = (s + r) % IndexModulus
  PROVE  Written(dev, l, mem, s, r, n, ProcessQueue(dev, mem))
<1>1. heads \subseteq Nat
  BY LayoutNumbers
<1>2. PICK after : Turns(after, dev, l, kept, mem, heads, s, r, n)
  BY <1>1, BlkTurns
<1>3. SoundTable(l, mem, {})
  BY DEF SoundTable
<1>4. r \in Nat /\ n \in Nat /\ r <= n
  BY RingIndices
<1> DEFINE S == {k \in Nat : k <= n - r => Written(dev, l, mem, s, r, r + k, after[k])}
<1>5. 0 \in S
  <2>1. after[0].own = dev.disk /\ after[0].mem = mem
    BY <1>2 DEF Turns, LoopStart
  <2> QED
    BY <2>1 DEF Written
<1>6. ASSUME NEW k \in Nat, k \in S PROVE k + 1 \in S
  <2> SUFFICES ASSUME k + 1 <= n - r PROVE Written(dev, l, mem, s, r, r + (k + 1), after[k + 1])
    OBVIOUS
  <2>1. k \in 0 .. n - r - 1 /\ k \in 0 .. n - r /\ r + k # n /\ r + (k + 1) = (r + k) + 1
    BY <1>4
  <2>2. Written(dev, l, mem, s, r, r + k, after[k])
    BY <2>1, <1>6
  <2>3. /\ Serving(after[k], l, kept, mem, heads, s, r, n, r + k)
        /\ after[k + 1] = ServeRequest(after[k], after[k].mem[AvailCell(l, s + (r + k))])
    BY <2>1, <1>2 DEF Turns
  <2>4. Written(dev, l, mem, s, r, (r + k) + 1, after[k + 1])
    BY <2>1, <2>2, <2>3, <1>3, TurnWritten
  <2> QED
    BY <2>1, <2>4
<1> HIDE DEF S
<1>7. \A k \in Nat : k \in S
  BY <1>5, <1>6, Inductive
<1>8. n - r \in S /\ r + (n - r) = n /\ n - r <= n - r
  BY <1>4, <1>7
<1>9. ProcessQueue(dev, mem) = after[n - r]
  BY <1>2 DEF Turns
<1> QED
  BY <1>8, <1>9 DEF S

-----------------------------------------------------------------------------
(* Programming a queue                                                     *)

QueueOK(q) ==
  q \in [num : Nat, ready : BOOLEAN, desc : Nat, avail : Nat, used : Nat,
         last_avail : 0 .. IndexModulus - 1, used_idx : 0 .. IndexModulus - 1]

LEMMA HalvesAreNatural ==
  ASSUME NEW addr \in Nat, NEW value \in Nat
  PROVE  WithLow(addr, value) \in Nat /\ WithHigh(addr, value) \in Nat
<1> DEFINE a == addr % AddressHalf
           v == value % AddressHalf
           h == value * AddressHalf
<1>1. AddressHalf \in Nat \ {0}
  BY RingNumbers
<1>2. a \in Nat /\ v \in Nat /\ a <= addr
  <2>1. addr \div AddressHalf \in Nat /\ a \in 0 .. AddressHalf - 1 /\ AddressHalf * (addr \div AddressHalf) \in Nat
        /\ addr = AddressHalf * (addr \div AddressHalf) + a
    BY <1>1, NaturalDivision
  <2> DEFINE x == AddressHalf * (addr \div AddressHalf)
  <2> HIDE DEF a, x
  <2>2. x \in Nat /\ addr = x + a /\ a \in Nat
    BY <2>1, <1>1 DEF x
  <2>3. v \in Nat
    BY <1>1
  <2> QED
    BY <2>2, <2>3
<1>3. h \in Nat
  BY <1>1
<1> HIDE DEF a, v, h
<1>4. addr - a + v \in Nat /\ a + h \in Nat
  BY <1>2, <1>3
<1> QED
  BY <1>4 DEF WithLow, WithHigh, a, v, h

\* Written in two halves, the high one first, an address is the driver's.
LEMMA HalvesMeet ==
  ASSUME NEW old \in Nat, NEW addr \in Nat
  PROVE  WithLow(WithHigh(old, addr \div AddressHalf), addr % AddressHalf) = addr
<1> DEFINE o == old % AddressHalf
           q == addr \div AddressHalf
           a == addr % AddressHalf
           x == o + q * AddressHalf
<1>1. AddressHalf \in Nat \ {0}
  BY RingNumbers
<1>2. o \in 0 .. AddressHalf - 1 /\ a \in 0 .. AddressHalf - 1 /\ q \in Nat
  BY <1>1, NaturalDivision
<1>3. addr = AddressHalf * q + a
  BY <1>1, NaturalDivision
<1> HIDE DEF o, q, a
<1>4. (q * AddressHalf + o) % AddressHalf = o
  BY <1>1, <1>2, RemainderIs
<1>5. q * AddressHalf = AddressHalf * q /\ q * AddressHalf \in Int
  BY <1>1, <1>2
<1>6. x = q * AddressHalf + o
  BY <1>1, <1>2, <1>5
<1>7. a % AddressHalf = a
  BY <1>1, <1>2, RemainderOfSmall
<1>8. x - o + a = addr
  BY <1>1, <1>2, <1>3, <1>5
<1>9. WithHigh(old, q) = x
  BY DEF WithHigh, o
<1>10. x % AddressHalf = o
  BY <1>4, <1>6
<1> HIDE DEF x
<1>11. WithLow(x, a) = addr
  BY <1>7, <1>8, <1>10 DEF WithLow
<1> QED
  BY <1>9, <1>11 DEF q, a

LEMMA QueueWritten ==
  ASSUME NEW q, QueueOK(q), NEW reg, reg # "QueueReady", NEW value \in Nat
  PROVE  LET w == WriteQueueRegister(q, reg, value)
         IN  QueueOK(w) /\ w.ready = q.ready /\ w.last_avail = q.last_avail /\ w.used_idx = q.used_idx
<1>1. /\ WithLow(q.desc, value) \in Nat /\ WithHigh(q.desc, value) \in Nat
      /\ WithLow(q.avail, value) \in Nat /\ WithHigh(q.avail, value) \in Nat
      /\ WithLow(q.used, value) \in Nat /\ WithHigh(q.used, value) \in Nat
  BY HalvesAreNatural DEF QueueOK
<1>2. (IF value < QueueSize THEN value ELSE QueueSize) \in Nat
  BY RingNumbers
<1> QED
  BY <1>1, <1>2 DEF WriteQueueRegister, QueueOK

LEMMA QueueStarted ==
  ASSUME NEW q, QueueOK(q)
  PROVE  /\ QueueOK(ResetQueue) /\ ~ResetQueue.ready /\ ResetQueue.last_avail = 0 /\ ResetQueue.used_idx = 0
         /\ LET w == WriteQueueRegister(q, "QueueReady", 0)
            IN  QueueOK(w) /\ ~w.ready /\ w.last_avail = 0 /\ w.used_idx = 0
         /\ LET w == WriteQueueRegister(q, "QueueReady", 1)
            IN  /\ QueueOK(w) /\ w.ready /\ w.num = q.num /\ w.desc = q.desc /\ w.avail = q.avail /\ w.used = q.used
                /\ w.last_avail = q.last_avail /\ w.used_idx = q.used_idx
<1>1. 0 \in 0 .. IndexModulus - 1
  BY RingNumbers
<1>2. QueueOK(ResetQueue) /\ ~ResetQueue.ready /\ ResetQueue.last_avail = 0 /\ ResetQueue.used_idx = 0
  BY <1>1 DEF QueueOK, ResetQueue
<1>3. WriteQueueRegister(q, "QueueReady", 0) = [q EXCEPT !.ready = FALSE, !.last_avail = 0, !.used_idx = 0]
  BY DEF WriteQueueRegister
<1>4. WriteQueueRegister(q, "QueueReady", 1) = [q EXCEPT !.ready = TRUE]
  BY DEF WriteQueueRegister
<1>5. LET w == [q EXCEPT !.ready = FALSE, !.last_avail = 0, !.used_idx = 0]
      IN  QueueOK(w) /\ ~w.ready /\ w.last_avail = 0 /\ w.used_idx = 0
  BY <1>1 DEF QueueOK
<1>6. LET w == [q EXCEPT !.ready = TRUE]
      IN  /\ QueueOK(w) /\ w.ready /\ w.num = q.num /\ w.desc = q.desc /\ w.avail = q.avail /\ w.used = q.used
          /\ w.last_avail = q.last_avail /\ w.used_idx = q.used_idx
  BY DEF QueueOK
<1> QED
  BY <1>2, <1>3, <1>4, <1>5, <1>6

\* The SoC was last told the level that the interrupt has.
BlkTold(dev) ==
  /\ {"regs", "queue", "interrupt_status", "config_generation", "disk", "told"} \subseteq DOMAIN dev
  /\ dev.told = (dev.interrupt_status # 0)

BlkRegistersOK(dev) == BlkTold(dev) /\ "queue_sel" \in DOMAIN dev.regs /\ QueueOK(dev.queue)

Stopped(q) == ~q.ready /\ q.last_avail = 0 /\ q.used_idx = 0

LEMMA InterruptTold ==
  ASSUME NEW dev, BlkTold(dev), NEW value
  PROVE  LET w == SetInterrupt(dev, value)
         IN  BlkTold(w) /\ w.regs = dev.regs /\ w.queue = dev.queue /\ w.interrupt_status = value
  BY DEF SetInterrupt, BlkTold

LEMMA ResetStops ==
  ASSUME NEW dev, BlkRegistersOK(dev)
  PROVE  LET w == ResetBlk(dev) IN BlkRegistersOK(w) /\ Stopped(w.queue) /\ w.regs.queue_sel = 0
<1> DEFINE d == [dev EXCEPT !.regs = ResetRegisters, !.queue = ResetQueue]
<1>1. BlkTold(d) /\ d.regs = ResetRegisters /\ d.queue = ResetQueue
  BY DEF BlkRegistersOK, BlkTold
<1>2. "queue_sel" \in DOMAIN ResetRegisters /\ ResetRegisters.queue_sel = 0
  BY DEF ResetRegisters
<1>3. QueueOK(ResetQueue) /\ Stopped(ResetQueue)
  BY QueueStarted DEF BlkRegistersOK, Stopped
<1> HIDE DEF d
<1>4. LET w == SetInterrupt(d, 0) IN BlkTold(w) /\ w.regs = d.regs /\ w.queue = d.queue
  BY <1>1, InterruptTold
<1>5. ResetBlk(dev) = SetInterrupt(d, 0)
  BY DEF ResetBlk, d
<1> QED
  BY <1>1, <1>2, <1>3, <1>4, <1>5 DEF BlkRegistersOK

LEMMA ToldAlways ==
  ASSUME NEW dev, BlkTold(dev), NEW reg, NEW value
  PROVE  BlkTold(WriteBlkRegister(dev, reg, value))
<1>1. BlkTold([dev EXCEPT !.regs.status = value])
  BY DEF BlkTold
<1>2. BlkTold([dev EXCEPT !.regs = WriteCommonRegister(@, reg, value)])
  BY DEF BlkTold
<1>3. BlkTold([dev EXCEPT !.queue = WriteQueueRegister(@, reg, value)])
  BY DEF BlkTold
<1>4. BlkTold(ResetBlk(dev))
  <2> DEFINE d == [dev EXCEPT !.regs = ResetRegisters, !.queue = ResetQueue]
  <2>1. BlkTold(d)
    BY DEF BlkTold
  <2> HIDE DEF d
  <2>2. BlkTold(SetInterrupt(d, 0))
    BY <2>1, InterruptTold
  <2> QED
    BY <2>2 DEF ResetBlk, d
<1>5. \A v : BlkTold(SetInterrupt(dev, v))
  BY InterruptTold
<1> QED
  BY <1>1, <1>2, <1>3, <1>4, <1>5 DEF WriteBlkRegister

\* A write to a stopped queue that does not start it.
LEMMA StaysStopped ==
  ASSUME NEW dev, BlkRegistersOK(dev), Stopped(dev.queue), NEW reg, reg # "QueueReady", NEW value \in Nat
  PROVE  LET w == WriteBlkRegister(dev, reg, value) IN BlkRegistersOK(w) /\ Stopped(w.queue)
<1> DEFINE w == WriteBlkRegister(dev, reg, value)
<1>1. CASE reg = "InterruptAck"
  <2>1. w = SetInterrupt(dev, IF value % 2 = 1 THEN 0 ELSE dev.interrupt_status)
    BY <1>1 DEF WriteBlkRegister, CommonRegisters
  <2>2. \A v : LET x == SetInterrupt(dev, v) IN BlkTold(x) /\ x.regs = dev.regs /\ x.queue = dev.queue
    BY InterruptTold DEF BlkRegistersOK
  <2> QED
    BY <2>1, <2>2 DEF BlkRegistersOK
<1>2. CASE reg = "Status"
  <2>1. CASE value = 0
    BY <1>2, <2>1, ResetStops DEF WriteBlkRegister, CommonRegisters
  <2>2. CASE value # 0
    BY <1>2, <2>2 DEF WriteBlkRegister, CommonRegisters, BlkRegistersOK, BlkTold
  <2> QED
    BY <2>1, <2>2
<1>3. CASE reg \in CommonRegisters
  <2> DEFINE r == WriteCommonRegister(dev.regs, reg, value)
  <2>1. w = [dev EXCEPT !.regs = r]
    BY <1>3 DEF WriteBlkRegister, CommonRegisters
  <2>2. "queue_sel" \in DOMAIN r
    BY <1>3 DEF WriteCommonRegister, CommonRegisters, BlkRegistersOK
  <2> HIDE DEF r
  <2> QED
    BY <2>1, <2>2 DEF BlkRegistersOK, BlkTold
<1>4. CASE reg \notin CommonRegisters \cup {"InterruptAck", "Status"}
  <2> DEFINE q == WriteQueueRegister(dev.queue, reg, value)
  <2>1. w = IF dev.regs.queue_sel # 0 THEN dev ELSE [dev EXCEPT !.queue = q]
    BY <1>4 DEF WriteBlkRegister
  <2>2. QueueOK(q) /\ Stopped(q)
    <3>1. QueueOK(dev.queue)
      BY DEF BlkRegistersOK
    <3> QED
      BY <3>1, QueueWritten DEF Stopped
  <2> HIDE DEF q
  <2> QED
    BY <2>1, <2>2 DEF BlkRegistersOK, BlkTold
<1> QED
  BY <1>1, <1>2, <1>3, <1>4

\* After j writes of the program of a queue: sel is QueueSel, q the queue's registers.
Programmed(j, sel, q, queue, l) ==
  /\ j >= 1 => sel = queue
  /\ j >= 2 => q.num = l.num
  /\ j = 3 => \E old \in Nat : q.desc = WithHigh(old, l.desc \div AddressHalf)
  /\ j >= 4 => q.desc = l.desc
  /\ j = 5 => \E old \in Nat : q.avail = WithHigh(old, l.avail \div AddressHalf)
  /\ j >= 6 => q.avail = l.avail
  /\ j = 7 => \E old \in Nat : q.used = WithHigh(old, l.used \div AddressHalf)
  /\ j >= 8 => q.used = l.used

LEMMA ProgramIs ==
  ASSUME NEW queue, NEW l
  PROVE  /\ Program(queue, l)[1] = <<"QueueSel", queue>> /\ Program(queue, l)[2] = <<"QueueNum", l.num>>
         /\ Program(queue, l)[3] = <<"QueueDescHigh", l.desc \div AddressHalf>>
         /\ Program(queue, l)[4] = <<"QueueDescLow", l.desc % AddressHalf>>
         /\ Program(queue, l)[5] = <<"QueueAvailHigh", l.avail \div AddressHalf>>
         /\ Program(queue, l)[6] = <<"QueueAvailLow", l.avail % AddressHalf>>
         /\ Program(queue, l)[7] = <<"QueueUsedHigh", l.used \div AddressHalf>>
         /\ Program(queue, l)[8] = <<"QueueUsedLow", l.used % AddressHalf>>
         /\ Program(queue, l)[9] = <<"QueueReady", 1>>
  BY DEF Program

\* The registers of a queue that has been selected.
LEMMA ProgramQueueStep ==
  ASSUME NEW l, SoundLayout(l), NEW q, QueueOK(q), NEW queue, NEW j \in 1 .. 7, Programmed(j, queue, q, queue, l)
  PROVE  LET e == Program(queue, l)[j + 1]
         IN  /\ Programmed(j + 1, queue, WriteQueueRegister(q, e[1], e[2]), queue, l)
             /\ e[1] \in QueueRegisters \ {"QueueReady"}
<1> DEFINE e == Program(queue, l)[j + 1]
           w == WriteQueueRegister(q, e[1], e[2])
<1>1. l.num \in Nat \ {0} /\ l.num <= QueueSize /\ l.desc \in Nat /\ l.avail \in Nat /\ l.used \in Nat /\ QueueSize \in Nat
  BY LayoutNumbers, RingNumbers
<1>2. CASE j = 1
  <2>1. e = <<"QueueNum", l.num>>
    BY <1>2, ProgramIs
  <2>2. w = [q EXCEPT !.num = l.num]
    BY <1>1, <2>1 DEF WriteQueueRegister
  <2>3. w.num = l.num
    BY <2>2 DEF QueueOK
  <2> QED
    BY <1>2, <2>1, <2>3 DEF Programmed, QueueRegisters
<1>3. CASE j = 2
  <2>1. e = <<"QueueDescHigh", l.desc \div AddressHalf>>
    BY <1>3, ProgramIs
  <2>2. w = [q EXCEPT !.desc = WithHigh(q.desc, l.desc \div AddressHalf)]
    BY <2>1 DEF WriteQueueRegister
  <2>3. w.desc = WithHigh(q.desc, l.desc \div AddressHalf) /\ q.desc \in Nat /\ w.num = q.num
    BY <2>2 DEF QueueOK
  <2> QED
    BY <1>3, <2>1, <2>3 DEF Programmed, QueueRegisters
<1>4. CASE j = 3
  <2>1. e = <<"QueueDescLow", l.desc % AddressHalf>>
    BY <1>4, ProgramIs
  <2>2. w = [q EXCEPT !.desc = WithLow(q.desc, l.desc % AddressHalf)]
    BY <2>1 DEF WriteQueueRegister
  <2>3. w.desc = WithLow(q.desc, l.desc % AddressHalf) /\ w.num = q.num
    BY <2>2 DEF QueueOK
  <2>4. WithLow(q.desc, l.desc % AddressHalf) = l.desc
    BY <1>1, <1>4, HalvesMeet DEF Programmed
  <2> QED
    BY <1>4, <2>1, <2>3, <2>4 DEF Programmed, QueueRegisters
<1>5. CASE j = 4
  <2>1. e = <<"QueueAvailHigh", l.avail \div AddressHalf>>
    BY <1>5, ProgramIs
  <2>2. w = [q EXCEPT !.avail = WithHigh(q.avail, l.avail \div AddressHalf)]
    BY <2>1 DEF WriteQueueRegister
  <2>3. w.avail = WithHigh(q.avail, l.avail \div AddressHalf) /\ q.avail \in Nat /\ w.num = q.num /\ w.desc = q.desc
    BY <2>2 DEF QueueOK
  <2> QED
    BY <1>5, <2>1, <2>3 DEF Programmed, QueueRegisters
<1>6. CASE j = 5
  <2>1. e = <<"QueueAvailLow", l.avail % AddressHalf>>
    BY <1>6, ProgramIs
  <2>2. w = [q EXCEPT !.avail = WithLow(q.avail, l.avail % AddressHalf)]
    BY <2>1 DEF WriteQueueRegister
  <2>3. w.avail = WithLow(q.avail, l.avail % AddressHalf) /\ w.num = q.num /\ w.desc = q.desc
    BY <2>2 DEF QueueOK
  <2>4. WithLow(q.avail, l.avail % AddressHalf) = l.avail
    BY <1>1, <1>6, HalvesMeet DEF Programmed
  <2> QED
    BY <1>6, <2>1, <2>3, <2>4 DEF Programmed, QueueRegisters
<1>7. CASE j = 6
  <2>1. e = <<"QueueUsedHigh", l.used \div AddressHalf>>
    BY <1>7, ProgramIs
  <2>2. w = [q EXCEPT !.used = WithHigh(q.used, l.used \div AddressHalf)]
    BY <2>1 DEF WriteQueueRegister
  <2>3. /\ w.used = WithHigh(q.used, l.used \div AddressHalf) /\ q.used \in Nat
        /\ w.num = q.num /\ w.desc = q.desc /\ w.avail = q.avail
    BY <2>2 DEF QueueOK
  <2> QED
    BY <1>7, <2>1, <2>3 DEF Programmed, QueueRegisters
<1>8. CASE j = 7
  <2>1. e = <<"QueueUsedLow", l.used % AddressHalf>>
    BY <1>8, ProgramIs
  <2>2. w = [q EXCEPT !.used = WithLow(q.used, l.used % AddressHalf)]
    BY <2>1 DEF WriteQueueRegister
  <2>3. w.used = WithLow(q.used, l.used % AddressHalf) /\ w.num = q.num /\ w.desc = q.desc /\ w.avail = q.avail
    BY <2>2 DEF QueueOK
  <2>4. WithLow(q.used, l.used % AddressHalf) = l.used
    BY <1>1, <1>8, HalvesMeet DEF Programmed
  <2> QED
    BY <1>8, <2>1, <2>3, <2>4 DEF Programmed, QueueRegisters
<1> QED
  BY <1>2, <1>3, <1>4, <1>5, <1>6, <1>7, <1>8

\* Programmed to the end and started, a stopped queue is the driver's.
LEMMA StartedIsAligned ==
  ASSUME NEW l, NEW q, QueueOK(q), NEW queue, Programmed(8, queue, q, queue, l)
  PROVE  LET w == WriteQueueRegister(q, "QueueReady", 1)
         IN  Aligned(w, l) /\ w.last_avail = q.last_avail /\ w.used_idx = q.used_idx
<1>1. WriteQueueRegister(q, "QueueReady", 1) = [q EXCEPT !.ready = TRUE]
  BY DEF WriteQueueRegister
<1>2. q.num = l.num /\ q.desc = l.desc /\ q.avail = l.avail /\ q.used = l.used
  BY DEF Programmed
<1>3. LET w == [q EXCEPT !.ready = TRUE]
      IN  Aligned(w, l) /\ w.last_avail = q.last_avail /\ w.used_idx = q.used_idx
  BY <1>2 DEF QueueOK, Aligned
<1> QED
  BY <1>1, <1>3

LEMMA BlkProgramStep ==
  ASSUME NEW l, SoundLayout(l), NEW dev, BlkRegistersOK(dev), NEW j \in 0 .. 7,
         Programmed(j, dev.regs.queue_sel, dev.queue, 0, l)
  PROVE  LET e == Program(0, l)[j + 1]
             w == WriteBlkRegister(dev, e[1], e[2])
         IN  Programmed(j + 1, w.regs.queue_sel, w.queue, 0, l) /\ e[1] \notin {"QueueReady", "EmptyRings"}
<1> DEFINE e == Program(0, l)[j + 1]
           w == WriteBlkRegister(dev, e[1], e[2])
<1>1. CASE j = 0
  <2>1. e[1] = "QueueSel" /\ e[2] = 0
    BY <1>1, ProgramIs
  <2>2. w = [dev EXCEPT !.regs = [dev.regs EXCEPT !.queue_sel = 0]]
    BY <2>1 DEF WriteBlkRegister, CommonRegisters, WriteCommonRegister
  <2>3. w.regs.queue_sel = 0
    BY <2>2 DEF BlkRegistersOK, BlkTold
  <2> QED
    BY <1>1, <2>1, <2>3 DEF Programmed
<1>2. CASE j \in 1 .. 7
  <2> DEFINE q == WriteQueueRegister(dev.queue, e[1], e[2])
  <2>1. dev.regs.queue_sel = 0
    BY <1>2 DEF Programmed
  <2>2. Programmed(j + 1, 0, q, 0, l) /\ e[1] \in QueueRegisters \ {"QueueReady"}
    <3>1. QueueOK(dev.queue) /\ Programmed(j, 0, dev.queue, 0, l)
      BY <2>1 DEF BlkRegistersOK
    <3> QED
      BY <3>1, <1>2, ProgramQueueStep
  <2> HIDE DEF q, e
  <2>3. w = [dev EXCEPT !.queue = q]
    BY <2>1, <2>2 DEF WriteBlkRegister, CommonRegisters, QueueRegisters, q
  <2>4. w.queue = q /\ w.regs.queue_sel = 0
    BY <2>1, <2>3 DEF BlkRegistersOK, BlkTold
  <2>5. e[1] \notin {"QueueReady", "EmptyRings"}
    BY <2>2 DEF QueueRegisters
  <2> QED
    BY <2>2, <2>4, <2>5 DEF e
<1> QED
  BY <1>1, <1>2

-----------------------------------------------------------------------------
(* The block device and its driver                                         *)

BlkHeads == DOMAIN blk_setup.chains

(* The queue is in use: the driver has seen the used elements up to seen,  *)
(* n heads are in flight and r of them wait to be collected; the driver    *)
(* has been told of those.                                                 *)
BlkRing(r, n) ==
  /\ Aligned(blk.queue, Layout)
  /\ RingOK(Layout, blk_mem, BlkHeads, blk_driver.seen, r, n)
  /\ blk.queue.last_avail = (blk_driver.seen + r) % IndexModulus
  /\ blk.queue.used_idx = (blk_driver.seen + r) % IndexModulus
  /\ r # 0 => blk.interrupt_status # 0 \/ blk_driver.acked

\* The driver's script has emptied the rings.
BlkEmptied == \E k \in 2 .. blk_driver.pc - 1 : Script[k][1] = "EmptyRings"

BlkScriptInv ==
  /\ blk_driver \in [script : DOMAIN blk_setup.scripts, pc : 1 .. Len(Script) + 1, acked : BOOLEAN,
                     seen : 0 .. IndexModulus - 1]
  /\ blk_driver.pc = 1 \/ Running => blk.regs.queue_sel = 0
  /\ Running => blk.queue.ready
  /\ ~Running /\ blk_driver.pc # 1 => ~blk.queue.ready
  /\ ~Running /\ blk_driver.pc # 1 /\ BlkEmptied =>
       blk_driver.seen = 0 /\ \A c \in RingCells(Layout) : blk_mem[c] = 0
  /\ \A j \in 0 .. 8 : blk_driver.pc = Len(Script) - ProgramLength + 1 + j =>
       Programmed(j, blk.regs.queue_sel, blk.queue, 0, Layout)

BlkMemoryInv ==
  /\ blk_mem = [c \in RamCells |-> blk_mem[c]]
  /\ \A c \in TableCells(Layout) : blk_mem[c] = blk_setup.mem[c]

BlkQueueInv ==
  /\ BlkRegistersOK(blk)
  /\ blk.queue.ready => \E r, n \in Nat : BlkRing(r, n)
  /\ ~blk.queue.ready => Stopped(blk.queue)

BlkInv ==
  /\ blk_setup \in BlkSetups /\ BlkTold(blk)
  /\ blk_setup.sound => BlkMemoryInv /\ BlkQueueInv /\ BlkScriptInv

LEMMA SetupSound ==
  ASSUME NEW u \in BlkSetups
  PROVE  /\ u.sound \in BOOLEAN /\ u.mem = [c \in RamCells |-> u.mem[c]] /\ 1 \in DOMAIN u.scripts
         /\ u.sound =>
              /\ SoundLayout(u.layout) /\ SoundTable(u.layout, u.mem, QueueCells(u.layout))
              /\ SoundHeads(u.layout, DOMAIN u.chains)
              /\ \A k \in DOMAIN u.scripts : SoundScript(u.scripts[k], u.layout)
              /\ \A h \in DOMAIN u.chains :
                   (u.chains[h].data \cup u.chains[h].status) \cap QueueCells(u.layout) = {}
  BY BlkSetupAssumption

LEMMA ScriptSound ==
  ASSUME NEW script, NEW l, SoundScript(script, l)
  PROVE  /\ Len(script) \in Nat /\ Len(script) >= 11
         /\ \A k \in 1 .. Len(script) : script[k][2] \in Nat
         /\ script[1] \in {<<"Status", 0>>, <<"QueueReady", 0>>}
         /\ \A k \in 2 .. Len(script) - 9 : script[k][1] # "QueueReady"
         /\ \E k \in 2 .. Len(script) - 9 : script[k][1] = "EmptyRings"
         /\ \A k \in 1 .. 9 : script[Len(script) - 9 + k] = Program(0, l)[k]
<1>1. script \in Seq(STRING \X Nat) /\ Len(script) \in Nat
  BY DEF SoundScript
<1>2. \A k \in 1 .. Len(script) : script[k] \in STRING \X Nat
  BY <1>1
<1>3. Len(script) >= 11
  BY <1>1 DEF SoundScript, ProgramLength
<1>4. /\ script[1] \in {<<"Status", 0>>, <<"QueueReady", 0>>}
      /\ \A k \in 2 .. Len(script) - 9 : script[k][1] # "QueueReady"
      /\ \E k \in 2 .. Len(script) - 9 : script[k][1] = "EmptyRings"
      /\ \A k \in 1 .. 9 : script[Len(script) - 9 + k] = Program(0, l)[k]
  BY Zenon DEF SoundScript, ProgramLength
<1>5. \A k \in 1 .. Len(script) : script[k][2] \in Nat
  BY <1>2
<1> QED
  BY <1>1, <1>3, <1>4, <1>5

LEMMA BlkView ==
  ASSUME BlkInv, blk_setup.sound, NEW r \in Nat, NEW n \in Nat, BlkRing(r, n)
  PROVE  /\ Offered = OfferedOf(Layout, blk_mem, blk_driver.seen, r, n)
         /\ Returned = ReturnedOf(Layout, blk_mem, blk_driver.seen, r)
<1> DEFINE l == Layout
           s == blk_driver.seen
           last == blk.queue.last_avail
           mem == blk_mem
<1>1. SoundLayout(l)
  BY SetupSound DEF BlkInv, Layout
<1>2. RingOK(l, mem, BlkHeads, s, r, n) /\ last = (s + r) % IndexModulus /\ Live
  BY DEF BlkRing, Live, Aligned
<1>3. /\ Offered = [k \in 1 .. (mem[AvailIdxCell(l)] - last) % IndexModulus |->
                      mem[AvailCell(l, (last + k - 1) % IndexModulus)]]
      /\ Returned = [k \in 1 .. (mem[UsedIdxCell(l)] - s) % IndexModulus |->
                       mem[UsedCell(l, (s + k - 1) % IndexModulus)]]
  BY <1>2 DEF Offered, Returned, Entries
<1> HIDE DEF l, s, last, mem
<1>4. /\ [k \in 1 .. (mem[AvailIdxCell(l)] - last) % IndexModulus |->
            mem[AvailCell(l, (last + k - 1) % IndexModulus)]] = OfferedOf(l, mem, s, r, n)
      /\ [k \in 1 .. (mem[UsedIdxCell(l)] - s) % IndexModulus |->
            mem[UsedCell(l, (s + k - 1) % IndexModulus)]] = ReturnedOf(l, mem, s, r)
  BY <1>1, <1>2, EntriesAre
<1> QED
  BY <1>3, <1>4 DEF l, s, last, mem

LEMMA BlkViewNext ==
  ASSUME BlkInv', blk_setup'.sound, NEW r \in Nat, NEW n \in Nat, BlkRing(r, n)'
  PROVE  /\ Offered' = OfferedOf(Layout', blk_mem', blk_driver'.seen, r, n)
         /\ Returned' = ReturnedOf(Layout', blk_mem', blk_driver'.seen, r)
<1> DEFINE l == Layout'
           s == blk_driver'.seen
           last == blk'.queue.last_avail
           mem == blk_mem'
<1>1. SoundLayout(l)
  BY SetupSound DEF BlkInv, Layout
<1>2. RingOK(l, mem, BlkHeads', s, r, n) /\ last = (s + r) % IndexModulus /\ Live'
  BY DEF BlkRing, Live, Aligned
<1>3. /\ Offered' = [k \in 1 .. (mem[AvailIdxCell(l)] - last) % IndexModulus |->
                       mem[AvailCell(l, (last + k - 1) % IndexModulus)]]
      /\ Returned' = [k \in 1 .. (mem[UsedIdxCell(l)] - s) % IndexModulus |->
                        mem[UsedCell(l, (s + k - 1) % IndexModulus)]]
  BY <1>2 DEF Offered, Returned, Entries
<1> HIDE DEF l, s, last, mem
<1>4. /\ [k \in 1 .. (mem[AvailIdxCell(l)] - last) % IndexModulus |->
            mem[AvailCell(l, (last + k - 1) % IndexModulus)]] = OfferedOf(l, mem, s, r, n)
      /\ [k \in 1 .. (mem[UsedIdxCell(l)] - s) % IndexModulus |->
            mem[UsedCell(l, (s + k - 1) % IndexModulus)]] = ReturnedOf(l, mem, s, r)
  BY <1>1, <1>2, EntriesAre
<1> QED
  BY <1>3, <1>4 DEF l, s, last, mem

LEMMA BlkInitial == ASSUME BlkInit PROVE BlkInv /\ Offered = <<>> /\ Returned = <<>>
<1>1. /\ blk_setup \in BlkSetups /\ blk = PowerOnBlk /\ blk_mem = blk_setup.mem
      /\ blk_driver = [script |-> 1, pc |-> 1, acked |-> FALSE, seen |-> 0]
  BY DEF BlkInit
<1>2. BlkTold(blk)
  BY <1>1 DEF BlkTold, PowerOnBlk
<1>3. blk.queue = ResetQueue /\ blk.regs = ResetRegisters
  BY <1>1 DEF PowerOnBlk
<1>4. Stopped(blk.queue) /\ QueueOK(blk.queue) /\ "queue_sel" \in DOMAIN blk.regs /\ blk.regs.queue_sel = 0
  <2>1. 0 \in 0 .. IndexModulus - 1
    BY RingNumbers
  <2> QED
    BY <1>3, <2>1 DEF Stopped, QueueOK, ResetQueue, ResetRegisters
<1>5. ~blk.queue.ready /\ ~Live
  BY <1>4 DEF Stopped, Live
<1>6. ASSUME blk_setup.sound PROVE BlkMemoryInv /\ BlkQueueInv /\ BlkScriptInv
  <2>1. BlkMemoryInv
    BY <1>1, SetupSound DEF BlkMemoryInv
  <2>2. BlkQueueInv
    BY <1>2, <1>4, <1>5 DEF BlkQueueInv, BlkRegistersOK
  <2>3. Len(Script) \in Nat /\ Len(Script) >= 11
    BY <1>1, <1>6, SetupSound, ScriptSound DEF Script, Layout
  <2>4. ~Running
    BY <1>1, <2>3 DEF Running
  <2>5. blk_driver \in [script : DOMAIN blk_setup.scripts, pc : 1 .. Len(Script) + 1, acked : BOOLEAN,
                        seen : 0 .. IndexModulus - 1]
    <3>1. 1 \in DOMAIN blk_setup.scripts
      BY <1>1, SetupSound
    <3>2. 1 \in 1 .. Len(Script) + 1
      BY <2>3
    <3>3. 0 \in 0 .. IndexModulus - 1
      BY RingNumbers
    <3> QED
      BY <3>1, <3>2, <3>3, <1>1
  <2>6. blk_driver.pc = 1
    BY <1>1
  <2>7. \A j \in 0 .. 8 : blk_driver.pc # Len(Script) - ProgramLength + 1 + j
    BY <2>3, <2>6 DEF ProgramLength
  <2> QED
    BY <1>4, <2>1, <2>2, <2>4, <2>5, <2>6, <2>7 DEF BlkScriptInv
<1> QED
  BY <1>1, <1>2, <1>5, <1>6 DEF BlkInv, Offered, Returned

-----------------------------------------------------------------------------
(* Every step of the block device and its driver is one of the queue       *)

BlkStep == BlkQueue!Next \/ (Offered' = Offered /\ Returned' = Returned)

\* Of a setup that is not sound, only the interrupt level is claimed.
LEMMA BlkUnsound == ASSUME BlkInv, ~blk_setup.sound, BlkNext PROVE BlkInv' /\ BlkStep
<1>1. BlkTold(blk) /\ blk_setup' = blk_setup /\ blk_setup \in BlkSetups
  BY Zenon DEF BlkInv, BlkNext, DriverWrite, DriverRestart, DriverAck, DriverCollect, DriverOffer, BlkNotify, BlkRestore
<1>2. BlkTold(blk')
  <2>1. CASE DriverWrite
    <3>1. blk' = blk \/ \E e : blk' = WriteBlkRegister(blk, e[1], e[2])
      BY <2>1 DEF DriverWrite
    <3> QED
      BY <3>1, <1>1, ToldAlways
  <2>2. CASE DriverAck
    BY <1>1, <2>2, ToldAlways DEF DriverAck
  <2>3. CASE BlkNotify
    <3>1. PICK s : blk' = LET dev == [blk EXCEPT !.queue = s.q, !.disk = s.own]
                          IN  IF s.any_completed THEN SetInterrupt(dev, 1) ELSE dev
      BY <2>3, Zenon DEF BlkNotify
    <3> DEFINE dev == [blk EXCEPT !.queue = s.q, !.disk = s.own]
    <3>2. BlkTold(dev)
      BY <1>1 DEF BlkTold
    <3>3. blk' = IF s.any_completed THEN SetInterrupt(dev, 1) ELSE dev
      BY <3>1
    <3> HIDE DEF dev
    <3>4. BlkTold(SetInterrupt(dev, 1))
      BY <3>2, InterruptTold
    <3> QED
      BY <3>2, <3>3, <3>4
  <2>4. CASE BlkRestore
    BY <2>4 DEF BlkRestore, PowerOnBlk, BlkTold
  <2>5. CASE UNCHANGED blk
    BY <1>1, <2>5, SMTT(30)
  <2>6. DriverRestart \/ DriverCollect \/ (\E head, value : DriverOffer(head, value)) => UNCHANGED blk
    BY Zenon DEF DriverRestart, DriverCollect, DriverOffer
  <2> QED
    BY <2>1, <2>2, <2>3, <2>4, <2>5, <2>6 DEF BlkNext
<1>3. ~Live /\ ~Live'
  BY <1>1 DEF Live
<1> QED
  BY <1>1, <1>2, <1>3, SMTT(30) DEF BlkInv, BlkStep, Offered, Returned

LEMMA BlkQuiet ==
  ASSUME BlkInv, blk_setup.sound, blk_setup' = blk_setup, blk_mem' = blk_mem, BlkRegistersOK(blk'),
         blk'.queue = blk.queue, blk_driver'.seen = blk_driver.seen,
         \A r, n \in Nat : BlkRing(r, n) /\ r # 0 => blk'.interrupt_status # 0 \/ blk_driver'.acked
  PROVE  BlkMemoryInv' /\ BlkQueueInv' /\ BlkStep
<1>1. Layout' = Layout /\ BlkHeads' = BlkHeads
  BY DEF Layout, BlkHeads
<1>2. BlkMemoryInv'
  BY <1>1 DEF BlkInv, BlkMemoryInv
<1>3. \A r, n \in Nat : BlkRing(r, n) => BlkRing(r, n)'
  BY <1>1 DEF BlkRing
<1>4. BlkQueueInv'
  BY <1>3 DEF BlkInv, BlkQueueInv
<1>5. Live' = Live
  BY DEF Live
<1>6. Offered' = Offered /\ Returned' = Returned
  BY <1>1, <1>5 DEF Offered, Returned, Entries
<1> QED
  BY <1>2, <1>4, <1>6 DEF BlkStep

\* What holds of the driver of a sound setup.
LEMMA BlkSound ==
  ASSUME BlkInv, blk_setup.sound
  PROVE  /\ SoundLayout(Layout) /\ SoundTable(Layout, blk_setup.mem, QueueCells(Layout))
         /\ SoundHeads(Layout, BlkHeads)
         /\ \A k \in DOMAIN blk_setup.scripts : SoundScript(blk_setup.scripts[k], Layout)
         /\ \A h \in BlkHeads : (blk_setup.chains[h].data \cup blk_setup.chains[h].status) \cap QueueCells(Layout) = {}
         /\ SoundScript(Script, Layout) /\ Len(Script) \in Nat /\ Len(Script) >= 11
         /\ blk_driver.pc \in 1 .. Len(Script) + 1 /\ BlkRegistersOK(blk)
<1>1. blk_setup \in BlkSetups /\ BlkScriptInv /\ BlkQueueInv
  BY DEF BlkInv
<1>2. /\ SoundLayout(Layout) /\ SoundTable(Layout, blk_setup.mem, QueueCells(Layout))
      /\ SoundHeads(Layout, BlkHeads)
      /\ \A k \in DOMAIN blk_setup.scripts : SoundScript(blk_setup.scripts[k], Layout)
      /\ \A h \in BlkHeads : (blk_setup.chains[h].data \cup blk_setup.chains[h].status) \cap QueueCells(Layout) = {}
  BY <1>1, SetupSound DEF Layout, BlkHeads
<1>3. blk_driver.script \in DOMAIN blk_setup.scripts /\ blk_driver.pc \in 1 .. Len(Script) + 1
  BY <1>1 DEF BlkScriptInv
<1>4. SoundScript(Script, Layout)
  BY <1>2, <1>3 DEF Script
<1>5. Len(Script) \in Nat /\ Len(Script) >= 11
  BY <1>4, ScriptSound
<1> QED
  BY <1>1, <1>2, <1>3, <1>4, <1>5 DEF BlkQueueInv

\* A step that leaves the script where it is.
LEMMA BlkScriptSame ==
  ASSUME BlkInv, blk_setup.sound, blk_setup' = blk_setup,
         blk_driver'.script = blk_driver.script, blk_driver'.pc = blk_driver.pc,
         blk_driver' = [script |-> blk_driver'.script, pc |-> blk_driver'.pc, acked |-> blk_driver'.acked,
                        seen |-> blk_driver'.seen],
         blk_driver'.acked \in BOOLEAN, blk_driver'.seen \in 0 .. IndexModulus - 1,
         blk'.regs = blk.regs, blk'.queue.ready = blk.queue.ready,
         Running \/ (blk_driver'.seen = blk_driver.seen /\ blk_mem' = blk_mem /\ blk'.queue = blk.queue)
  PROVE  BlkScriptInv'
<1>1. BlkScriptInv /\ Len(Script) \in Nat /\ Len(Script) >= 11
  BY BlkSound DEF BlkInv
<1>2. Script' = Script /\ Layout' = Layout
  BY DEF Script, Layout
<1>3. Running' <=> Running
  BY <1>2 DEF Running
<1>4. blk_driver' \in [script : DOMAIN blk_setup'.scripts, pc : 1 .. Len(Script') + 1, acked : BOOLEAN,
                       seen : 0 .. IndexModulus - 1]
  BY <1>1, <1>2 DEF BlkScriptInv
<1>5. BlkEmptied' <=> BlkEmptied
  BY <1>2 DEF BlkEmptied
<1>6. /\ blk_driver'.pc = 1 \/ Running' => blk'.regs.queue_sel = 0
      /\ Running' => blk'.queue.ready
      /\ ~Running' /\ blk_driver'.pc # 1 => ~blk'.queue.ready
  BY <1>1, <1>3 DEF BlkScriptInv
<1>7. ~Running' /\ blk_driver'.pc # 1 /\ BlkEmptied' =>
        blk_driver'.seen = 0 /\ \A c \in RingCells(Layout') : blk_mem'[c] = 0
  BY <1>1, <1>2, <1>3, <1>5 DEF BlkScriptInv
<1>8. \A j \in 0 .. 8 : blk_driver'.pc = Len(Script') - ProgramLength + 1 + j =>
        Programmed(j, blk'.regs.queue_sel, blk'.queue, 0, Layout')
  <2>1. CASE Running
    <3>1. blk_driver.pc > Len(Script) /\ blk_driver.pc \in Int
      BY <1>1, <2>1 DEF Running, BlkScriptInv
    <3> QED
      BY <1>1, <1>2, <3>1 DEF ProgramLength
  <2>2. CASE blk'.queue = blk.queue
    BY <1>1, <1>2, <2>2 DEF BlkScriptInv
  <2> QED
    BY <2>1, <2>2
<1> QED
  BY <1>4, <1>6, <1>7, <1>8 DEF BlkScriptInv

LEMMA BlkDriver ==
  ASSUME BlkInv, blk_setup.sound
  PROVE  blk_driver = [script |-> blk_driver.script, pc |-> blk_driver.pc, acked |-> blk_driver.acked,
                       seen |-> blk_driver.seen]
         /\ blk_driver.acked \in BOOLEAN /\ blk_driver.seen \in 0 .. IndexModulus - 1
         /\ blk_driver.script \in DOMAIN blk_setup.scripts
  BY DEF BlkInv, BlkScriptInv

LEMMA BlkTogether ==
  ASSUME BlkInv, blk_setup.sound, blk_setup' = blk_setup, BlkMemoryInv', BlkQueueInv', BlkScriptInv'
  PROVE  BlkInv'
  BY DEF BlkInv, BlkQueueInv, BlkRegistersOK

LEMMA BlkRestoreStep == ASSUME BlkInv, blk_setup.sound, BlkRestore PROVE BlkInv' /\ BlkStep
<1>1. /\ blk_setup' = blk_setup /\ blk_mem' = blk_mem /\ blk_driver' = blk_driver
      /\ blk'.regs = blk.regs /\ blk'.queue = blk.queue /\ BlkTold(blk')
      /\ blk'.interrupt_status = blk.interrupt_status
  BY DEF BlkRestore, PowerOnBlk, BlkTold
<1>2. BlkRegistersOK(blk')
  BY <1>1, BlkSound DEF BlkRegistersOK
<1>3. BlkMemoryInv' /\ BlkQueueInv' /\ BlkStep
  <2>1. \A r, n \in Nat : BlkRing(r, n) /\ r # 0 => blk'.interrupt_status # 0 \/ blk_driver'.acked
    BY <1>1 DEF BlkRing
  <2>2. blk_driver'.seen = blk_driver.seen
    BY <1>1
  <2> QED
    BY <1>1, <1>2, <2>1, <2>2, BlkQuiet
<1>4. BlkScriptInv'
  <2>1. blk_driver'.script = blk_driver.script /\ blk_driver'.pc = blk_driver.pc
    BY <1>1
  <2>2. blk_driver' = [script |-> blk_driver'.script, pc |-> blk_driver'.pc, acked |-> blk_driver'.acked,
                       seen |-> blk_driver'.seen]
        /\ blk_driver'.acked \in BOOLEAN /\ blk_driver'.seen \in 0 .. IndexModulus - 1
    BY <1>1, BlkDriver
  <2>3. blk'.queue.ready = blk.queue.ready /\ blk_driver'.seen = blk_driver.seen
    BY <1>1
  <2> QED
    BY <1>1, <2>1, <2>2, <2>3, BlkScriptSame
<1> QED
  BY <1>1, <1>3, <1>4, BlkTogether

LEMMA BlkAckStep == ASSUME BlkInv, blk_setup.sound, DriverAck PROVE BlkInv' /\ BlkStep
<1>1. /\ Running /\ blk_setup' = blk_setup /\ blk_mem' = blk_mem
      /\ blk_driver' = [blk_driver EXCEPT !.acked = TRUE]
      /\ blk' = SetInterrupt(blk, 0)
  BY DEF DriverAck, WriteBlkRegister, CommonRegisters
<1>2. BlkTold(blk') /\ blk'.regs = blk.regs /\ blk'.queue = blk.queue
  BY <1>1, InterruptTold, BlkSound DEF BlkRegistersOK
<1>3. BlkRegistersOK(blk')
  BY <1>2, BlkSound DEF BlkRegistersOK
<1>4. /\ blk_driver'.script = blk_driver.script /\ blk_driver'.pc = blk_driver.pc
      /\ blk_driver'.seen = blk_driver.seen /\ blk_driver'.acked
      /\ blk_driver' = [script |-> blk_driver'.script, pc |-> blk_driver'.pc, acked |-> blk_driver'.acked,
                        seen |-> blk_driver'.seen]
      /\ blk_driver'.acked \in BOOLEAN /\ blk_driver'.seen \in 0 .. IndexModulus - 1
  <2> DEFINE d == blk_driver
  <2>1. /\ d = [script |-> d.script, pc |-> d.pc, acked |-> d.acked, seen |-> d.seen]
        /\ d.seen \in 0 .. IndexModulus - 1
    BY BlkDriver
  <2>2. blk_driver' = [script |-> d.script, pc |-> d.pc, acked |-> TRUE, seen |-> d.seen]
    BY <1>1, <2>1, Zenon
  <2> HIDE DEF d
  <2>3. /\ blk_driver'.script = d.script /\ blk_driver'.pc = d.pc
        /\ blk_driver'.seen = d.seen /\ blk_driver'.acked = TRUE
    BY <2>2
  <2> QED
    BY <2>1, <2>2, <2>3, Zenon DEF d
<1>5. BlkMemoryInv' /\ BlkQueueInv' /\ BlkStep
  <2>1. \A r, n \in Nat : BlkRing(r, n) /\ r # 0 => blk'.interrupt_status # 0 \/ blk_driver'.acked
    BY <1>4
  <2> QED
    BY <1>1, <1>2, <1>3, <1>4, <2>1, BlkQuiet
<1>6. BlkScriptInv'
  <2>1. blk'.queue.ready = blk.queue.ready
    BY <1>2
  <2> QED
    BY <1>1, <1>2, <1>4, <2>1, BlkScriptSame
<1> QED
  BY <1>1, <1>5, <1>6, BlkTogether

LEMMA BlkRestartStep == ASSUME BlkInv, blk_setup.sound, DriverRestart PROVE BlkInv' /\ BlkStep
<1>1. PICK k \in DOMAIN blk_setup.scripts : blk_driver' = [blk_driver EXCEPT !.script = k, !.pc = 1]
  BY Zenon DEF DriverRestart
<1>2. Running /\ blk_setup' = blk_setup /\ blk_mem' = blk_mem /\ blk' = blk
  BY DEF DriverRestart
<1>3. /\ blk_driver'.seen = blk_driver.seen /\ blk_driver'.acked = blk_driver.acked
      /\ blk_driver' \in [script : {k}, pc : {1}, acked : BOOLEAN, seen : 0 .. IndexModulus - 1]
  <2> DEFINE d == blk_driver
  <2>1. /\ d = [script |-> d.script, pc |-> d.pc, acked |-> d.acked, seen |-> d.seen]
        /\ d.seen \in 0 .. IndexModulus - 1 /\ d.acked \in BOOLEAN
    BY BlkDriver
  <2>2. blk_driver' = [script |-> k, pc |-> 1, acked |-> d.acked, seen |-> d.seen]
    BY <1>1, <2>1, Zenon
  <2> HIDE DEF d
  <2>3. blk_driver'.seen = d.seen /\ blk_driver'.acked = d.acked
    BY <2>2
  <2>4. blk_driver' \in [script : {k}, pc : {1}, acked : BOOLEAN, seen : 0 .. IndexModulus - 1]
    BY <2>1, <2>2
  <2> QED
    BY <2>3, <2>4 DEF d
<1>4. BlkMemoryInv' /\ BlkQueueInv' /\ BlkStep
  <2>1. \A r, n \in Nat : BlkRing(r, n) /\ r # 0 => blk'.interrupt_status # 0 \/ blk_driver'.acked
    BY <1>2, <1>3 DEF BlkRing
  <2>2. BlkRegistersOK(blk') /\ blk'.queue = blk.queue
    BY <1>2, BlkSound
  <2> QED
    BY <1>2, <1>3, <2>1, <2>2, BlkQuiet
<1>5. BlkScriptInv'
  <2>1. Script' = blk_setup.scripts[k] /\ blk_driver'.pc = 1
    BY <1>2, <1>3 DEF Script
  <2>2. Len(Script') \in Nat /\ Len(Script') >= 11
    BY <2>1, BlkSound, ScriptSound
  <2>3. ~Running'
    BY <2>1, <2>2 DEF Running
  <2>4. blk'.regs.queue_sel = 0
    BY <1>2 DEF BlkInv, BlkScriptInv
  <2>5. \A j \in 0 .. 8 : blk_driver'.pc # Len(Script') - ProgramLength + 1 + j
    BY <2>1, <2>2 DEF ProgramLength
  <2>6. blk_driver' \in [script : DOMAIN blk_setup'.scripts, pc : 1 .. Len(Script') + 1, acked : BOOLEAN,
                         seen : 0 .. IndexModulus - 1]
    BY <1>2, <1>3, <2>2
  <2> QED
    BY <2>1, <2>3, <2>4, <2>5, <2>6 DEF BlkScriptInv
<1> QED
  BY <1>2, <1>4, <1>5, BlkTogether

\* The next register write of the script.
LEMMA BlkAdvance ==
  ASSUME BlkInv, blk_setup.sound, DriverWrite, NEW w, w = Script[blk_driver.pc]
  PROVE  /\ ~Running /\ blk_setup' = blk_setup /\ Script' = Script /\ Layout' = Layout /\ BlkHeads' = BlkHeads
         /\ blk_driver.pc \in 1 .. Len(Script) /\ blk_driver'.pc = blk_driver.pc + 1
         /\ blk_driver' \in [script : DOMAIN blk_setup.scripts, pc : 1 .. Len(Script) + 1, acked : BOOLEAN,
                             seen : 0 .. IndexModulus - 1]
         /\ IF w[1] = "EmptyRings"
            THEN /\ blk_mem' = [c \in RamCells |-> IF c \in RingCells(Layout) THEN 0 ELSE blk_mem[c]]
                 /\ blk' = blk /\ blk_driver'.seen = 0
            ELSE blk' = WriteBlkRegister(blk, w[1], w[2]) /\ blk_mem' = blk_mem /\ blk_driver'.seen = blk_driver.seen
<1> DEFINE d == blk_driver
<1>1. /\ ~Running /\ blk_setup' = blk_setup
      /\ IF w[1] = "EmptyRings"
         THEN /\ blk_mem' = [c \in RamCells |-> IF c \in RingCells(Layout) THEN 0 ELSE blk_mem[c]]
              /\ blk_driver' = [blk_driver EXCEPT !.pc = @ + 1, !.acked = FALSE, !.seen = 0]
              /\ blk' = blk
         ELSE /\ blk' = WriteBlkRegister(blk, w[1], w[2])
              /\ blk_driver' = [blk_driver EXCEPT !.pc = @ + 1] /\ blk_mem' = blk_mem
  BY DEF DriverWrite
<1>2. /\ d = [script |-> d.script, pc |-> d.pc, acked |-> d.acked, seen |-> d.seen]
      /\ d.seen \in 0 .. IndexModulus - 1 /\ d.acked \in BOOLEAN /\ d.script \in DOMAIN blk_setup.scripts
  BY BlkDriver
<1>3. blk_driver.pc \in 1 .. Len(Script)
  BY <1>1, BlkSound DEF Running
<1>4. blk_driver' = IF w[1] = "EmptyRings"
                    THEN [script |-> d.script, pc |-> d.pc + 1, acked |-> FALSE, seen |-> 0]
                    ELSE [script |-> d.script, pc |-> d.pc + 1, acked |-> d.acked, seen |-> d.seen]
  BY <1>1, <1>2, Zenon
<1>5. 0 \in 0 .. IndexModulus - 1
  BY RingNumbers
<1>6. d.pc + 1 \in 1 .. Len(Script) + 1
  BY <1>3, BlkSound
<1> HIDE DEF d
<1>7. blk_driver'.script = d.script /\ blk_driver'.pc = d.pc + 1
      /\ blk_driver'.seen = IF w[1] = "EmptyRings" THEN 0 ELSE d.seen
  BY <1>4
<1>8. blk_driver' \in [script : DOMAIN blk_setup.scripts, pc : 1 .. Len(Script) + 1, acked : BOOLEAN,
                       seen : 0 .. IndexModulus - 1]
  BY <1>2, <1>4, <1>5, <1>6
<1>9. Script' = Script /\ Layout' = Layout /\ BlkHeads' = BlkHeads
  <2>1. blk_driver'.script = blk_driver.script
    BY <1>7 DEF d
  <2> QED
    BY <1>1, <2>1 DEF Script, Layout, BlkHeads
<1> QED
  BY <1>1, <1>3, <1>7, <1>8, <1>9 DEF d

\* Before it is stopped for the script, a queue may be in use.
LEMMA BlkStops == ASSUME BlkInv, blk_setup.sound, DriverWrite, blk_driver.pc = 1 PROVE BlkInv' /\ BlkStep
<1> DEFINE w == Script[1]
<1>1. /\ ~Running /\ blk_setup' = blk_setup /\ Script' = Script /\ blk_driver'.pc = 2
      /\ blk_driver' \in [script : DOMAIN blk_setup.scripts, pc : 1 .. Len(Script) + 1, acked : BOOLEAN,
                          seen : 0 .. IndexModulus - 1]
      /\ w[1] # "EmptyRings" => blk' = WriteBlkRegister(blk, w[1], w[2]) /\ blk_mem' = blk_mem
  BY BlkAdvance
<1>2. w \in {<<"Status", 0>>, <<"QueueReady", 0>>}
  BY BlkSound, ScriptSound
<1>3. BlkRegistersOK(blk) /\ QueueOK(blk.queue) /\ blk.regs.queue_sel = 0
  BY BlkSound DEF BlkRegistersOK, BlkInv, BlkScriptInv
<1> HIDE DEF w
<1>4. BlkRegistersOK(blk') /\ Stopped(blk'.queue) /\ blk_mem' = blk_mem
  <2>1. CASE w = <<"Status", 0>>
    <3>1. blk' = ResetBlk(blk) /\ blk_mem' = blk_mem
      BY <1>1, <2>1 DEF WriteBlkRegister, CommonRegisters
    <3> QED
      BY <1>3, <3>1, ResetStops
  <2>2. CASE w = <<"QueueReady", 0>>
    <3> DEFINE q == WriteQueueRegister(blk.queue, "QueueReady", 0)
    <3>1. blk' = [blk EXCEPT !.queue = q] /\ blk_mem' = blk_mem
      BY <1>1, <1>3, <2>2 DEF WriteBlkRegister, CommonRegisters
    <3>2. QueueOK(q) /\ Stopped(q)
      BY <1>3, QueueStarted DEF Stopped
    <3> HIDE DEF q
    <3> QED
      BY <1>3, <3>1, <3>2 DEF BlkRegistersOK, BlkTold
  <2> QED
    BY <1>2, <2>1, <2>2
<1>5. BlkMemoryInv' /\ BlkQueueInv'
  <2>1. Layout' = Layout
    BY <1>1 DEF Layout
  <2>2. BlkMemoryInv'
    BY <1>1, <1>4, <2>1 DEF BlkInv, BlkMemoryInv
  <2> QED
    BY <1>4, <2>2 DEF BlkQueueInv, Stopped
<1>6. BlkScriptInv'
  <2>1. Len(Script) \in Nat /\ Len(Script) >= 11
    BY BlkSound
  <2>2. ~Running' /\ blk_driver'.pc # 1
    BY <1>1, <2>1 DEF Running
  <2>3. ~BlkEmptied'
    BY <1>1 DEF BlkEmptied
  <2>4. \A j \in 0 .. 8 : blk_driver'.pc # Len(Script') - ProgramLength + 1 + j
    BY <1>1, <2>1 DEF ProgramLength
  <2>5. ~blk'.queue.ready
    BY <1>4 DEF Stopped
  <2>6. blk_driver' \in [script : DOMAIN blk_setup'.scripts, pc : 1 .. Len(Script') + 1, acked : BOOLEAN,
                         seen : 0 .. IndexModulus - 1]
    BY <1>1
  <2> QED
    BY <2>2, <2>3, <2>4, <2>5, <2>6 DEF BlkScriptInv
<1>7. BlkStep
  <2>1. ~Live'
    BY <1>4 DEF Live, Stopped
  <2>2. Offered' = <<>> /\ Returned' = <<>>
    BY <2>1 DEF Offered, Returned
  <2> QED
    BY <2>2 DEF BlkStep, BlkQueue!Next, BlkQueue!Stop
<1> QED
  BY <1>1, <1>5, <1>6, <1>7, BlkTogether

\* While the queue is stopped the script empties the rings and sets the registers.
LEMMA BlkSetsUp ==
  ASSUME BlkInv, blk_setup.sound, DriverWrite, NEW pc, pc = blk_driver.pc, pc \in 2 .. Len(Script) - 1,
         Script[pc][1] # "QueueReady",
         \A j \in 0 .. 8 : pc + 1 = Len(Script) - ProgramLength + 1 + j =>
           Programmed(j, blk'.regs.queue_sel, blk'.queue, 0, Layout)
  PROVE  BlkInv' /\ BlkStep
<1> DEFINE w == Script[pc]
           empties == w[1] = "EmptyRings"
<1>1. /\ ~Running /\ blk_setup' = blk_setup /\ Script' = Script /\ Layout' = Layout
      /\ blk_driver'.pc = pc + 1
      /\ blk_driver' \in [script : DOMAIN blk_setup.scripts, pc : 1 .. Len(Script) + 1, acked : BOOLEAN,
                          seen : 0 .. IndexModulus - 1]
      /\ IF empties
         THEN /\ blk_mem' = [c \in RamCells |-> IF c \in RingCells(Layout) THEN 0 ELSE blk_mem[c]]
              /\ blk' = blk /\ blk_driver'.seen = 0
         ELSE blk' = WriteBlkRegister(blk, w[1], w[2]) /\ blk_mem' = blk_mem /\ blk_driver'.seen = blk_driver.seen
  BY BlkAdvance
<1>2. SoundLayout(Layout) /\ Len(Script) \in Nat /\ BlkRegistersOK(blk) /\ w[2] \in Nat
  <2>1. SoundLayout(Layout) /\ Len(Script) \in Nat /\ BlkRegistersOK(blk) /\ SoundScript(Script, Layout)
    BY BlkSound
  <2>2. w[2] \in Nat
    <3>1. \A k \in 1 .. Len(Script) : Script[k][2] \in Nat
      BY <2>1, ScriptSound
    <3>2. pc \in 1 .. Len(Script)
      BY <2>1
    <3> QED
      BY <3>1, <3>2
  <2> QED
    BY <2>1, <2>2
<1>3. pc \in Nat /\ pc # 1 /\ ~blk.queue.ready /\ Stopped(blk.queue)
  <2>1. pc \in Nat /\ pc # 1
    BY <1>2
  <2> QED
    BY <1>1, <2>1 DEF BlkInv, BlkScriptInv, BlkQueueInv
<1> HIDE DEF w
<1>4. BlkRegistersOK(blk') /\ Stopped(blk'.queue)
  <2>1. CASE empties
    BY <1>1, <1>2, <1>3, <2>1
  <2>2. CASE ~empties
    <3>1. w[1] # "QueueReady"
      BY DEF w
    <3> QED
      BY <1>1, <1>2, <1>3, <2>2, <3>1, StaysStopped, SMTT(30)
  <2> QED
    BY <2>1, <2>2
<1>5. BlkMemoryInv'
  <2>1. CASE empties
    <3>1. blk_mem' = [c \in RamCells |-> IF c \in RingCells(Layout) THEN 0 ELSE blk_mem[c]]
      BY <1>1, <2>1
    <3>2. TableCells(Layout) \cap RingCells(Layout) = {} /\ TableCells(Layout) \subseteq RamCells
      BY <1>2 DEF SoundLayout, QueueCells
    <3>3. \A c \in TableCells(Layout) : blk_mem'[c] = blk_mem[c]
      BY <3>1, <3>2
    <3>4. \A c \in TableCells(Layout) : blk_mem[c] = blk_setup.mem[c]
      BY DEF BlkInv, BlkMemoryInv
    <3>5. blk_mem' = [c \in RamCells |-> blk_mem'[c]]
      BY <3>1
    <3> QED
      BY <1>1, <3>3, <3>4, <3>5 DEF BlkMemoryInv
  <2>2. CASE ~empties
    BY <1>1, <2>2 DEF BlkInv, BlkMemoryInv
  <2> QED
    BY <2>1, <2>2
<1>6. BlkQueueInv'
  BY <1>4 DEF BlkQueueInv, Stopped
<1>7. BlkScriptInv'
  <2>1. ~Running' /\ blk_driver'.pc # 1
    BY <1>1, <1>2, <1>3, SMTT(30) DEF Running
  <2>2. ASSUME BlkEmptied' PROVE blk_driver'.seen = 0 /\ \A c \in RingCells(Layout') : blk_mem'[c] = 0
    <3>1. CASE empties
      <4>1. RingCells(Layout) \subseteq RamCells
        BY <1>2 DEF SoundLayout, QueueCells
      <4> QED
        BY <1>1, <3>1, <4>1
    <3>2. CASE ~empties
      <4>1. PICK k \in 2 .. pc : Script[k][1] = "EmptyRings"
        BY <1>1, <1>3, <2>2 DEF BlkEmptied
      <4>2. k # pc
        BY <3>2, <4>1 DEF w
      <4>3. BlkEmptied
        <5>1. k \in 2 .. blk_driver.pc - 1
          BY <1>3, <4>1, <4>2
        <5> QED
          BY <4>1, <5>1 DEF BlkEmptied
      <4>4. blk_driver.seen = 0 /\ \A c \in RingCells(Layout) : blk_mem[c] = 0
        BY <1>1, <1>3, <4>3 DEF BlkInv, BlkScriptInv
      <4> QED
        BY <1>1, <3>2, <4>4
    <3> QED
      BY <3>1, <3>2
  <2>3. \A j \in 0 .. 8 : blk_driver'.pc = Len(Script') - ProgramLength + 1 + j =>
          Programmed(j, blk'.regs.queue_sel, blk'.queue, 0, Layout')
    BY <1>1
  <2>4. ~blk'.queue.ready
    BY <1>4 DEF Stopped
  <2>5. blk_driver' \in [script : DOMAIN blk_setup'.scripts, pc : 1 .. Len(Script') + 1, acked : BOOLEAN,
                         seen : 0 .. IndexModulus - 1]
    BY <1>1
  <2> QED
    BY <2>1, <2>2, <2>3, <2>4, <2>5 DEF BlkScriptInv
<1>8. BlkStep
  <2>1. ~Live /\ ~Live'
    BY <1>3, <1>4 DEF Live, Stopped
  <2> QED
    BY <2>1 DEF BlkStep, Offered, Returned
<1> QED
  BY <1>1, <1>5, <1>6, <1>7, <1>8, BlkTogether

LEMMA BlkProgramIs ==
  ASSUME BlkInv, blk_setup.sound
  PROVE  \A k \in 1 .. 9 : Script[Len(Script) - 9 + k] = Program(0, Layout)[k]
<1>1. SoundScript(Script, Layout)
  BY BlkSound
<1> QED
  BY <1>1, ScriptSound, ZenonT(40)

LEMMA BlkPrograms ==
  ASSUME BlkInv, blk_setup.sound, DriverWrite, NEW j \in 0 .. 7, blk_driver.pc = Len(Script) - 8 + j
  PROVE  BlkInv' /\ BlkStep
<1> DEFINE w == Script[blk_driver.pc]
           pc == blk_driver.pc
<1>1. /\ SoundLayout(Layout) /\ Len(Script) \in Nat /\ Len(Script) >= 11 /\ BlkRegistersOK(blk)
      /\ SoundScript(Script, Layout)
  BY BlkSound
<1>2. w = Program(0, Layout)[j + 1]
  <2>1. \A k \in 1 .. 9 : Script[Len(Script) - 9 + k] = Program(0, Layout)[k]
    BY BlkProgramIs
  <2>2. j + 1 \in 1 .. 9 /\ Len(Script) - 9 + (j + 1) = pc
    BY <1>1
  <2> QED
    BY <2>1, <2>2
<1>3. Programmed(j, blk.regs.queue_sel, blk.queue, 0, Layout)
  <2>1. j \in 0 .. 8 /\ pc = Len(Script) - ProgramLength + 1 + j
    BY <1>1 DEF ProgramLength
  <2> QED
    BY <2>1 DEF BlkInv, BlkScriptInv
<1> DEFINE x == WriteBlkRegister(blk, w[1], w[2])
<1>4. Programmed(j + 1, x.regs.queue_sel, x.queue, 0, Layout) /\ w[1] \notin {"QueueReady", "EmptyRings"}
  BY <1>1, <1>2, <1>3, BlkProgramStep
<1>5. blk' = x
  <2>1. IF w[1] = "EmptyRings"
        THEN /\ blk_mem' = [c \in RamCells |-> IF c \in RingCells(Layout) THEN 0 ELSE blk_mem[c]]
             /\ blk' = blk /\ blk_driver'.seen = 0
        ELSE blk' = x /\ blk_mem' = blk_mem /\ blk_driver'.seen = blk_driver.seen
    BY BlkAdvance
  <2> QED
    BY <1>4, <2>1
<1> HIDE DEF x
<1>6. \A i \in 0 .. 8 : pc + 1 = Len(Script) - ProgramLength + 1 + i =>
        Programmed(i, blk'.regs.queue_sel, blk'.queue, 0, Layout)
  <2> TAKE i \in 0 .. 8
  <2> HAVE pc + 1 = Len(Script) - ProgramLength + 1 + i
  <2>1. i = j + 1
    BY <1>1 DEF ProgramLength
  <2> QED
    BY <1>4, <1>5, <2>1
<1>7. pc \in 2 .. Len(Script) - 1
  BY <1>1
<1> QED
  BY <1>4, <1>6, <1>7, BlkSetsUp

\* The last write of the script starts the queue.
LEMMA BlkStarts == ASSUME BlkInv, blk_setup.sound, DriverWrite, blk_driver.pc - Len(Script) = 0 PROVE BlkInv' /\ BlkStep
<1>1. /\ SoundLayout(Layout) /\ Len(Script) \in Nat /\ Len(Script) >= 11 /\ BlkRegistersOK(blk)
      /\ SoundScript(Script, Layout)
  BY BlkSound
<1>0. blk_driver.pc = Len(Script) /\ blk_driver.pc # 1
  <2>1. Len(Script) \in Nat /\ Len(Script) >= 11 /\ blk_driver.pc \in 1 .. Len(Script) + 1
    BY BlkSound
  <2> QED
    BY <2>1
<1>2. Script[Len(Script)] = <<"QueueReady", 1>>
  <2>1. Script[Len(Script) - 9 + 9] = Program(0, Layout)[9]
    BY <1>1, ScriptSound
  <2>2. Len(Script) - 9 + 9 = Len(Script)
    BY <1>1
  <2> QED
    BY <2>1, <2>2, ProgramIs
<1>3. /\ ~Running /\ blk_setup' = blk_setup /\ Script' = Script /\ Layout' = Layout /\ BlkHeads' = BlkHeads
      /\ blk_driver'.pc = Len(Script) + 1
      /\ blk_driver' \in [script : DOMAIN blk_setup.scripts, pc : 1 .. Len(Script) + 1, acked : BOOLEAN,
                          seen : 0 .. IndexModulus - 1]
      /\ blk' = WriteBlkRegister(blk, "QueueReady", 1) /\ blk_mem' = blk_mem /\ blk_driver'.seen = blk_driver.seen
  <2> DEFINE w == Script[blk_driver.pc]
  <2>1. w[1] = "QueueReady" /\ w[2] = 1
    BY <1>0, <1>2
  <2>2. /\ ~Running /\ blk_setup' = blk_setup /\ Script' = Script /\ Layout' = Layout /\ BlkHeads' = BlkHeads
        /\ blk_driver'.pc = blk_driver.pc + 1
        /\ blk_driver' \in [script : DOMAIN blk_setup.scripts, pc : 1 .. Len(Script) + 1, acked : BOOLEAN,
                            seen : 0 .. IndexModulus - 1]
        /\ IF w[1] = "EmptyRings"
           THEN /\ blk_mem' = [c \in RamCells |-> IF c \in RingCells(Layout) THEN 0 ELSE blk_mem[c]]
                /\ blk' = blk /\ blk_driver'.seen = 0
           ELSE blk' = WriteBlkRegister(blk, w[1], w[2]) /\ blk_mem' = blk_mem /\ blk_driver'.seen = blk_driver.seen
    BY BlkAdvance
  <2> HIDE DEF w
  <2> QED
    BY <1>0, <2>1, <2>2
<1>4. Programmed(8, blk.regs.queue_sel, blk.queue, 0, Layout) /\ blk.regs.queue_sel = 0
  <2>1. 8 \in 0 .. 8 /\ blk_driver.pc = Len(Script) - ProgramLength + 1 + 8
    BY <1>0, <1>1 DEF ProgramLength
  <2>2. Programmed(8, blk.regs.queue_sel, blk.queue, 0, Layout)
    BY <2>1 DEF BlkInv, BlkScriptInv
  <2> QED
    BY <2>2 DEF Programmed
<1>5. ~blk.queue.ready /\ Stopped(blk.queue) /\ blk_driver.seen = 0 /\ \A c \in RingCells(Layout) : blk_mem[c] = 0
  <2>1. blk_driver.pc # 1
    BY <1>0
  <2>2. BlkEmptied
    <3>1. PICK k \in 2 .. Len(Script) - 9 : Script[k][1] = "EmptyRings"
      BY <1>1, ScriptSound
    <3>2. k \in 2 .. blk_driver.pc - 1
      BY <1>0, <1>1
    <3> QED
      BY <3>1, <3>2 DEF BlkEmptied
  <2> QED
    BY <1>3, <2>1, <2>2 DEF BlkInv, BlkScriptInv, BlkQueueInv
<1> DEFINE q == WriteQueueRegister(blk.queue, "QueueReady", 1)
<1>6. blk' = [blk EXCEPT !.queue = q]
  BY <1>3, <1>4 DEF WriteBlkRegister, CommonRegisters
<1>7. QueueOK(q) /\ q.ready /\ Aligned(q, Layout) /\ q.last_avail = 0 /\ q.used_idx = 0
  <2>1. QueueOK(blk.queue) /\ Programmed(8, 0, blk.queue, 0, Layout)
    BY <1>1, <1>4 DEF BlkRegistersOK
  <2>2. QueueOK(q) /\ q.ready
    BY <2>1, QueueStarted
  <2>3. Aligned(q, Layout) /\ q.last_avail = blk.queue.last_avail /\ q.used_idx = blk.queue.used_idx
    BY <2>1, StartedIsAligned
  <2> QED
    BY <1>5, <2>2, <2>3 DEF Stopped
<1> HIDE DEF q
<1>8. BlkRegistersOK(blk') /\ blk'.queue = q /\ blk'.regs = blk.regs
  BY <1>1, <1>6, <1>7 DEF BlkRegistersOK, BlkTold
<1>9. BlkRing(0, 0)'
  <2>1. RingOK(Layout, blk_mem, BlkHeads, 0, 0, 0)
    BY <1>1, <1>5, RingEmpty
  <2>2. (0 + 0) % IndexModulus = 0
    BY RingNumbers
  <2> QED
    BY <1>3, <1>5, <1>7, <1>8, <2>1, <2>2 DEF BlkRing
<1>10. BlkMemoryInv' /\ BlkQueueInv'
  <2>1. BlkMemoryInv'
    BY <1>3 DEF BlkInv, BlkMemoryInv
  <2>2. blk'.queue.ready
    BY <1>7, <1>8
  <2>3. \E r, n \in Nat : BlkRing(r, n)'
    BY <1>9
  <2> QED
    BY <1>8, <2>1, <2>2, <2>3 DEF BlkQueueInv
<1>11. BlkScriptInv'
  <2>1. Running'
    BY <1>1, <1>3 DEF Running
  <2>2. blk'.queue.ready /\ blk'.regs.queue_sel = 0
    BY <1>4, <1>7, <1>8
  <2>3. \A i \in 0 .. 8 : blk_driver'.pc # Len(Script') - ProgramLength + 1 + i
    BY <1>1, <1>3 DEF ProgramLength
  <2>4. blk_driver' \in [script : DOMAIN blk_setup'.scripts, pc : 1 .. Len(Script') + 1, acked : BOOLEAN,
                         seen : 0 .. IndexModulus - 1]
    BY <1>3
  <2> QED
    BY <2>1, <2>2, <2>3, <2>4 DEF BlkScriptInv
<1>12. BlkInv'
  BY <1>3, <1>10, <1>11, BlkTogether
<1>13. BlkStep
  <2>1. /\ Offered' = OfferedOf(Layout', blk_mem', blk_driver'.seen, 0, 0)
        /\ Returned' = ReturnedOf(Layout', blk_mem', blk_driver'.seen, 0)
    <3>1. blk_setup'.sound
      BY <1>3
    <3> QED
      BY <1>9, <1>12, <3>1, BlkViewNext
  <2>2. Offered' = <<>> /\ Returned' = <<>>
    BY <2>1 DEF OfferedOf, ReturnedOf
  <2>3. Offered = <<>> /\ Returned = <<>>
    BY <1>5 DEF Live, Offered, Returned
  <2> QED
    BY <2>2, <2>3 DEF BlkStep
<1> QED
  BY <1>12, <1>13

LEMMA BlkWriteStep == ASSUME BlkInv, blk_setup.sound, DriverWrite PROVE BlkInv' /\ BlkStep
<1> DEFINE pc == blk_driver.pc
<1>1. Len(Script) \in Nat /\ Len(Script) >= 11 /\ SoundScript(Script, Layout)
  BY BlkSound
<1>2. pc \in 1 .. Len(Script)
  BY BlkAdvance
<1>3. CASE pc = 1
  BY <1>3, BlkStops
<1>4. CASE pc \in 2 .. Len(Script) - 9
  <2>1. Script[pc][1] # "QueueReady" /\ pc \in 2 .. Len(Script) - 1
    <3>1. \A k \in 2 .. Len(Script) - 9 : Script[k][1] # "QueueReady"
      BY <1>1, ScriptSound
    <3> QED
      BY <1>1, <1>4, <3>1
  <2>2. \A j \in 0 .. 8 : pc + 1 = Len(Script) - ProgramLength + 1 + j =>
          Programmed(j, blk'.regs.queue_sel, blk'.queue, 0, Layout)
    <3> TAKE j \in 0 .. 8
    <3> HAVE pc + 1 = Len(Script) - ProgramLength + 1 + j
    <3>1. j = 0
      BY <1>1, <1>4 DEF ProgramLength
    <3> QED
      BY <3>1 DEF Programmed
  <2> QED
    BY <2>1, <2>2, BlkSetsUp
<1>5. CASE pc \in Len(Script) - 8 .. Len(Script) - 1
  <2> DEFINE j == pc - (Len(Script) - 8)
  <2>1. j \in 0 .. 7 /\ pc = Len(Script) - 8 + j
    BY <1>1, <1>2, <1>5
  <2> HIDE DEF j
  <2> QED
    BY <2>1, BlkPrograms
<1>6. CASE pc = Len(Script)
  <2>1. pc - Len(Script) = 0
    BY <1>1, <1>6
  <2> QED
    BY <2>1, BlkStarts
<1> QED
  BY <1>1, <1>2, <1>3, <1>4, <1>5, <1>6

\* While the driver runs its queue is in use.
LEMMA BlkInUse ==
  ASSUME BlkInv, blk_setup.sound, Running
  PROVE  \E r, n \in Nat : BlkRing(r, n)
  BY DEF BlkInv, BlkScriptInv, BlkQueueInv

LEMMA BlkInFlight ==
  ASSUME BlkInv, blk_setup.sound, NEW r \in Nat, NEW n \in Nat, BlkRing(r, n)
  PROVE  /\ InFlight = {blk_mem[AvailCell(Layout, blk_driver.seen + k)] : k \in 0 .. n - 1}
         /\ At(AvailIdxCell(Layout)) = (blk_driver.seen + n) % IndexModulus
         /\ blk_mem[AvailIdxCell(Layout)] = (blk_driver.seen + n) % IndexModulus
<1> DEFINE l == Layout
           s == blk_driver.seen
           mem == blk_mem
<1>1. SoundLayout(l) /\ RingOK(l, mem, BlkHeads, s, r, n)
  BY BlkSound DEF BlkRing
<1> DEFINE idx == At(AvailIdxCell(l))
           cell(k) == At(AvailCell(l, s + k))
<1>2. InFlight = {cell(k) : k \in 0 .. (((idx - s) % IndexModulus) - 1)}
  BY DEF InFlight
<1>3. idx = mem[AvailIdxCell(l)] /\ \A k \in Int : cell(k) = mem[AvailCell(l, s + k)]
  <2>1. s \in Nat
    BY <1>1, RingIndices
  <2>2. InRam(AvailIdxCell(l), 1)
    <3>1. 0 \in Int
      OBVIOUS
    <3> QED
      BY <1>1, <3>1, CellsOf
  <2>3. ASSUME NEW k \in Int PROVE InRam(AvailCell(l, s + k), 1)
    <3>1. s + k \in Int
      BY <2>1
    <3> HIDE DEF s, l
    <3> QED
      BY <1>1, <3>1, CellsOf
  <2> QED
    BY <2>2, <2>3 DEF At
<1>4. mem[AvailIdxCell(l)] = (s + n) % IndexModulus
  BY <1>1 DEF RingOK
<1>5. (((s + n) % IndexModulus) - s) % IndexModulus = n
  <2>1. s \in Nat /\ s \in 0 .. IndexModulus - 1 /\ n < IndexModulus /\ IndexModulus \in Nat \ {0}
    BY <1>1, RingIndices, RingNumbers DEF RingOK
  <2> HIDE DEF s
  <2>2. (((s + n) % IndexModulus) - ((s + 0) % IndexModulus)) % IndexModulus = n - 0
    <3>1. 0 <= n /\ n - 0 < IndexModulus /\ 0 \in Nat
      BY <2>1
    <3> QED
      BY <2>1, <3>1, Behind
  <2>3. (s + 0) % IndexModulus = s
    <3>1. s + 0 = s
      BY <2>1
    <3>2. s % IndexModulus = s
      BY <2>1, RemainderOfSmall
    <3> QED
      BY <3>1, <3>2
  <2> QED
    BY <2>2, <2>3
<1> HIDE DEF idx, cell, s, mem
<1>6. InFlight = {cell(k) : k \in 0 .. n - 1}
  BY <1>2, <1>3, <1>4, <1>5
<1>7. \A k \in 0 .. n - 1 : cell(k) = mem[AvailCell(l, s + k)]
  BY <1>3
<1>8. InFlight = {mem[AvailCell(l, s + k)] : k \in 0 .. n - 1}
  BY <1>6, <1>7
<1> QED
  BY <1>3, <1>4, <1>8 DEF idx, s, mem

LEMMA BlkOfferStep ==
  ASSUME BlkInv, blk_setup.sound, NEW head \in BlkHeads, NEW value, DriverOffer(head, value)
  PROVE  BlkInv' /\ BlkStep
<1> DEFINE l == Layout
           s == blk_driver.seen
           mem == blk_mem
           mem2 == blk_mem'
           buffers == blk_setup.chains[head].data \cup blk_setup.chains[head].status
<1>1. Running /\ head \notin InFlight /\ blk_setup' = blk_setup /\ blk' = blk /\ blk_driver' = blk_driver
  BY DEF DriverOffer
<1>2. PICK r, n \in Nat : BlkRing(r, n)
  BY <1>1, BlkInUse
<1>3. SoundLayout(l) /\ RingOK(l, mem, BlkHeads, s, r, n) /\ SoundHeads(l, BlkHeads) /\ buffers \cap QueueCells(l) = {}
  BY <1>2, BlkSound DEF BlkRing
<1>4. /\ InFlight = {mem[AvailCell(l, s + k)] : k \in 0 .. n - 1}
      /\ At(AvailIdxCell(l)) = (s + n) % IndexModulus /\ mem[AvailIdxCell(l)] = (s + n) % IndexModulus
  BY <1>2, BlkInFlight
<1>5. n + 1 <= l.num /\ n + 1 < IndexModulus
  BY <1>1, <1>3, <1>4, RoomForOne
<1> DEFINE idx == (s + n) % IndexModulus
<1>6. mem2 = [c \in RamCells |->
        CASE c = AvailIdxCell(l) -> (idx + 1) % IndexModulus
          [] c = AvailCell(l, idx) -> head
          [] c \in blk_setup.chains[head].data -> value
          [] c \in blk_setup.chains[head].status -> NoStatus
          [] OTHER -> mem[c]]
  <2> DEFINE a == At(AvailIdxCell(Layout))
  <2>1. blk_mem' = [c \in RamCells |->
          CASE c = AvailIdxCell(Layout) -> (a + 1) % IndexModulus
            [] c = AvailCell(Layout, a) -> head
            [] c \in blk_setup.chains[head].data -> value
            [] c \in blk_setup.chains[head].status -> NoStatus
            [] OTHER -> blk_mem[c]]
    BY Zenon DEF DriverOffer
  <2>2. a = idx
    BY <1>4
  <2> HIDE DEF a, idx
  <2> QED
    BY <2>1, <2>2
<1>7. AvailCell(l, idx) = AvailCell(l, s + n) /\ s + n \in Int
  <2>1. s + n \in Int
    BY <1>3, RingIndices
  <2> HIDE DEF s
  <2> QED
    BY <1>3, <2>1, CellOfIndex
<1>8. /\ AvailIdxCell(l) \in AvailPart(l) /\ AvailCell(l, s + n) \in AvailPart(l)
      /\ AvailCell(l, s + n) # AvailIdxCell(l)
  BY <1>3, <1>7, CellsOf
<1>9. /\ AvailPart(l) \subseteq RingCells(l) /\ QueueCells(l) = TableCells(l) \cup RingCells(l)
      /\ QueueCells(l) \subseteq RamCells /\ TableCells(l) \cap RingCells(l) = {}
  BY <1>3, LayoutNumbers DEF SoundLayout
<1> HIDE DEF l, s, mem, mem2, idx
<1>10. /\ mem2[AvailIdxCell(l)] = (idx + 1) % IndexModulus /\ mem2[AvailCell(l, s + n)] = head
       /\ \A c \in QueueCells(l) \ {AvailIdxCell(l), AvailCell(l, s + n)} : mem2[c] = mem[c]
       /\ mem2 = [c \in RamCells |-> mem2[c]]
  <2> DEFINE ai == AvailIdxCell(l)
             ac == AvailCell(l, s + n)
             cells == QueueCells(l)
             data == blk_setup.chains[head].data
             status == blk_setup.chains[head].status
  <2>1. mem2 = [c \in RamCells |->
          CASE c = ai -> (idx + 1) % IndexModulus
            [] c = ac -> head
            [] c \in data -> value
            [] c \in status -> NoStatus
            [] OTHER -> mem[c]]
    BY <1>6, <1>7
  <2>2. /\ ai \in cells /\ ac \in cells /\ ac # ai /\ cells \subseteq RamCells
        /\ \A c \in cells : c \notin data /\ c \notin status
    BY <1>3, <1>8, <1>9
  <2> HIDE DEF ai, ac, cells, data, status
  <2>3. /\ mem2[ai] = (idx + 1) % IndexModulus /\ mem2[ac] = head
        /\ \A c \in cells \ {ai, ac} : mem2[c] = mem[c]
    BY <2>1, <2>2
  <2>4. mem2 = [c \in RamCells |-> mem2[c]]
    BY <2>1
  <2> QED
    BY <2>3, <2>4 DEF ai, ac, cells
<1>11. /\ RingOK(l, mem2, BlkHeads, s, r, n + 1)
       /\ OfferedOf(l, mem2, s, r, n + 1) = Append(OfferedOf(l, mem, s, r, n), head)
       /\ ReturnedOf(l, mem2, s, r) = ReturnedOf(l, mem, s, r)
  <2>1. head \notin {mem[AvailCell(l, s + k)] : k \in 0 .. n - 1}
    BY <1>1, <1>4
  <2>2. mem2[AvailIdxCell(l)] = (mem[AvailIdxCell(l)] + 1) % IndexModulus
    BY <1>4, <1>10 DEF idx
  <2>3. \A c \in RingCells(l) \ {AvailIdxCell(l), AvailCell(l, s + n)} : mem2[c] = mem[c]
    BY <1>9, <1>10
  <2>4. mem2[AvailCell(l, s + n)] = head
    BY <1>10
  <2>5. SoundLayout(l) /\ RingOK(l, mem, BlkHeads, s, r, n)
    BY <1>3
  <2> QED
    BY <1>5, <2>1, <2>2, <2>3, <2>4, <2>5, RingOffer
<1>12. Layout' = l /\ BlkHeads' = BlkHeads /\ blk_driver'.seen = s /\ blk_mem' = mem2
  BY <1>1 DEF l, s, mem2, Layout, BlkHeads
<1>13. BlkRing(r, n + 1)' /\ n + 1 \in Nat
  BY <1>1, <1>2, <1>11, <1>12 DEF BlkRing, l, s
<1>14. BlkMemoryInv' /\ BlkQueueInv'
  <2>1. \A c \in TableCells(l) : mem2[c] = mem[c]
    BY <1>8, <1>9, <1>10
  <2>2. \A c \in TableCells(l) : mem[c] = blk_setup.mem[c]
    BY DEF BlkInv, BlkMemoryInv, l, mem
  <2>3. BlkMemoryInv'
    BY <1>1, <1>10, <1>12, <2>1, <2>2 DEF BlkMemoryInv
  <2>4. BlkRegistersOK(blk) /\ blk.queue.ready
    BY <1>1 DEF BlkInv, BlkQueueInv, BlkScriptInv
  <2>5. BlkQueueInv'
    BY <1>1, <1>13, <2>4 DEF BlkQueueInv
  <2> QED
    BY <2>3, <2>5
<1>15. BlkScriptInv'
  <2>1. blk_driver' = [script |-> blk_driver'.script, pc |-> blk_driver'.pc, acked |-> blk_driver'.acked,
                       seen |-> blk_driver'.seen]
        /\ blk_driver'.acked \in BOOLEAN /\ blk_driver'.seen \in 0 .. IndexModulus - 1
        /\ blk_driver'.script = blk_driver.script /\ blk_driver'.pc = blk_driver.pc
        /\ blk'.regs = blk.regs /\ blk'.queue.ready = blk.queue.ready
    BY <1>1, BlkDriver
  <2> QED
    BY <1>1, <2>1, BlkScriptSame
<1>16. BlkInv'
  BY <1>1, <1>14, <1>15, BlkTogether
<1>17. BlkStep
  <2>1. Offered = OfferedOf(l, mem, s, r, n) /\ Returned = ReturnedOf(l, mem, s, r)
    BY <1>2, BlkView DEF l, mem, s
  <2>2. Offered' = OfferedOf(l, mem2, s, r, n + 1) /\ Returned' = ReturnedOf(l, mem2, s, r)
    <3>1. blk_setup'.sound
      BY <1>1
    <3>2. /\ Offered' = OfferedOf(Layout', blk_mem', blk_driver'.seen, r, n + 1)
          /\ Returned' = ReturnedOf(Layout', blk_mem', blk_driver'.seen, r)
      BY <1>2, <1>13, <1>16, <3>1, BlkViewNext
    <3> QED
      BY <1>12, <3>2
  <2>3. head \in Heads
    <3>1. head \in 0 .. l.num - 1
      BY <1>3 DEF SoundHeads
    <3>2. l.num \in Nat /\ l.num <= QueueSize /\ QueueSize \in Nat
      BY <1>3, LayoutNumbers, RingNumbers
    <3> QED
      BY <3>1, <3>2 DEF Heads
  <2>4. Offered' = Append(Offered, head) /\ Returned' = Returned
    BY <1>11, <2>1, <2>2
  <2> QED
    BY <2>3, <2>4 DEF BlkStep, BlkQueue!Next, BlkQueue!Offer
<1> QED
  BY <1>16, <1>17

\* A notification that finds nothing to do.
LEMMA NothingMoves ==
  ASSUME NEW S, NEW a \in Seq(S), NEW b \in Seq(S)
  PROVE  a \o SubSeq(b, 1, 0) = a /\ SubSeq(b, 0 + 1, Len(b)) = b
<1>1. SubSeq(b, 1, 0) = <<>>
  OBVIOUS
<1>2. a \o <<>> = a
  OBVIOUS
<1>3. SubSeq(b, 1, Len(b)) = b
  OBVIOUS
<1> QED
  BY <1>1, <1>2, <1>3

LEMMA AlignedIsOK ==
  ASSUME NEW l, SoundLayout(l), NEW q, Aligned(q, l)
  PROVE  QueueOK(q) /\ q.ready
<1>1. l.num \in Nat /\ l.desc \in Nat /\ l.avail \in Nat /\ l.used \in Nat
  BY LayoutNumbers
<1> QED
  BY <1>1 DEF QueueOK, Aligned

\* Where the loop ends, for the queue of the block device.
LEMMA BlkServes ==
  ASSUME BlkInv, blk_setup.sound, NEW r \in Nat, NEW n \in Nat, BlkRing(r, n)
  PROVE  LET l == Layout
             kept == TableCells(l) \cup AvailPart(l)
         IN  Serving(ProcessQueue(blk, blk_mem), l, kept, blk_mem, BlkHeads, blk_driver.seen, r, n, n)
<1> DEFINE l == Layout
           kept == TableCells(l) \cup AvailPart(l)
           s == blk_driver.seen
<1>1. SoundLayout(l) /\ SoundHeads(l, BlkHeads) /\ SoundTable(l, blk_setup.mem, QueueCells(l))
  BY BlkSound
<1>2. /\ Aligned(blk.queue, l) /\ RingOK(l, blk_mem, BlkHeads, s, r, n)
      /\ blk.queue.last_avail = (s + r) % IndexModulus /\ blk.queue.used_idx = (s + r) % IndexModulus
  BY DEF BlkRing
<1>3. /\ RingCells(l) = AvailPart(l) \cup UsedPart(l) /\ AvailPart(l) \cap UsedPart(l) = {}
      /\ QueueCells(l) = TableCells(l) \cup RingCells(l) /\ QueueCells(l) \subseteq RamCells
      /\ TableCells(l) \cap RingCells(l) = {}
  BY <1>1, LayoutNumbers DEF SoundLayout
<1>4. blk_mem = [c \in RamCells |-> blk_mem[c]] /\ \A c \in TableCells(l) : blk_mem[c] = blk_setup.mem[c]
  BY DEF BlkInv, BlkMemoryInv
<1>5. Separate(kept, l) /\ kept \subseteq RamCells /\ kept \cup UsedPart(l) = QueueCells(l)
  BY <1>3 DEF Separate
<1>6. SoundTable(l, blk_mem, kept \cup UsedPart(l))
  <2>1. SoundTable(l, blk_mem, QueueCells(l))
    BY <1>1, <1>4 DEF SoundTable
  <2> QED
    BY <1>5, <2>1
<1>7. BlkHeads \subseteq Nat
  BY <1>1 DEF SoundHeads
<1> HIDE DEF l, kept, s
<1>8. Serving(ProcessQueue(blk, blk_mem), l, kept, blk_mem, BlkHeads, s, r, n, n)
  BY <1>1, <1>2, <1>4, <1>5, <1>6, <1>7, BlkServed
<1> QED
  BY <1>8 DEF l, kept, s

LEMMA BlkNotifyStep == ASSUME BlkInv, blk_setup.sound, BlkNotify PROVE BlkInv' /\ BlkStep
<1> DEFINE l == Layout
           s == blk_driver.seen
           mem == blk_mem
           mem2 == blk_mem'
           done == ProcessQueue(blk, blk_mem)
           kept == TableCells(l) \cup AvailPart(l)
           dev == [blk EXCEPT !.queue = done.q, !.disk = done.own]
<1>1. /\ Running /\ blk_setup' = blk_setup /\ blk_driver' = blk_driver /\ mem2 = done.mem
      /\ blk' = IF done.any_completed THEN SetInterrupt(dev, 1) ELSE dev
  BY DEF BlkNotify
<1>2. PICK r, n \in Nat : BlkRing(r, n)
  BY <1>1, BlkInUse
<1>3. SoundLayout(l) /\ RingOK(l, mem, BlkHeads, s, r, n) /\ BlkRegistersOK(blk)
  BY <1>2, BlkSound DEF BlkRing
<1>4. Serving(done, l, kept, mem, BlkHeads, s, r, n, n)
  BY <1>2, BlkServes
<1> HIDE DEF l, s, mem, mem2, done, kept
<1>5. /\ done.any_completed = (r < n) /\ Aligned(done.q, l)
      /\ done.q.last_avail = (s + n) % IndexModulus /\ done.q.used_idx = (s + n) % IndexModulus
      /\ Kept(kept, mem, done.mem) /\ RingOK(l, done.mem, BlkHeads, s, n, n) /\ r \in 0 .. n
  BY <1>4 DEF Serving
<1>6. QueueOK(done.q) /\ done.q.ready
  BY <1>3, <1>5, AlignedIsOK
<1>7. BlkTold(dev) /\ dev.regs = blk.regs /\ dev.queue = done.q /\ dev.interrupt_status = blk.interrupt_status
  BY <1>3 DEF BlkRegistersOK, BlkTold
<1> HIDE DEF dev
<1>8. /\ BlkTold(blk') /\ blk'.regs = blk.regs /\ blk'.queue = done.q
      /\ IF r < n THEN blk'.interrupt_status = 1 ELSE blk'.interrupt_status = blk.interrupt_status
  <2>1. /\ BlkTold(SetInterrupt(dev, 1)) /\ SetInterrupt(dev, 1).regs = dev.regs
        /\ SetInterrupt(dev, 1).queue = dev.queue /\ SetInterrupt(dev, 1).interrupt_status = 1
    BY <1>7, InterruptTold
  <2> QED
    BY <1>1, <1>5, <1>7, <2>1
<1>9. BlkRegistersOK(blk')
  BY <1>3, <1>6, <1>8 DEF BlkRegistersOK
<1>10. Layout' = l /\ BlkHeads' = BlkHeads /\ blk_driver'.seen = s /\ blk_mem' = mem2 /\ mem2 = done.mem
  BY <1>1 DEF l, s, mem2, Layout, BlkHeads
<1>11. BlkRing(n, n)'
  <2>1. n # 0 => blk'.interrupt_status # 0 \/ blk_driver'.acked
    <3>1. CASE r < n
      BY <1>8, <3>1
    <3>2. CASE ~(r < n)
      <4>1. r = n
        BY <1>5, <3>2
      <4> QED
        BY <1>1, <1>2, <1>8, <3>2, <4>1 DEF BlkRing
    <3> QED
      BY <3>1, <3>2
  <2> QED
    BY <1>5, <1>8, <1>10, <2>1 DEF BlkRing
<1>12. BlkMemoryInv' /\ BlkQueueInv'
  <2>1. \A c \in TableCells(l) : mem2[c] = mem[c]
    BY <1>1, <1>5 DEF Kept, kept
  <2>2. \A c \in TableCells(l) : mem[c] = blk_setup.mem[c]
    BY DEF BlkInv, BlkMemoryInv, l, mem
  <2>3. mem2 = [c \in RamCells |-> mem2[c]]
    BY <1>1, <1>5 DEF Kept
  <2>4. BlkMemoryInv'
    BY <1>1, <1>10, <2>1, <2>2, <2>3 DEF BlkMemoryInv
  <2>5. blk'.queue.ready
    BY <1>6, <1>8
  <2>6. BlkQueueInv'
    BY <1>2, <1>9, <1>11, <2>5 DEF BlkQueueInv
  <2> QED
    BY <2>4, <2>6
<1>13. BlkScriptInv'
  <2>1. blk_driver' = [script |-> blk_driver'.script, pc |-> blk_driver'.pc, acked |-> blk_driver'.acked,
                       seen |-> blk_driver'.seen]
        /\ blk_driver'.acked \in BOOLEAN /\ blk_driver'.seen \in 0 .. IndexModulus - 1
        /\ blk_driver'.script = blk_driver.script /\ blk_driver'.pc = blk_driver.pc
    BY <1>1, BlkDriver
  <2>2. blk'.queue.ready = blk.queue.ready
    <3>1. blk.queue.ready = TRUE
      BY <1>2 DEF BlkRing, Aligned
    <3>2. done.q.ready = TRUE
      BY <1>5 DEF Aligned
    <3> QED
      BY <1>8, <3>1, <3>2
  <2> QED
    BY <1>1, <1>8, <2>1, <2>2, BlkScriptSame
<1>14. BlkInv'
  BY <1>1, <1>12, <1>13, BlkTogether
<1>15. BlkStep
  <2>1. Offered = OfferedOf(l, mem, s, r, n) /\ Returned = ReturnedOf(l, mem, s, r)
    BY <1>2, BlkView DEF l, mem, s
  <2>2. Offered' = OfferedOf(l, mem2, s, n, n) /\ Returned' = ReturnedOf(l, mem2, s, n)
    <3>1. blk_setup'.sound
      BY <1>1
    <3>2. /\ Offered' = OfferedOf(Layout', blk_mem', blk_driver'.seen, n, n)
          /\ Returned' = ReturnedOf(Layout', blk_mem', blk_driver'.seen, n)
      BY <1>11, <1>14, <3>1, BlkViewNext
    <3> QED
      BY <1>10, <3>2
  <2> DEFINE k == n - r
  <2>3. /\ ReturnedOf(l, mem2, s, n) = ReturnedOf(l, mem, s, r) \o SubSeq(OfferedOf(l, mem, s, r, n), 1, n - r)
        /\ OfferedOf(l, mem2, s, n, n) =
             SubSeq(OfferedOf(l, mem, s, r, n), (n - r) + 1, Len(OfferedOf(l, mem, s, r, n)))
        /\ n - r \in 0 .. Len(OfferedOf(l, mem, s, r, n))
    <3>1. \A c \in AvailPart(l) : mem2[c] = mem[c]
      BY <1>1, <1>5 DEF Kept, kept
    <3>2. RingOK(l, mem2, BlkHeads, s, n, n) /\ r <= n
      BY <1>1, <1>5
    <3> QED
      BY <1>3, <3>1, <3>2, RingReturned, ZenonT(40)
  <2>4. /\ Returned' = Returned \o SubSeq(Offered, 1, k) /\ Offered' = SubSeq(Offered, k + 1, Len(Offered))
        /\ k \in 0 .. Len(Offered)
    BY <2>1, <2>2, <2>3
  <2>5. Offered \in Seq(BlkHeads) /\ Returned \in Seq(BlkHeads)
    BY <1>3, <2>1, ViewsAreSequences
  <2> HIDE DEF k
  <2>6. CASE k = 0
    BY <2>4, <2>5, <2>6, NothingMoves DEF BlkStep
  <2>7. CASE k # 0
    <3>1. k \in 1 .. Len(Offered)
      BY <2>4, <2>5, <2>7
    <3> QED
      BY <2>4, <3>1 DEF BlkStep, BlkQueue!Next, BlkQueue!Return
  <2> QED
    BY <2>6, <2>7
<1> QED
  BY <1>14, <1>15

LEMMA BlkCollectStep == ASSUME BlkInv, blk_setup.sound, DriverCollect PROVE BlkInv' /\ BlkStep
<1> DEFINE l == Layout
           s == blk_driver.seen
           mem == blk_mem
           mem2 == blk_mem'
           d == blk_driver
<1>1. Running /\ blk_driver.acked /\ blk_setup' = blk_setup /\ blk' = blk
  BY DEF DriverCollect
<1>2. PICK r, n \in Nat : BlkRing(r, n)
  BY <1>1, BlkInUse
<1>3. SoundLayout(l) /\ RingOK(l, mem, BlkHeads, s, r, n) /\ BlkRegistersOK(blk)
  BY <1>2, BlkSound DEF BlkRing
<1>4. /\ d = [script |-> d.script, pc |-> d.pc, acked |-> d.acked, seen |-> d.seen]
      /\ d.seen \in 0 .. IndexModulus - 1 /\ d.acked \in BOOLEAN
  BY BlkDriver
<1>5. At(UsedIdxCell(l)) = (s + r) % IndexModulus
  <2>1. InRam(UsedIdxCell(l), 1)
    <3>1. 0 \in Int
      OBVIOUS
    <3> QED
      BY <1>3, <3>1, CellsOf
  <2>2. mem[UsedIdxCell(l)] = (s + r) % IndexModulus
    BY <1>3 DEF RingOK
  <2> QED
    BY <2>1, <2>2 DEF At
<1>6. \A i \in Nat, j \in Nat : BlkRing(i, j) => i < IndexModulus /\ ((s + i) % IndexModulus = s <=> i = 0)
  <2> TAKE i \in Nat, j \in Nat
  <2> HAVE BlkRing(i, j)
  <2>1. RingOK(l, mem, BlkHeads, s, i, j)
    BY DEF BlkRing
  <2>2. s \in Nat /\ s \in 0 .. IndexModulus - 1 /\ i < IndexModulus /\ IndexModulus \in Nat \ {0}
    BY <1>3, <2>1, RingIndices, RingNumbers DEF RingOK
  <2> HIDE DEF s
  <2>3. (((s + i) % IndexModulus) - ((s + 0) % IndexModulus)) % IndexModulus = i - 0
    <3>1. 0 <= i /\ i - 0 < IndexModulus /\ 0 \in Nat
      BY <2>2
    <3> QED
      BY <2>2, <3>1, Behind
  <2>4. (s + 0) % IndexModulus = s
    <3>1. s + 0 = s
      BY <2>2
    <3>2. s % IndexModulus = s
      BY <2>2, RemainderOfSmall
    <3> QED
      BY <3>1, <3>2
  <2>5. ASSUME (s + i) % IndexModulus = s PROVE i = 0
    <3>1. (s - s) % IndexModulus = i
      BY <2>3, <2>4, <2>5
    <3>2. s - s = 0 /\ 0 % IndexModulus = 0
      BY <2>2, RemainderOfSmall
    <3> QED
      BY <3>1, <3>2
  <2> QED
    BY <2>2, <2>4, <2>5
<1>7. CASE (s + r) % IndexModulus = s
  <2>1. blk_driver' = [d EXCEPT !.acked = FALSE] /\ blk_mem' = blk_mem
    BY <1>5, <1>7 DEF DriverCollect
  <2>2. blk_driver' = [script |-> d.script, pc |-> d.pc, acked |-> FALSE, seen |-> d.seen]
    BY <1>4, <2>1, Zenon
  <2>3. /\ blk_driver'.script = d.script /\ blk_driver'.pc = d.pc
        /\ blk_driver'.seen = d.seen /\ blk_driver'.acked = FALSE
    BY <2>2
  <2>4. BlkMemoryInv' /\ BlkQueueInv' /\ BlkStep
    <3>1. \A i, j \in Nat : BlkRing(i, j) /\ i # 0 => blk'.interrupt_status # 0 \/ blk_driver'.acked
      <4> TAKE i, j \in Nat
      <4> HAVE BlkRing(i, j) /\ i # 0
      <4>1. /\ blk.queue.last_avail = (s + i) % IndexModulus
            /\ blk.queue.last_avail = (s + r) % IndexModulus
        BY <1>2 DEF BlkRing
      <4>2. i = 0
        BY <1>6, <1>7, <4>1
      <4> QED
        BY <4>2
    <3> QED
      BY <1>1, <1>3, <2>1, <2>3, <3>1, BlkQuiet
  <2>5. BlkScriptInv'
    <3>1. blk_driver' = [script |-> blk_driver'.script, pc |-> blk_driver'.pc, acked |-> blk_driver'.acked,
                         seen |-> blk_driver'.seen]
      BY <2>2, <2>3
    <3>2. blk_driver'.acked \in BOOLEAN /\ blk_driver'.seen \in 0 .. IndexModulus - 1
          /\ blk'.regs = blk.regs /\ blk'.queue.ready = blk.queue.ready
      BY <1>1, <1>4, <2>3
    <3> QED
      BY <1>1, <2>3, <3>1, <3>2, BlkScriptSame
  <2> QED
    BY <1>1, <2>4, <2>5, BlkTogether
<1>8. CASE (s + r) % IndexModulus # s
  <2> DEFINE t == (s + 1) % IndexModulus
             used == UsedCell(l, s)
             cleared == {AvailCell(l, s), used, used + 1}
  <2>1. /\ blk_driver' = [d EXCEPT !.seen = (d.seen + 1) % IndexModulus]
        /\ mem2 = [c \in RamCells |-> IF c \in cleared THEN 0 ELSE mem[c]]
    BY <1>5, <1>8 DEF DriverCollect
  <2>2. blk_driver' = [script |-> d.script, pc |-> d.pc, acked |-> d.acked, seen |-> t]
    BY <1>4, <2>1, Zenon
  <2>3. /\ blk_driver'.script = d.script /\ blk_driver'.pc = d.pc
        /\ blk_driver'.seen = t /\ blk_driver'.acked = d.acked
    BY <2>2
  <2>4. r # 0 /\ s \in Int
    BY <1>2, <1>4, <1>6, <1>8
  <2> HIDE DEF l, s, mem, mem2, d
  <2>5. /\ AvailCell(l, s) \in AvailPart(l) /\ used \in UsedPart(l) /\ used + 1 \in UsedPart(l)
    BY <1>3, <2>4, CellsOf
  <2>6. /\ RingCells(l) = AvailPart(l) \cup UsedPart(l)
        /\ QueueCells(l) = TableCells(l) \cup RingCells(l) /\ QueueCells(l) \subseteq RamCells
        /\ TableCells(l) \cap RingCells(l) = {}
    BY <1>3, LayoutNumbers DEF SoundLayout
  <2> HIDE DEF used
  <2>7. /\ \A c \in RingCells(l) \ cleared : mem2[c] = mem[c]
        /\ \A c \in TableCells(l) : mem2[c] = mem[c]
        /\ mem2 = [c \in RamCells |-> mem2[c]]
    BY <2>1, <2>5, <2>6
  <2>8. /\ RingOK(l, mem2, BlkHeads, t, r - 1, n - 1)
        /\ OfferedOf(l, mem2, t, r - 1, n - 1) = OfferedOf(l, mem, s, r, n)
        /\ ReturnedOf(l, mem2, t, r - 1) = Tail(ReturnedOf(l, mem, s, r))
        /\ (t + (r - 1)) % IndexModulus = (s + r) % IndexModulus
    <3>1. cleared = {AvailCell(l, s), UsedCell(l, s), UsedCell(l, s) + 1}
      BY DEF used
    <3>2. SoundLayout(l)
      BY <1>3
    <3>3. RingOK(l, mem, BlkHeads, s, r, n)
      BY <1>3
    <3>4. r # 0
      BY <2>4
    <3>5. t = (s + 1) % IndexModulus /\ t \in Nat /\ s \in Nat
      BY <1>3, <2>4, RingIndices, RingNumbers
    <3>6. \A c \in RingCells(l) \ cleared : mem2[c] = mem[c]
      BY <2>7
    <3> HIDE DEF t, cleared
    <3>7. Collected(l, mem, mem2, BlkHeads, s, t, r, n)
      BY <3>1, <3>2, <3>3, <3>4, <3>5, <3>6, RingCollect
    <3>8. (t + (r - 1)) % IndexModulus = (s + r) % IndexModulus
      BY <3>5, IndexCollected
    <3> QED
      BY <3>7, <3>8 DEF Collected
  <2>9. Layout' = l /\ BlkHeads' = BlkHeads /\ blk_mem' = mem2
    BY <1>1 DEF l, mem2, Layout, BlkHeads
  <2>10. r - 1 \in Nat /\ n - 1 \in Nat
    BY <1>3, <2>4, RingIndices
  <2>11. blk.queue.last_avail = (s + r) % IndexModulus /\ blk.queue.used_idx = (s + r) % IndexModulus
         /\ Aligned(blk.queue, l)
    BY <1>2 DEF BlkRing, s, l
  <2>12. blk_driver'.acked
    BY <1>1, <2>3 DEF d
  <2> HIDE DEF t
  <2>13. BlkRing(r - 1, n - 1)'
    BY <1>1, <2>3, <2>8, <2>9, <2>11, <2>12 DEF BlkRing
  <2>14. BlkMemoryInv' /\ BlkQueueInv'
    <3>1. \A c \in TableCells(l) : mem[c] = blk_setup.mem[c]
      BY DEF BlkInv, BlkMemoryInv, l, mem
    <3>2. BlkMemoryInv'
      BY <1>1, <2>7, <2>9, <3>1 DEF BlkMemoryInv
    <3>3. blk'.queue.ready
      BY <1>1 DEF BlkInv, BlkScriptInv
    <3>4. BlkRegistersOK(blk')
      BY <1>1, <1>3
    <3> QED
      BY <2>10, <2>13, <3>2, <3>3, <3>4 DEF BlkQueueInv
  <2>15. BlkScriptInv'
    <3>1. blk_driver' = [script |-> blk_driver'.script, pc |-> blk_driver'.pc, acked |-> blk_driver'.acked,
                         seen |-> blk_driver'.seen]
      BY <2>2, <2>3
    <3>2. t \in 0 .. IndexModulus - 1
      BY <2>4, RingNumbers DEF t
    <3>3. blk_driver'.acked \in BOOLEAN /\ blk_driver'.seen \in 0 .. IndexModulus - 1
          /\ blk'.regs = blk.regs /\ blk'.queue.ready = blk.queue.ready
      BY <1>1, <1>4, <2>3, <3>2
    <3>4. blk_driver'.script = blk_driver.script /\ blk_driver'.pc = blk_driver.pc
      BY <2>3 DEF d
    <3> QED
      BY <1>1, <3>1, <3>3, <3>4, BlkScriptSame
  <2>16. BlkInv'
    BY <1>1, <2>14, <2>15, BlkTogether
  <2>17. BlkStep
    <3>1. Offered = OfferedOf(l, mem, s, r, n) /\ Returned = ReturnedOf(l, mem, s, r)
      BY <1>2, BlkView DEF l, mem, s
    <3>2. Offered' = OfferedOf(l, mem2, t, r - 1, n - 1) /\ Returned' = ReturnedOf(l, mem2, t, r - 1)
      <4>1. blk_setup'.sound
        BY <1>1
      <4>2. /\ Offered' = OfferedOf(Layout', blk_mem', blk_driver'.seen, r - 1, n - 1)
            /\ Returned' = ReturnedOf(Layout', blk_mem', blk_driver'.seen, r - 1)
        BY <2>10, <2>13, <2>16, <4>1, BlkViewNext
      <4> QED
        BY <2>3, <2>9, <4>2
    <3>3. Len(Returned) = r
      BY <1>3, <3>1, ViewsAreSequences
    <3>4. Returned # <<>>
      BY <2>4, <3>3
    <3>5. Offered' = Offered /\ Returned' = Tail(Returned)
      BY <2>8, <3>1, <3>2
    <3> QED
      BY <3>4, <3>5 DEF BlkStep, BlkQueue!Next, BlkQueue!Collect
  <2> QED
    BY <2>16, <2>17
<1> QED
  BY <1>7, <1>8

LEMMA BlkStutters == ASSUME BlkInv, UNCHANGED blk_vars PROVE BlkInv' /\ BlkStep
<1>1. blk_setup' = blk_setup /\ blk' = blk /\ blk_mem' = blk_mem /\ blk_driver' = blk_driver
  BY DEF blk_vars
<1>2. Layout' = Layout /\ BlkHeads' = BlkHeads /\ Script' = Script
  BY <1>1 DEF Layout, BlkHeads, Script
<1>3. Offered' = Offered /\ Returned' = Returned
  BY <1>1, <1>2 DEF Offered, Returned, Entries, Live
<1>4. BlkMemoryInv' <=> BlkMemoryInv
  BY <1>1, <1>2 DEF BlkMemoryInv
<1>5. BlkQueueInv' <=> BlkQueueInv
  BY <1>1, <1>2 DEF BlkQueueInv, BlkRing
<1>6. BlkScriptInv' <=> BlkScriptInv
  BY <1>1, <1>2 DEF BlkScriptInv, Running, BlkEmptied
<1> QED
  BY <1>1, <1>3, <1>4, <1>5, <1>6 DEF BlkInv, BlkStep

\* The invariant is inductive, and every step is a step of the queue or leaves it alone.
LEMMA BlkEveryStep == ASSUME BlkInv, [BlkNext]_blk_vars PROVE BlkInv' /\ BlkStep
<1>1. CASE UNCHANGED blk_vars
  BY <1>1, BlkStutters
<1>2. CASE BlkNext /\ ~blk_setup.sound
  BY <1>2, BlkUnsound
<1>3. CASE BlkNext /\ blk_setup.sound
  <2>1. ASSUME NEW head \in DOMAIN blk_setup.chains, NEW value \in DataValues, DriverOffer(head, value)
        PROVE  BlkInv' /\ BlkStep
    <3>1. head \in BlkHeads
      BY DEF BlkHeads
    <3> QED
      BY <1>3, <2>1, <3>1, BlkOfferStep
  <2>2. DriverWrite => BlkInv' /\ BlkStep
    BY <1>3, BlkWriteStep
  <2>3. DriverRestart => BlkInv' /\ BlkStep
    BY <1>3, BlkRestartStep
  <2>4. DriverAck => BlkInv' /\ BlkStep
    BY <1>3, BlkAckStep
  <2>5. DriverCollect => BlkInv' /\ BlkStep
    BY <1>3, BlkCollectStep
  <2>6. BlkNotify => BlkInv' /\ BlkStep
    BY <1>3, BlkNotifyStep
  <2>7. BlkRestore => BlkInv' /\ BlkStep
    BY <1>3, BlkRestoreStep
  <2> QED
    BY <1>3, <2>1, <2>2, <2>3, <2>4, <2>5, <2>6, <2>7 DEF BlkNext
<1> QED
  BY <1>1, <1>2, <1>3

(* The cells, the script, the registers and the indices of the block       *)
(* device's queue fit together through every step: the invariant that      *)
(* process_queue, the register writes and a snapshot keep.                 *)
THEOREM BlkInvariant == BlkSpec => []BlkInv
<1>1. BlkInit => BlkInv
  BY BlkInitial
<1>2. BlkInv /\ [BlkNext]_blk_vars => BlkInv'
  BY BlkEveryStep
<1> QED
  BY <1>1, <1>2, PTL DEF BlkSpec

(* process_queue and the driver's ring accesses in guest memory implement  *)
(* the queue of BufferQueue: what the driver offers comes back once, in    *)
(* order, and nothing else does - whatever the chains are, through         *)
(* wrapping indices, stopped and restarted queues and snapshots.           *)
THEOREM BlkRingImplementsQueue == BlkSpec => BlkRingIsQueue
<1>1. BlkInit => BlkInv /\ BlkQueue!Init
  BY BlkInitial DEF BlkQueue!Init
<1>2. BlkInv /\ [BlkNext]_blk_vars => BlkInv' /\ [BlkQueue!Next]_(BlkQueue!queue_vars)
  BY BlkEveryStep DEF BlkStep, BlkQueue!queue_vars
<1> QED
  BY <1>1, <1>2, PTL DEF BlkSpec, BlkRingIsQueue, BlkQueue!Spec

(* A used element that waits to be collected has been announced: the       *)
(* interrupt is pending or the driver's handler runs, and the level that   *)
(* raise_interrupt, clear_interrupt and load_state reported is the level   *)
(* of the interrupt.                                                       *)
THEOREM BlkDriverIsTold == BlkSpec => []BlkDriverTold
<1>1. BlkInv => BlkDriverTold
  <2> SUFFICES ASSUME BlkInv PROVE BlkDriverTold
    OBVIOUS
  <2>1. blk.told = (blk.interrupt_status # 0)
    BY DEF BlkInv, BlkTold
  <2>2. ASSUME Returned # <<>> PROVE blk.interrupt_status # 0 \/ blk_driver.acked
    <3>1. blk_setup.sound /\ blk.queue.ready
      BY <2>2 DEF Returned, Live
    <3>2. PICK r, n \in Nat : BlkRing(r, n)
      BY <3>1 DEF BlkInv, BlkQueueInv
    <3>3. Returned = ReturnedOf(Layout, blk_mem, blk_driver.seen, r)
      BY <3>1, <3>2, BlkView
    <3>4. r # 0
      <4> SUFFICES ASSUME r = 0 PROVE FALSE
        OBVIOUS
      <4>1. Returned = <<>>
        BY <3>3 DEF ReturnedOf
      <4> QED
        BY <2>2, <4>1
    <3> QED
      BY <3>2, <3>4 DEF BlkRing
  <2> QED
    BY <2>1, <2>2 DEF BlkDriverTold
<1> QED
  BY <1>1, BlkInvariant, PTL

-----------------------------------------------------------------------------
(* The block device writes what it is given                                *)

\* No register write changes the disk.
LEMMA RegistersKeepDisk ==
  ASSUME NEW dev, BlkTold(dev), NEW reg, NEW value
  PROVE  WriteBlkRegister(dev, reg, value).disk = dev.disk /\ SetInterrupt(dev, value).disk = dev.disk
<1>1. ASSUME NEW d, BlkTold(d), NEW v PROVE SetInterrupt(d, v).disk = d.disk
  BY <1>1 DEF SetInterrupt, BlkTold
<1>2. [dev EXCEPT !.regs.status = value].disk = dev.disk
  BY DEF BlkTold
<1>3. [dev EXCEPT !.regs = WriteCommonRegister(@, reg, value)].disk = dev.disk
  BY DEF BlkTold
<1>4. [dev EXCEPT !.queue = WriteQueueRegister(@, reg, value)].disk = dev.disk
  BY DEF BlkTold
<1>5. ResetBlk(dev).disk = dev.disk
  <2> DEFINE d == [dev EXCEPT !.regs = ResetRegisters, !.queue = ResetQueue]
  <2>1. BlkTold(d) /\ d.disk = dev.disk
    BY DEF BlkTold
  <2> HIDE DEF d
  <2>2. SetInterrupt(d, 0).disk = dev.disk
    BY <2>1, <1>1
  <2> QED
    BY <2>2 DEF ResetBlk, d
<1> QED
  BY <1>1, <1>2, <1>3, <1>4, <1>5 DEF WriteBlkRegister

\* The disk keeps its size, and the driver's headers are as it wrote them.
BlkKept ==
  /\ blk.disk = [c \in DiskCells |-> blk.disk[c]]
  /\ \A c \in HeaderCells(blk_setup) : blk_mem[c] = blk_setup.mem[c]

BlkWriteInv == BlkInv /\ blk_setup.sound /\ HeadersKept(blk_setup) /\ BlkKept

\* Of the headers of a sound setup.
LEMMA HeadersApart ==
  ASSUME BlkInv, blk_setup.sound, HeadersKept(blk_setup)
  PROVE  /\ HeaderCells(blk_setup) \subseteq RamCells
         /\ HeaderCells(blk_setup) \cap QueueCells(Layout) = {}
         /\ \A h \in BlkHeads : LET d == blk_mem[Layout.desc + h] IN
              /\ d = blk_setup.mem[Layout.desc + h]
              /\ ~d.write /\ InRam(d.addr, 1) => d.addr \in HeaderCells(blk_setup)
<1> DEFINE l == Layout
           mem == blk_setup.mem
<1>1. /\ SoundLayout(l) /\ SoundTable(l, mem, QueueCells(l)) /\ SoundHeads(l, BlkHeads)
      /\ l.num \in Nat /\ l.desc \in Nat
  BY BlkSound, LayoutNumbers
<1>2. \A c \in TableCells(l) : blk_mem[c] = mem[c]
  BY DEF BlkInv, BlkMemoryInv
<1>3. ASSUME NEW h \in BlkHeads PROVE l.desc + h \in TableCells(l)
  <2>1. h \in 0 .. l.num - 1
    BY <1>1 DEF SoundHeads
  <2> HIDE DEF l
  <2> QED
    BY <2>1, <1>1 DEF TableCells
<1>4. ASSUME NEW h \in BlkHeads, InRam(mem[l.desc + h].addr, 1) PROVE mem[l.desc + h].addr \in RamCells
  <2> DEFINE a == mem[l.desc + h].addr
  <2>1. a \in Nat
    BY <1>1, <1>3 DEF SoundTable
  <2> HIDE DEF a
  <2>2. InRam(a, 1)
    BY <1>4 DEF a
  <2>3. a \in RamCells
    BY <2>1, <2>2, RingNumbers DEF InRam, RamCells
  <2> QED
    BY <2>3 DEF a
<1>5. HeaderCells(blk_setup) \subseteq RamCells
  BY <1>4 DEF HeaderCells, BlkHeads, Layout
<1>6. HeaderCells(blk_setup) \cap QueueCells(l) = {}
  BY DEF HeadersKept, Layout
<1>7. ASSUME NEW h \in BlkHeads, ~mem[l.desc + h].write, InRam(mem[l.desc + h].addr, 1)
      PROVE  mem[l.desc + h].addr \in HeaderCells(blk_setup)
  BY <1>7 DEF HeaderCells, BlkHeads, Layout
<1>8. \A h \in BlkHeads : blk_mem[l.desc + h] = mem[l.desc + h]
  BY <1>2, <1>3
<1> QED
  BY <1>5, <1>6, <1>7, <1>8

LEMMA WriteInitial == ASSUME BlkInit, blk_setup.sound, HeadersKept(blk_setup) PROVE BlkWriteInv
<1>1. BlkInv /\ blk_mem = blk_setup.mem
  BY BlkInitial DEF BlkInit
<1>2. blk.disk = [c \in DiskCells |-> blk.disk[c]]
  <2>1. blk.disk = [c \in DiskCells |-> 0]
    BY DEF BlkInit, PowerOnBlk
  <2> QED
    BY <2>1
<1> QED
  BY <1>1, <1>2 DEF BlkWriteInv, BlkKept

\* A step of the driver or of a snapshot.
LEMMA DriverKeeps ==
  ASSUME BlkWriteInv, BlkInv', BlkNext, ~BlkNotify
  PROVE  BlkWriteInv'
<1> DEFINE l == Layout
           H == HeaderCells(blk_setup)
<1>1. /\ BlkInv /\ blk_setup.sound /\ HeadersKept(blk_setup) /\ BlkKept /\ BlkTold(blk)
      /\ H \subseteq RamCells /\ H \cap QueueCells(l) = {}
  BY HeadersApart DEF BlkWriteInv, BlkInv
<1>2. /\ SoundLayout(l) /\ QueueCells(l) = TableCells(l) \cup RingCells(l)
      /\ RingCells(l) = AvailPart(l) \cup UsedPart(l)
  BY <1>1, BlkSound, LayoutNumbers
<1>3. \A c \in H : c \notin AvailPart(l) /\ c \notin UsedPart(l)
  BY <1>1, <1>2
<1>4. blk_driver.seen \in Int
  BY <1>1, BlkDriver, RingNumbers
<1> HIDE DEF l, H
<1>5. ASSUME blk_setup' = blk_setup, blk'.disk = blk.disk, \A c \in H : blk_mem'[c] = blk_mem[c] PROVE BlkWriteInv'
  BY <1>1, <1>5 DEF BlkWriteInv, BlkKept, H
<1>6. CASE DriverWrite
  <2>1. blk_setup' = blk_setup
    BY <1>6 DEF DriverWrite
  <2> DEFINE w == Script[blk_driver.pc]
  <2>2. CASE w[1] = "EmptyRings"
    <3>1. blk_mem' = [c \in RamCells |-> IF c \in RingCells(l) THEN 0 ELSE blk_mem[c]] /\ blk' = blk
      BY <1>6, <2>2 DEF DriverWrite, l
    <3>2. \A c \in H : blk_mem'[c] = blk_mem[c]
      BY <3>1, <1>1, <1>2, <1>3
    <3> QED
      BY <2>1, <3>1, <3>2, <1>5
  <2>3. CASE w[1] # "EmptyRings"
    <3>1. blk_mem' = blk_mem /\ blk' = WriteBlkRegister(blk, w[1], w[2])
      BY <1>6, <2>3 DEF DriverWrite
    <3> HIDE DEF w
    <3>2. blk'.disk = blk.disk
      BY <3>1, <1>1, RegistersKeepDisk
    <3> QED
      BY <2>1, <3>1, <3>2, <1>5
  <2> QED
    BY <2>2, <2>3
<1>7. CASE DriverRestart
  BY <1>7, <1>5 DEF DriverRestart
<1>8. CASE DriverAck
  <2>1. blk_setup' = blk_setup /\ blk_mem' = blk_mem /\ blk' = WriteBlkRegister(blk, "InterruptAck", 1)
    BY <1>8 DEF DriverAck
  <2>2. blk'.disk = blk.disk
    BY <2>1, <1>1, RegistersKeepDisk
  <2> QED
    BY <2>1, <2>2, <1>5
<1>9. CASE DriverCollect
  <2>1. blk_setup' = blk_setup /\ blk' = blk
    BY <1>9 DEF DriverCollect
  <2> DEFINE a == AvailCell(l, blk_driver.seen)
             used == UsedCell(l, blk_driver.seen)
  <2>2. a \in AvailPart(l) /\ used \in UsedPart(l) /\ used + 1 \in UsedPart(l)
    BY <1>2, <1>4, CellsOf
  <2>3. \/ blk_mem' = blk_mem
        \/ blk_mem' = [c \in RamCells |-> IF c \in {a, used, used + 1} THEN 0 ELSE blk_mem[c]]
    BY <1>9 DEF DriverCollect, l
  <2> HIDE DEF a, used
  <2>4. \A c \in H : blk_mem'[c] = blk_mem[c]
    BY <2>2, <2>3, <1>1, <1>3
  <2> QED
    BY <2>1, <2>4, <1>5
<1>10. ASSUME NEW head \in BlkHeads, NEW value, DriverOffer(head, value) PROVE BlkWriteInv'
  <2>1. blk_setup' = blk_setup /\ blk' = blk
    BY <1>10 DEF DriverOffer
  <2> DEFINE idx == At(AvailIdxCell(l))
             ai == AvailIdxCell(l)
             a == AvailCell(l, idx)
             data == blk_setup.chains[head].data
             status == blk_setup.chains[head].status
  <2>2. blk_mem' = [c \in RamCells |->
          CASE c = ai -> (idx + 1) % IndexModulus
            [] c = a -> head
            [] c \in data -> value
            [] c \in status -> NoStatus
            [] OTHER -> blk_mem[c]]
    BY <1>10, Zenon DEF DriverOffer, l
  <2>3. PICK r, n \in Nat : BlkRing(r, n)
    BY <1>1, <1>10, BlkInUse DEF DriverOffer
  <2>4. idx \in Int
    <3>1. idx = (blk_driver.seen + n) % IndexModulus
      BY <1>1, <2>3, BlkInFlight DEF l
    <3> HIDE DEF idx
    <3>2. (blk_driver.seen + n) % IndexModulus \in Int
      BY <1>4, RingNumbers
    <3> QED
      BY <3>1, <3>2
  <2>5. ai \in AvailPart(l) /\ a \in AvailPart(l)
    <3> HIDE DEF idx
    <3> QED
      BY <2>4, <1>2, CellsOf
  <2>6. H \cap (data \cup status) = {}
    BY <1>1 DEF HeadersKept, H, BlkHeads
  <2> HIDE DEF idx, ai, a, data, status
  <2>7. \A c \in H : blk_mem'[c] = blk_mem[c]
    BY <2>2, <2>5, <2>6, <1>1, <1>3
  <2> QED
    BY <2>1, <2>7, <1>5
<1>11. CASE BlkRestore
  <2>1. blk_setup' = blk_setup /\ blk_mem' = blk_mem
    BY <1>11 DEF BlkRestore
  <2>2. blk'.disk = blk.disk
    BY <1>11 DEF BlkRestore, PowerOnBlk
  <2> QED
    BY <2>1, <2>2, <1>5
<1>12. \/ \E head \in BlkHeads, value \in DataValues : DriverOffer(head, value)
       \/ DriverWrite \/ DriverRestart \/ DriverAck \/ DriverCollect \/ BlkRestore
  BY Zenon DEF BlkNext, BlkHeads
<1> QED
  BY <1>6, <1>7, <1>8, <1>9, <1>10, <1>11, <1>12

\* The heads between the device's index and the driver's are those a notification may serve.
LEMMA ServedIsUnserved ==
  ASSUME BlkInv, blk_setup.sound, NEW r \in Nat, NEW n \in Nat, BlkRing(r, n), NEW k \in r .. n - 1
  PROVE  blk_mem[AvailCell(Layout, blk_driver.seen + k)] \in Unserved
<1> DEFINE l == Layout
           s == blk_driver.seen
           q == blk.queue
           idx == At(AvailIdxCell(q))
           j == k - r
<1>1. /\ SoundLayout(l) /\ Aligned(q, l) /\ RingOK(l, blk_mem, BlkHeads, s, r, n)
      /\ q.last_avail = (s + r) % IndexModulus
  BY BlkSound DEF BlkRing
<1>2. s \in Nat /\ n < IndexModulus /\ IndexModulus \in Nat \ {0} /\ r <= n
  BY <1>1, RingIndices, RingNumbers
<1>3. idx = (s + n) % IndexModulus
  <2>1. AvailIdxCell(q) = AvailIdxCell(l)
    BY <1>1, CellsOfQueue
  <2> QED
    BY <2>1, BlkInFlight
<1> HIDE DEF l, s, q, idx
<1>4. (idx - q.last_avail) % IndexModulus = n - r
  <2>1. n - r < IndexModulus
    BY <1>2
  <2>2. (((s + n) % IndexModulus) - ((s + r) % IndexModulus)) % IndexModulus = n - r
    BY <2>1, <1>2, Behind, ZenonT(60)
  <2> QED
    BY <2>2, <1>1, <1>3
<1>5. j \in 0 .. ((idx - q.last_avail) % IndexModulus) - 1 /\ s + k \in Int /\ s + r \in Int /\ j \in Int
      /\ (s + r) + j = s + k
  BY <1>2, <1>4
<1> HIDE DEF j
<1>6. AvailCell(q, q.last_avail + j) = AvailCell(l, s + k)
  <2>1. AvailCell(q, q.last_avail + j) = AvailCell(l, ((s + r) % IndexModulus) + j)
    BY <1>1, CellsOfQueue
  <2>2. AvailCell(l, ((s + r) % IndexModulus) + j) = AvailCell(l, (s + r) + j)
    BY <1>1, <1>5, CellFrom
  <2> QED
    BY <2>1, <2>2, <1>5
<1>7. InRam(AvailCell(l, s + k), 1)
  BY <1>1, <1>5, CellsOf
<1>8. At(AvailCell(q, q.last_avail + j)) = blk_mem[AvailCell(l, s + k)]
  BY <1>6, <1>7 DEF At
<1>9. At(AvailCell(q, q.last_avail + j)) \in Unserved
  BY <1>5 DEF Unserved, idx, q
<1> QED
  BY <1>8, <1>9 DEF l, s

\* A sector whose byte offset fits into 64 bits is where the device looks for it.
LEMMA OffsetIsFirstUnit ==
  ASSUME NEW header, header.sector \in Nat, FirstUnit(header) < OffsetModulus
  PROVE  ImageOffset(header.sector) = FirstUnit(header)
<1> DEFINE n == header.sector * SectorUnits
<1>1. SectorUnits \in Nat /\ OffsetModulus \in Nat \ {0}
  BY BlkAssumption
<1>2. n \in Nat
  BY <1>1
<1>3. n < OffsetModulus
  BY DEF FirstUnit
<1> HIDE DEF n
<1>4. n % OffsetModulus = n
  BY <1>1, <1>2, <1>3
<1> QED
  BY <1>4 DEF n, FirstUnit, ImageOffset

(* What the chain of an unserved head gives is what a notification may     *)
(* write; what it stores is so if the sector it names is where it stores.  *)
LEMMA GivenIsUnserved ==
  ASSUME BlkWriteInv, NEW r \in Nat, NEW n \in Nat, BlkRing(r, n), NEW k \in r .. n - 1,
         NEW c, NEW head, head = blk_mem[AvailCell(Layout, blk_driver.seen + k)]
  PROVE  /\ Gives(Layout, blk_mem, head, c) => MayWrite(c)
         /\ SectorsFit(blk_setup) /\ Stores(Layout, blk_mem, head, c) => MayStore(c)
<1> DEFINE l == Layout
           q == blk.queue
           mem == blk_mem
           s == blk_driver.seen
           addr == mem[q.desc + head].addr
<1>0. BlkInv /\ blk_setup.sound /\ HeadersKept(blk_setup) /\ BlkKept
  BY DEF BlkWriteInv
<1>1. /\ SoundLayout(l) /\ SoundTable(l, blk_setup.mem, QueueCells(l)) /\ SoundHeads(l, BlkHeads)
      /\ Aligned(q, l) /\ RingOK(l, mem, BlkHeads, s, r, n)
  BY <1>0, BlkSound DEF BlkRing
<1>2. head \in Unserved
  BY <1>0, ServedIsUnserved
<1>3. head \in Nat /\ head \in BlkHeads
  <2>1. k \in 0 .. n - 1
    OBVIOUS
  <2>2. head \in BlkHeads
    BY <1>1, <2>1 DEF RingOK
  <2> QED
    BY <1>1, <2>2 DEF SoundHeads
<1>4. l.num \in Nat \ {0} /\ l.desc \in Nat /\ q.num = l.num /\ q.desc = l.desc
  BY <1>1, LayoutNumbers DEF Aligned
<1>5. \A x \in TableCells(l) : mem[x].next \in Nat \cup {-1}
  <2>1. \A x \in TableCells(l) : mem[x] = blk_setup.mem[x]
    BY <1>0 DEF BlkInv, BlkMemoryInv
  <2> QED
    BY <2>1, <1>1 DEF SoundTable
<1> HIDE DEF l, q, mem, s
<1>6. Chain(q, mem, head) = Chain(l, mem, head)
  BY <1>3, <1>4, <1>5, ChainSame
<1>7. ASSUME Gives(l, mem, head, c) PROVE MayWrite(c)
  <2>1. \E i \in DOMAIN Chain(q, mem, head) : c \in GivenBy(Chain(q, mem, head)[i])
    BY <1>6, <1>7 DEF Gives
  <2> QED
    BY <2>1, <1>2 DEF MayWrite, q, mem
<1>8. ASSUME SectorsFit(blk_setup), Stores(l, mem, head, c) PROVE MayStore(c)
  <2> DEFINE chain == Chain(q, mem, head)
             header == mem[addr]
             from == ImageOffset(header.sector)
  <2>1. /\ chain # <<>> /\ ~mem[q.desc + head].write /\ InRam(addr, 1) /\ header.type = "out"
        /\ c \in from .. (from + TotalLength(Tail(Front(chain))) - 1)
    BY <1>4, <1>6, <1>8 DEF Stores
  <2>2. At(addr) = header
    BY <2>1 DEF At, mem
  <2>3. addr \in HeaderCells(blk_setup)
    BY <1>0, <1>3, <1>4, <2>1, HeadersApart DEF mem, l
  <2> HIDE DEF addr
  <2>4. header = blk_setup.mem[addr]
    BY <1>0, <2>3 DEF BlkKept, mem
  <2> HIDE DEF chain, header
  <2>5. header.sector \in Nat /\ FirstUnit(header) < OffsetModulus
    BY <1>0, <1>8, <2>1, <2>3, <2>4 DEF HeadersKept, SectorsFit
  <2>6. from = FirstUnit(header)
    BY <2>5, OffsetIsFirstUnit
  <2>7. /\ Chain(blk.queue, blk_mem, head) # <<>>
        /\ LET h == At(blk_mem[blk.queue.desc + head].addr)
               total == TotalLength(Tail(Front(Chain(blk.queue, blk_mem, head))))
           IN h.type = "out" /\ c \in FirstUnit(h) .. (FirstUnit(h) + total - 1)
    BY <2>1, <2>2, <2>6 DEF chain, addr, q, mem
  <2> QED
    BY <2>7, <1>2 DEF MayStore
<1> QED
  BY <1>7, <1>8 DEF l, mem

\* A notification keeps the headers, and writes nothing but what it is given.
LEMMA NotifyKeeps ==
  ASSUME BlkWriteInv, BlkInv', BlkNotify
  PROVE  BlkWriteInv' /\ MemoryWritesGiven /\ (SectorsFit(blk_setup) => DiskWritesGiven)
<1> DEFINE l == Layout
           s == blk_driver.seen
           mem == blk_mem
           H == HeaderCells(blk_setup)
           kept == TableCells(l) \cup AvailPart(l) \cup H
           done == ProcessQueue(blk, blk_mem)
           dev == [blk EXCEPT !.queue = done.q, !.disk = done.own]
<1>1. BlkInv /\ blk_setup.sound /\ HeadersKept(blk_setup) /\ BlkKept /\ BlkTold(blk)
  BY DEF BlkWriteInv, BlkInv
<1>2. /\ Running /\ blk_setup' = blk_setup /\ blk_mem' = done.mem
      /\ blk' = IF done.any_completed THEN SetInterrupt(dev, 1) ELSE dev
  BY DEF BlkNotify
<1>3. PICK r, n \in Nat : BlkRing(r, n)
  BY <1>1, <1>2, BlkInUse
<1>4. /\ SoundLayout(l) /\ SoundHeads(l, BlkHeads) /\ SoundTable(l, blk_setup.mem, QueueCells(l))
      /\ SoundTable(l, blk_setup.mem, H)
  BY <1>1, BlkSound DEF HeadersKept, Layout
<1>5. /\ Aligned(blk.queue, l) /\ RingOK(l, mem, BlkHeads, s, r, n)
      /\ blk.queue.last_avail = (s + r) % IndexModulus /\ blk.queue.used_idx = (s + r) % IndexModulus
  BY <1>3 DEF BlkRing
<1>6. /\ RingCells(l) = AvailPart(l) \cup UsedPart(l) /\ AvailPart(l) \cap UsedPart(l) = {}
      /\ QueueCells(l) = TableCells(l) \cup RingCells(l) /\ QueueCells(l) \subseteq RamCells
      /\ TableCells(l) \cap RingCells(l) = {}
  BY <1>4, LayoutNumbers DEF SoundLayout
<1>7. H \subseteq RamCells /\ H \cap QueueCells(l) = {}
  BY <1>1, HeadersApart
<1>8. mem = [c \in RamCells |-> mem[c]] /\ \A c \in TableCells(l) : mem[c] = blk_setup.mem[c]
  BY <1>1 DEF BlkInv, BlkMemoryInv
<1>9. /\ Separate(kept, l) /\ kept \subseteq RamCells
      /\ kept \cup UsedPart(l) \subseteq QueueCells(l) \cup H
  <2> HIDE DEF l, H
  <2> QED
    BY <1>6, <1>7 DEF Separate
<1>10. SoundTable(l, mem, kept \cup UsedPart(l))
  <2> HIDE DEF l, mem, H, kept
  <2>1. SoundTable(l, blk_setup.mem, kept \cup UsedPart(l))
    BY <1>4, <1>9 DEF SoundTable
  <2> QED
    BY <2>1, <1>8 DEF SoundTable
<1>11. BlkHeads \subseteq 0 .. l.num - 1 /\ BlkHeads \subseteq Nat
  <2>1. BlkHeads \subseteq 0 .. l.num - 1 /\ l.num \in Nat
    BY <1>4, LayoutNumbers DEF SoundHeads
  <2> QED
    BY <2>1
<1>12. HeadersIn(kept, l, mem, BlkHeads)
  <2> SUFFICES ASSUME NEW h \in BlkHeads, ~mem[l.desc + h].write, InRam(mem[l.desc + h].addr, 1)
               PROVE  mem[l.desc + h].addr \in kept /\ mem[mem[l.desc + h].addr].sector \in Nat
    BY DEF HeadersIn
  <2> DEFINE a == mem[l.desc + h].addr
  <2>1. a \in H
    BY <1>1, HeadersApart
  <2>2. mem[a] = blk_setup.mem[a]
    <3> HIDE DEF a
    <3> QED
      BY <1>1, <2>1 DEF BlkKept
  <2>3. blk_setup.mem[a].sector \in Nat
    <3> HIDE DEF a
    <3> QED
      BY <1>1, <2>1 DEF HeadersKept
  <2> QED
    BY <2>1, <2>2, <2>3
<1>13. blk.disk = [c \in DiskCells |-> blk.disk[c]]
  BY <1>1 DEF BlkKept
<1> HIDE DEF l, s, mem, kept, done, H
<1>14. Written(blk, l, mem, s, r, n, done) /\ Serving(done, l, kept, mem, BlkHeads, s, r, n, n)
  <2>1. Written(blk, l, mem, s, r, n, ProcessQueue(blk, mem))
    BY <1>4, <1>5, <1>8, <1>9, <1>10, <1>11, <1>12, <1>13, NotifyWrites
  <2>2. Serving(ProcessQueue(blk, mem), l, kept, mem, BlkHeads, s, r, n, n)
    BY <1>4, <1>5, <1>8, <1>9, <1>10, <1>11, BlkServed
  <2> QED
    BY <2>1, <2>2 DEF done, mem
<1>15. BlkTold(dev) /\ dev.disk = done.own
  BY <1>1 DEF BlkTold
<1> HIDE DEF dev
<1>16. blk'.disk = done.own
  BY <1>2, <1>15, RegistersKeepDisk
<1>17. BlkWriteInv'
  <2>1. \A c \in H : blk_mem'[c] = blk_mem[c]
    BY <1>2, <1>14 DEF Serving, Kept, kept, mem
  <2>2. blk'.disk = [c \in DiskCells |-> blk'.disk[c]]
    BY <1>14, <1>16 DEF Written
  <2> QED
    BY <1>1, <1>2, <2>1, <2>2 DEF BlkWriteInv, BlkKept, H
<1>18. ASSUME NEW c \in RamCells, blk_mem'[c] # blk_mem[c]
       PROVE  \/ c = UsedIdxCell(blk.queue)
              \/ \E i \in 0 .. (blk.queue.num - 1) : c - UsedCell(blk.queue, i) \in {0, 1}
              \/ MayWrite(c)
  <2>1. RingWritten(l, c) \/ \E k \in r .. n - 1 : Gives(l, mem, mem[AvailCell(l, s + k)], c)
    BY <1>2, <1>14, <1>18 DEF Written, mem
  <2>2. CASE RingWritten(l, c)
    <3>1. blk.queue.num = l.num /\ UsedIdxCell(blk.queue) = UsedIdxCell(l)
          /\ \A i : UsedCell(blk.queue, i) = UsedCell(l, i)
      BY <1>5, CellsOfQueue DEF Aligned
    <3> QED
      BY <2>2, <3>1 DEF RingWritten
  <2>3. ASSUME NEW k \in r .. n - 1, Gives(l, mem, mem[AvailCell(l, s + k)], c) PROVE MayWrite(c)
    BY <1>3, <2>3, GivenIsUnserved DEF l, mem, s
  <2> QED
    BY <2>1, <2>2, <2>3
<1>19. ASSUME SectorsFit(blk_setup), NEW c \in DiskCells, blk'.disk[c] # blk.disk[c] PROVE MayStore(c)
  <2>1. PICK k \in r .. n - 1 : Stores(l, mem, mem[AvailCell(l, s + k)], c)
    BY <1>14, <1>16, <1>19 DEF Written
  <2> QED
    BY <1>3, <1>19, <2>1, GivenIsUnserved DEF l, mem, s
<1> QED
  BY <1>17, <1>18, <1>19 DEF MemoryWritesGiven, DiskWritesGiven

\* A driver keeps its setup.
LEMMA SetupStays == ASSUME [BlkNext]_blk_vars PROVE blk_setup' = blk_setup
<1>1. CASE UNCHANGED blk_vars
  BY <1>1 DEF blk_vars
<1>2. CASE BlkNext
  BY <1>2 DEF BlkNext, DriverWrite, DriverRestart, DriverOffer, BlkNotify, DriverAck, DriverCollect,
              BlkRestore
<1> QED
  BY <1>1, <1>2

(* When the driver is sound and gives away none of its headers, then for   *)
(* every queue size, table and chain, looping and malformed ones too, a    *)
(* notification writes guest memory only in the used ring and in buffers   *)
(* that the chains it serves mark writable, whatever sectors they name.    *)
(* It changes the disk only within the sectors that write requests among   *)
(* them name, if the byte offsets of these fit into 64 bits; without that  *)
(* it need not, see MCBlkWrapped (process_queue, process_request).         *)
THEOREM BlkWritesWhatItIsGiven ==
  BlkSpec =>
    (blk_setup.sound /\ HeadersKept(blk_setup) =>
       [][MemoryWritesGiven]_blk_vars /\ (SectorsFit(blk_setup) => BlkWritesOnlyGiven))
<1>1. BlkInit /\ blk_setup.sound /\ HeadersKept(blk_setup) => BlkWriteInv
  BY WriteInitial
<1>2. ASSUME BlkWriteInv, [BlkNext]_blk_vars
      PROVE  /\ BlkWriteInv' /\ [MemoryWritesGiven]_blk_vars
             /\ SectorsFit(blk_setup) => [MemoryWritesGiven /\ DiskWritesGiven]_blk_vars
  <2>1. BlkInv'
    BY <1>2, BlkEveryStep DEF BlkWriteInv
  <2>2. CASE UNCHANGED blk_vars
    BY <1>2, <2>1, <2>2 DEF blk_vars, BlkWriteInv, BlkKept
  <2>3. CASE BlkNext /\ BlkNotify
    BY <1>2, <2>1, <2>3, NotifyKeeps
  <2>4. CASE BlkNext /\ ~BlkNotify
    BY <1>2, <2>1, <2>4, DriverKeeps DEF MemoryWritesGiven, DiskWritesGiven
  <2> QED
    BY <1>2, <2>2, <2>3, <2>4
<1>3. SectorsFit(blk_setup) /\ [BlkNext]_blk_vars => SectorsFit(blk_setup)'
  BY SetupStays
<1> QED
  BY <1>1, <1>2, <1>3, PTL DEF BlkSpec, BlkWritesOnlyGiven
=============================================================================
