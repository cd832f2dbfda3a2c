------------------------------ MODULE LoadStore ------------------------------
(***************************************************************************)
(* The load and store instructions of src/src/cpu.cpp (exec_load_store and *)
(* the predecoded forms): which bytes they move between registers and      *)
(* memory, when they fault, what address they report, and what an aborted  *)
(* one leaves behind for the attempt that follows it.  A byte has ByteMod  *)
(* values; sizes, register widths and alignments keep their byte counts.   *)
(***************************************************************************)
EXTENDS Integers, Sequences, FiniteSets, TLC
LOCAL INSTANCE SequencesExt
LOCAL INSTANCE FiniteSetsExt
LOCAL INSTANCE Bitwise

CONSTANTS
  ByteMod,      \* values of a byte
  PageBytes,    \* bytes of a page
  VecRegs       \* vector registers, numbered from 0 and around

XMod == ByteMod ^ 8
WMod == ByteMod ^ 4

\* The machine s: registers x (31 is the stack pointer or zero), sp and vector
\* registers q, each 16 bytes; memory; page attributes; watched bytes; whether
\* alignment is checked; and of this attempt the exceptions taken, whether an
\* access failed, and the last fault's reason and address.
ByteOf(v, k) == (v \div ByteMod ^ k) % ByteMod
Number(bytes) == FoldRight(LAMBDA b, acc : b + ByteMod * acc, bytes, 0)
SignExtend(v, size, to) ==
  IF v >= ByteMod ^ size \div 2 THEN (v - ByteMod ^ size) % (ByteMod ^ to) ELSE v

Reg(s, r) == IF r = 31 THEN 0 ELSE s.x[r]
Reg32(s, r) == Reg(s, r) % WMod
SpOrReg(s, r) == IF r = 31 THEN s.sp ELSE s.x[r]
SetReg(s, r, v) == IF r = 31 THEN s ELSE [s EXCEPT !.x[r] = v]
SetSpOrReg(s, r, v) == IF r = 31 THEN [s EXCEPT !.sp = v] ELSE [s EXCEPT !.x[r] = v]
Of(s, r, size) == IF size = 8 THEN Reg(s, r) ELSE Reg32(s, r)

-----------------------------------------------------------------------------
(* Faults                                                                  *)

Raise(s, kind, far) ==
  [s EXCEPT !.excs = Append(@, [kind |-> kind, far |-> far]), !.failed = TRUE]

\* data_abort: the byte that failed, if it is known; one exception a step.
DataAbort(s, va) ==
  IF s.excs # <<>> THEN s ELSE Raise(s, s.why, IF s.far >= 0 THEN s.far ELSE va)

PageAt(s, va) == IF va \div PageBytes \in DOMAIN s.pages THEN s.pages[va \div PageBytes]
                 ELSE [mapped |-> FALSE]
Cell(s, va) == PageAt(s, va).frame * PageBytes + (va % PageBytes)

\* translate_data_address_fast, at EL1 without PAN.
Allowed(s, va, access) ==
  LET page == PageAt(s, va) IN
  /\ page.mapped
  /\ access \in {"write", "unpriv_write"} => page.writable
  /\ access \in {"unpriv_read", "unpriv_write"} => page.user

SpMisaligned(s, rn) == rn = 31 /\ s.spCheck /\ s.sp % 16 # 0

\* maybe_take_data_alignment_fault: always for the strict ones, else on device
\* memory; a page that is not mapped faults as that.
DataMisaligned(s, va, size, strict) ==
  /\ va % size # 0
  /\ \/ strict \/ s.alignCheck
     \/ PageAt(s, va).mapped /\ PageAt(s, va).device

\* The watchpoint a range hits, by the kind of access.
Watched(s, vas, access) ==
  IF access \in {"write", "unpriv_write"} THEN vas \cap s.watchStores ELSE vas \cap s.watchLoads

-----------------------------------------------------------------------------
(* Memory: mmu_read_value and mmu_write_value                              *)

Fail(s, why, va) == [ok |-> FALSE, v |-> 0, s |-> [s EXCEPT !.failed = TRUE, !.why = why, !.far = va]]
Done(s, v) == [ok |-> TRUE, v |-> v, s |-> s]

\* The next access, if this one was made; and what an instruction ends with.
Then(r, Next1(_)) == IF r.ok THEN Next1(r) ELSE r
Finish(r, va, End(_)) == IF r.ok THEN End(r) ELSE DataAbort(r.s, va)
Unless(s, Next1(_)) == IF s.failed THEN s ELSE Next1(s)

AccessVas(va, size) == va .. va + size - 1

\* What stops an access before any byte moves, or Done.
FirstOf(vas, Stop(_), r) == IF vas = {} THEN r ELSE Stop(Min(vas))
Checked(s, va, size, access) ==
  FirstOf({a \in AccessVas(va, size) : ~Allowed(s, a, access)}, LAMBDA far : Fail(s, "translation", far),
    FirstOf(Watched(s, AccessVas(va, size), access),
            LAMBDA far : [ok |-> FALSE, v |-> 0, s |-> Raise(s, "watchpoint", far)], Done(s, 0)))

Dead(s, va, size) == {a \in AccessVas(va, size) : ~PageAt(s, a).ram}

Forget(s) == [s EXCEPT !.why = "none", !.far = -1]
RawRead(s, va, size, access) ==
  Then(Checked(Forget(s), va, size, access), LAMBDA c :
    FirstOf(Dead(c.s, va, size), LAMBDA far : Fail(c.s, "external", far),
            Done(c.s, Number([k \in 1 .. size |-> c.s.mem[Cell(c.s, va + k - 1)]]))))

\* The bytes before the first the bus refuses, which within a page is the first.
Stored(s, va, size, v) ==
  LET dead == Dead(s, va, size)
      put  == {a \in AccessVas(va, size) : \A d \in dead : a < d}
      at(cell) == CHOOSE a \in put : Cell(s, a) = cell
  IN  [s EXCEPT !.mem = [cell \in DOMAIN @ |->
        IF \E a \in put : Cell(s, a) = cell THEN ByteOf(v, at(cell) - va) ELSE @[cell]]]

RawWrite(s, va, size, v, access) ==
  Then(Checked(Forget(s), va, size, access), LAMBDA c :
    LET stored == Stored(c.s, va, size, v)
    IN  FirstOf(Dead(c.s, va, size), LAMBDA far : Fail(stored, "external", far), Done(stored, 0)))

\* The lambdas before an access: nothing once one has failed, then the stack
\* pointer's alignment, then the address's.
Aligned(s, rn, va, size, strict) ==
  IF s.failed THEN [ok |-> FALSE, v |-> 0, s |-> s]
  ELSE IF SpMisaligned(s, rn) THEN [ok |-> FALSE, v |-> 0, s |-> Raise(s, "sp", 0)]
  ELSE IF DataMisaligned(s, va, size, strict) THEN [ok |-> FALSE, v |-> 0, s |-> Raise(s, "alignment", va)]
  ELSE Done(s, 0)

\* mmu_read, mmu_strict_read and their like for writing.
Read(s, rn, va, size, strict) ==
  Then(Aligned(s, rn, va, size, strict), LAMBDA a : RawRead(a.s, va, size, "read"))
Write(s, rn, va, size, v, strict) ==
  Then(Aligned(s, rn, va, size, strict), LAMBDA a : RawWrite(a.s, va, size, v, "write"))

-----------------------------------------------------------------------------
(* General registers                                                       *)

Extend(i, v) ==
  CASE i.ext = "zero"   -> v
    [] i.ext = "sign32" -> SignExtend(v, i.size, 4)
    [] i.ext = "sign64" -> SignExtend(v, i.size, 8)

Address(v) == v % XMod

\* One register at an address, for every addressing mode.
Loaded(i, r) == SetReg(r.s, i.rt, Extend(i, r.v))
Scalar(s, i, va, strict) ==
  IF i.load
  THEN Finish(Read(s, i.rn, va, i.size, strict), va, LAMBDA r : Loaded(i, r))
  ELSE Finish(Write(s, i.rn, va, i.size, Of(s, i.rt, i.size), strict), va, LAMBDA r : r.s)

\* Mutant: the base moves whether or not the access was made.
WriteBack_Always(s, i, v) == SetSpOrReg(s, i.rn, Address(v))
WriteBack(s, i, v) == IF s.failed THEN s ELSE SetSpOrReg(s, i.rn, Address(v))

Start(s, i) == IF i.mode = "post" THEN SpOrReg(s, i.rn) ELSE Address(SpOrReg(s, i.rn) + i.imm)
WrittenBack(s, i, base) == IF i.mode \in {"pre", "post"} THEN WriteBack(s, i, base + i.imm) ELSE s

\* LDUR, STUR, LDURSB, ... : a signed offset in bytes.
Unscaled(s, i) == Scalar(s, i, Start(s, i), FALSE)

\* LDR, STR, LDRSB, ... : an unsigned offset in elements.
Scaled(s, i) == Scalar(s, i, Address(SpOrReg(s, i.rn) + i.imm * i.size), FALSE)

\* Mutant: the base moves before the access.
Indexed_BaseFirst(s, i) ==
  Scalar(SetSpOrReg(s, i.rn, Address(SpOrReg(s, i.rn) + i.imm)), i, Start(s, i), FALSE)

\* post_pre and post_pre_signed.
Indexed(s, i) == WrittenBack(Scalar(s, i, Start(s, i), FALSE), i, SpOrReg(s, i.rn))

\* UXTW, SXTW, or all of the index register, by the element size if scaled.
ExtendedOffset(s, i) ==
  LET index == CASE i.option = "uxtw" -> Reg32(s, i.rm)
                 [] i.option = "sxtw" -> SignExtend(Reg32(s, i.rm), 4, 8)
                 [] i.option = "lsl"  -> Reg(s, i.rm)
  IN  Address(index * (IF i.scaled THEN i.size ELSE 1))
RegisterOffset(s, i) == Scalar(s, i, Address(SpOrReg(s, i.rn) + ExtendedOffset(s, i)), FALSE)

\* LDR and LDRSW (literal): no base register, no alignment check.
LiteralVa(s, i) == Address(s.pc + i.imm * 4)
Literal(s, i) ==
  Finish(RawRead(s, LiteralVa(s, i), i.size, "read"), LiteralVa(s, i), LAMBDA r : Loaded(i, r))

\* LDTR and STTR: as user space.
Unprivileged(s, i) ==
  LET va == Start(s, i)
  IN  Finish(Then(Aligned(s, i.rn, va, i.size, FALSE), LAMBDA a :
               IF i.load THEN RawRead(s, va, i.size, "unpriv_read")
               ELSE RawWrite(s, va, i.size, Of(s, i.rt, i.size), "unpriv_write")),
             va, LAMBDA r : IF i.load THEN Loaded(i, r) ELSE r.s)

\* Two registers' worth from one address; the second only after the first.
ReadTwo(s, i, va, strict) ==
  Then(Read(s, i.rn, va, i.size, strict), LAMBDA r1 :
    Then(Read(r1.s, i.rn, Address(va + i.size), i.size, strict), LAMBDA r2 : Done(r2.s, <<r1.v, r2.v>>)))

LoadPair(s, i) ==
  LET va == Start(s, i)
  IN  Finish(ReadTwo(s, i, va, FALSE), va, LAMBDA r :
        WrittenBack(SetReg(SetReg(r.s, i.rt, Extend(i, r.v[1])), i.rt2, Extend(i, r.v[2])),
                    i, SpOrReg(s, i.rn)))

StorePair(s, i) ==
  LET va == Start(s, i)
  IN  Finish(Then(Write(s, i.rn, va, i.size, Of(s, i.rt, i.size), FALSE), LAMBDA w :
               Write(w.s, i.rn, Address(va + i.size), i.size, Of(s, i.rt2, i.size), FALSE)),
             va, LAMBDA r : WrittenBack(r.s, i, SpOrReg(s, i.rn)))

\* LDAR and STLR.
Acquire(s, i) == Scalar(s, i, SpOrReg(s, i.rn), TRUE)


-----------------------------------------------------------------------------
(* Atomics.  Every access is synchronous and in one global order, so their *)
(* acquire and release variants are the same.                              *)

Rs(s, i) == Of(s, i.rs, i.size)

\* CAS: compares registers, not elements: 32 bits for a byte as well.
Cas(s, i) ==
  LET va == SpOrReg(s, i.rn)
  IN  Finish(Read(s, i.rn, va, i.size, TRUE), va, LAMBDA r :
        IF r.v # Rs(s, i) THEN SetReg(r.s, i.rs, r.v)
        ELSE Finish(Write(r.s, i.rn, va, i.size, Of(s, i.rt, i.size), TRUE), va,
                    LAMBDA w : SetReg(w.s, i.rs, r.v)))

Combined(op, old, src) ==
  CASE op = "swp" -> src
    [] op = "add" -> old + src
    [] op = "clr" -> old - (old & src)
    [] op = "eor" -> old ^^ src
    [] op = "set" -> old | src

\* SWP, LDADD, LDCLR, LDEOR and LDSET.
Rmw(s, i) ==
  LET va == SpOrReg(s, i.rn)
  IN  Finish(Read(s, i.rn, va, i.size, TRUE), va, LAMBDA r :
        Finish(Write(r.s, i.rn, va, i.size, Combined(i.op, r.v, Rs(s, i)), TRUE), va,
               LAMBDA w : SetReg(w.s, i.rt, r.v)))

\* raw_mmu_write_pair_atomic: every byte is translated before one is written.
WritePairAtomic(s, va, first, second, size) ==
  RawWrite(s, va, 2 * size, (first % ByteMod ^ size) + second * ByteMod ^ size, "write")

\* CASP: the pair is aligned as a whole.
Casp(s, i) ==
  LET va == SpOrReg(s, i.rn)
      old(t, r) == SetReg(SetReg(t, i.rs, r.v[1]), i.rs + 1, r.v[2])
  IN  Finish(Then(Aligned(s, i.rn, va, 2 * i.size, TRUE), LAMBDA a : ReadTwo(a.s, i, va, TRUE)), va, LAMBDA r :
        IF r.v # <<Rs(s, i), Of(s, i.rs + 1, i.size)>> THEN old(r.s, r)
        ELSE Finish(WritePairAtomic(r.s, va, Of(s, i.rt, i.size), Of(s, i.rt + 1, i.size), i.size), va,
                    LAMBDA w : old(w.s, r)))

-----------------------------------------------------------------------------
(* Vector registers                                                        *)

QBytes == 0 .. 15
NoBytes == [p \in QBytes |-> 0]

\* The low half before the high one; the rest of the register is zero.
LowHalf(size) == IF size < 8 THEN size ELSE 8
VecOf(lo, hi) == [p \in QBytes |-> IF p < 8 THEN ByteOf(lo, p) ELSE ByteOf(hi, p - 8)]
HalfOf(s, r, h) == Number([p \in 1 .. 8 |-> s.q[r][8 * h + p - 1]])

\* load_vec_whole and store_vec_whole: alignment is that of the whole access.
LoadWhole(s, i, r, va) ==
  LET put(t, lo, hi) == [t EXCEPT !.q[r] = VecOf(lo, hi)]
  IN  Finish(Then(Aligned(s, i.rn, va, i.size, FALSE), LAMBDA a : RawRead(a.s, va, LowHalf(i.size), "read")),
             va, LAMBDA lo :
        IF i.size < 16 THEN put(lo.s, lo.v, 0)
        ELSE Finish(RawRead(lo.s, Address(va + 8), 8, "read"), Address(va + 8),
                    LAMBDA hi : put(hi.s, lo.v, hi.v)))

StoreWhole(s, i, r, va) ==
  Finish(Then(Aligned(s, i.rn, va, i.size, FALSE),
              LAMBDA a : RawWrite(a.s, va, LowHalf(i.size), HalfOf(s, r, 0), "write")), va, LAMBDA lo :
    IF i.size < 16 THEN lo.s
    ELSE Finish(RawWrite(lo.s, Address(va + 8), 8, HalfOf(s, r, 1), "write"), Address(va + 8),
                LAMBDA hi : hi.s))

Whole(s, i, r, va) == IF i.load THEN LoadWhole(s, i, r, va) ELSE StoreWhole(s, i, r, va)

\* Vector forms look at the stack pointer before they compute an address.
VecStart(s, i) ==
  CASE i.mode = "scaled"   -> Address(SpOrReg(s, i.rn) + i.imm * i.size)
    [] i.mode = "register" -> Address(SpOrReg(s, i.rn) + ExtendedOffset(s, i))
    [] OTHER               -> Start(s, i)

VecSingle(s, i) ==
  IF SpMisaligned(s, i.rn) THEN Raise(s, "sp", 0)
  ELSE WrittenBack(Whole(s, i, i.rt, VecStart(s, i)), i, SpOrReg(s, i.rn))

VecPair(s, i) ==
  LET va == Start(s, i)
  IN  IF SpMisaligned(s, i.rn) THEN Raise(s, "sp", 0)
      ELSE WrittenBack(Unless(Whole(s, i, i.rt, va), LAMBDA t : Whole(t, i, i.rt2, Address(va + i.size))),
                       i, SpOrReg(s, i.rn))

\* load_vec and store_vec: halves checked one by one (post_pre_fp, literals).
Half(s, i, h, va) ==
  IF i.load THEN Read(s, i.rn, va, LowHalf(i.size), FALSE)
  ELSE Write(s, i.rn, va, LowHalf(i.size), HalfOf(s, i.rt, h), FALSE)
VecHalves(s, i, va) ==
  Finish(Then(Half(s, i, 0, va), LAMBDA lo :
           IF i.size < 16 THEN Done(lo.s, <<lo.v, 0>>)
           ELSE Then(Half(lo.s, i, 1, Address(va + 8)), LAMBDA hi : Done(hi.s, <<lo.v, hi.v>>))),
         va, LAMBDA r : IF i.load THEN [r.s EXCEPT !.q[i.rt] = VecOf(r.v[1], r.v[2])] ELSE r.s)
VecIndexed(s, i) == WrittenBack(VecHalves(s, i, Start(s, i)), i, SpOrReg(s, i.rn))

\* The register field of a literal is part of its offset; it is still looked at.
VecLiteral(s, i) == VecHalves(s, i, Address(s.pc + i.imm * 4))

VecReg(i, r) == (i.rt + r) % VecRegs

\* Mutant: the registers of a structure are filled one after the other.
Place_InTurn(i, k) == <<k \div i.bytes, k % i.bytes>>

\* The register and lane of byte k: whole registers, or structures of them.
Place(i, k) ==
  IF i.form = "vec_seq" THEN <<k \div i.bytes, k % i.bytes>> ELSE <<k % i.count, k \div i.count>>

\* Byte k of a multiple-structure load, after the ones before it.
LoadByte(a, i, va, k) ==
  LET r == Read(a.s, i.rn, Address(va + k), 1, FALSE)
  IN  [s   |-> Finish(r, Address(va + k), LAMBDA b : b.s),
       got |-> [a.got EXCEPT ![Place(i, k)[1]][Place(i, k)[2]] = r.v]]

LoadBytes(s, i, va) ==
  LET all == FoldLeft(LAMBDA a, k : IF a.s.failed THEN a ELSE LoadByte(a, i, va, k),
                      [s |-> s, got |-> [r \in 0 .. i.count - 1 |-> NoBytes]],
                      [k \in 1 .. i.bytes * i.count |-> k - 1])
  IN  Unless(all.s, LAMBDA t : [t EXCEPT !.q = [r \in DOMAIN @ |->
        IF (r - i.rt) % VecRegs < i.count THEN all.got[(r - i.rt) % VecRegs] ELSE @[r]]])

StoreByte(s, i, va, k) ==
  Finish(Write(s, i.rn, Address(va + k), 1, s.q[VecReg(i, Place(i, k)[1])][Place(i, k)[2]], FALSE),
         Address(va + k), LAMBDA w : w.s)

StoreBytes(s, i, va) ==
  FoldLeft(LAMBDA t, k : Unless(t, LAMBDA u : StoreByte(u, i, va, k)),
           s, [k \in 1 .. i.bytes * i.count |-> k - 1])

\* The structure forms move by what they transferred, or by a register.
StructureBack(s, i, n) ==
  IF i.mode = "offset" THEN s
  ELSE WriteBack(s, i, SpOrReg(s, i.rn) + (IF i.rm = 31 THEN n ELSE Reg(s, i.rm)))

\* LD1 to LD4, ST1 to ST4 (multiple structures of bytes).
VecBytes(s, i) ==
  LET va == SpOrReg(s, i.rn)
  IN  IF SpMisaligned(s, i.rn) THEN Raise(s, "sp", 0)
      ELSE StructureBack(IF i.load THEN LoadBytes(s, i, va) ELSE StoreBytes(s, i, va), i, i.bytes * i.count)

\* decode_vec_single_struct: the only member, if the encoding is allocated.
SingleStructs(i) ==
  LET scale == (i.opcode \div 2) % 4
      lane(n, bytes, all) ==
        {[count |-> 2 * (i.opcode % 2) + i.r + 1, bytes |-> bytes, lane |-> n, replicate |-> all]}
  IN  CASE scale = 3 /\ i.load /\ i.s = 0 -> lane(0, 2 ^ i.width, TRUE)
        [] scale = 0 -> lane(8 * i.q + 4 * i.s + i.width, 1, FALSE)
        [] scale = 1 /\ i.width % 2 = 0 -> lane(4 * i.q + 2 * i.s + i.width \div 2, 2, FALSE)
        [] scale = 2 /\ i.width = 0 -> lane(2 * i.q + i.s, 4, FALSE)
        [] scale = 2 /\ i.width = 1 /\ i.s = 0 -> lane(i.q, 8, FALSE)
        [] OTHER -> {}

\* One element: aligned as a whole, moved byte by byte.
LoadElement(a, i, e, va, r) ==
  LET ok  == Aligned(a.s, i.rn, va, e.bytes, FALSE)
      all == FoldLeft(LAMBDA b, k : Then(b, LAMBDA c :
               Then(RawRead(c.s, Address(va + k), 1, "read"), LAMBDA x : Done(x.s, Append(c.v, x.v)))),
               [ok EXCEPT !.v = <<>>], [k \in 1 .. e.bytes |-> k - 1])
      lanes(old, v) == [p \in QBytes |->
                IF e.replicate THEN IF p < 8 * (1 + i.q) THEN v[(p % e.bytes) + 1] ELSE 0
                ELSE IF p \div e.bytes = e.lane THEN v[(p % e.bytes) + 1] ELSE old[p]]
  IN  Then(all, LAMBDA b : Done(b.s, Append(a.v, lanes(a.s.q[VecReg(i, r)], b.v))))

StoreElement(s, i, e, va, r) ==
  FoldLeft(LAMBDA a, k : Then(a, LAMBDA c :
             RawWrite(c.s, Address(va + k), 1, c.s.q[VecReg(i, r)][e.lane * e.bytes + k], "write")),
           Aligned(s, i.rn, va, e.bytes, FALSE), [k \in 1 .. e.bytes |-> k - 1])

\* LD1 to LD4, ST1 to ST4 (single structure), LD1R to LD4R.
VecLane(s, i, e) ==
  LET va == SpOrReg(s, i.rn)
      regs == [r \in 1 .. e.count |-> r - 1]
      fill(t, new) == [t EXCEPT !.q = [r \in DOMAIN @ |->
        IF (r - i.rt) % VecRegs < e.count THEN new[((r - i.rt) % VecRegs) + 1] ELSE @[r]]]
      moved == FoldLeft(LAMBDA a, r : Then(a, LAMBDA c :
                 IF i.load THEN LoadElement(c, i, e, Address(va + r * e.bytes), r)
                 ELSE StoreElement(c.s, i, e, Address(va + r * e.bytes), r)), Done(s, <<>>), regs)
  IN  IF SpMisaligned(s, i.rn) THEN Raise(s, "sp", 0)
      ELSE Finish(moved, va, LAMBDA r :
             StructureBack(IF i.load THEN fill(r.s, r.v) ELSE r.s, i, e.count * e.bytes))

-----------------------------------------------------------------------------
(* Dispatch, slow and predecoded                                           *)

Undefined(s) == Raise(s, "undefined", 0)

\* exec_load_store.  Prefetches do nothing; the extensions the model of the
\* processor lacks are undefined.
Exec(i, s) ==
  CASE i.form = "unscaled"     -> Unscaled(s, i)
    [] i.form = "scaled"       -> Scaled(s, i)
    [] i.form = "indexed"      -> Indexed(s, i)
    [] i.form = "register"     -> RegisterOffset(s, i)
    [] i.form = "literal"      -> Literal(s, i)
    [] i.form = "unprivileged" -> Unprivileged(s, i)
    [] i.form = "pair"         -> IF i.load THEN LoadPair(s, i) ELSE StorePair(s, i)
    [] i.form = "acquire"      -> Acquire(s, i)
    [] i.form = "cas"          -> Cas(s, i)
    [] i.form = "casp"         -> Casp(s, i)
    [] i.form = "rmw"          -> Rmw(s, i)
    [] i.form = "vec"          -> VecSingle(s, i)
    [] i.form = "vec_pair"     -> VecPair(s, i)
    [] i.form = "vec_indexed"  -> VecIndexed(s, i)
    [] i.form = "vec_literal"  -> VecLiteral(s, i)
    [] i.form \in {"vec_seq", "vec_struct"} -> VecBytes(s, i)
    [] i.form = "vec_lane"     -> IF SingleStructs(i) = {} THEN Undefined(s)
                                  ELSE VecLane(s, i, CHOOSE e \in SingleStructs(i) : TRUE)
    [] i.form = "prefetch"     -> s
    [] i.form = "undefined"    -> Undefined(s)

\* decode_insn: what the decode cache keeps of a load or store.  The offset is
\* scaled once; LDRAA and LDRAB are left to the slow path.
DecodeInsn(i) ==
  LET common == [rd |-> i.rt, rn |-> i.rn, size |-> i.size, load |-> i.load,
                 result64 |-> i.load /\ (i.size = 8 \/ i.ext = "sign64"), signed |-> i.ext # "zero"]
  IN  CASE i.form = "scaled" /\ i.ext = "zero" ->
             common @@ [kind |-> "uimm", imm |-> i.imm * i.size, mode |-> "offset"]
        [] i.form = "scaled" /\ i.ext # "zero" ->
             common @@ [kind |-> "load_store", imm |-> i.imm * i.size, mode |-> "offset"]
        [] i.form = "indexed" /\ i.ext = "zero" ->
             common @@ [kind |-> "load_store", imm |-> i.imm, mode |-> i.mode]
        [] OTHER -> [kind |-> "fallback"]

\* What both predecoded handlers do once they know the address.
DecodedAccess(s, d, va) ==
  LET signed(v) == IF d.signed THEN SignExtend(v, d.size, 8) ELSE v
      kept(v)   == IF d.result64 THEN v ELSE v % WMod
  IN  IF DataMisaligned(s, va, d.size, FALSE) THEN Raise(s, "alignment", va)
      ELSE IF d.load
      THEN Finish(RawRead(s, va, d.size, "read"), va, LAMBDA r : SetReg(r.s, d.rd, kept(signed(r.v))))
      ELSE Finish(RawWrite(s, va, d.size, Of(s, d.rd, d.size), "write"), va, LAMBDA r : r.s)

\* exec_decoded_load_store_uimm.
DecodedUimm(s, d) ==
  IF SpMisaligned(s, d.rn) THEN Raise(s, "sp", 0)
  ELSE DecodedAccess(s, d, Address(SpOrReg(s, d.rn) + d.imm))

\* Mutant: the base moves though the access failed.
DecodedLoadStore_Always(s, d) ==
  LET base  == SpOrReg(s, d.rn)
      moved == Address(base + d.imm)
      t     == DecodedAccess(s, d, IF d.mode = "post" THEN base ELSE moved)
  IN  IF SpMisaligned(s, d.rn) THEN Raise(s, "sp", 0)
      ELSE IF d.mode = "offset" THEN t ELSE SetSpOrReg(t, d.rn, moved)

\* exec_decoded (LoadStore).
DecodedLoadStore(s, d) ==
  LET base  == SpOrReg(s, d.rn)
      moved == Address(base + d.imm)
  IN  IF SpMisaligned(s, d.rn) THEN Raise(s, "sp", 0)
      ELSE Unless(DecodedAccess(s, d, IF d.mode = "post" THEN base ELSE moved), LAMBDA t :
             IF d.mode = "offset" THEN t ELSE SetSpOrReg(t, d.rn, moved))

ExecDecoded(i, s) ==
  LET d == DecodeInsn(i)
  IN  CASE d.kind = "uimm"       -> DecodedUimm(s, d)
        [] d.kind = "load_store" -> DecodedLoadStore(s, d)
        [] OTHER                 -> Exec(i, s)

-----------------------------------------------------------------------------
(* An instruction, attempt after attempt                                   *)

VARIABLES
  ls_insn,      \* the instruction
  ls_start,     \* the machine before its first attempt
  ls_machine,   \* the machine now
  ls_phase      \* "ready", "faulted" or "done"

ls_vars == <<ls_insn, ls_start, ls_machine, ls_phase>>

Fresh == [excs |-> <<>>, failed |-> FALSE, why |-> "none", far |-> -1]

\* step(): through the decode cache or not.
Attempt ==
  /\ ls_phase = "ready"
  /\ \E run \in {Exec(ls_insn, ls_machine), ExecDecoded(ls_insn, ls_machine)} :
       /\ ls_machine' = run
       /\ ls_phase' = IF run.excs = <<>> THEN "done" ELSE "faulted"
  /\ UNCHANGED <<ls_insn, ls_start>>

\* The guest's handler grants the page it is told of, if it is one it has.
Granted == [mapped |-> TRUE, writable |-> TRUE, user |-> TRUE]
Handler ==
  /\ ls_phase = "faulted" /\ ls_machine.excs[1].kind = "translation"
  /\ ls_machine.excs[1].far \div PageBytes \in DOMAIN ls_machine.pages
  /\ ls_machine' = Fresh @@ [ls_machine EXCEPT
                     !.pages[ls_machine.excs[1].far \div PageBytes] = Granted @@ @]
  /\ ls_phase' = "ready"
  /\ UNCHANGED <<ls_insn, ls_start>>

LoadStoreNext == Attempt \/ Handler

-----------------------------------------------------------------------------
(* Properties                                                              *)

Faulted == ls_phase = "faulted"
Reported == ls_machine.excs[1]

(* An exception is precise.  A step takes one, which leaves the general    *)
(* registers and the stack pointer as they were, whatever part of the      *)
(* instruction had been carried out; and what it reports is the reason it  *)
(* was taken: the byte's page denies the access or has no memory behind    *)
(* it, the byte is watched, or the address is misaligned.  So a handler    *)
(* that repairs the page it is told of makes progress (data_abort).        *)
FaultIsPrecise ==
  Faulted =>
    LET far    == Reported.far
        wants  == {a \in {"read", "write", "unpriv_read", "unpriv_write"} : ~Allowed(ls_machine, far, a)}
        unpriv == ls_insn.form = "unprivileged"
    IN  /\ Len(ls_machine.excs) = 1
        /\ <<ls_machine.x, ls_machine.sp>> = <<ls_start.x, ls_start.sp>>
        /\ CASE Reported.kind = "translation" ->
                  wants \cap (IF unpriv THEN {"unpriv_read", "unpriv_write"} ELSE {"read", "write"}) # {}
             [] Reported.kind = "external"    -> ~PageAt(ls_machine, far).ram
             [] Reported.kind = "watchpoint"  -> far \in ls_machine.watchLoads \cup ls_machine.watchStores
             [] Reported.kind = "alignment"   -> far % (2 * ls_insn.size) # 0
             [] OTHER                         -> TRUE

Registers(s) == <<s.x, s.sp, s.q, s.mem>>
Outcome(s) == <<Registers(s), s.excs>>

(* However often it was aborted on the way, an instruction that completes  *)
(* has done what it does when nothing is in its way.                       *)
RestartsExactly ==
  ls_phase = "done" =>
    Registers(ls_machine) = Registers(Exec(ls_insn, [ls_start EXCEPT !.pages = ls_machine.pages]))

(* The predecoded form of an instruction and the slow one do the same to   *)
(* registers and memory and take the same exception.                       *)
PredecodeAgrees ==
  ls_phase = "ready" => Outcome(Exec(ls_insn, ls_machine)) = Outcome(ExecDecoded(ls_insn, ls_machine))

\* Which byte of memory is which byte of which of the instruction's registers.
Moves(i) ==
  CASE i.form \in {"pair", "vec_pair"} -> {<<k, k \div i.size, k % i.size>> : k \in 0 .. 2 * i.size - 1}
    [] i.form = "vec_seq"    -> {<<r * i.bytes + b, r, b>> : r \in 0 .. i.count - 1, b \in 0 .. i.bytes - 1}
    [] i.form = "vec_struct" -> {<<r + b * i.count, r, b>> : r \in 0 .. i.count - 1, b \in 0 .. i.bytes - 1}
    [] OTHER                 -> {<<k, 0, k>> : k \in 0 .. i.size - 1}

(* A completed load or store has moved each byte to its place: pairs in    *)
(* ascending order, structures one element to a register, the first byte   *)
(* of memory the lowest, and nothing to any other byte of memory.          *)
BytesFindTheirPlace ==
  LET i == ls_insn
      s == ls_machine
      va == CASE i.form \in {"vec_seq", "vec_struct"} -> SpOrReg(ls_start, i.rn)
              [] i.form = "vec" -> VecStart(ls_start, i)
              [] OTHER -> Start(ls_start, i)
      at(k) == Cell(s, Address(va + k))
      vector == i.form \in {"vec", "vec_pair", "vec_indexed", "vec_seq", "vec_struct"}
      scalar == i.form \in {"unscaled", "indexed", "unprivileged", "pair"}
      reg(r) == IF i.form \in {"pair", "vec_pair"} /\ r = 1 THEN i.rt2 ELSE i.rt
      byte(t, r, b) == IF vector THEN t.q[IF i.form \in {"vec_seq", "vec_struct"} THEN VecReg(i, r) ELSE reg(r)][b]
                       ELSE ByteOf(Reg(t, reg(r)), b)
  IN  ls_phase = "done" /\ (vector \/ scalar) =>
        /\ \A m \in Moves(i) :
             \/ IF i.load THEN scalar /\ reg(m[2]) = 31 ELSE FALSE
             \/ byte(IF i.load THEN s ELSE ls_start, m[2], m[3]) = s.mem[at(m[1])]
        /\ \A c \in DOMAIN s.mem :
             s.mem[c] # ls_start.mem[c] => ~i.load /\ \E m \in Moves(i) : c = at(m[1])
=============================================================================
