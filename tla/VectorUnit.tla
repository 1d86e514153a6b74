----------------------------- MODULE VectorUnit -----------------------------
(***************************************************************************)
(* The vector unit of the first CoralNPU ISA executing short programs:     *)
(* lane instructions (module VectorLanes), loads and stores                *)
(* (sim/coralnpu_vector_memory_instructions.cc), and the convolutions with *)
(* their accumulators (sim/coralnpu_vector_convolution_instructions.cc).   *)
(*                                                                         *)
(* Data is symbolic: every initial byte is distinct, so what holds of one  *)
(* run of a program holds for every content of the registers.  An          *)
(* accumulator is the set of products added to it.                         *)
(***************************************************************************)
EXTENDS VectorLanes, FiniteSets, FiniteSetsExt

CONSTANTS
    NumRegs,    \* vector registers (kNumVregs)
    MemBytes,   \* bytes of memory
    MagicBit,   \* the cache invalidation bit of an address (above kMemMask)
    Base,       \* the address in the pointer registers at the start
    Programs    \* the programs: sequences of instructions

(* The lane instructions that have an encoding: the widest elements have   *)
(* four bytes, a slide moves by one to four elements, and horizontal       *)
(* slides exist only in the form of four registers.                        *)
Encodable(i) ==
    /\ i.size \in {1, 2, 4} /\ i.strip \in BOOLEAN
    /\ i.kind \in {"widen", "acc", "packed", "srans2"} => i.size # 4
    /\ i.kind = "srans4" => i.size = 1
    /\ i.kind \in Slides => i.index \in 1 .. 4
    /\ i.kind \in {"slidehn", "slidehp"} => i.strip

(* The register groups of its operands lie in the register file.           *)
Placed(i) ==
    /\ i.vd \in Nat /\ i.vd + GroupSize(i, "vd") <= NumRegs
    /\ i.vs1 \in Nat /\ i.vs1 + GroupSize(i, "vs1") <= NumRegs
    /\ i.vs2 \in Nat /\ i.vs2 + GroupSize(i, "vs2") <= NumRegs

ASSUME ProgramsAssumption ==
    /\ NumRegs \in Nat
    /\ \A p \in Programs :
          /\ Len(p) \in Nat
          /\ \A n \in 1 .. Len(p) : p[n].kind \in Kinds => Encodable(p[n]) /\ Placed(p[n])

VARIABLES
    vreg,       \* the vector registers
    mem,        \* the memory
    ptr,        \* scalar registers: a store and a load pointer
    vl,         \* scalar register written by getvl
    acc,        \* acc_register_: words of sets of products
    dwacc,      \* depthwise_acc_register_, a flat array of words
    code,       \* the program
    at,         \* index of the instruction being executed
    op,         \* op_index of its loop
    before,     \* history: the registers when the instruction began
    trapped     \* an instruction trapped

vars == <<vreg, mem, ptr, vl, acc, dwacc, code, at, op, before, trapped>>

Words   == RegBytes \div 4        \* kVectorLenInWord
Regs    == 0 .. NumRegs - 1
Running == at <= Len(code)
Inst    == code[at]

Initial == [v \in Regs |-> [n \in 0 .. RegBytes - 1 |-> <<v, n>>]]
MemByte(a) == <<-3, a>>
ZeroByte   == <<-1, 0>>
StaleByte  == <<-4, 0>>           \* left over in a recycled data buffer
Uninitialised == <<-5, 0>>        \* depthwise_acc_register_ has no initialiser

(* A machine that has not executed anything yet.                           *)
Reset ==
    /\ vreg = Initial /\ before = Initial
    /\ mem = [a \in 0 .. MemBytes - 1 |-> MemByte(a)]
    /\ ptr = [st |-> Base, ld |-> Base]
    /\ vl = 0
    /\ acc = [j \in 0 .. Words - 1 |-> [k \in 0 .. Words - 1 |-> {}]]
    /\ dwacc = [j \in 0 .. 4 * Words - 1 |-> {Uninitialised}]
    /\ at = 1 /\ op = 0 /\ trapped = FALSE

Init == Reset /\ code \in Programs

Advance == at' = at + 1 /\ op' = 0 /\ UNCHANGED code
Retire(regs) ==
    /\ vreg' = regs /\ before' = vreg
    /\ Advance

-----------------------------------------------------------------------------
(* Lane instructions: one step per op.                                     *)

LaneOp ==
    /\ Running /\ Inst.kind \in Kinds
    /\ vreg' = CoralNPUBinaryVectorOp(vreg, Inst, op)
    /\ before' = IF op = 0 THEN vreg ELSE before
    /\ IF op + 1 < NumOps(Inst) THEN op' = op + 1 /\ UNCHANGED <<at, code>> ELSE Advance
    /\ UNCHANGED <<mem, ptr, vl, acc, dwacc, trapped>>

-----------------------------------------------------------------------------
(* Loads and stores.  len and str say whether xs2 is a length and a        *)
(* stride; post is the post-increment form; quad the store by quarters.    *)

LesserOf(a, b) == IF a < b THEN a ELSE b

(* xs2, which may be the result of getvl.                                  *)
Xs2(i) == IF i.xs2 = "vl" THEN vl ELSE i.arg

(* The magic bit is not part of the address.                               *)
AddrOf(i) == ptr[i.ptr] % MagicBit

EltsOf(i)   == LET all == NumOps(i) * Elts(i.size)
               IN  IF i.len THEN LesserOf(Xs2(i), all) ELSE all
StrideOf(i) == IF i.str THEN Xs2(i) ELSE Elts(i.size)

(* Elements per stride: a register, or a quarter of one.                   *)
BlockOf(i)  == IF i.quad THEN Elts(i.size) \div 4 ELSE Elts(i.size)

(* The address of the k-th element.                                        *)
ElementAddr(i, k) ==
    AddrOf(i) + (k \div BlockOf(i)) * StrideOf(i) * i.size + (k % BlockOf(i)) * i.size

(* Faulty variant: as if vstq were vst, and .lp a whole register.          *)
PostIncrement_QuadForgotten(i) ==
    CASE EltsOf(i) = 0                    -> 0
      [] i.len /\ i.str                   -> RegBytes
      [] ~i.len /\ ~i.str /\ i.post = "x" -> RegBytes * NumOps(i)
      [] i.len /\ ~i.str                  -> Elts(i.size) * i.size
      [] i.str /\ ~i.len                  -> StrideOf(i) * i.size * NumOps(i)
      [] OTHER                            -> Xs2(i) * i.size

PostIncrement(i) ==
    CASE EltsOf(i) = 0                    -> 0
      [] i.len /\ i.str                   -> RegBytes                        \* .tp
      [] ~i.len /\ ~i.str /\ i.post = "x" -> RegBytes * NumOps(i)            \* .p.x
      [] i.len /\ ~i.str                  -> EltsOf(i) * i.size              \* .lp
      [] i.str /\ ~i.len                  -> StrideOf(i) * i.size * NumOps(i)
                                               * (IF i.quad THEN 4 ELSE 1)   \* .sp
      [] OTHER                            -> Xs2(i) * i.size                 \* .p.xx

PointerAfter(i) ==
    IF i.post = "none" THEN ptr ELSE [ptr EXCEPT ![i.ptr] = AddrOf(i) + PostIncrement(i)]

(* vld and its child, which writes the registers: elements beyond the      *)
(* length are zero.                                                        *)
VLd ==
    LET i == Inst
        Loaded(k, n) ==
            IF k < EltsOf(i) THEN mem[ElementAddr(i, k) + n] ELSE ZeroByte
    IN  /\ Running /\ i.kind = "vld"
        /\ Retire([v \in Regs |->
                     IF v \in i.vd .. i.vd + NumOps(i) - 1
                     THEN [n \in 0 .. RegBytes - 1 |->
                             Loaded((v - i.vd) * Elts(i.size) + n \div i.size, n % i.size)]
                     ELSE vreg[v]])
        /\ ptr' = PointerAfter(i)
        /\ UNCHANGED <<mem, vl, acc, dwacc, trapped>>

(* vst, vstq: the elements are stored in order, a later one over an        *)
(* earlier one at the same address.                                        *)
VectorStoreHelper ==
    LET i == Inst
        Covers(k, a) == a \in ElementAddr(i, k) .. ElementAddr(i, k) + i.size - 1
        Final(a) == LET ks == {k \in 0 .. EltsOf(i) - 1 : Covers(k, a)}
                   IN  IF ks = {} THEN -1 ELSE Max(ks)
    IN  /\ Running /\ i.kind = "vst"
        /\ mem' = [a \in DOMAIN mem |->
                     LET k == Final(a)
                     IN  IF k = -1 THEN mem[a]
                         ELSE Element(vreg, i.vd, i.size, k)[a - ElementAddr(i, k) + 1]]
        /\ ptr' = PointerAfter(i)
        /\ Retire(vreg)
        /\ UNCHANGED <<vl, acc, dwacc, trapped>>

VDup ==
    LET i == Inst
    IN  /\ Running /\ i.kind = "vdup"
        /\ Retire([v \in Regs |->
                     IF v \in i.vd .. i.vd + NumOps(i) - 1
                     THEN [n \in 0 .. RegBytes - 1 |-> ScalarByte((n % i.size) + 1)]
                     ELSE vreg[v]])
        /\ UNCHANGED <<mem, ptr, vl, acc, dwacc, trapped>>

GetVl ==
    LET i == Inst
    IN  /\ Running /\ i.kind = "getvl"
        /\ vl' = LesserOf(NumOps(i) * Elts(i.size), i.arg)
        /\ Retire(vreg)
        /\ UNCHANGED <<mem, ptr, acc, dwacc, trapped>>

-----------------------------------------------------------------------------
(* Accumulators.  A word in a register is four bytes <<set, n, 0>>.        *)

AccBytes(cell)  == [n \in 0 .. 3 |-> <<cell, n, 0>>]
WordOf(v, k)    == Element(vreg, v, 4, k)
ByteOf(v, n)    == vreg[v][n]

VcGet ==
    /\ Running /\ Inst.kind = "vcget"
    /\ Retire([v \in Regs |->
                 IF v \in Inst.vd .. Inst.vd + Words - 1
                 THEN [n \in 0 .. RegBytes - 1 |->
                         AccBytes(acc[v - Inst.vd][n \div 4])[n % 4]]
                 ELSE vreg[v]])
    /\ acc' = [j \in DOMAIN acc |-> [k \in DOMAIN acc[j] |-> {}]]
    /\ UNCHANGED <<mem, ptr, vl, dwacc, trapped>>

(* acset, and actr, which transposes.                                      *)
AcSet ==
    /\ Running /\ Inst.kind \in {"acset", "actr"}
    /\ acc' = [j \in DOMAIN acc |-> [k \in DOMAIN acc[j] |->
                 {IF Inst.kind = "actr" THEN WordOf(Inst.vs1 + k, j)
                                        ELSE WordOf(Inst.vs1 + j, k)}]]
    /\ Retire(vreg)
    /\ UNCHANGED <<mem, ptr, vl, dwacc, trapped>>

(* Four registers are copied to the depthwise accumulator; of each         *)
(* destination register only the first quarter is written, the rest is     *)
(* what the recycled buffer held.                                          *)
ADwInit ==
    /\ Running /\ Inst.kind = "adwinit"
    /\ dwacc' = [j \in DOMAIN dwacc |->
                   {WordOf(Inst.vs1 + j \div Words, j % Words)}]
    /\ Retire([v \in Regs |->
                 IF v \in Inst.vd .. Inst.vd + 3
                 THEN [n \in 0 .. RegBytes - 1 |->
                         IF n < RegBytes \div 4
                         THEN vreg[Inst.vs1 + v - Inst.vd][n] ELSE StaleByte]
                 ELSE vreg[v]])
    /\ UNCHANGED <<mem, ptr, vl, acc, trapped>>

-----------------------------------------------------------------------------
(* aconv: matrix product of 8 rows of vs1 and the registers of vs3, into   *)
(* the accumulator in double-widened order.                                *)

Quad == 4                         \* kQuadBase

(* Faulty variant: the sums are not interleaved.                           *)
ConvCell_NoInterleave(i, wd) ==
    <<(i \div Quad) * Quad + (wd % Quad),
      (i % Quad) * (Words \div Quad) + wd \div Quad>>

(* The accumulator cell of row i and word wd of the wide operand.          *)
ConvCell(i, wd) ==
    <<(i \div Quad) * Quad + Interleave[(wd % Quad) + 1],
      (i % Quad) * (Words \div Quad) + wd \div Quad>>

BadCmd(c) == c.mode # 0 \/ c.start > c.stop \/ c.start >= Words \/ c.stop >= Words

VConvTrap ==
    /\ Running /\ Inst.kind = "aconv" /\ BadCmd(Inst)
    /\ trapped' = TRUE
    /\ Retire(vreg)
    /\ UNCHANGED <<mem, ptr, vl, acc, dwacc>>

VConv ==
    LET c == Inst
        Products(row, col) ==
            {<<ByteOf(c.vs1 + p[2], Quad * p[1] + (p[3] % Quad)),
               ByteOf(c.vs3 + p[1] - c.start, p[3])>> :
                 p \in {q \in (c.start .. c.stop) \X (0 .. Words - 1) \X (0 .. RegBytes - 1) :
                          ConvCell(q[2], q[3] \div Quad) = <<row, col>>}}
    IN  /\ Running /\ c.kind = "aconv" /\ ~BadCmd(c)
        /\ acc' = [j \in DOMAIN acc |-> [k \in DOMAIN acc[j] |->
                     acc[j][k] \cup Products(j, k)]]
        /\ Retire(vreg)
        /\ UNCHANGED <<mem, ptr, vl, dwacc, trapped>>

-----------------------------------------------------------------------------
(* adwconv, vdwconv: three elementwise products of selected registers.     *)

(* The three activation registers a register base selects.                 *)
Vs1Idx(regbase) ==
    CASE regbase \in 0 .. 6   -> <<regbase, regbase + 1, regbase + 2>>
      [] regbase = 7          -> <<1, 0, 2>>
      [] regbase \in 8 .. 11  -> <<2 * regbase - 15, 2 * regbase - 14, 0>>
      [] regbase \in 12 .. 15 -> <<2 * regbase - 22, 0, 1>>

(* Word k of a_data: copied in pieces from the selected registers.         *)
AData(c, k) ==
    LET v == [n \in 1 .. 3 |-> c.vs1 + Vs1Idx(c.regbase)[n]]
        r == k \div Words
        j == k % Words
    IN  CASE c.sparsity = 0 -> WordOf(v[r + 1], j)
          [] c.sparsity = 1 /\ k = 0 -> WordOf(v[1], Words - 1)
          [] c.sparsity = 1 /\ k # 0 /\ r = 0 -> WordOf(v[2], j - 1)
          [] c.sparsity = 1 /\ r = 1 -> WordOf(v[2], j)
          [] c.sparsity = 1 /\ r = 2 /\ k # 3 * Words - 1 -> WordOf(v[2], j + 1)
          [] c.sparsity = 1 /\ k = 3 * Words - 1 -> WordOf(v[3], 0)
          [] c.sparsity = 2 /\ j + r < Words -> WordOf(v[1], j + r)
          [] c.sparsity = 2 /\ j + r >= Words -> WordOf(v[2], j + r - Words)

(* The accumulator word of byte lane n.                                    *)
DwCell(n) == Words * Interleave[(n % 4) + 1] + n \div 4

(* Sparsity 3 traps without returning: the products are then those of an   *)
(* uninitialised a_data.                                                   *)
VDwconv ==
    LET c == Inst
        A(r, n) == IF c.sparsity = 3 THEN StaleByte
                   ELSE AData(c, r * Words + n \div 4)[(n % 4) + 1]
        Products(cell) ==
            {<<A(p[1], p[2]), ByteOf(c.vs3 + p[1], p[2])>> :
                p \in {q \in (0 .. 2) \X (0 .. RegBytes - 1) : DwCell(q[2]) = cell}}
        after == [cell \in DOMAIN dwacc |-> dwacc[cell] \cup Products(cell)]
    IN  /\ Running /\ c.kind = "dwconv"
        /\ trapped' = (trapped \/ c.sparsity = 3)
        /\ dwacc' = after
        /\ Retire([v \in Regs |->
                     IF c.write_acc /\ v \in c.vd .. c.vd + 3
                     THEN [n \in 0 .. RegBytes - 1 |->
                             AccBytes(after[(v - c.vd) * Words + n \div 4])[n % 4]]
                     ELSE vreg[v]])
        /\ UNCHANGED <<mem, ptr, vl, acc>>

Next ==
    \/ LaneOp
    \/ VLd \/ VectorStoreHelper \/ VDup \/ GetVl
    \/ VcGet \/ AcSet \/ ADwInit
    \/ VConv \/ VConvTrap \/ VDwconv

Spec == Init /\ [][Next]_vars

-----------------------------------------------------------------------------
(* References: an instruction on whole groups of registers.                *)

Group(regs, first, count, size) ==
    [k \in 1 .. count * Elts(size) |-> Element(regs, first, size, k - 1)]

(* The elements of the destination group, counted from 0, from those of    *)
(* the sources; m is the number of elements of an unwidened group.         *)
LaneReference(i, regs, k) ==
    LET n  == NumOps(i)
        a  == Group(regs, i.vs1, GroupSize(i, "vs1"), Size1(i))
        b  == IF i.kind = "scalar"
              THEN [j \in 1 .. n * Elts(i.size) |-> [q \in 1 .. i.size |-> ScalarByte(q)]]
              ELSE Group(regs, i.vs2, n, Size2(i))
        d  == Group(regs, i.vd, n, SizeD(i))
        ab == a \o b
        m  == n * Elts(SizeD(i))
        w  == n * Elts(Size1(i))
        e  == Elts(i.size)
        F(p, q) == LaneResult(i, p, q, IF k < m THEN d[k + 1] ELSE <<>>)
        M(p)    == F(p, p)
    IN  CASE i.kind \in Binary  -> F(a[k + 1], b[k + 1])
          [] i.kind = "widen"   -> IF k < m THEN F(a[2 * k + 1], b[2 * k + 1])
                                   ELSE F(a[2 * (k - m) + 2], b[2 * (k - m) + 2])
          [] i.kind = "acc"     -> F(a[k + 1], b[IF k < m THEN 2 * k + 1
                                                 ELSE 2 * (k - m) + 2])
          [] i.kind = "packed"  -> F(a[2 * k + 1], a[2 * k + 2])
          [] i.kind = "srans2"  -> F(a[k \div 2 + 1 + (k % 2) * w], b[k + 1])
          [] i.kind = "srans4"  -> F(a[k \div 4 + 1 + Interleave[(k % 4) + 1] * w], b[k + 1])
          [] i.kind = "slidehn" -> M(ab[k + 1 + i.index])
          [] i.kind = "slidehp" -> M(ab[k + 1 + m - i.index])
          [] i.kind = "slidevn" -> LET j == (k % e) + i.index
                                   IN  M(IF j < e THEN a[k + 1 + i.index]
                                         ELSE b[k + 1 + i.index - e])
          [] i.kind = "slidevp" -> LET j == k % e
                                   IN  M(IF j < i.index THEN a[k + 1 + e - i.index]
                                         ELSE b[k + 1 - i.index])
          [] i.kind = "evn"     -> M(ab[2 * k + 1])
          [] i.kind = "odd"     -> M(ab[2 * k + 2])
          [] i.kind = "evnodd"  -> M(IF k < m THEN ab[2 * k + 1] ELSE ab[2 * (k - m) + 2])
          [] i.kind = "zip"     -> M(IF k % 2 = 0 THEN a[k \div 2 + 1] ELSE b[k \div 2 + 1])
          [] i.kind = "mvp"     -> M(ab[k + 1])

(* In place, an op may overwrite what a later op of the same instruction   *)
(* still reads.  It does not when the groups are disjoint or the op loop   *)
(* runs once, and, with vd on top of a source, for the kinds below.        *)
InPlaceOK(i) ==
    LET over(v, s) == \E r \in 0 .. GroupSize(i, "vd") - 1, q \in 0 .. GroupSize(i, s) - 1 :
                          i.vd + r = v + q
    IN  \/ ~i.strip
        \/ /\ over(i.vs1, "vs1") =>
                i.vd = i.vs1 /\ i.kind \in Binary \cup
                    {"packed", "slidehn", "slidehp", "slidevn", "slidevp", "evn", "odd", "acc"}
           /\ over(i.vs2, "vs2") =>
                i.vd = i.vs2 /\ i.kind \in {"binary", "ternary", "unary", "scalar",
                                            "slidevn", "slidevp", "packed", "srans2",
                                            "srans4"}

(* When the last op of a lane instruction has been submitted, every        *)
(* element of the destination group is the lane function of the elements   *)
(* the instruction names, as they were before it began, and every other    *)
(* register is unchanged; also in place, where InPlaceOK says so.          *)
LanesRight ==
    at > 1 /\ op = 0 /\ code[at - 1].kind \in Kinds =>
        LET i == code[at - 1]
            dest == i.vd .. i.vd + GroupSize(i, "vd") - 1
        IN  /\ \A v \in Regs \ dest : vreg[v] = before[v]
            /\ InPlaceOK(i) =>
                 \A k \in 0 .. GroupSize(i, "vd") * Elts(SizeD(i)) - 1 :
                    Element(vreg, i.vd, SizeD(i), k) = LaneReference(i, before, k)

(* Every element index the getters compute lies in the register group the  *)
(* decoder gave the operand, and every register written in that of vd: the *)
(* sizes in the encoding and the loops in the semantic functions agree.    *)
OperandsFit ==
    Running /\ Inst.kind \in Kinds =>
        LET i == Inst
            Inside(a, size) ==
                a.operand # "xs2" => a.index \div Elts(size) \in 0 .. GroupSize(i, a.operand) - 1
        IN  /\ NumOps(i) * DestRegsPerOp(i) = GroupSize(i, "vd")
            /\ \A e \in 0 .. Elts(SizeD(i)) - 1, r \in 0 .. DestRegsPerOp(i) - 1 :
                 /\ Inside(Arg1(i, op, e, r), Size1(i))
                 /\ Inside(Arg2(i, op, e, r), IF i.kind = "packed" THEN Size1(i) ELSE Size2(i))

-----------------------------------------------------------------------------
(* Programs whose order the interleaving of widened data must not disturb. *)

Done == at > Len(code)
KindsOf(p) == [n \in 1 .. Len(p) |-> p[n].kind]

(* The bytes that a narrowing lane was computed from.                      *)
Narrowed(byte) == byte[1]

(* Widening splits even and odd elements over two groups of registers, and *)
(* the convolutions scatter their sums over four; the narrowing that       *)
(* follows in a program brings every element back to its own place: after  *)
(* vmulw and vsrans, lane k holds element k; after vdwconv and vsraqs,     *)
(* lane k holds its initial value and the products of byte lane k over its *)
(* window of activations;                                                  *)
(* after aconv, vcget and vsraqs, the rows of the matrix product stand one *)
(* after the other.  vzip and vevnodd undo each other, and actr with vcget *)
(* transposes.                                                             *)
OrderRestored ==
    Done /\ ~trapped =>
      LET last == code[Len(code)]
          Out(k) == Element(vreg, last.vd, last.size, k)
      IN  CASE KindsOf(code) = <<"widen", "srans2">> ->
                 LET i == code[1]
                 IN  \A k \in 0 .. NumOps(i) * Elts(i.size) - 1 :
                        Narrowed(Out(k)[1]) =
                            LaneResult(i, Element(Initial, i.vs1, i.size, k),
                                          Element(Initial, i.vs2, i.size, k), <<>>)
            [] KindsOf(code) = <<"zip", "evnodd">> ->
                 LET i == code[1]
                     n == NumOps(i) * Elts(i.size)
                 IN  \A k \in 0 .. n - 1 :
                        /\ Out(k) = Element(Initial, i.vs1, i.size, k)
                        /\ Out(n + k) = Element(Initial, i.vs2, i.size, k)
            [] KindsOf(code) = <<"adwinit", "dwconv", "srans4">> ->
                 LET c == code[2]
                     Start(n) == Element(Initial, code[1].vs1 + Interleave[(n % 4) + 1], 4, n \div 4)
                     Act(r, n) ==
                       LET v == Vs1Idx(c.regbase)
                           p == CASE c.sparsity = 0 -> <<v[r + 1], n>>
                                  [] c.sparsity = 1 ->
                                       LET q == RegBytes + 4 * (r - 1) + n
                                       IN  <<v[q \div RegBytes + 1], q % RegBytes>>
                                  [] c.sparsity = 2 ->
                                       LET q == 4 * r + n
                                       IN  <<v[q \div RegBytes + 1], q % RegBytes>>
                       IN  <<c.vs1 + p[1], p[2]>>
                 IN  \A n \in 0 .. RegBytes - 1 :
                        Narrowed(Out(n)[1])[1][1] =
                            {Start(n)} \cup {<<Act(r, n), <<c.vs3 + r, n>>>> : r \in 0 .. 2}
            [] KindsOf(code) = <<"aconv", "vcget", "srans4">> ->
                 LET c == code[1]
                 IN  \A row \in 0 .. 3, wd \in 0 .. Words - 1 :
                        Narrowed(Out(row * Words + wd)[1])[1][1] =
                            {<<<<c.vs1 + row, 4 * k + n>>,
                               <<c.vs3 + k - c.start, 4 * wd + n>>>> :
                                 k \in c.start .. c.stop, n \in 0 .. 3}
            [] KindsOf(code) \in {<<"acset", "vcget">>, <<"actr", "vcget">>} ->
                 LET i == code[1]
                 IN  \A j, k \in 0 .. Words - 1 :
                        Element(vreg, last.vd + j, 4, k)[1][1] =
                            {IF i.kind = "actr" THEN Element(Initial, i.vs1 + k, 4, j)
                             ELSE Element(Initial, i.vs1 + j, 4, k)}
            [] OTHER -> TRUE

IsWalk(p) ==
    /\ Len(p) >= 4
    /\ SubSeq(KindsOf(p), Len(p) - 3, Len(p)) = <<"vst", "vst", "vld", "vld">>

(* Two blocks stored by a walk with a post-incremented pointer are read    *)
(* back by the same walk: no form of stride, length and increment lets the *)
(* second block overwrite the first, skip an element or, in the shorter    *)
(* form, leave anything but zeros beyond the length; the bytes between and *)
(* around the blocks are untouched.                                        *)
WalkReadsBack ==
    Done /\ IsWalk(code)
      => LET n    == Len(code)
             s1   == code[n - 3]
             Elem(regs, i, k) == Element(regs, i.vd, i.size, k)
             all  == NumOps(s1) * Elts(s1.size)
             size == IF s1.len THEN LesserOf(Xs2(s1), all) ELSE all
             Back(s, l) ==
                \A k \in 0 .. all - 1 :
                    Elem(vreg, l, k) = IF k < size THEN Elem(Initial, s, k)
                                       ELSE [q \in 1 .. s.size |-> ZeroByte]
         IN  /\ Back(code[n - 3], code[n - 1]) /\ Back(code[n - 2], code[n])
             /\ ptr.st = ptr.ld
             /\ Cardinality({a \in DOMAIN mem : mem[a] # MemByte(a)}) = 2 * size * s1.size
=============================================================================
