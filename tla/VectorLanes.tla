----------------------------- MODULE VectorLanes -----------------------------
(***************************************************************************)
(* Which elements of which registers meet in a lane: the loops and the     *)
(* argument getters of sim/coralnpu_vector_instructions.cc, and the        *)
(* register groups that sim/coralnpu_encoding.cc gives the operands.  What *)
(* a lane function computes is module LaneArith; here its result is a      *)
(* term of its arguments.                                                  *)
(*                                                                         *)
(* A register is a function from byte positions to bytes.  A byte is a     *)
(* tuple, of length 2 when it is an initial one, 3 when it comes from an   *)
(* accumulator, 4 when a lane function computed it.                        *)
(***************************************************************************)
EXTENDS Integers, Sequences

CONSTANT RegBytes   \* vector_register_width(), a multiple of 16

ASSUME RegBytesAssumption == RegBytes \in Nat /\ RegBytes % 16 = 0 /\ RegBytes > 0

(* The lane-wise families: what distinguishes them is their getters and    *)
(* the types of Vd, Vs1 and Vs2 relative to the element size of the        *)
(* instruction.                                                            *)
Binary  == {"binary", "scalar", "unary", "ternary"}
Slides  == {"slidevn", "slidehn", "slidevp", "slidehp"}
Shuffles == {"evn", "odd", "evnodd", "zip"}
Moves   == {"mvp"} \cup Slides \cup Shuffles
Kinds   == Binary \cup Moves \cup {"widen", "acc", "packed", "srans2", "srans4"}

SizeD(i) == IF i.kind \in {"widen", "acc", "packed"} THEN 2 * i.size ELSE i.size
Size1(i) == CASE i.kind \in {"acc", "srans2"} -> 2 * i.size
              [] i.kind = "srans4"            -> 4 * i.size
              [] OTHER                        -> i.size
Size2(i) == i.size

NumOps(i) == IF i.strip THEN 4 ELSE 1
Elts(size) == RegBytes \div size

(* is_widen_op: two destination registers per op.                          *)
DestRegsPerOp(i) ==
    IF (SizeD(i) > Size2(i) /\ i.kind # "packed") \/ i.kind \in {"mvp", "evnodd", "zip"}
    THEN 2 ELSE 1

-----------------------------------------------------------------------------
(* The register groups the decoder builds (GetVRegGroup).                  *)

IsWidenDestinationRegisterOp(i) == i.kind \in {"widen", "acc", "mvp", "evnodd", "zip"}

(* Faulty variant: vacc has an unwidened first source.                     *)
GetSrc1WidenFactor_NoAcc(i) ==
    CASE i.kind = "srans2" -> 2
      [] i.kind = "srans4" -> 4
      [] OTHER -> 1

GetSrc1WidenFactor(i) ==
    CASE i.kind \in {"acc", "srans2"} -> 2
      [] i.kind = "srans4" -> 4
      [] OTHER -> 1

GroupSize(i, operand) ==
    NumOps(i) * CASE operand = "vd"  -> IF IsWidenDestinationRegisterOp(i) THEN 2 ELSE 1
                  [] operand = "vs1" -> GetSrc1WidenFactor(i)
                  [] operand = "vs2" -> 1

-----------------------------------------------------------------------------
(* Argument getters: the operand and the element index they read for       *)
(* element e of the r-th destination register of op o.                     *)

At(operand, index) == [operand |-> operand, index |-> index]

CommonArg1(i, o, e, r) ==
    LET first == o * Elts(Size1(i)) + (e * SizeD(i)) \div Size1(i)
        twice == SizeD(i) = Size1(i) /\ Size1(i) = 2 * Size2(i)   \* VAcc
    IN  At("vs1", first + IF twice THEN NumOps(i) * Elts(Size1(i)) * r ELSE r)

CommonArg2(i, o, e, r) ==
    At("vs2", o * Elts(Size2(i)) + (e * SizeD(i)) \div Size2(i) + r)

PackedArg(i, o, e, odd) ==
    At("vs1", o * Elts(Size1(i)) + (e * SizeD(i)) \div Size1(i) + odd)

MvpArg(i, o, e, r) == IF r = 0 THEN CommonArg1(i, o, e, 0) ELSE CommonArg2(i, o, e, 0)

Interleave == <<0, 2, 1, 3>>

(* Narrowing alternates between the halves, or the quarters, of vs1.       *)
SransArg1(i, o, e) ==
    LET ratio == Size1(i) \div SizeD(i)
        part  == IF ratio = 2 THEN e % 2 ELSE Interleave[(e % 4) + 1]
    IN  At("vs1", o * Elts(Size1(i)) + e \div ratio + part * NumOps(i) * Elts(Size1(i)))

(* Faulty variant: a register does not carry over to the next.             *)
SlidenArg_NoCarry(horizontal, i, o, e) ==
    LET n == Elts(i.size)
    IN  IF e + i.index < n THEN At("vs1", o * n + e + i.index)
        ELSE At("vs2", o * n + e + i.index - n)

SlidenArg(horizontal, i, o, e) ==
    LET n == Elts(i.size)
    IN  CASE e + i.index < n -> At("vs1", o * n + e + i.index)
          [] e + i.index >= n /\ horizontal /\ o < 3 ->
                At("vs1", (o + 1) * n + e + i.index - n)
          [] e + i.index >= n /\ horizontal /\ o = 3 -> At("vs2", e + i.index - n)
          [] OTHER -> At("vs2", o * n + e + i.index - n)

SlidepArg(horizontal, i, o, e) ==
    LET n == Elts(i.size)
    IN  CASE e >= i.index -> At("vs2", o * n + e - i.index)
          [] e < i.index /\ horizontal /\ o = 0 -> At("vs1", 3 * n + e - i.index + n)
          [] e < i.index /\ horizontal /\ o > 0 -> At("vs2", (o - 1) * n + e - i.index + n)
          [] OTHER -> At("vs1", o * n + e - i.index + n)

EvnOddArg(i, o, e, odd) ==
    LET n     == Elts(i.size)
        index == o * n * 2 + e * 2 + odd
        total == n * NumOps(i)
    IN  IF index < total THEN At("vs1", index) ELSE At("vs2", index - total)

ZipArg(i, o, e, r) ==
    LET half  == Elts(i.size) \div 2
        index == o * half + e \div 2 + r * half * NumOps(i)
    IN  At(IF e % 2 = 1 THEN "vs2" ELSE "vs1", index)

Arg1(i, o, e, r) ==
    CASE i.kind \in Binary \cup {"widen", "acc"} -> CommonArg1(i, o, e, r)
      [] i.kind = "packed"  -> PackedArg(i, o, e, 0)
      [] i.kind = "mvp"     -> MvpArg(i, o, e, r)
      [] i.kind \in {"srans2", "srans4"} -> SransArg1(i, o, e)
      [] i.kind \in {"slidevn", "slidehn"} -> SlidenArg(i.kind = "slidehn", i, o, e)
      [] i.kind \in {"slidevp", "slidehp"} -> SlidepArg(i.kind = "slidehp", i, o, e)
      [] i.kind \in {"evn", "odd"} -> EvnOddArg(i, o, e, IF i.kind = "odd" THEN 1 ELSE 0)
      [] i.kind = "evnodd"  -> EvnOddArg(i, o, e, r)
      [] i.kind = "zip"     -> ZipArg(i, o, e, r)

(* The getter of the second argument; a .vx form reads the scalar, index   *)
(* 0, and a unary or moving op has no use for it.                          *)
Arg2(i, o, e, r) ==
    CASE i.kind = "packed"  -> PackedArg(i, o, e, 1)
      [] i.kind \in {"mvp"} \cup Shuffles \cup {"unary"} -> Arg1(i, o, e, r)
      [] i.kind = "scalar"  -> At("xs2", 0)
      [] OTHER              -> CommonArg2(i, o, e, r)

-----------------------------------------------------------------------------
(* The value of an element, and the result of a lane function.             *)

ScalarByte(n) == <<-2, n>>

Element(regs, first, size, index) ==
    [n \in 1 .. size |->
        regs[first + index \div Elts(size)][(index % Elts(size)) * size + n - 1]]

Value(regs, i, at, size) ==
    CASE at.operand = "xs2" -> [n \in 1 .. size |-> ScalarByte(n)]
      [] at.operand = "vs1" -> Element(regs, i.vs1, size, at.index)
      [] at.operand = "vs2" -> Element(regs, i.vs2, size, at.index)

(* Moves return their first argument, computations a term.  A ternary op   *)
(* also reads the destination (CopyDataBuffer).                            *)
LaneResult(i, a, b, d) ==
    [n \in 1 .. SizeD(i) |->
        IF i.kind \in Moves THEN a[n]
        ELSE <<a, IF i.kind = "unary" THEN <<>> ELSE b,
               IF i.kind = "ternary" THEN d ELSE <<>>, n>>]

OpResult(regs, i, o, e, r) ==
    LaneResult(i, Value(regs, i, Arg1(i, o, e, r), Size1(i)),
                  Value(regs, i, Arg2(i, o, e, r),
                        IF i.kind = "packed" THEN Size1(i) ELSE Size2(i)),
                  Element(regs, i.vd, SizeD(i), o * Elts(SizeD(i)) + e))

(* One op of the loop: the destination registers of op o are computed from *)
(* the registers as the earlier ops of the same instruction left them, and *)
(* are submitted together, with latency 0.                                 *)
CoralNPUBinaryVectorOp(regs, i, o) ==
    [v \in DOMAIN regs |->
        LET r == (v - i.vd - o) \div NumOps(i)
        IN  IF v >= i.vd + o /\ (v - i.vd - o) % NumOps(i) = 0 /\ r < DestRegsPerOp(i)
            THEN [n \in 0 .. RegBytes - 1 |->
                    OpResult(regs, i, o, n \div SizeD(i), r)[(n % SizeD(i)) + 1]]
            ELSE regs[v]]
=============================================================================
