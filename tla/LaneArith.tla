------------------------------ MODULE LaneArith ------------------------------
(***************************************************************************)
(* The lane functions of the first vector extension: what one element of   *)
(* the destination is, given the elements of the sources, in               *)
(* sim/coralnpu_vector_instructions.cc.  (Which elements meet in a lane is *)
(* module VectorUnit.)                                                     *)
(*                                                                         *)
(* A lane type T is a signedness sg and a width w in bits; a lane is an    *)
(* integer of that type.  Widths are scaled down (the widest, IntBits,     *)
(* stands for int32_t, the type "int" of the code); C++ arithmetic is      *)
(* modelled with its conversions: arithmetic in "int" or in the type of    *)
(* twice the width, truncated when it is stored in T.                      *)
(*                                                                         *)
(* The state is a pair of operands that walks over all samples: the        *)
(* properties compare every lane function with a reference that computes   *)
(* on unbounded integers, or bit by bit.                                   *)
(***************************************************************************)
EXTENDS Integers, FiniteSets, FiniteSetsExt

CONSTANTS
    Widths,     \* the widths of lane types
    IntBits,    \* the width of the C++ type int
    Operands(_) \* the bit patterns tried as an operand of a given width

(* The narrowest type that is multiplied has two bits.                     *)
ASSUME WidthsAssumption ==
    /\ IntBits \in Nat /\ Widths \subseteq 2 .. IntBits
    /\ \A n \in Widths : Operands(n) \subseteq 0 .. 2 ^ n - 1

(* Arithmetic that the proofs use: the powers of two a lane computes with. *)
ASSUME LanePowers ==
    /\ 2 ^ 0 = 1
    /\ \A n \in 0 .. 2 * IntBits :
          /\ 2 ^ n \in Nat \ {0}
          /\ n < 2 * IntBits => 2 ^ (n + 1) = 2 * 2 ^ n
    /\ \A m, n \in 0 .. IntBits : 2 ^ (m + n) = 2 ^ m * 2 ^ n

VARIABLES
    w,      \* the width of the lane type, or 0 when none is sampled
    x, y, z \* the bit patterns of vs1, vs2 and vd in one lane

lanevars == <<w, x, y, z>>

-----------------------------------------------------------------------------
(* The C++ types.                                                          *)

Lowest(sg, n)  == IF sg THEN -(2 ^ (n - 1)) ELSE 0
Highest(sg, n) == IF sg THEN 2 ^ (n - 1) - 1 ELSE 2 ^ n - 1

(* static_cast to a type of n bits: modulo 2^n.                            *)
Cast(sg, n, v) ==
    LET u == v % 2 ^ n
    IN  IF sg /\ u > Highest(TRUE, n) THEN u - 2 ^ n ELSE u

Flag(b) == IF b THEN 1 ELSE 0

(* The set bits of a pattern, in "int" or wider, and back.                 *)
Bits(v)    == {i \in 0 .. 2 * IntBits - 1 : (v \div 2 ^ i) % 2 = 1}
FromBits(s) == MapThenSumSet(LAMBDA i : 2 ^ i, s)
ShiftBits(s, k) == {i + k : i \in s} \cap Nat

-----------------------------------------------------------------------------
(* Modular arithmetic, comparison and selection.                           *)

VAdd(a, b)      == Cast(TRUE, w, a + b)
VSub(a, b)      == Cast(TRUE, w, a - b)
VRSub(a, b)     == Cast(TRUE, w, b - a)
VAdd3(d, a, b)  == Cast(TRUE, w, d + a + b)
VAddw(sg, a, b) == Cast(sg, 2 * w, a + b)
VSubw(sg, a, b) == Cast(sg, 2 * w, a - b)
VAcc(sg, a, b)  == Cast(sg, 2 * w, a + b)
VMul(a, b)      == Cast(TRUE, w, a * b)
VMulw(sg, a, b) == Cast(sg, 2 * w, a * b)
VMacc(d, a, b)  == Cast(TRUE, w, d + a * b)
VMadd(d, a, b)  == Cast(TRUE, w, a + d * b)

VEq(a, b) == Flag(a = b)
VNe(a, b) == Flag(a # b)
VLt(a, b) == Flag(a < b)
VLe(a, b) == Flag(a <= b)
VGt(a, b) == Flag(a > b)
VGe(a, b) == Flag(a >= b)
VMax(a, b) == IF a < b THEN b ELSE a
VMin(a, b) == IF b < a THEN b ELSE a

VAbsd(sg, a, b) ==
    LET ua == Cast(FALSE, w, a)
        ub == Cast(FALSE, w, b)
    IN  Cast(FALSE, w, IF a > b THEN ua - ub ELSE ub - ua)

VSel(d, a, b) == IF a % 2 = 1 THEN d ELSE b

-----------------------------------------------------------------------------
(* Saturating arithmetic.  The sign of a xor b is that of a times b, with  *)
(* zero positive.                                                          *)

SignsDiffer(a, b) == (a < 0) # (b < 0)

(* Faulty variant: the overflow goes unnoticed.                            *)
VAddsHelper_GuardDropped(a, b) == Cast(TRUE, w, a + b)

VAddsHelper(a, b) ==
    LET sum == Cast(TRUE, w, a + b)
    IN  IF ~SignsDiffer(a, b) /\ SignsDiffer(sum, a)
        THEN IF a > 0 THEN Highest(TRUE, w) ELSE Lowest(TRUE, w)
        ELSE sum

VAddsuHelper(a, b) ==
    LET sum == Cast(FALSE, w, a + b)
    IN  IF sum < a THEN Highest(FALSE, w) ELSE sum

VSubsHelper(a, b) ==
    LET sub == Cast(TRUE, w, a - b)
    IN  IF SignsDiffer(a, b) /\ ~SignsDiffer(sub, b)
        THEN IF b < 0 THEN Highest(TRUE, w) ELSE Lowest(TRUE, w)
        ELSE sub

VSubsu(a, b) == IF a < b THEN 0 ELSE a - b

VMuls(sg, a, b) ==
    LET result == a * b
        top    == VMin(Highest(sg, w), result)
    IN  IF sg THEN VMax(Lowest(sg, w), top) ELSE top

-----------------------------------------------------------------------------
(* Halving, high-half and narrowing arithmetic.  v \div 2^k is v >> k.     *)

VHaddHelper(sg, round, a, b) ==
    Cast(sg, w, Cast(sg, 2 * w, a + b + Flag(round)) \div 2)

(* An unsigned difference wraps in the wide type, and its half is cut off. *)
VHsubHelper(sg, round, a, b) ==
    Cast(sg, w, Cast(sg, 2 * w, a - b + Flag(round)) \div 2)

VMulhHelper(sg, round, a, b) ==
    Cast(sg, w, Cast(sg, 2 * w, a * b + (IF round THEN 2 ^ (w - 1) ELSE 0)) \div 2 ^ w)

(* Faulty variant: lowest times lowest is not singled out.                 *)
VDmulhHelper_NoMinCase(round, round_neg, a, b) ==
    Cast(TRUE, w, (a * b + IF round THEN 2 ^ (w - 2) ELSE 0) \div 2 ^ (w - 1))

VDmulhHelper(round, round_neg, a, b) ==
    LET product == a * b
        rnd     == IF product < 0 /\ round_neg THEN -(2 ^ (w - 2)) ELSE 2 ^ (w - 2)
        result  == (product + IF round THEN rnd ELSE 0) \div 2 ^ (w - 1)
    IN  IF a = Lowest(TRUE, w) /\ b = Lowest(TRUE, w)
        THEN Highest(TRUE, w)
        ELSE Cast(TRUE, w, result)

(* Narrowing from src_bits to n bits: the shift amount is masked to the    *)
(* source width, the result saturates.                                     *)
VSransHelper(sg, n, src_bits, round, a, b) ==
    LET amount == b % src_bits
        half   == IF amount # 0 /\ round THEN 2 ^ (amount - 1) ELSE 0
        res    == (a + half) \div 2 ^ amount
    IN  CASE res < Lowest(sg, n)  -> Lowest(sg, n)
          [] res > Highest(sg, n) -> Highest(sg, n)
          [] OTHER                -> Cast(sg, n, res)

-----------------------------------------------------------------------------
(* The shift by a signed amount: right when it is positive, left when it   *)
(* is negative, both saturating.  -shamt is computed in "int": for the     *)
(* lowest int it overflows, and the results the build can produce are in   *)
(* NegatedShift.                                                           *)

NegatedShift(shamt) ==
    IF shamt = Lowest(TRUE, IntBits) THEN {shamt} ELSE {-shamt}

(* CHECK_LE(ushamt, kMaxShiftBit) on the unsigned amount: a failed CHECK   *)
(* ends the process.                                                       *)
ShiftChecked(b) ==
    \A neg \in NegatedShift(b) :
        Cast(FALSE, w, VMin(neg, w)) <= w

(* Faulty variant: the left shift loses its high bits.                     *)
VShiftSigned_NarrowLeft(round, a, shamt) ==
    CASE a < 0 /\ shamt >= w -> -1 + Flag(round)
      [] a >= 0 /\ shamt >= w -> 0
      [] shamt > 0 /\ shamt < w ->
           (a + IF round THEN 2 ^ (shamt - 1) ELSE 0) \div 2 ^ shamt
      [] OTHER -> Cast(TRUE, w, a * 2 ^ VMin(-shamt, w))

VShiftSigned(round, a, shamt) ==
    LET shift ==
          CASE a < 0 /\ shamt >= w -> -1 + Flag(round)
            [] a > 0 /\ shamt >= w -> 0
            [] shamt > 0 /\ shamt < w ->
                 (a + IF round THEN 2 ^ (shamt - 1) ELSE 0) \div 2 ^ shamt
            [] OTHER ->
                 Cast(TRUE, 2 * w, Cast(FALSE, 2 * w, a) * 2 ^ VMin(-shamt, w))
    IN  CASE a = 0 -> 0
          [] a < 0 /\ (shamt <= -w \/ shift < Lowest(TRUE, w))  -> Lowest(TRUE, w)
          [] a > 0 /\ (shamt <= -w \/ shift > Highest(TRUE, w)) -> Highest(TRUE, w)
          [] OTHER -> Cast(TRUE, w, shift)

VShiftUnsigned(round, a, b) ==
    LET shamt == Cast(TRUE, w, b)
        shift ==
          CASE shamt > w -> 0
            [] shamt > 0 /\ shamt <= w ->
                 (a + IF round THEN 2 ^ (shamt - 1) ELSE 0) \div 2 ^ shamt
            [] OTHER -> Cast(FALSE, 2 * w, a * 2 ^ VMin(-shamt, w))
    IN  CASE a = 0 -> 0
          [] a # 0 /\ (shamt < -w \/ shift > Highest(FALSE, w)) -> Highest(FALSE, w)
          [] OTHER -> Cast(FALSE, w, shift)

CoralNPUVShiftHelper(sg, round, a, b) ==
    IF sg THEN VShiftSigned(round, a, b) ELSE VShiftUnsigned(round, a, b)

-----------------------------------------------------------------------------
(* Bit patterns (unsigned lanes).                                          *)

VAnd(a, b) == FromBits(Bits(a) \cap Bits(b))
VOr(a, b)  == FromBits(Bits(a) \cup Bits(b))
VXor(a, b) == FromBits((Bits(a) \cup Bits(b)) \ (Bits(a) \cap Bits(b)))
VNot(a)    == Cast(TRUE, w, -a - 1)
VMv(a)     == a

(* One rung of the reversal ladder swaps the neighbouring blocks of k      *)
(* bits; the masks 0x55.., 0x33.., 0x0F.. select the lower of each two.    *)
Rung(k, r) ==
    LET low == {i \in r : (i \div k) % 2 = 0}
    IN  ShiftBits(low, k) \cup ShiftBits(r \ low, -k)

(* The rungs are climbed in the order 1, 2, 4, .. up to the lane's width.  *)
VRev(a, b) ==
    LET count  == Bits(b)
        ladder[i \in 0 .. w] ==
            IF i = 0 THEN Bits(a)
            ELSE IF i - 1 \in count /\ 2 ^ (i - 1) < w
                 THEN Rung(2 ^ (i - 1), ladder[i - 1]) ELSE ladder[i - 1]
    IN  Cast(FALSE, w, FromBits(ladder[w] \cap 0 .. 2 * IntBits - 1))

VRor(a, b) ==
    LET count == Bits(b % w)
        ladder[i \in 0 .. w] ==
            IF i = 0 THEN a
            ELSE IF i - 1 \in count
                 THEN LET r == ladder[i - 1]
                          k == 2 ^ (i - 1)
                      IN  Cast(FALSE, w, VOr(r \div 2 ^ k, r * 2 ^ (w - k)))
                 ELSE ladder[i - 1]
    IN  ladder[w]

VSll(a, b) == Cast(FALSE, w, a * 2 ^ (b % w))
VSra(a, b) == a \div 2 ^ (b % w)
VSrl(a, b) == a \div 2 ^ (b % w)

CountlZero(a) == w - Cardinality(0 .. (IF a = 0 THEN -1 ELSE Max(Bits(a))))
CountlOne(a)  == CountlZero(2 ^ w - 1 - a)
VClz(a)  == CountlZero(a)
VClb(a)  == IF w - 1 \in Bits(a) THEN CountlOne(a) ELSE CountlZero(a)
VCpop(a) == Cardinality(Bits(a))

-----------------------------------------------------------------------------
(* The walk over the samples.                                              *)

Patterns == 0 .. 2 ^ w - 1
U(v) == v
S(v) == Cast(TRUE, w, v)
As(sg, v) == Cast(sg, w, v)

LaneInit ==
    /\ w \in Widths
    /\ x \in Operands(w) /\ y = 0 /\ z = 0

(* No lane is sampled.                                                     *)
LaneIdle == w = 0 /\ x = 0 /\ y = 0 /\ z = 0

NextOperand ==
    /\ w # 0 /\ y < 2 ^ w - 1
    /\ y' = y + 1
    /\ z' = (x + 3 * y) % 2 ^ w
    /\ UNCHANGED <<w, x>>

LaneSpec == LaneInit /\ [][NextOperand]_lanevars

-----------------------------------------------------------------------------
(* References.                                                             *)

Clamp(sg, n, v) ==
    IF v < Lowest(sg, n) THEN Lowest(sg, n)
    ELSE IF v > Highest(sg, n) THEN Highest(sg, n) ELSE v

(* q is v / 2^k rounded down; rounded to the nearest, halves upwards.      *)
IsFloor(q, v, k)   == q * 2 ^ k <= v /\ v < (q + 1) * 2 ^ k
IsNearest(q, v, k) == (2 * q - 1) * 2 ^ k <= 2 * v /\ 2 * v < (2 * q + 1) * 2 ^ k
IsShifted(q, v, k, round) == IF round THEN IsNearest(q, v, k) ELSE IsFloor(q, v, k)

(* Saturating operations return the exact result clamped to the lane: the  *)
(* sign tests of vadds and vsubs, the wrap-around test of vaddsu and the   *)
(* wide products all find exactly the overflows.  Absolute differences and *)
(* widened results are exact in both signs, comparisons and extrema        *)
(* describe one order, and wrapped sums and products undo and compose.     *)
ArithmeticExact ==
  w # 0 =>
    /\ VAddsHelper(S(x), S(y)) = Clamp(TRUE, w, S(x) + S(y))
    /\ VSubsHelper(S(x), S(y)) = Clamp(TRUE, w, S(x) - S(y))
    /\ VAddsuHelper(x, y) = Clamp(FALSE, w, x + y)
    /\ VSubsu(x, y) = Clamp(FALSE, w, x - y)
    /\ \A sg \in BOOLEAN :
          VMuls(sg, As(sg, x), As(sg, y)) = Clamp(sg, w, As(sg, x) * As(sg, y))
    /\ \A sg \in BOOLEAN :
         LET a == As(sg, x)
             b == As(sg, y)
         IN  /\ VLt(a, b) + VEq(a, b) + VGt(a, b) = 1
             /\ VLe(a, b) = VMax(VLt(a, b), VEq(a, b)) /\ VGe(a, b) = VLe(b, a)
             /\ VNe(a, b) = 1 - VEq(a, b)
             /\ VAbsd(sg, a, b) = VMax(a, b) - VMin(a, b)
             /\ VAddw(sg, a, b) = a + b /\ VMulw(sg, a, b) = a * b
             /\ VSubw(TRUE, S(x), S(y)) = S(x) - S(y)
    /\ VAdd(VSub(S(x), S(y)), S(y)) = S(x)
    /\ VAdd3(VRSub(S(x), S(y)), S(x), S(z)) = VAdd(S(y), S(z))
    /\ VMacc(S(z), S(x), S(y)) = VAdd(S(z), VMul(S(x), S(y)))
    /\ VMadd(S(z), S(x), S(y)) = VMacc(S(x), S(z), S(y))

(* Halving, high-half and narrowing operations round as their name says    *)
(* and never leave the lane type: down, or to the nearest with halves      *)
(* upwards; the doubling product saturates only for lowest times lowest,   *)
(* and its ".rn" form is at most one below the nearest on negative         *)
(* products.  A halved difference leaves the lane only when a rounded      *)
(* highest minus lowest wraps to the lowest lane, or when an unsigned one  *)
(* is negative.  Narrowing is the saturated shift of the wide source.      *)
RoundingExact ==
  w # 0 =>
    \A round \in BOOLEAN :
      /\ \A sg \in BOOLEAN :
           LET a == As(sg, x)
               b == As(sg, y)
           IN  /\ IsShifted(VHaddHelper(sg, round, a, b), a + b, 1, round)
               /\ LET h == VHsubHelper(sg, round, a, b)
                  IN  \/ IsShifted(h, a - b, 1, round)
                      \/ sg /\ round /\ a - b = Highest(FALSE, w) /\ h = Lowest(sg, w)
                      \/ ~sg /\ a < b /\ IsShifted(h - 2 ^ w, a - b, 1, round)
               /\ IsShifted(VMulhHelper(sg, round, a, b), a * b, w, round)
               /\ \A n \in {m \in Widths : 2 * m = w} :
                    LET b2 == Cast(sg, n, y)
                        k  == b2 % w
                        r  == VSransHelper(sg, n, w, round, a, b2)
                    IN  \/ IsShifted(r, a, k, round)
                        \/ r = Lowest(sg, n) /\ a < r * 2 ^ k
                        \/ r = Highest(sg, n) /\ a > r * 2 ^ k
      /\ LET a == S(x)
             b == S(y)
             r == VDmulhHelper(round, FALSE, a, b)
             m == VDmulhHelper(TRUE, TRUE, a, b)
         IN  /\ \/ IsShifted(r, a * b, w - 1, round)
                \/ a = Lowest(TRUE, w) /\ b = a /\ r = Highest(TRUE, w)
             /\ a * b < 0 => \/ IsNearest(m, a * b, w - 1)
                             \/ IsNearest(m + 1, a * b, w - 1)

(* The two-way shift equals the exact shifted value, saturated, for every  *)
(* amount, also beyond the width; the one amount left out is the lowest    *)
(* int in a lane as wide as int, whose negation overflows (ShiftChecked).  *)
ShiftExact ==
  w # 0 =>
    \A sg, round \in BOOLEAN :
      LET a == As(sg, x)
          k == S(y)
          r == CoralNPUVShiftHelper(sg, round, a, As(sg, y))
      IN  k # Lowest(TRUE, IntBits) =>
            IF k > 0 THEN IsShifted(r, a, VMin(k, w + 1), round)
            ELSE r = Clamp(sg, w, a * 2 ^ VMin(-k, w))

(* Bit operations agree with their definition on single bits: reversal     *)
(* sends bit i to bit (i xor count), rotation to (i - count) mod w; shifts *)
(* move bits and fill with zeros or with the sign; the counts count.       *)
BitsExact ==
  w # 0 =>
    LET B(v) == Bits(v) \cap 0 .. w - 1
        k    == y % w
    IN  /\ \A i \in 0 .. w - 1 :
             /\ (i \in B(x)) = (VXor(i, k) \in B(VRev(x, y)))
             /\ (i \in B(x)) = ((i - k) % w \in B(VRor(x, y)))
             /\ (i \in B(VSll(x, y))) = (i - k \in B(x))
             /\ (i \in B(VSrl(x, y))) = (i + k \in B(x))
             /\ (i \in B(VSra(S(x), y))) = (VMin(i + k, w - 1) \in B(x))
             /\ (i \in B(VNot(S(x)))) = (i \notin B(x))
        /\ \A i \in 0 .. w : (VClz(x) >= i) = (\A j \in w - i .. w - 1 : j \notin B(x))
        /\ VClb(x) = Max({i \in 1 .. w : Cardinality({j \in B(x) : j >= w - i}) \in {0, i}})
        /\ VCpop(x) + VCpop(2 ^ w - 1 - x) = w
        /\ VAnd(x, y) + VOr(x, y) = x + y /\ VXor(x, y) = VOr(x, y) - VAnd(x, y)

(* Every shift, two-way or not, and every operation on single bits.        *)
ShiftsAndBitsExact == ShiftExact /\ BitsExact
=============================================================================
