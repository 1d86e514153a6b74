------------------------------- MODULE Bf16 -------------------------------
(***************************************************************************)
(* The bit-level arithmetic of the bfloat16 conversions.  The repository   *)
(* holds three bodies of it, written independently:                        *)
(*                                                                         *)
(*   "base"      sim/coralnpu_instructions.cc, which the M3 instruction    *)
(*               set names for the scalar conversions, and which           *)
(*               sim/coralnpu_vector_instructions.cc calls;                *)
(*   "m3"        sim/coralnpu_m3_instructions.cc;                          *)
(*   "override"  sim/coralnpu_m3_zfbfmin_overrides.cc.                     *)
(*                                                                         *)
(* A single has 1 + ExpSize + SigSize + Shift bits and its bfloat16 drops  *)
(* the low Shift of them (8, 7 and 16 in the code), so a conversion is     *)
(* arithmetic on bit patterns; the constants let TLC try every pattern of  *)
(* a narrow format.                                                        *)
(***************************************************************************)
EXTENDS Integers

CONSTANTS ExpSize, SigSize, Shift

ASSUME FormatAssumption ==
    /\ ExpSize \in Nat /\ ExpSize >= 2
    /\ SigSize \in Nat /\ SigSize >= 2      \* room for a signalling NaN
    /\ Shift \in Nat /\ Shift >= 2          \* room for a guard and a sticky bit

SigBits  == SigSize + Shift
HalfBits == 1 + ExpSize + SigSize
WordBits == HalfBits + Shift

\* What the proofs need to know of powers: true of every format, but the provers
\* know no power whose exponent is not a number.
ASSUME PowersOfTwo ==
    \A n \in (0 .. WordBits) \cup (0 .. 2^ExpSize) :
        /\ 2^n \in Nat \ {0}
        /\ \A m \in 0 .. n : 2^n = 2^(n - m) * 2^m

Half == 0 .. 2^HalfBits - 1                 \* bfloat16 patterns
Word == 0 .. 2^WordBits - 1                 \* single patterns
MaxExp == 2^ExpSize - 1

Bodies == {"base", "m3", "override"}

\* FPExceptions and FPRoundingMode of mpact-riscv.
Flags == {"NV", "OF", "UF", "NX"}
RNE == 0
RTZ == 1
RDN == 2
RUP == 3
RMM == 4
Dynamic == 7

-----------------------------------------------------------------------------
(* Fields of a single and of a bfloat16.                                    *)

Bit(x, i)    == (x \div 2^i) % 2 = 1
Sign(bits)   == Bit(bits, WordBits - 1)
Exp(bits)    == (bits \div 2^SigBits) % 2^ExpSize
Frac(bits)   == bits % 2^SigBits
IsNaN(bits)  == Exp(bits) = MaxExp /\ Frac(bits) # 0
IsSNaN(bits) == IsNaN(bits) /\ ~Bit(bits, SigBits - 1)

HalfExp(h)    == (h \div 2^SigSize) % 2^ExpSize
HalfIsNaN(h)  == HalfExp(h) = MaxExp /\ h % 2^SigSize # 0
HalfIsSNaN(h) == HalfIsNaN(h) /\ ~Bit(h, SigSize - 1)

CanonicalHalf == MaxExp * 2^SigSize + 2^(SigSize - 1)   \* 0x7FC0
CanonicalWord == CanonicalHalf * 2^Shift                \* 0x7FC00000

Lsb(bits)    == Bit(bits, Shift)
Guard(bits)  == Bit(bits, Shift - 1)
Sticky(bits) == bits % 2^(Shift - 1) # 0
Lossy(bits)  == Guard(bits) \/ Sticky(bits)

-----------------------------------------------------------------------------
(* Rounding a single to a bfloat16: [res, flags].                           *)

\* Faulty variant: the tie-to-even test reads the guard bit alone.
Increments_TiesUp(bits, rm) ==
    IF rm = RNE THEN Guard(bits)
    ELSE CASE rm = RUP -> ~Sign(bits) /\ Lossy(bits)
           [] rm = RDN -> Sign(bits) /\ Lossy(bits)
           [] rm = RMM -> Guard(bits)
           [] OTHER    -> FALSE

\* The switch over the rounding mode.
Increments(bits, rm) ==
    CASE rm = RNE -> Guard(bits) /\ (Lsb(bits) \/ Sticky(bits))
      [] rm = RUP -> ~Sign(bits) /\ Lossy(bits)
      [] rm = RDN -> Sign(bits) /\ Lossy(bits)
      [] rm = RMM -> Guard(bits)
      [] OTHER    -> FALSE

Rounded(bits, rm) ==
    ((bits \div 2^Shift) + (IF Increments(bits, rm) THEN 1 ELSE 0)) % 2^HalfBits

\* RoundBFloat16 of coralnpu_instructions.cc: no underflow, and overflow only
\* where the increment carries a finite value into the last exponent.
RoundBFloat16(bits, rm) ==
    LET res == Rounded(bits, rm)
    IN  [res |-> res,
         flags |-> {f \in {"NX"} : Lossy(bits)}
                   \cup {f \in {"OF", "NX"} : /\ Increments(bits, rm)
                                              /\ HalfExp(res) = MaxExp
                                              /\ Exp(bits) # MaxExp}]

\* RoundBFloat16 of coralnpu_m3_instructions.cc adds the underflow of an
\* inexact result whose exponent is zero after rounding.
M3RoundBFloat16(bits, rm) ==
    LET r == RoundBFloat16(bits, rm)
    IN  [r EXCEPT !.flags = @ \cup {f \in {"UF"} : /\ Lossy(bits)
                                                  /\ HalfExp(r.res) = 0}]

\* The body of CoralNPUM3ZfbfminFcvtBf16S compares the exponents before and
\* after, whether or not it incremented.
OverrideRound(bits, rm) ==
    LET upper   == Rounded(bits, rm)
        inexact == {f \in {"NX"} : Lossy(bits)}
        range   == CASE Exp(bits) < MaxExp /\ HalfExp(upper) = MaxExp -> {"OF", "NX"}
                     [] HalfExp(upper) = 0 /\ inexact # {}            -> {"UF"}
                     [] OTHER                                         -> {}
    IN  [res |-> upper, flags |-> inexact \cup range]

\* A NaN becomes the canonical one and, if it was signalling, raises NV.  The
\* base body sends the canonical NaN through the rounding, the others return it.
ConvertF32ToBF16(body, bits, rm) ==
    LET invalid == {f \in {"NV"} : IsSNaN(bits)}
    IN  CASE body = "base" ->
                LET r == RoundBFloat16(IF IsNaN(bits) THEN CanonicalWord ELSE bits, rm)
                IN  [r EXCEPT !.flags = @ \cup invalid]
          [] body # "base" /\ IsNaN(bits) -> [res |-> CanonicalHalf, flags |-> invalid]
          [] body = "m3" /\ ~IsNaN(bits) -> M3RoundBFloat16(bits, rm)
          [] body = "override" /\ ~IsNaN(bits) -> OverrideRound(bits, rm)

\* Faulty variant: the shift stops one bit short of the single's exponent.
ConvertBF16ToF32Precise_ShortShift(h) ==
    IF HalfIsNaN(h)
    THEN [res |-> CanonicalWord, flags |-> {f \in {"NV"} : HalfIsSNaN(h)}]
    ELSE [res |-> h * 2^(Shift - 1), flags |-> {}]

\* ConvertBF16ToF32Precise: exact but for the NaNs.
ConvertBF16ToF32Precise(h) ==
    IF HalfIsNaN(h)
    THEN [res |-> CanonicalWord, flags |-> {f \in {"NV"} : HalfIsSNaN(h)}]
    ELSE [res |-> h * 2^Shift, flags |-> {}]

-----------------------------------------------------------------------------
(* The reference: what the result must be in terms of the numbers that the  *)
(* patterns stand for, in units of the smallest subnormal single.  The      *)
(* infinity counts as the number its pattern would stand for, which is the  *)
(* first one past the largest finite number.                                *)

Magnitude(bits) ==
    IF Exp(bits) = 0 THEN Frac(bits)
    ELSE (2^SigBits + Frac(bits)) * 2^(Exp(bits) - 1)

Value(bits) == IF Sign(bits) THEN -Magnitude(bits) ELSE Magnitude(bits)
HalfValue(h) == Value(h * 2^Shift)

Distance(a, b) == IF a < b THEN b - a ELSE a - b

\* The bfloat16 numbers of one sign around a single, and the nearest of them.
Candidates(bits) == {h \in Half : /\ Sign(h * 2^Shift) = Sign(bits)
                                  /\ ~HalfIsNaN(h)}

IsCorrectlyRounded(bits, rm, h) ==
    LET x == Value(bits)
        d == Distance(HalfValue(h), x)
        cs == Candidates(bits)
    IN  /\ h \in cs
        /\ CASE rm = RTZ -> /\ Magnitude(h * 2^Shift) <= Magnitude(bits)
                            /\ \A c \in cs : Magnitude(c * 2^Shift) <= Magnitude(bits)
                                               => Distance(HalfValue(c), x) >= d
             [] rm = RUP -> /\ HalfValue(h) >= x
                            /\ \A c \in cs : HalfValue(c) >= x => HalfValue(c) >= HalfValue(h)
             [] rm = RDN -> /\ HalfValue(h) <= x
                            /\ \A c \in cs : HalfValue(c) <= x => HalfValue(c) <= HalfValue(h)
             [] rm = RNE -> \A c \in cs : LET e == Distance(HalfValue(c), x)
                                          IN  e >= d /\ (e = d /\ c # h => h % 2 = 0)
             [] rm = RMM -> \A c \in cs : LET e == Distance(HalfValue(c), x)
                                          IN  /\ e >= d
                                              /\ e = d => Magnitude(c * 2^Shift) <= Magnitude(h * 2^Shift)

\* The flags the numbers call for: a lost bit is inexact, a finite number that
\* becomes infinite overflows, and a lost bit in a result below the normal
\* numbers underflows (tininess is judged on the rounded result).
ExpectedFlags(bits, h) ==
    {f \in {"NX"} : HalfValue(h) # Value(bits)}
    \cup {f \in {"OF"} : Exp(bits) # MaxExp /\ HalfExp(h) = MaxExp}
    \cup {f \in {"UF"} : HalfValue(h) # Value(bits) /\ HalfExp(h) = 0}
=============================================================================
