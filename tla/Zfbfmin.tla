------------------------------ MODULE Zfbfmin ------------------------------
(***************************************************************************)
(* The scalar and vector bfloat16 conversion instructions as steps on the  *)
(* architectural state: the floating-point registers with their NaN boxes, *)
(* fcsr, mstatus.fs and .vs, and the vector registers with vtype, vl,      *)
(* vstart and the mask in v0.                                              *)
(*                                                                         *)
(* The vector instructions are composed with the M3 encoding               *)
(* (sim/coralnpu_m3_encoding.cc), which turns a register number into the   *)
(* group of registers that the semantic function sees.  Every scalar       *)
(* conversion exists in the three bodies of Bf16; the vector conversions   *)
(* exist in two, "base" (sim/coralnpu_vector_instructions.cc) and "m3".    *)
(*                                                                         *)
(* A vector register is HalvesPerReg bfloat16 elements, or half as many    *)
(* singles: a single is two halves, low one first.                         *)
(***************************************************************************)
EXTENDS Bf16, FiniteSets

CONSTANTS
    NumVRegs,       \* 32 in the code
    HalvesPerReg,   \* vector_register_byte_length() / 2
    Scenarios       \* the initial states: records of the variables below

ASSUME RegisterAssumption ==
    /\ Shift = HalfBits                       \* a single is two halves
    /\ NumVRegs \in Nat \ {0}
    /\ HalvesPerReg \in Nat /\ HalvesPerReg >= 2 /\ HalvesPerReg % 2 = 0

VARIABLES
    src,        \* the source floating-point register: [hi, lo]
    rd,         \* the destination floating-point register
    rm,         \* the rounding mode field of the instruction
    frm,        \* the dynamic rounding mode
    fflags,
    fs, vs,     \* mstatus.fs and .vs
    v,          \* vector registers
    vt,         \* [vlmul, vill, vl, vstart, masked]: masked is the vm bit
    insn,       \* the vector instruction's fields: [wide, d, s]
    status,     \* "ready", then "trap" or the body that completed
    widened     \* the bfloat16 that src was widened from, or None

fpvars == <<src, rd, rm, frm, fflags, fs, vs, v, vt, insn, status, widened>>

None == -1

\* A floating-point register: `hi' says whether its upper 32 bits are all
\* ones, `lo' is its lower word.
FpReg == [hi : BOOLEAN, lo : Word]
BoxWord(w) == [hi |-> TRUE, lo |-> w]
BoxHalf(h) == [hi |-> TRUE, lo |-> (2^Shift - 1) * 2^HalfBits + h]
LowBoxed(r) == r.lo \div 2^HalfBits = 2^Shift - 1
LowHalf(r) == r.lo % 2^HalfBits

RoundingModeValid == frm <= RMM
Mode == IF rm = Dynamic THEN frm ELSE rm

Trap ==
    /\ status' = "trap"
    /\ UNCHANGED <<src, rd, rm, frm, fflags, fs, vs, v, vt, insn, widened>>

\* What a completed scalar conversion leaves: the boxed result, its flags
\* ORed into fflags; the override body also marks mstatus.fs Dirty (3).
Complete(body, reg, flags) ==
    /\ rd' = reg
    /\ fflags' = fflags \cup flags
    /\ fs' = IF body = "override" THEN 3 ELSE fs
    /\ status' = body
    /\ UNCHANGED <<src, rm, frm, vs, v, vt, insn, widened>>

-----------------------------------------------------------------------------
(* Scalar conversions.                                                      *)

\* GetNaNBoxedSource<uint64_t, float>, and the same test written out in the
\* base body: a register that does not box a single reads as a quiet NaN.
Unboxed(r) == IF r.hi THEN r.lo ELSE CanonicalWord

NarrowIllegal(body) ==
    \/ rm \in {5, 6}
    \/ rm = Dynamic /\ ~RoundingModeValid
    \/ body # "base" /\ fs = 0

\* fcvt.bf16.s: Fcvtbf16s, CoralNPUFcvtBf16S and CoralNPUM3ZfbfminFcvtBf16S.
FcvtBf16S(body) ==
    \/ NarrowIllegal(body) /\ Trap
    \/ /\ ~NarrowIllegal(body)
       /\ LET c == ConvertF32ToBF16(body, Unboxed(src), Mode)
          IN  Complete(body, BoxHalf(c.res), c.flags)

\* The base body takes every rounding mode that is not reserved, the two
\* others take round-to-nearest only.
WidenIllegal(body) ==
    IF body = "base"
    THEN rm \in {5, 6} \/ (rm = Dynamic /\ ~RoundingModeValid)
    ELSE fs = 0 \/ rm # RNE

\* Where each body looks for the NaN box of a bfloat16: m3 reads the register
\* as 32 bits and sees only the upper half of the low word.
HalfBoxed(body, r) == LowBoxed(r) /\ (body = "m3" \/ r.hi)

\* fcvt.s.bf16: Fcvtsbf16, FcvtSBf16 and CoralNPUM3ZfbfminFcvtSBf16.
FcvtSBf16(body) ==
    \/ WidenIllegal(body) /\ Trap
    \/ /\ ~WidenIllegal(body)
       /\ LET c == IF HalfBoxed(body, src)
                   THEN ConvertBF16ToF32Precise(LowHalf(src))
                   ELSE [res |-> CanonicalWord, flags |-> {}]
          IN  Complete(body, BoxWord(c.res), c.flags)

\* The program moves a widened result into the source register.
Reuse ==
    /\ status \in Bodies
    /\ widened = None
    /\ LowBoxed(src) /\ rd = BoxWord(ConvertBF16ToF32Precise(LowHalf(src)).res)
    /\ src' = rd
    /\ widened' = LowHalf(src)
    /\ \E m \in {RNE, RTZ, RDN, RUP, RMM} : rm' = m
    /\ status' = "ready"
    /\ UNCHANGED <<rd, frm, fflags, fs, vs, v, vt, insn>>

-----------------------------------------------------------------------------
(* CoralNPUM3Encoding: the registers of an operand, or Null.  A group of    *)
(* the conversion's wide side has twice as many registers, and a fractional *)
(* LMUL gives one.                                                          *)

Null == {}

WideCount(vlmul) ==
    IF vlmul > 4
    THEN LET denom == 2^(8 - vlmul) IN IF 2 > denom THEN 2 \div denom ELSE 1
    ELSE 2^vlmul * 2

NarrowCount(vlmul) == IF vlmul < 4 THEN 2^vlmul ELSE 1

Group(reg, count) ==
    IF vt.vlmul = 4 \/ reg % count # 0 THEN Null ELSE reg .. reg + count - 1

WideGroup(reg)   == Group(reg, WideCount(vt.vlmul))
NarrowGroup(reg) == Group(reg, NarrowCount(vt.vlmul))

-----------------------------------------------------------------------------
(* Vector elements: element i of the group that starts at register r.       *)

SinglesPerReg == HalvesPerReg \div 2

HalfAt(r, i) == v[r + i \div HalvesPerReg][i % HalvesPerReg]

WordAt(r, i) ==
    LET reg == v[r + i \div SinglesPerReg]
        j   == 2 * (i % SinglesPerReg)
    IN  reg[j] + 2^HalfBits * reg[j + 1]

\* Bit i of v0.
MaskBit(i) == Bit(v[0][i \div HalfBits], i % HalfBits)

Converted(wide, body, s, i) ==
    IF wide THEN ConvertBF16ToF32Precise(HalfAt(s, i))
    ELSE ConvertF32ToBF16(body, WordAt(s, i), frm)

\* Faulty variant: the element loop divides by the length of a register in halves.
Written_HalfStride(wide, body, d, s, active) ==
    [r \in 0 .. NumVRegs - 1 |->
        [k \in 0 .. HalvesPerReg - 1 |->
            LET i == (r - d) * HalvesPerReg + k \div (IF wide THEN 2 ELSE 1)
                w == Converted(wide, body, s, i).res
            IN  IF r < d \/ i \notin active THEN v[r][k]
                ELSE IF ~wide THEN w
                ELSE IF k % 2 = 0 THEN w % 2^HalfBits ELSE w \div 2^HalfBits]]

\* The registers after writing the converted elements of `active' to the group
\* at d: one buffer per register of the group that holds such an element.
Written(wide, body, d, s, active) ==
    [r \in 0 .. NumVRegs - 1 |->
        [k \in 0 .. HalvesPerReg - 1 |->
            LET i == IF wide THEN (r - d) * SinglesPerReg + k \div 2
                             ELSE (r - d) * HalvesPerReg + k
                w == Converted(wide, body, s, i).res
            IN  IF r < d \/ i \notin active THEN v[r][k]
                ELSE IF ~wide THEN w
                ELSE IF k % 2 = 0 THEN w % 2^HalfBits ELSE w \div 2^HalfBits]]

FinishVector(wide, body, d, s, active, start) ==
    /\ v' = Written(wide, body, d, s, active)
    /\ fflags' = fflags \cup UNION {Converted(wide, body, s, i).flags : i \in active}
    /\ vt' = [vt EXCEPT !.vstart = start]
    /\ status' = body
    /\ UNCHANGED <<src, rd, rm, frm, fs, vs, insn, widened>>

\* The conditions under which either instruction of coralnpu_m3_instructions.cc
\* traps: any overlap of the groups does.
M3Illegal(wide, dst, sg) ==
    \/ fs = 0 \/ vs = 0
    \/ dst = Null \/ sg = Null
    \/ ~wide /\ ~RoundingModeValid
    \/ dst \cap sg # {}

\* Vfwcvtbf16ffv and Vfncvtbf16ffw of coralnpu_m3_instructions.cc: the body
\* elements from vstart whose mask bit is set are written; vstart is cleared.
M3Convert(wide, d, s) ==
    LET dst == IF wide THEN WideGroup(d) ELSE NarrowGroup(d)
        sg  == IF wide THEN NarrowGroup(s) ELSE WideGroup(s)
        active == {i \in vt.vstart .. vt.vl - 1 : vt.masked => MaskBit(i)}
    IN  \/ M3Illegal(wide, dst, sg) /\ Trap
        \/ ~M3Illegal(wide, dst, sg) /\ FinishVector(wide, "m3", d, s, active, 0)

\* CheckOverlap: a register may be shared at the same place of both groups,
\* for a widening only when the destination group is the larger.
CheckOverlap(wide, dst, d, sg, s) ==
    \E r \in dst \cap sg :
        \/ r - d # r - s
        \/ wide /\ Cardinality(dst) <= Cardinality(sg)

\* CheckMaskOverlap and CheckZvfbfminVectorOpConstraints.
VectorIllegal(wide, dst, d, sg, s) ==
    \/ CheckOverlap(wide, dst, d, sg, s)
    \/ vt.masked /\ 0 \in dst
    \/ vt.vill \/ vt.vlmul # 0
    \/ ~wide /\ frm > RMM
    \/ d % 2 # 0 \/ s % 2 # 0

\* Vfwcvtbf16ffv and Vfncvtbf16ffw of coralnpu_vector_instructions.cc: every
\* element of the first destination register, whatever vl, vstart and the mask
\* are.  The instruction has its operands: the function does not ask.
BaseConvert(wide, d, s) ==
    LET dst == IF wide THEN WideGroup(d) ELSE NarrowGroup(d)
        sg  == IF wide THEN NarrowGroup(s) ELSE WideGroup(s)
        active == 0 .. (IF wide THEN SinglesPerReg ELSE HalvesPerReg) - 1
    IN  /\ dst # Null /\ sg # Null
        /\ \/ VectorIllegal(wide, dst, d, sg, s) /\ Trap
           \/ /\ ~VectorIllegal(wide, dst, d, sg, s)
              /\ FinishVector(wide, "base", d, s, active, vt.vstart)

-----------------------------------------------------------------------------
\* The initial states: a vector scenario has a register file of halves, and a
\* vl that vsetvl can grant, so that the elements fit into the wider group.
ASSUME ScenarioAssumption ==
    \A c \in Scenarios :
        /\ c.src \in FpReg
        /\ c.vt.vl # None =>
             /\ c.v \in [0 .. NumVRegs - 1 -> [0 .. HalvesPerReg - 1 -> Half]]
             /\ c.insn \in [wide : BOOLEAN, d : 0 .. NumVRegs - 1, s : 0 .. NumVRegs - 1]
             /\ c.vt.vl \in Nat /\ c.vt.vstart \in Nat /\ c.vt.vlmul \in 0 .. 7
             /\ c.vt.vlmul # 4 =>
                  /\ c.vt.vl <= WideCount(c.vt.vlmul) * SinglesPerReg
                  /\ NumVRegs % WideCount(c.vt.vlmul) = 0

Start(c) ==
    /\ src = c.src /\ rd = BoxWord(0)
    /\ rm = c.rm /\ frm = c.frm
    /\ fflags = c.fflags
    /\ fs = c.fs /\ vs = c.vs
    /\ v = c.v /\ vt = c.vt /\ insn = c.insn
    /\ status = "ready" /\ widened = None

Init == \E c \in Scenarios : Start(c)

Scalar ==
    \/ \E body \in Bodies : status = "ready" /\ FcvtBf16S(body)
    \/ \E body \in Bodies : status = "ready" /\ FcvtSBf16(body)
    \/ Reuse

Vector ==
    /\ status = "ready"
    /\ \/ M3Convert(insn.wide, insn.d, insn.s)
       \/ BaseConvert(insn.wide, insn.d, insn.s)

\* A scenario is of scalar or of vector instructions.
IsVector == vt.vl # None
Next == IF IsVector THEN Vector ELSE Scalar

Spec == Init /\ [][Next]_fpvars

-----------------------------------------------------------------------------
(* Properties                                                               *)

\* Every body rounds every single in every mode to the bfloat16 that the
\* numbers call for, with the flags they call for - except underflow, which the
\* base body never raises and should: UnderflowRaised is about that.  A NaN
\* gives the canonical NaN, and NV if it signalled (RoundBFloat16 and the
\* conversions built on it).
ConversionExact ==
    (~IsVector /\ status = "ready") =>
      \A body \in Bodies, m \in {RNE, RTZ, RDN, RUP, RMM} :
        LET bits == Unboxed(src)
            c == ConvertF32ToBF16(body, bits, m)
            unseen == IF body = "base" THEN {"UF"} ELSE {}
        IN  IF IsNaN(bits)
            THEN /\ c.res = CanonicalHalf
                 /\ c.flags = {f \in {"NV"} : IsSNaN(bits)}
            ELSE /\ IsCorrectlyRounded(bits, m, c.res)
                 /\ c.flags = ExpectedFlags(bits, c.res) \ unseen

\* "tiny subnormal -> 0.0, UF | NX" (the test of fcvt.bf16.s, which the M3 core
\* binds to the base body): a narrowing of the base body that completes has
\* raised every flag that its rounding calls for, underflow included.
UnderflowRaised ==
    (status = "base" /\ LowBoxed(rd) /\ ~IsNaN(Unboxed(src))) =>
        ExpectedFlags(Unboxed(src), LowHalf(rd)) \subseteq fflags

\* A bfloat16 that any body widens and any body narrows again, in any rounding
\* mode, comes back as it was (a NaN as the canonical one), and the way back
\* raises no flag: what fcvt.s.bf16 promises to fcvt.bf16.s.
RoundTrip ==
    [][ (widened # None /\ status' \in Bodies /\ \E body \in Bodies : FcvtBf16S(body))
        => /\ rd' = BoxHalf(IF HalfIsNaN(widened) THEN CanonicalHalf ELSE widened)
           /\ fflags' = fflags ]_fpvars

\* The register file seen as one array of halves, and the halves of an element.
Flat(f, q) == f[q \div HalvesPerReg][q % HalvesPerReg]
ElementHalves == IF insn.wide THEN 2 ELSE 1

\* The conversion of element i of the source group.
FromElement(body, i) ==
    LET q == insn.s * HalvesPerReg
    IN  IF insn.wide
        THEN ConvertBF16ToF32Precise(Flat(v, q + i))
        ELSE ConvertF32ToBF16(body, Flat(v, q + 2 * i) + 2^HalfBits * Flat(v, q + 2 * i + 1), frm)

\* The elements that a body converts: the active ones, or those of the first
\* destination register.
Selected(body, i) ==
    IF body = "m3"
    THEN /\ vt.vstart <= i /\ i < vt.vl
         /\ vt.masked => Bit(v[0][i \div HalfBits], i % HalfBits)
    ELSE i < HalvesPerReg \div ElementHalves

\* A vector conversion that completes, with the registers that the encoding
\* gave it: seen as one array of halves, element i of the destination is the
\* conversion of what was element i of the source before the instruction (also
\* where the base body lets the groups share a register), and every other half
\* of the file is what it was.  m3 converts the active elements, base those of
\* the first destination register (the element loops, the buffer per register
\* and the overlap checks of both bodies).
ElementsExact ==
    [][ (IsVector /\ status' \in {"base", "m3"}) =>
          \A q \in 0 .. NumVRegs * HalvesPerReg - 1 :
            LET k == q - insn.d * HalvesPerReg
                i == k \div ElementHalves
            IN  IF k >= 0 /\ Selected(status', i)
                THEN Flat(v', q) = (FromElement(status', i).res
                                      \div 2^(HalfBits * (k % ElementHalves))) % 2^HalfBits
                ELSE Flat(v', q) = Flat(v, q) ]_fpvars
=============================================================================
