--------------------------- MODULE ZfbfminProofs ---------------------------
(***************************************************************************)
(* The bfloat16 conversions: for every format of singles and halves, every *)
(* register file and every scenario.                                       *)
(***************************************************************************)
EXTENDS Zfbfmin, TLAPS

-----------------------------------------------------------------------------
(* Quotients and remainders.                                                *)

(* A number is made of one quotient and one remainder.                     *)
LEMMA Quotient ==
    ASSUME NEW q \in Nat, NEW n \in Nat \ {0}, NEW r \in 0 .. n - 1
    PROVE  (q * n + r) \div n = q /\ (q * n + r) % n = r
  OBVIOUS

(* A multiple has no remainder.                                            *)
LEMMA Multiple ==
    ASSUME NEW q \in Nat, NEW n \in Nat \ {0}
    PROVE  (q * n) \div n = q /\ (q * n) % n = 0
<1>1. 0 \in 0 .. n - 1 /\ q * n \in Nat /\ q * n = q * n + 0
  OBVIOUS
<1>2. QED
  BY <1>1, Quotient

(* A common factor of a division.                                          *)
LEMMA CommonFactor ==
    ASSUME NEW a \in Nat, NEW b \in Nat \ {0}, NEW p \in Nat \ {0}
    PROVE  (a * p) \div (b * p) = a \div b /\ (a * p) % (b * p) = (a % b) * p
<1>1. PICK q \in Nat, r \in 0 .. b - 1 : a = q * b + r /\ q = a \div b /\ r = a % b
  OBVIOUS
<1>2. PICK n, c : n = b * p /\ c = r * p
  OBVIOUS
<1>3. n \in Nat \ {0} /\ c \in Nat
  BY <1>2
<1>4. c + p <= n
  <2>1. r + 1 <= b
    OBVIOUS
  <2>2. (r + 1) * p <= b * p /\ (r + 1) * p = r * p + p
    BY <2>1
  <2>3. QED
    BY <1>2, <2>2
<1>5. c \in 0 .. n - 1
  BY <1>3, <1>4
<1>6. a * p = q * n + c
  <2>1. a * p = (q * b) * p + r * p
    BY <1>1
  <2>2. (q * b) * p = q * (b * p)
    OBVIOUS
  <2>3. QED
    BY <1>2, <2>1, <2>2
<1>7. (q * n + c) \div n = q /\ (q * n + c) % n = c
  BY <1>3, <1>5, Quotient
<1>8. QED
  BY <1>1, <1>2, <1>6, <1>7

-----------------------------------------------------------------------------
(* The powers of two of the format.                                         *)

(* The sizes of the fields are made of one another.                        *)
LEMMA Powers ==
    /\ 2^Shift \in Nat \ {0} /\ 2^(Shift - 1) \in Nat \ {0} /\ 2^Shift = 2 * 2^(Shift - 1)
    /\ 2^SigSize \in Nat \ {0} /\ 2^(SigSize - 1) \in Nat \ {0} /\ 2^SigSize = 2 * 2^(SigSize - 1)
    /\ 2^ExpSize \in Nat \ {0} /\ 2^HalfBits \in Nat \ {0}
    /\ 2^SigBits = 2^SigSize * 2^Shift /\ 2^(SigBits - 1) = 2^(SigSize - 1) * 2^Shift
    /\ 2^HalfBits = 2 * (2^ExpSize * 2^SigSize)
<1> DEFINE P(n) == 2^n
<1>1. \A n \in 0 .. WordBits : /\ P(n) \in Nat \ {0}
                               /\ \A m \in 0 .. n : P(n) = P(n - m) * P(m)
  BY PowersOfTwo
<1>2. P(1) = 2
  <2>1. 2^1 = 2
    OBVIOUS
  <2>2. QED
    BY <2>1
<1> HIDE DEF P
<1>3. /\ ExpSize \in Nat /\ ExpSize >= 2 /\ SigSize \in Nat /\ SigSize >= 2
      /\ Shift \in Nat /\ Shift >= 2
      /\ SigBits = SigSize + Shift /\ HalfBits = 1 + ExpSize + SigSize
      /\ WordBits = HalfBits + Shift
  BY FormatAssumption DEF SigBits, HalfBits, WordBits
<1>4. /\ P(Shift) \in Nat \ {0} /\ P(Shift - 1) \in Nat \ {0}
      /\ P(SigSize) \in Nat \ {0} /\ P(SigSize - 1) \in Nat \ {0}
      /\ P(ExpSize) \in Nat \ {0} /\ P(HalfBits) \in Nat \ {0}
      /\ P(HalfBits - 1) \in Nat \ {0}
  <2>1. /\ Shift \in 0 .. WordBits /\ Shift - 1 \in 0 .. WordBits
        /\ SigSize \in 0 .. WordBits /\ SigSize - 1 \in 0 .. WordBits
        /\ ExpSize \in 0 .. WordBits /\ HalfBits \in 0 .. WordBits
        /\ HalfBits - 1 \in 0 .. WordBits
    BY <1>3
  <2>2. QED
    BY <1>1, <2>1
<1>5. ASSUME NEW n \in 1 .. WordBits PROVE P(n) = 2 * P(n - 1)
  <2>1. n - 1 \in 0 .. n /\ n - (n - 1) = 1 /\ n \in 0 .. WordBits
    BY <1>3
  <2>2. P(n) = P(n - (n - 1)) * P(n - 1)
    BY <1>1, <2>1
  <2>3. QED
    BY <1>2, <2>1, <2>2
<1>6. P(Shift) = 2 * P(Shift - 1) /\ P(SigSize) = 2 * P(SigSize - 1)
  BY <1>3, <1>5
<1>7. ASSUME NEW a \in Nat, NEW b \in Nat, a + b <= WordBits PROVE P(a + b) = P(a) * P(b)
  <2>1. b \in 0 .. a + b /\ (a + b) - b = a /\ a + b \in 0 .. WordBits
    BY <1>3, <1>7
  <2>2. P(a + b) = P((a + b) - b) * P(b)
    BY <1>1, <2>1
  <2>3. QED
    BY <2>1, <2>2
<1>8. P(SigBits) = P(SigSize) * P(Shift)
  BY <1>3, <1>7
<1>9. P(SigBits - 1) = P(SigSize - 1) * P(Shift)
  <2>1. SigBits - 1 = (SigSize - 1) + Shift /\ SigSize - 1 \in Nat
        /\ (SigSize - 1) + Shift <= WordBits
    BY <1>3
  <2>2. P((SigSize - 1) + Shift) = P(SigSize - 1) * P(Shift)
    BY <1>3, <1>7, <2>1
  <2>3. QED
    BY <2>1, <2>2
<1>10. P(HalfBits) = 2 * (P(ExpSize) * P(SigSize))
  <2>1. P(HalfBits) = 2 * P(HalfBits - 1)
    BY <1>3, <1>5
  <2>2. HalfBits - 1 = ExpSize + SigSize
    BY <1>3
  <2>3. P(ExpSize + SigSize) = P(ExpSize) * P(SigSize)
    BY <1>3, <1>7
  <2>4. QED
    BY <2>1, <2>2, <2>3
<1>11. QED
  BY <1>4, <1>6, <1>8, <1>9, <1>10 DEF P

(* The powers that the sign and the exponents need.                        *)
LEMMA MorePowers ==
    /\ 2^WordBits = 2^HalfBits * 2^Shift
    /\ 2^(WordBits - 1) = (2^ExpSize * 2^SigSize) * 2^Shift
    /\ 2^ExpSize >= 2
<1> DEFINE P(n) == 2^n
<1>1. \A n \in 0 .. WordBits : /\ P(n) \in Nat \ {0}
                               /\ \A m \in 0 .. n : P(n) = P(n - m) * P(m)
  BY PowersOfTwo
<1>2. P(1) = 2
  <2>1. 2^1 = 2
    OBVIOUS
  <2>2. QED
    BY <2>1
<1> HIDE DEF P
<1>3. /\ ExpSize \in Nat /\ ExpSize >= 2 /\ SigSize \in Nat /\ SigSize >= 2
      /\ Shift \in Nat /\ Shift >= 2
      /\ HalfBits = 1 + ExpSize + SigSize /\ WordBits = HalfBits + Shift
  BY FormatAssumption DEF HalfBits, WordBits
<1>4. ASSUME NEW a \in Nat, NEW b \in Nat, a + b <= WordBits PROVE P(a + b) = P(a) * P(b)
  <2>1. b \in 0 .. a + b /\ (a + b) - b = a /\ a + b \in 0 .. WordBits
    BY <1>3, <1>4
  <2>2. P(a + b) = P((a + b) - b) * P(b)
    BY <1>1, <2>1
  <2>3. QED
    BY <2>1, <2>2
<1>5. P(WordBits) = P(HalfBits) * P(Shift)
  BY <1>3, <1>4
<1>6. P(WordBits - 1) = (P(ExpSize) * P(SigSize)) * P(Shift)
  <2>1. P(ExpSize + SigSize) = P(ExpSize) * P(SigSize)
    BY <1>3, <1>4
  <2>2. PICK n \in Nat : n = ExpSize + SigSize
    BY <1>3
  <2>3. P(n + Shift) = P(n) * P(Shift)
    BY <1>3, <1>4, <2>2
  <2>4. WordBits - 1 = n + Shift
    BY <1>3, <2>2
  <2>5. QED
    BY <2>1, <2>2, <2>3, <2>4
<1>7. P(ExpSize) >= 2
  <2>1. ExpSize - 1 \in Nat /\ (ExpSize - 1) + 1 = ExpSize /\ ExpSize - 1 \in 0 .. WordBits
        /\ (ExpSize - 1) + 1 <= WordBits
    BY <1>3
  <2>2. PICK n \in Nat : n = ExpSize - 1
    BY <2>1
  <2>3. P(n + 1) = P(n) * P(1)
    BY <1>4, <2>1, <2>2
  <2>4. P(n) \in Nat \ {0}
    BY <1>1, <2>1, <2>2
  <2>5. PICK x \in Nat \ {0} : x = P(n)
    BY <2>4
  <2>6. P(ExpSize) = x * 2
    BY <1>2, <2>1, <2>2, <2>3, <2>5
  <2>7. QED
    BY <2>6
<1>8. QED
  BY <1>5, <1>6, <1>7 DEF P

(* The canonical NaN is a half.                                            *)
LEMMA CanonicalIsHalf == CanonicalHalf \in Half /\ MaxExp \in Nat
<1>1. PICK E, S, T, H : E = 2^ExpSize /\ S = 2^SigSize /\ T = 2^(SigSize - 1) /\ H = 2^HalfBits
  OBVIOUS
<1>2. /\ E \in Nat \ {0} /\ S \in Nat \ {0} /\ T \in Nat \ {0} /\ H \in Nat
      /\ S = 2 * T /\ H = 2 * (E * S)
  BY <1>1, Powers
<1>3. PICK m : m = (E - 1) * S
  OBVIOUS
<1>4. m \in Nat /\ m + S = E * S
  BY <1>2, <1>3
<1>5. m + T \in 0 .. H - 1
  BY <1>2, <1>4
<1>6. CanonicalHalf = m + T
  BY <1>1, <1>3 DEF CanonicalHalf, MaxExp
<1>7. Half = 0 .. H - 1 /\ MaxExp = E - 1
  BY <1>1 DEF Half, MaxExp
<1>8. QED
  BY <1>2, <1>5, <1>6, <1>7

(* A widened half is a single.                                             *)
LEMMA WidenedIsWord ==
    Word \subseteq Nat /\ CanonicalWord \in Word /\ \A h \in Half : h * 2^Shift \in Word
<1>1. PICK H \in Nat \ {0}, P \in Nat \ {0} : H = 2^HalfBits /\ P = 2^Shift
  BY Powers
<1>2. Half = 0 .. H - 1 /\ Word = 0 .. H * P - 1 /\ H * P \in Nat
  <2>1. H * P \in Nat
    OBVIOUS
  <2>2. QED
    BY <1>1, <2>1, MorePowers DEF Half, Word
<1>3. ASSUME NEW h \in 0 .. H - 1 PROVE h * P \in 0 .. H * P - 1
  <2>1. (h + 1) * P <= H * P /\ (h + 1) * P = h * P + P
    OBVIOUS
  <2>2. h * P \in Nat
    OBVIOUS
  <2>3. QED
    BY <1>2, <2>1, <2>2
<1>4. \A h \in Half : h * 2^Shift \in Word
  BY <1>1, <1>2, <1>3
<1>5. QED
  BY <1>2, <1>4, CanonicalIsHalf DEF CanonicalWord

-----------------------------------------------------------------------------
(* A half, widened.                                                         *)

(* The single that a half widens to has the half's fields and no bit that  *)
(* rounding could lose.                                                    *)
LEMMA WidenedFields ==
    ASSUME NEW h \in Half, NEW bits, bits = h * 2^Shift
    PROVE  /\ bits \div 2^Shift = h /\ h % 2^HalfBits = h
           /\ ~Guard(bits) /\ ~Sticky(bits)
           /\ Exp(bits) = HalfExp(h) /\ (IsNaN(bits) <=> HalfIsNaN(h))
           /\ (IsSNaN(bits) <=> HalfIsSNaN(h))
<1>1. PICK P, Q, S, T, H, Z : /\ P = 2^Shift /\ Q = 2^(Shift - 1) /\ S = 2^SigSize
                              /\ T = 2^(SigSize - 1) /\ H = 2^HalfBits /\ Z = 2^SigBits
  OBVIOUS
<1>2. /\ P \in Nat \ {0} /\ Q \in Nat \ {0} /\ S \in Nat \ {0} /\ T \in Nat \ {0}
      /\ H \in Nat \ {0} /\ P = 2 * Q /\ Z = S * P /\ 2^(SigBits - 1) = T * P
  BY <1>1, Powers
<1>3. h \in 0 .. H - 1 /\ h \in Nat /\ bits = h * P
  BY <1>1, <1>2 DEF Half
<1>4. bits \div P = h /\ h % H = h
  <2>1. (h * P) \div P = h
    BY <1>2, <1>3, Multiple, Zenon
  <2>2. h % H = h
    BY <1>2, <1>3
  <2>3. QED
    BY <1>3, <2>1, <2>2
<1>5. (bits \div Q) % 2 = 0 /\ bits % Q = 0
  <2>1. PICK k \in Nat : k = 2 * h
    BY <1>3
  <2>2. h * P = k * Q
    BY <1>2, <1>3, <2>1
  <2>3. (k * Q) \div Q = k /\ (k * Q) % Q = 0
    BY <1>2, Multiple
  <2>4. k % 2 = 0
    BY <1>3, <2>1
  <2>5. QED
    BY <1>3, <2>2, <2>3, <2>4
<1>6. bits \div Z = h \div S /\ bits % Z = (h % S) * P
  <2>0. h \in Nat /\ S \in Nat \ {0} /\ P \in Nat \ {0}
    BY <1>2, <1>3
  <2>1. (h * P) \div (S * P) = h \div S /\ (h * P) % (S * P) = (h % S) * P
    BY <2>0, CommonFactor
  <2>2. bits = h * P /\ Z = S * P
    BY <1>2, <1>3
  <2>3. QED
    BY <2>1, <2>2, Zenon
<1>7. bits \div (T * P) = h \div T
  <2>1. (h * P) \div (T * P) = h \div T
    BY <1>2, <1>3, CommonFactor, Zenon
  <2>2. QED
    BY <1>3, <2>1
<1>8. (h % S) * P # 0 <=> h % S # 0
  <2>1. h % S \in Nat
    BY <1>2, <1>3
  <2>2. QED
    BY <1>2, <2>1
<1>9. ~Guard(bits) /\ ~Sticky(bits)
  BY <1>1, <1>5 DEF Guard, Sticky, Bit
<1>10. Exp(bits) = HalfExp(h)
  BY <1>1, <1>6 DEF Exp, HalfExp
<1>11. IsNaN(bits) <=> HalfIsNaN(h)
  BY <1>1, <1>6, <1>8, <1>10 DEF IsNaN, HalfIsNaN, Frac
<1>12. Bit(bits, SigBits - 1) <=> Bit(h, SigSize - 1)
  BY <1>1, <1>2, <1>7 DEF Bit
<1>13. QED
  BY <1>1, <1>4, <1>9, <1>10, <1>11, <1>12 DEF IsSNaN, HalfIsSNaN

(* The canonical NaN does not signal.                                      *)
LEMMA CanonicalIsQuiet == ~HalfIsSNaN(CanonicalHalf)
<1>1. PICK E, S, T : E = 2^ExpSize /\ S = 2^SigSize /\ T = 2^(SigSize - 1)
  OBVIOUS
<1>2. E \in Nat \ {0} /\ S \in Nat \ {0} /\ T \in Nat \ {0} /\ S = 2 * T
  BY <1>1, Powers
<1>3. PICK k \in Nat : k = 2 * (E - 1) + 1
  BY <1>2
<1>4. CanonicalHalf = k * T
  <2>1. (E - 1) * S + T = (2 * (E - 1) + 1) * T
    BY <1>2
  <2>2. QED
    BY <1>1, <1>3, <2>1 DEF CanonicalHalf, MaxExp
<1>5. (k * T) \div T = k
  BY <1>2, Multiple
<1>6. k % 2 = 1
  BY <1>2, <1>3
<1>7. QED
  BY <1>1, <1>4, <1>5, <1>6 DEF HalfIsSNaN, Bit

(* Rounding a widened half is exact, in every mode and body.               *)
LEMMA NarrowWidened ==
    ASSUME NEW h \in Half, NEW body \in Bodies, NEW m
    PROVE  ConvertF32ToBF16(body, ConvertBF16ToF32Precise(h).res, m) =
             [res |-> IF HalfIsNaN(h) THEN CanonicalHalf ELSE h, flags |-> {}]
<1>1. PICK g : g = IF HalfIsNaN(h) THEN CanonicalHalf ELSE h
  OBVIOUS
<1>2. g \in Half /\ ~HalfIsSNaN(g) /\ (HalfIsNaN(g) => g = CanonicalHalf)
  BY <1>1, CanonicalIsHalf, CanonicalIsQuiet DEF HalfIsSNaN
<1>3. PICK bits : bits = g * 2^Shift
  OBVIOUS
<1>4. ConvertBF16ToF32Precise(h).res = bits
  BY <1>1, <1>3 DEF ConvertBF16ToF32Precise, CanonicalWord
<1>5. /\ bits \div 2^Shift = g /\ g % 2^HalfBits = g
      /\ ~Guard(bits) /\ ~Sticky(bits)
      /\ Exp(bits) = HalfExp(g) /\ (IsNaN(bits) <=> HalfIsNaN(g))
      /\ ~IsSNaN(bits)
  BY <1>2, <1>3, WidenedFields
<1>6. ~Lossy(bits) /\ ~Increments(bits, m)
  BY <1>5 DEF Lossy, Increments, RNE, RUP, RDN, RMM
<1>7. Rounded(bits, m) = g
  <2>1. g \in Nat
    BY <1>2 DEF Half
  <2>2. g + 0 = g
    BY <2>1
  <2>3. QED
    BY <1>5, <1>6, <2>2 DEF Rounded
<1>8. RoundBFloat16(bits, m) = [res |-> g, flags |-> {}]
  <2>1. {f \in {"NX"} : Lossy(bits)} \cup {f \in {"OF", "NX"} : /\ Increments(bits, m)
                                              /\ HalfExp(g) = MaxExp
                                              /\ Exp(bits) # MaxExp} = {}
    BY <1>6
  <2>2. QED
    BY <1>7, <2>1 DEF RoundBFloat16
<1>9. {f \in {"NV"} : IsSNaN(bits)} = {}
  BY <1>5
<1>10. IsNaN(bits) => CanonicalWord = bits
  BY <1>2, <1>3, <1>5 DEF CanonicalWord
<1>11. CASE body = "base"
  <2>1. (IF IsNaN(bits) THEN CanonicalWord ELSE bits) = bits
    BY <1>10
  <2>2. ConvertF32ToBF16(body, bits, m) = [RoundBFloat16(bits, m) EXCEPT !.flags = @ \cup {}]
    BY <1>9, <1>11, <2>1 DEF ConvertF32ToBF16
  <2>3. QED
    BY <1>1, <1>4, <1>8, <2>2
<1>12. CASE body # "base" /\ IsNaN(bits)
  <2>1. ConvertF32ToBF16(body, bits, m) = [res |-> CanonicalHalf, flags |-> {}]
    BY <1>9, <1>12 DEF ConvertF32ToBF16
  <2>2. g = CanonicalHalf
    BY <1>2, <1>5, <1>12
  <2>3. QED
    BY <1>1, <1>4, <2>1, <2>2
<1>13. CASE body = "m3" /\ ~IsNaN(bits)
  <2>1. ConvertF32ToBF16(body, bits, m) = M3RoundBFloat16(bits, m)
    BY <1>13 DEF ConvertF32ToBF16
  <2>2. {f \in {"UF"} : Lossy(bits) /\ HalfExp(g) = 0} = {}
    BY <1>6
  <2>3. M3RoundBFloat16(bits, m) = [res |-> g, flags |-> {}]
    BY <1>8, <2>2 DEF M3RoundBFloat16
  <2>4. QED
    BY <1>1, <1>4, <2>1, <2>3
<1>14. CASE body = "override" /\ ~IsNaN(bits)
  <2>1. ConvertF32ToBF16(body, bits, m) = OverrideRound(bits, m)
    BY <1>14 DEF ConvertF32ToBF16
  <2>2. {f \in {"NX"} : Lossy(bits)} = {}
    BY <1>6
  <2>3. ~(Exp(bits) < MaxExp /\ HalfExp(g) = MaxExp)
    BY <1>5, CanonicalIsHalf
  <2>4. OverrideRound(bits, m) = [res |-> g, flags |-> {}]
    BY <1>7, <2>2, <2>3 DEF OverrideRound
  <2>5. QED
    BY <1>1, <1>4, <2>1, <2>4
<1>15. QED
  BY <1>11, <1>12, <1>13, <1>14 DEF Bodies

-----------------------------------------------------------------------------
(* The way there and back.                                                  *)

(* A source register that was widened into still holds what a half widens  *)
(* to: nothing but the move itself writes it.                              *)
SourceInv ==
    /\ src.lo \in Word
    /\ widened # None =>
         widened \in Half /\ src = BoxWord(ConvertBF16ToF32Precise(widened).res)

(* The invariant holds in every scenario.                                  *)
LEMMA SourceInit == Init => SourceInv
<1> SUFFICES ASSUME Init PROVE SourceInv
  OBVIOUS
<1>1. src \in FpReg /\ widened = None
  BY ScenarioAssumption DEF Init, Start
<1>2. QED
  BY <1>1 DEF FpReg, SourceInv

(* Every step keeps it.                                                    *)
LEMMA SourceStep == SourceInv /\ [Next]_fpvars => SourceInv'
<1> SUFFICES ASSUME SourceInv, [Next]_fpvars PROVE SourceInv'
  OBVIOUS
<1>1. CASE Reuse
  <2>1. PICK h : h = LowHalf(src)
    OBVIOUS
  <2>2. src' = BoxWord(ConvertBF16ToF32Precise(h).res) /\ widened' = h
    BY <1>1, <2>1 DEF Reuse
  <2>3. h \in Half
    <3>1. src.lo \in Nat
      BY WidenedIsWord DEF SourceInv
    <3>2. QED
      BY <2>1, <3>1, Powers DEF LowHalf, Half
  <2>4. ConvertBF16ToF32Precise(h).res \in Word
    BY <2>3, WidenedIsWord DEF ConvertBF16ToF32Precise
  <2>5. src'.lo \in Word
    BY <2>2, <2>4 DEF BoxWord
  <2>6. QED
    BY <2>2, <2>3, <2>5 DEF SourceInv
<1>2. CASE UNCHANGED <<src, widened>>
  BY <1>2 DEF SourceInv
<1>3. CASE UNCHANGED fpvars
  BY <1>2, <1>3 DEF fpvars
<1>4. ASSUME Next, ~Reuse PROVE UNCHANGED <<src, widened>>
  <2>1. Trap => UNCHANGED <<src, widened>>
    BY DEF Trap
  <2>2. \A body, reg, flags : Complete(body, reg, flags) => UNCHANGED <<src, widened>>
    BY DEF Complete
  <2>3. \A wide, body, d, s, active, start :
           FinishVector(wide, body, d, s, active, start) => UNCHANGED <<src, widened>>
    BY DEF FinishVector
  <2>4. ASSUME NEW body, FcvtBf16S(body) PROVE UNCHANGED <<src, widened>>
    BY <2>1, <2>2, <2>4, Zenon DEF FcvtBf16S
  <2>5. ASSUME NEW body, FcvtSBf16(body) PROVE UNCHANGED <<src, widened>>
    BY <2>1, <2>2, <2>5, Zenon DEF FcvtSBf16
  <2>6. M3Convert(insn.wide, insn.d, insn.s) => UNCHANGED <<src, widened>>
    BY <2>1, <2>3, Zenon DEF M3Convert
  <2>7. BaseConvert(insn.wide, insn.d, insn.s) => UNCHANGED <<src, widened>>
    BY <2>1, <2>3, Zenon DEF BaseConvert
  <2>8. QED
    BY <1>4, <2>4, <2>5, <2>6, <2>7 DEF Next, Scalar, Vector
<1>5. QED
  BY <1>1, <1>2, <1>3, <1>4

(* What RoundTrip asks of a step.                                          *)
StepBack ==
    (widened # None /\ status' \in Bodies /\ \E body \in Bodies : FcvtBf16S(body))
    => /\ rd' = BoxHalf(IF HalfIsNaN(widened) THEN CanonicalHalf ELSE widened)
       /\ fflags' = fflags

(* A narrowing of what was widened gives it back.                          *)
LEMMA EveryStepBack == SourceInv => StepBack
<1> SUFFICES ASSUME SourceInv, widened # None, status' \in Bodies,
                    NEW body \in Bodies, FcvtBf16S(body)
             PROVE  /\ rd' = BoxHalf(IF HalfIsNaN(widened) THEN CanonicalHalf ELSE widened)
                    /\ fflags' = fflags
  BY DEF StepBack
<1>1. widened \in Half /\ src = BoxWord(ConvertBF16ToF32Precise(widened).res)
  BY DEF SourceInv
<1>2. Unboxed(src) = ConvertBF16ToF32Precise(widened).res
  BY <1>1 DEF Unboxed, BoxWord
<1>3. ~Trap
  BY DEF Trap, Bodies
<1>4. PICK c : c = ConvertF32ToBF16(body, Unboxed(src), Mode)
  OBVIOUS
<1>5. Complete(body, BoxHalf(c.res), c.flags)
  BY <1>3, <1>4 DEF FcvtBf16S
<1>6. c = [res |-> IF HalfIsNaN(widened) THEN CanonicalHalf ELSE widened, flags |-> {}]
  BY <1>1, <1>2, <1>4, NarrowWidened
<1>7. QED
  BY <1>5, <1>6 DEF Complete

(* A bfloat16 that any body widens and any body narrows again comes back,  *)
(* in any rounding mode and without a flag; a NaN as the canonical one.    *)
THEOREM RoundTripExact == Spec => RoundTrip
<1>1. Spec => []SourceInv
  BY SourceInit, SourceStep, PTL DEF Spec
<1>2. SourceInv /\ [Next]_fpvars => [StepBack]_fpvars
  BY EveryStepBack
<1>3. QED
  BY <1>1, <1>2, PTL DEF Spec, RoundTrip, StepBack

-----------------------------------------------------------------------------
(* Rounding: the numbers that the patterns stand for.                       *)

(* The distance between two neighbouring singles of exponent e.            *)
Unit(e) == IF e = 0 THEN 1 ELSE 2^(e - 1)

(* It doubles from one exponent to the next, and never shrinks.            *)
LEMMA Units ==
    ASSUME NEW e \in 0 .. 2^ExpSize - 1
    PROVE  /\ Unit(e) \in Nat \ {0}
           /\ e + 1 <= 2^ExpSize - 1 =>
                Unit(e + 1) = IF e = 0 THEN Unit(e) ELSE 2 * Unit(e)
           /\ \A d \in 0 .. 2^ExpSize - 1 :
                e < d => Unit(d) >= IF e = 0 THEN Unit(e) ELSE 2 * Unit(e)
<1> DEFINE P(n) == 2^n
<1>1. \A n \in 0 .. P(ExpSize) : /\ P(n) \in Nat \ {0}
                                 /\ \A m \in 0 .. n : P(n) = P(n - m) * P(m)
  BY PowersOfTwo
<1>2. P(1) = 2 /\ P(0) = 1
  <2>1. 2^1 = 2 /\ 2^0 = 1
    OBVIOUS
  <2>2. QED
    BY <2>1
<1>3. \A d : Unit(d) = IF d = 0 THEN 1 ELSE P(d - 1)
  BY DEF Unit
<1>4. P(ExpSize) \in Nat \ {0}
  BY Powers
<1>5. e \in 0 .. P(ExpSize) - 1
  OBVIOUS
<1>6. PICK E \in Nat \ {0} : E = P(ExpSize)
  BY <1>4
<1>7. E = 2^ExpSize
  BY <1>6
<1> HIDE DEF P
<1>8. \A n \in 0 .. E : /\ P(n) \in Nat \ {0} /\ \A m \in 0 .. n : P(n) = P(n - m) * P(m)
  BY <1>1, <1>6
<1>9. e \in 0 .. E - 1
  BY <1>5, <1>6
<1>10. \A n \in 1 .. E : P(n) = 2 * P(n - 1)
  <2>1. SUFFICES ASSUME NEW n \in 1 .. E PROVE P(n) = 2 * P(n - 1)
    OBVIOUS
  <2>2. n \in 0 .. E /\ 1 \in 0 .. n /\ n - 1 \in 0 .. E
    OBVIOUS
  <2>3. P(n) = P(n - 1) * P(1) /\ P(n - 1) \in Nat
    BY <1>8, <2>2
  <2>4. QED
    BY <1>2, <2>3
<1>11. Unit(e) \in Nat \ {0}
  <2>1. CASE e = 0
    BY <1>3, <2>1
  <2>2. CASE e # 0
    <3>1. e - 1 \in 0 .. E
      BY <1>9, <2>2
    <3>2. QED
      BY <1>3, <1>8, <2>2, <3>1
  <2>3. QED
    BY <2>1, <2>2
<1>12. ASSUME e + 1 <= E - 1 PROVE Unit(e + 1) = IF e = 0 THEN Unit(e) ELSE 2 * Unit(e)
  <2>1. Unit(e + 1) = P(e)
    BY <1>3, <1>9
  <2>2. CASE e = 0
    BY <1>2, <1>3, <2>1, <2>2
  <2>3. CASE e # 0
    <3>1. e \in 1 .. E
      BY <1>9, <2>3
    <3>2. P(e) = 2 * P(e - 1)
      BY <1>10, <3>1
    <3>3. QED
      BY <1>3, <2>1, <2>3, <3>2
  <2>4. QED
    BY <2>2, <2>3
<1>13. ASSUME NEW d \in 0 .. E - 1, e < d
       PROVE  Unit(d) >= IF e = 0 THEN Unit(e) ELSE 2 * Unit(e)
  <2>1. e \in Nat /\ d \in Nat /\ d # 0 /\ d - 1 \in 0 .. E /\ e \in 0 .. d - 1 /\ (d - 1) - e \in 0 .. E
    BY <1>9, <1>13
  <2>2. PICK n \in 0 .. E, m \in 0 .. E : n = d - 1 /\ m = n - e
    BY <2>1
  <2>3. e \in 0 .. n /\ e \in 0 .. E
    BY <2>1, <2>2
  <2>4. P(n) = P(m) * P(e) /\ P(m) \in Nat \ {0} /\ P(e) \in Nat \ {0}
    BY <1>8, <2>2, <2>3
  <2>5. PICK x \in Nat \ {0}, y \in Nat \ {0} : x = P(m) /\ y = P(e)
    BY <2>4
  <2>6. x * y >= y
    BY <2>5
  <2>7. Unit(d) >= P(e)
    BY <1>3, <2>1, <2>2, <2>4, <2>5, <2>6
  <2>8. P(e) = IF e = 0 THEN Unit(e) ELSE 2 * Unit(e)
    <3>1. CASE e = 0
      BY <1>2, <1>3, <3>1
    <3>2. CASE e # 0
      <4>1. e \in 1 .. E
        BY <1>9, <3>2
      <4>2. QED
        BY <1>3, <1>10, <3>2, <4>1
    <3>3. QED
      BY <3>1, <3>2
  <2>9. QED
    BY <2>7, <2>8
<1>14. QED
  BY <1>7, <1>11, <1>12, <1>13

(* The number that exponent e and fraction n stand for.                    *)
Mag(e, n) == IF e = 0 THEN n ELSE (2^SigBits + n) * 2^(e - 1)

(* Numbers of one exponent lie a unit apart.                               *)
LEMMA MagInside ==
    ASSUME NEW e \in 0 .. 2^ExpSize - 1, NEW n \in Nat, NEW t \in Nat
    PROVE  Mag(e, n) \in Nat /\ Mag(e, n + t) = Mag(e, n) + t * Unit(e)
<1>0. PICK Z, u : Z = 2^SigBits /\ u = Unit(e)
  OBVIOUS
<1>1. Z \in Nat \ {0} /\ u \in Nat \ {0}
  <2>1. Z = 2^SigSize * 2^Shift
    BY <1>0, Powers
  <2>2. PICK x \in Nat \ {0}, y \in Nat \ {0} : x = 2^SigSize /\ y = 2^Shift
    BY Powers
  <2>3. x * y \in Nat \ {0}
    OBVIOUS
  <2>4. QED
    BY <1>0, <2>1, <2>2, <2>3, Units
<1>2. CASE e = 0
  BY <1>0, <1>2 DEF Mag, Unit
<1>3. CASE e # 0
  <2>1. /\ Mag(e, n) = (Z + n) * u /\ Mag(e, n + t) = (Z + (n + t)) * u
    BY <1>0, <1>3 DEF Mag, Unit
  <2>2. (Z + (n + t)) * u = (Z + n) * u + t * u /\ (Z + n) * u \in Nat
    BY <1>1
  <2>3. QED
    BY <1>0, <2>1, <2>2
<1>4. QED
  BY <1>2, <1>3

(* Past the last fraction comes the next exponent.                         *)
LEMMA MagCarry ==
    ASSUME NEW e \in 0 .. 2^ExpSize - 1, e + 1 <= 2^ExpSize - 1
    PROVE  Mag(e + 1, 0) = Mag(e, 2^SigBits)
<1>0. PICK Z, u, w, E : Z = 2^SigBits /\ u = Unit(e) /\ w = Unit(e + 1) /\ E = 2^ExpSize
  OBVIOUS
<1>1. Z \in Nat
  <2>1. Z = 2^SigSize * 2^Shift
    BY <1>0, Powers
  <2>2. PICK x \in Nat \ {0}, y \in Nat \ {0} : x = 2^SigSize /\ y = 2^Shift
    BY Powers
  <2>3. x * y \in Nat
    OBVIOUS
  <2>4. QED
    BY <1>0, <2>1, <2>2, <2>3
<1>2. E \in Nat /\ e \in Nat /\ e + 1 # 0
  BY <1>0, Powers
<1>3. u \in Nat /\ w = IF e = 0 THEN u ELSE 2 * u
  BY <1>0, Units
<1>4. Mag(e + 1, 0) = (Z + 0) * w
  BY <1>0, <1>2 DEF Mag, Unit
<1>5. CASE e = 0
  <2>1. u = 1 /\ Mag(e, Z) = Z
    BY <1>0, <1>5 DEF Mag, Unit
  <2>2. QED
    BY <1>0, <1>1, <1>3, <1>4, <1>5, <2>1
<1>6. CASE e # 0
  <2>1. Mag(e, Z) = (Z + Z) * u
    BY <1>0, <1>6 DEF Mag, Unit
  <2>2. (Z + 0) * (2 * u) = (Z + Z) * u
    BY <1>1, <1>3
  <2>3. QED
    BY <1>0, <1>3, <1>4, <1>6, <2>1, <2>2
<1>7. QED
  BY <1>5, <1>6

(* A larger exponent stands for larger numbers.                            *)
LEMMA MagGrows ==
    ASSUME NEW e \in 0 .. 2^ExpSize - 1, NEW d \in 0 .. 2^ExpSize - 1, e < d,
           NEW n \in Nat, n < 2^SigBits, NEW m \in Nat
    PROVE  Mag(e, n) < Mag(d, m)
<1>0. PICK Z, u, w, E : Z = 2^SigBits /\ u = Unit(e) /\ w = Unit(d) /\ E = 2^ExpSize
  OBVIOUS
<1>1. Z \in Nat
  <2>1. Z = 2^SigSize * 2^Shift
    BY <1>0, Powers
  <2>2. PICK x \in Nat \ {0}, y \in Nat \ {0} : x = 2^SigSize /\ y = 2^Shift
    BY Powers
  <2>3. x * y \in Nat
    OBVIOUS
  <2>4. QED
    BY <1>0, <2>1, <2>2, <2>3
<1>2. E \in Nat /\ e \in Nat /\ d \in Nat /\ d # 0 /\ n < Z
  BY <1>0, Powers
<1>3. u \in Nat \ {0} /\ w \in Nat \ {0} /\ w >= IF e = 0 THEN u ELSE 2 * u
  BY <1>0, Units
<1>4. Mag(d, m) = (Z + m) * w
  BY <1>0, <1>2 DEF Mag, Unit
<1>5. (Z + m) * w >= Z * w
  BY <1>1, <1>3
<1>6. CASE e = 0
  <2>1. Mag(e, n) = n
    BY <1>0, <1>6 DEF Mag, Unit
  <2>2. Z * w >= Z
    BY <1>1, <1>3
  <2>3. PICK x \in Nat, y \in Nat : x = (Z + m) * w /\ y = Z * w
    BY <1>1, <1>3
  <2>4. QED
    BY <1>1, <1>2, <1>4, <1>5, <2>1, <2>2, <2>3
<1>7. CASE e # 0
  <2>1. Mag(e, n) = (Z + n) * u
    BY <1>0, <1>7 DEF Mag, Unit
  <2>2. (Z + n) * u < (Z + Z) * u
    BY <1>1, <1>2, <1>3
  <2>3. (Z + Z) * u = Z * (2 * u)
    BY <1>1, <1>3
  <2>4. Z * (2 * u) <= Z * w
    <3>1. PICK k \in Nat : k = 2 * u
      BY <1>3
    <3>2. k <= w
      BY <1>3, <1>7, <3>1
    <3>3. Z * k <= Z * w
      BY <1>1, <1>3, <3>2
    <3>4. QED
      BY <3>1, <3>3
  <2>5. PICK x \in Nat, y \in Nat, z \in Nat, a \in Nat :
           x = (Z + m) * w /\ y = Z * w /\ z = (Z + Z) * u /\ a = (Z + n) * u
    BY <1>1, <1>3
  <2>6. QED
    BY <1>4, <1>5, <2>1, <2>2, <2>3, <2>4, <2>5
<1>8. QED
  BY <1>6, <1>7

(* The number of the positive half b.                                      *)
HalfMag(b) == Mag(b \div 2^SigSize, (b % 2^SigSize) * 2^Shift)

(* The sizes of the fields, by name.                                       *)
LEMMA Format ==
    \E E \in Nat \ {0}, S \in Nat \ {0}, P \in Nat \ {0}, Q \in Nat \ {0}, T \in Nat \ {0} :
        /\ E = 2^ExpSize /\ S = 2^SigSize /\ P = 2^Shift /\ Q = 2^(Shift - 1) /\ T = 2^(SigSize - 1)
        /\ P = 2 * Q /\ S = 2 * T /\ E >= 2
        /\ 2^SigBits = S * P /\ 2^HalfBits = 2 * (E * S) /\ 2^WordBits = (2 * (E * S)) * P
        /\ 2^(WordBits - 1) = (E * S) * P
  BY Powers, MorePowers

(* Exponent and fraction of a half.                                        *)
LEMMA HalfFields ==
    ASSUME NEW E \in Nat \ {0}, NEW S \in Nat \ {0}, NEW b \in Nat, b < E * S
    PROVE  \E e \in 0 .. E - 1, f \in 0 .. S - 1 : b = e * S + f /\ e = b \div S /\ f = b % S
<1>1. PICK e \in Nat, f \in 0 .. S - 1 : b = e * S + f /\ e = b \div S /\ f = b % S
  OBVIOUS
<1>2. ASSUME e >= E PROVE FALSE
  <2>1. e * S >= E * S
    BY <1>2
  <2>2. e * S \in Nat /\ E * S \in Nat
    OBVIOUS
  <2>3. QED
    BY <1>1, <2>1, <2>2
<1>3. e \in 0 .. E - 1
  BY <1>2
<1>4. QED
  BY <1>1, <1>3

(* A fraction with the bits that rounding drops is still a fraction.       *)
LEMMA FractionFits ==
    ASSUME NEW S \in Nat \ {0}, NEW P \in Nat \ {0}, NEW f \in 0 .. S - 1, NEW t \in 0 .. P - 1
    PROVE  f * P + t \in Nat /\ f * P + t < S * P
<1>1. (f + 1) * P <= S * P /\ (f + 1) * P = f * P + P
  OBVIOUS
<1>2. f * P \in Nat /\ S * P \in Nat
  OBVIOUS
<1>3. QED
  BY <1>1, <1>2

(* The halves are in the order of their numbers.                           *)
LEMMA HalfMagMono ==
    ASSUME NEW b \in Nat, NEW c \in Nat, b < c, c < 2^ExpSize * 2^SigSize
    PROVE  HalfMag(b) \in Nat /\ HalfMag(c) \in Nat /\ HalfMag(b) < HalfMag(c)
<1>1. PICK E \in Nat \ {0}, S \in Nat \ {0}, P \in Nat \ {0} :
        E = 2^ExpSize /\ S = 2^SigSize /\ P = 2^Shift /\ 2^SigBits = S * P
  BY Format
<1>2. b < E * S /\ c < E * S
  <2>1. E * S \in Nat
    OBVIOUS
  <2>2. QED
    BY <1>1, <2>1
<1>3. PICK e \in 0 .. E - 1, f \in 0 .. S - 1 : b = e * S + f /\ e = b \div S /\ f = b % S
  BY <1>2, HalfFields
<1>4. PICK d \in 0 .. E - 1, g \in 0 .. S - 1 : c = d * S + g /\ d = c \div S /\ g = c % S
  BY <1>2, HalfFields
<1>5. HalfMag(b) = Mag(e, f * P) /\ HalfMag(c) = Mag(d, g * P)
  BY <1>1, <1>3, <1>4 DEF HalfMag
<1>6. 0 \in 0 .. P - 1 /\ f * P + 0 = f * P
  OBVIOUS
<1>7. PICK n \in Nat, m \in Nat : n = f * P /\ m = g * P
  OBVIOUS
<1>8. n < S * P
  <2>1. f * P + 0 < S * P
    BY <1>6, FractionFits
  <2>2. QED
    BY <1>6, <1>7, <2>1
<1>9. e \in 0 .. 2^ExpSize - 1 /\ d \in 0 .. 2^ExpSize - 1 /\ n < 2^SigBits
  BY <1>1, <1>8
<1>10. Mag(e, n) \in Nat /\ Mag(d, m) \in Nat
  BY <1>9, MagInside
<1>11. e < d \/ (e = d /\ f < g)
  <2>1. CASE e > d
    <3>1. (d + 1) * S <= e * S /\ (d + 1) * S = d * S + S
      BY <2>1
    <3>2. d * S \in Nat /\ e * S \in Nat
      OBVIOUS
    <3>3. QED
      BY <1>3, <1>4, <3>1, <3>2
  <2>2. CASE e = d
    <3>1. d * S \in Nat
      OBVIOUS
    <3>2. QED
      BY <1>3, <1>4, <2>2, <3>1
  <2>3. QED
    BY <2>1, <2>2
<1>12. CASE e < d
  <2>1. Mag(e, n) < Mag(d, m)
    BY <1>9, <1>12, MagGrows
  <2>2. QED
    BY <1>5, <1>7, <1>10, <2>1
<1>13. CASE e = d /\ f < g
  <2>1. PICK t \in Nat \ {0} : t = (g - f) * P
    <3>1. PICK k \in Nat \ {0} : k = g - f
      BY <1>13
    <3>2. k * P \in Nat \ {0}
      OBVIOUS
    <3>3. QED
      BY <3>1, <3>2
  <2>2. m = n + t
    BY <1>7, <2>1
  <2>3. Mag(e, n + t) = Mag(e, n) + t * Unit(e)
    BY <1>9, MagInside
  <2>4. PICK u \in Nat \ {0} : u = Unit(e)
    BY <1>9, Units
  <2>5. t * u \in Nat \ {0}
    OBVIOUS
  <2>6. PICK x, y, z : x = Mag(e, n) /\ y = Mag(d, m) /\ z = t * u
    OBVIOUS
  <2>7. y = x + z
    BY <1>13, <2>2, <2>3, <2>4, <2>6
  <2>8. x \in Nat /\ z \in Nat \ {0}
    BY <1>10, <2>5, <2>6
  <2>9. x < y
    BY <2>7, <2>8
  <2>10. QED
    BY <1>5, <1>7, <1>10, <2>6, <2>9
<1>14. QED
  BY <1>11, <1>12, <1>13

(* The next half is as far away as its unit says.                          *)
LEMMA HalfMagNext ==
    ASSUME NEW b \in Nat, b + 1 < 2^ExpSize * 2^SigSize
    PROVE  HalfMag(b + 1) = HalfMag(b) + 2^Shift * Unit(b \div 2^SigSize)
<1>1. PICK E \in Nat \ {0}, S \in Nat \ {0}, P \in Nat \ {0} :
        E = 2^ExpSize /\ S = 2^SigSize /\ P = 2^Shift /\ 2^SigBits = S * P
  BY Format
<1>2. b < E * S /\ b + 1 < E * S
  <2>1. E * S \in Nat
    OBVIOUS
  <2>2. QED
    BY <1>1, <2>1
<1>3. PICK e \in 0 .. E - 1, f \in 0 .. S - 1 : b = e * S + f /\ e = b \div S /\ f = b % S
  BY <1>2, HalfFields
<1>4. HalfMag(b) = Mag(e, f * P)
  BY <1>1, <1>3 DEF HalfMag
<1>5. e \in 0 .. 2^ExpSize - 1 /\ f * P \in Nat
  BY <1>1
<1>6. Mag(e, f * P + P) = Mag(e, f * P) + P * Unit(e)
  BY <1>5, MagInside
<1>7. f * P + P = (f + 1) * P
  OBVIOUS
<1>8. CASE f + 1 < S
  <2>1. b + 1 = e * S + (f + 1) /\ f + 1 \in 0 .. S - 1
    <3>1. e * S \in Nat
      OBVIOUS
    <3>2. QED
      BY <1>3, <1>8, <3>1
  <2>2. (e * S + (f + 1)) \div S = e /\ (e * S + (f + 1)) % S = f + 1
    <3>1. PICK a \in Nat, x \in 0 .. S - 1 : a = e /\ x = f + 1
      BY <2>1
    <3>2. (a * S + x) \div S = a /\ (a * S + x) % S = x
      BY Quotient
    <3>3. QED
      BY <3>1, <3>2
  <2>3. HalfMag(b + 1) = Mag(e, (f + 1) * P)
    BY <1>1, <2>1, <2>2 DEF HalfMag
  <2>4. QED
    BY <1>1, <1>3, <1>4, <1>6, <1>7, <2>3
<1>9. CASE f + 1 = S
  <2>1. b + 1 = (e + 1) * S
    <3>1. (e + 1) * S = e * S + S /\ e * S \in Nat
      OBVIOUS
    <3>2. QED
      BY <1>3, <1>9, <3>1
  <2>2. e + 1 <= E - 1
    <3>1. ASSUME e + 1 >= E PROVE FALSE
      <4>1. (e + 1) * S >= E * S
        BY <3>1
      <4>2. E * S \in Nat /\ (e + 1) * S \in Nat
        OBVIOUS
      <4>3. QED
        BY <1>2, <2>1, <4>1, <4>2
    <3>2. QED
      BY <3>1
  <2>3. ((e + 1) * S) \div S = e + 1 /\ ((e + 1) * S) % S = 0
    BY Multiple
  <2>4. HalfMag(b + 1) = Mag(e + 1, 0 * P)
    BY <1>1, <2>1, <2>3 DEF HalfMag
  <2>5. 0 * P = 0 /\ f * P + P = S * P
    BY <1>7, <1>9
  <2>6. Mag(e + 1, 0) = Mag(e, S * P)
    BY <1>1, <1>5, <2>2, MagCarry
  <2>7. QED
    BY <1>1, <1>3, <1>4, <1>6, <2>4, <2>5, <2>6
<1>10. QED
  BY <1>8, <1>9

(* Single `bits' has sign g, the half b above the cut and t below it.      *)
Splits(bits, g, b, t) ==
    /\ g \in {0, 1} /\ b \in Nat /\ b < 2^ExpSize * 2^SigSize
    /\ t \in 0 .. 2^Shift - 1
    /\ bits = (g * (2^ExpSize * 2^SigSize) + b) * 2^Shift + t

(* Every single does.                                                      *)
LEMMA EverySplits ==
    ASSUME NEW bits \in Word
    PROVE  \E g, b, t : Splits(bits, g, b, t)
<1>1. PICK E \in Nat \ {0}, S \in Nat \ {0}, P \in Nat \ {0} :
        E = 2^ExpSize /\ S = 2^SigSize /\ P = 2^Shift /\ 2^WordBits = (2 * (E * S)) * P
  BY Format
<1>2. PICK K \in Nat \ {0} : K = E * S
  <2>1. E * S \in Nat \ {0}
    OBVIOUS
  <2>2. QED
    BY <2>1
<1>3. bits \in Nat /\ bits < (2 * K) * P
  <2>1. (2 * K) * P \in Nat
    OBVIOUS
  <2>2. QED
    BY <1>1, <1>2, <2>1 DEF Word
<1>4. PICK k \in Nat, t \in 0 .. P - 1 : bits = k * P + t
  <2>1. \A x \in Nat : \E k \in Nat, t \in 0 .. P - 1 : x = k * P + t
    <3>1. \A x \in Nat : x \div P \in Nat /\ x % P \in 0 .. P - 1 /\ x = (x \div P) * P + (x % P)
      OBVIOUS
    <3>2. QED
      BY <3>1
  <2>2. QED
    BY <1>3, <2>1
<1>5. k < 2 * K
  <2>1. ASSUME k >= 2 * K PROVE FALSE
    <3>1. k * P >= (2 * K) * P
      BY <2>1
    <3>2. k * P \in Nat /\ (2 * K) * P \in Nat
      OBVIOUS
    <3>3. QED
      BY <1>3, <1>4, <3>1, <3>2
  <2>2. QED
    BY <2>1
<1>6. CASE k < K
  <2>1. k = 0 * K + k
    OBVIOUS
  <2>2. Splits(bits, 0, k, t)
    BY <1>1, <1>2, <1>4, <1>6, <2>1 DEF Splits
  <2>3. QED
    BY <2>2
<1>7. CASE k >= K
  <2>1. k = 1 * K + (k - K) /\ k - K \in Nat /\ k - K < K
    BY <1>5, <1>7
  <2>2. Splits(bits, 1, k - K, t)
    BY <1>1, <1>2, <1>4, <2>1 DEF Splits
  <2>3. QED
    BY <2>2
<1>8. QED
  BY <1>6, <1>7

(* What the code reads of a single.                                        *)
LEMMA SingleFields ==
    ASSUME NEW bits, NEW g, NEW b, NEW t, Splits(bits, g, b, t)
    PROVE  /\ bits \div 2^Shift = g * (2^ExpSize * 2^SigSize) + b /\ bits % 2^Shift = t
           /\ Sign(bits) <=> g = 1
           /\ Exp(bits) = b \div 2^SigSize
           /\ Frac(bits) = (b % 2^SigSize) * 2^Shift + t
<1>1. PICK E \in Nat \ {0}, S \in Nat \ {0}, P \in Nat \ {0} :
        /\ E = 2^ExpSize /\ S = 2^SigSize /\ P = 2^Shift /\ 2^SigBits = S * P
        /\ 2^(WordBits - 1) = (E * S) * P
  BY Format
<1>2. PICK K \in Nat \ {0} : K = E * S
  <2>1. E * S \in Nat \ {0}
    OBVIOUS
  <2>2. QED
    BY <2>1
<1>3. g \in {0, 1} /\ b \in Nat /\ b < K /\ t \in 0 .. P - 1 /\ bits = (g * K + b) * P + t
  BY <1>1, <1>2 DEF Splits
<1>4. bits \div P = g * K + b /\ bits % P = t
  <2>1. PICK k \in Nat : k = g * K + b
    BY <1>3
  <2>2. (k * P + t) \div P = k /\ (k * P + t) % P = t
    BY <1>3, Quotient
  <2>3. QED
    BY <1>3, <2>1, <2>2
<1>5. Sign(bits) <=> g = 1
  <2>1. PICK r : r = b * P + t
    OBVIOUS
  <2>2. r \in Nat /\ r < K * P
    <3>1. (b + 1) * P <= K * P /\ (b + 1) * P = b * P + P
      BY <1>3
    <3>2. b * P \in Nat /\ K * P \in Nat
      BY <1>3
    <3>3. QED
      BY <1>3, <2>1, <3>1, <3>2
  <2>3. PICK n \in Nat \ {0} : n = K * P
    <3>1. K * P \in Nat \ {0}
      OBVIOUS
    <3>2. QED
      BY <3>1
  <2>4. bits = g * n + r
    <3>1. (g * K + b) * P = g * (K * P) + b * P
      BY <1>3
    <3>2. b * P \in Nat /\ g * n \in Nat
      BY <1>3
    <3>3. QED
      BY <1>3, <2>1, <2>3, <3>1, <3>2
  <2>5. r \in 0 .. n - 1 /\ g \in Nat
    BY <1>3, <2>2, <2>3
  <2>6. (g * n + r) \div n = g
    BY <2>5, Quotient
  <2>7. bits \div 2^(WordBits - 1) = g
    BY <1>1, <1>2, <2>3, <2>4, <2>6
  <2>8. QED
    BY <1>3, <2>7 DEF Sign, Bit
<1>6. PICK e \in 0 .. E - 1, f \in 0 .. S - 1 : b = e * S + f /\ e = b \div S /\ f = b % S
  BY <1>2, <1>3, HalfFields
<1>7. bits \div (S * P) = g * E + e /\ bits % (S * P) = f * P + t
  <2>1. PICK r, n : r = f * P + t /\ n = S * P
    OBVIOUS
  <2>2. r \in Nat /\ r < n
    BY <1>3, <2>1, FractionFits
  <2>3. n \in Nat \ {0} /\ r \in 0 .. n - 1
    <3>1. S * P \in Nat \ {0}
      OBVIOUS
    <3>2. QED
      BY <2>1, <2>2, <3>1
  <2>4. PICK k \in Nat : k = g * E + e
    BY <1>3
  <2>5. bits = k * n + r
    <3>1. (g * (E * S) + (e * S + f)) * P = (g * E + e) * (S * P) + f * P
      BY <1>3
    <3>2. f * P \in Nat /\ (g * E + e) * (S * P) \in Nat
      BY <1>3
    <3>3. PICK x, y : x = (g * E + e) * (S * P) /\ y = f * P
      OBVIOUS
    <3>4. x \in Nat /\ y \in Nat /\ bits = (x + y) + t /\ x = k * n
      BY <1>2, <1>3, <1>6, <2>1, <2>4, <3>1, <3>2, <3>3
    <3>5. r = y + t
      BY <2>1, <3>3
    <3>6. QED
      BY <1>3, <3>4, <3>5
  <2>6. (k * n + r) \div n = k /\ (k * n + r) % n = r
    BY <2>3, Quotient
  <2>7. QED
    BY <2>1, <2>4, <2>5, <2>6
<1>8. (g * E + e) % E = e
  <2>1. g \in Nat
    BY <1>3
  <2>2. QED
    BY <2>1, Quotient
<1>9. Exp(bits) = e /\ Frac(bits) = f * P + t
  BY <1>1, <1>7, <1>8 DEF Exp, Frac
<1>10. QED
  BY <1>1, <1>2, <1>4, <1>5, <1>6, <1>9

(* The bits that rounding looks at, and the number of the single.          *)
LEMMA Cut ==
    ASSUME NEW bits, NEW g, NEW b, NEW t, Splits(bits, g, b, t)
    PROVE  /\ Guard(bits) <=> 2 * t >= 2^Shift
           /\ Sticky(bits) <=> t # 0 /\ 2 * t # 2^Shift
           /\ Lsb(bits) <=> b % 2 = 1
           /\ Magnitude(bits) = HalfMag(b) + t * Unit(b \div 2^SigSize)
<1>0. PICK Q \in Nat \ {0}, T \in Nat \ {0} :
        Q = 2^(Shift - 1) /\ T = 2^(SigSize - 1) /\ 2^Shift = 2 * Q /\ 2^SigSize = 2 * T
  BY Powers
<1>1. PICK E \in Nat \ {0}, S \in Nat \ {0}, P \in Nat \ {0} :
        /\ E = 2^ExpSize /\ S = 2^SigSize /\ P = 2^Shift /\ Q = 2^(Shift - 1)
        /\ P = 2 * Q /\ S = 2 * T
  BY <1>0, Powers
<1>2. PICK K : K = E * S
  OBVIOUS
<1>3. PICK L : L = E * T
  OBVIOUS
<1>4. K \in Nat /\ L \in Nat /\ K = 2 * L
  <2>1. E * T \in Nat /\ E * (2 * T) = 2 * (E * T)
    OBVIOUS
  <2>2. QED
    BY <1>1, <1>2, <1>3, <2>1
<1>5. g \in {0, 1} /\ b \in Nat /\ b < K /\ t \in 0 .. P - 1 /\ bits = (g * K + b) * P + t
  BY <1>1, <1>2, <1>4 DEF Splits
<1>6. PICK k \in Nat : k = g * K + b
  BY <1>4, <1>5
<1>7. PICK a \in {0, 1}, r \in 0 .. Q - 1 : t = a * Q + r
  <2>1. CASE t < Q
    <3>1. t = 0 * Q + t /\ t \in 0 .. Q - 1
      BY <1>5, <2>1
    <3>2. QED
      BY <3>1
  <2>2. CASE t >= Q
    <3>1. t = 1 * Q + (t - Q) /\ t - Q \in 0 .. Q - 1
      BY <1>1, <1>5, <2>2
    <3>2. QED
      BY <3>1
  <2>3. QED
    BY <1>5, <2>1, <2>2
<1>8. bits \div Q = 2 * k + a /\ bits % Q = r
  <2>1. PICK n \in Nat : n = 2 * k + a
    OBVIOUS
  <2>2. (n * Q + r) \div Q = n /\ (n * Q + r) % Q = r
    BY Quotient
  <2>3. n * Q = k * (2 * Q) + a * Q
    BY <2>1
  <2>4. PICK x, y : x = k * (2 * Q) /\ y = a * Q
    OBVIOUS
  <2>5. x \in Nat /\ y \in Nat
    <3>1. k * (2 * Q) \in Nat /\ a * Q \in Nat
      OBVIOUS
    <3>2. QED
      BY <2>4, <3>1
  <2>6. bits = x + (y + r)
    BY <1>1, <1>5, <1>6, <1>7, <2>4
  <2>7. n * Q + r = x + (y + r)
    BY <2>3, <2>4, <2>5
  <2>8. QED
    BY <2>1, <2>2, <2>6, <2>7
<1>9. Guard(bits) <=> 2 * t >= P
  <2>1. Guard(bits) <=> a = 1
    BY <1>1, <1>8 DEF Guard, Bit
  <2>2. a = 1 <=> 2 * t >= P
    BY <1>1, <1>7
  <2>3. QED
    BY <2>1, <2>2
<1>10. Sticky(bits) <=> t # 0 /\ 2 * t # P
  <2>1. Sticky(bits) <=> r # 0
    BY <1>1, <1>8 DEF Sticky
  <2>2. r # 0 <=> t # 0 /\ 2 * t # P
    BY <1>1, <1>7
  <2>3. QED
    BY <2>1, <2>2
<1>11. /\ bits \div P = k
       /\ Exp(bits) = b \div S /\ Frac(bits) = (b % S) * P + t
  BY <1>1, <1>2, <1>6, SingleFields
<1>12. Lsb(bits) <=> b % 2 = 1
  <2>1. k % 2 = b % 2
    <3>1. PICK n \in Nat : n = g * L
      BY <1>4, <1>5
    <3>2. k = 2 * n + b
      BY <1>4, <1>5, <1>6, <3>1
    <3>3. QED
      BY <1>5, <3>2
  <2>2. QED
    BY <1>1, <1>11, <2>1 DEF Lsb, Bit
<1>13. Magnitude(bits) = HalfMag(b) + t * Unit(b \div S)
  <2>1. PICK e \in 0 .. E - 1, f \in 0 .. S - 1 : b = e * S + f /\ e = b \div S /\ f = b % S
    BY <1>2, <1>5, HalfFields
  <2>2. Magnitude(bits) = Mag(e, f * P + t)
    BY <1>11, <2>1 DEF Magnitude, Mag
  <2>3. f * P \in Nat /\ t \in Nat /\ e \in 0 .. 2^ExpSize - 1
    BY <1>1, <1>5
  <2>4. Mag(e, f * P + t) = Mag(e, f * P) + t * Unit(e)
    BY <2>3, MagInside
  <2>5. QED
    BY <1>1, <2>1, <2>2, <2>4 DEF HalfMag
<1>14. QED
  BY <1>1, <1>9, <1>10, <1>12, <1>13

(* The half of the infinity: every half above it is a NaN.                 *)
Inf == (2^ExpSize - 1) * 2^SigSize

(* The patterns that stand for no number.                                  *)
LEMMA NaNs ==
    ASSUME NEW bits, NEW g, NEW b, NEW t, Splits(bits, g, b, t)
    PROVE  /\ IsNaN(bits) <=> b > Inf \/ (b = Inf /\ t # 0)
           /\ Exp(bits) = MaxExp <=> b >= Inf
           /\ Inf \in Nat /\ Inf < 2^ExpSize * 2^SigSize
<1>1. PICK E \in Nat \ {0}, S \in Nat \ {0}, P \in Nat \ {0} :
        E = 2^ExpSize /\ S = 2^SigSize /\ P = 2^Shift
  BY Format
<1>2. PICK I : I = (E - 1) * S
  OBVIOUS
<1>3. I \in Nat /\ I + S = E * S /\ E * S \in Nat
  BY <1>2
<1>4. b \in Nat /\ b < E * S /\ t \in 0 .. P - 1
  BY <1>1, <1>3 DEF Splits
<1>5. PICK e \in 0 .. E - 1, f \in 0 .. S - 1 : b = e * S + f /\ e = b \div S /\ f = b % S
  BY <1>4, HalfFields
<1>6. Exp(bits) = e /\ Frac(bits) = f * P + t
  BY <1>1, <1>5, SingleFields
<1>7. e = E - 1 <=> b >= I
  <2>1. CASE e = E - 1
    BY <1>2, <1>3, <1>5, <2>1
  <2>2. CASE e # E - 1
    <3>1. e + 1 <= E - 1
      BY <2>2
    <3>2. (e + 1) * S <= (E - 1) * S /\ (e + 1) * S = e * S + S
      BY <3>1
    <3>3. e * S \in Nat
      OBVIOUS
    <3>4. QED
      BY <1>2, <1>3, <1>5, <2>2, <3>2, <3>3
  <2>3. QED
    BY <2>1, <2>2
<1>8. e = E - 1 => b = I + f
  BY <1>2, <1>5
<1>9. f * P + t # 0 <=> f # 0 \/ t # 0
  <2>1. CASE f = 0
    BY <1>4, <2>1
  <2>2. CASE f # 0
    <3>1. f * P >= 1
      BY <2>2
    <3>2. f * P \in Nat
      OBVIOUS
    <3>3. QED
      BY <1>4, <2>2, <3>1, <3>2
  <2>3. QED
    BY <2>1, <2>2
<1>10. Inf = I /\ MaxExp = E - 1
  BY <1>1, <1>2 DEF Inf, MaxExp
<1>11. Exp(bits) = MaxExp <=> b >= I
  BY <1>6, <1>7, <1>10
<1>12. IsNaN(bits) <=> b > I \/ (b = I /\ t # 0)
  <2>1. IsNaN(bits) <=> e = E - 1 /\ (f # 0 \/ t # 0)
    BY <1>6, <1>9, <1>10 DEF IsNaN
  <2>2. QED
    BY <1>3, <1>4, <1>7, <1>8, <2>1
<1>13. QED
  BY <1>1, <1>3, <1>10, <1>11, <1>12

(* What the code reads of a half.                                          *)
LEMMA HalfSplits ==
    ASSUME NEW g \in {0, 1}, NEW b \in Nat, b < 2^ExpSize * 2^SigSize,
           NEW h, h = g * (2^ExpSize * 2^SigSize) + b
    PROVE  /\ h \in Half /\ Splits(h * 2^Shift, g, b, 0)
           /\ Magnitude(h * 2^Shift) = HalfMag(b) /\ (Sign(h * 2^Shift) <=> g = 1)
           /\ HalfIsNaN(h) <=> b > Inf
           /\ HalfExp(h) = MaxExp <=> b >= Inf
           /\ h % 2 = b % 2
<1>1. PICK E \in Nat \ {0}, S \in Nat \ {0}, P \in Nat \ {0} :
        E = 2^ExpSize /\ S = 2^SigSize /\ P = 2^Shift /\ 2^HalfBits = 2 * (E * S)
  BY Format
<1>2. PICK K \in Nat \ {0} : K = E * S
  <2>1. E * S \in Nat \ {0}
    OBVIOUS
  <2>2. QED
    BY <2>1
<1>3. b < K /\ h = g * K + b
  BY <1>1, <1>2
<1>4. h \in Nat /\ h < 2 * K
  <2>1. g = 0 \/ g = 1
    OBVIOUS
  <2>2. g * K = 0 \/ g * K = K
    BY <2>1
  <2>3. QED
    BY <1>3, <2>2
<1>5. h \in Half
  BY <1>1, <1>2, <1>4 DEF Half
<1>6. Splits(h * 2^Shift, g, b, 0)
  <2>1. h * P \in Nat /\ 0 \in 0 .. P - 1
    BY <1>4
  <2>2. h * P = (g * K + b) * P + 0
    BY <1>3, <2>1
  <2>3. QED
    BY <1>1, <1>2, <1>3, <2>1, <2>2 DEF Splits
<1>7. PICK bits : bits = h * 2^Shift
  OBVIOUS
<1>8. Splits(bits, g, b, 0)
  BY <1>6, <1>7
<1>9. Magnitude(bits) = HalfMag(b) + 0 * Unit(b \div 2^SigSize)
  BY <1>8, Cut
<1>10. Magnitude(bits) = HalfMag(b)
  <2>1. PICK e \in 0 .. E - 1, f \in 0 .. S - 1 : b = e * S + f /\ e = b \div S /\ f = b % S
    BY <1>2, <1>3, HalfFields
  <2>2. e \in 0 .. 2^ExpSize - 1 /\ f * P \in Nat
    <3>1. f * P \in Nat
      OBVIOUS
    <3>2. QED
      BY <1>1, <3>1
  <2>3. Unit(e) \in Nat /\ Mag(e, f * P) \in Nat
    BY <2>2, Units, MagInside
  <2>4. HalfMag(b) = Mag(e, f * P) /\ Unit(b \div 2^SigSize) = Unit(e)
    BY <1>1, <2>1 DEF HalfMag
  <2>5. QED
    BY <1>9, <2>3, <2>4
<1>11. Sign(bits) <=> g = 1
  BY <1>8, SingleFields
<1>12. /\ Exp(bits) = HalfExp(h) /\ (IsNaN(bits) <=> HalfIsNaN(h)) /\ bits \div 2^Shift = h
  BY <1>5, <1>7, WidenedFields
<1>13. /\ IsNaN(bits) <=> b > Inf \/ (b = Inf /\ 0 # 0)
       /\ Exp(bits) = MaxExp <=> b >= Inf
  BY <1>8, NaNs
<1>14. h % 2 = b % 2
  <2>1. Bit(bits, Shift) <=> b % 2 = 1
    BY <1>8, Cut DEF Lsb
  <2>2. h % 2 = 1 <=> b % 2 = 1
    BY <1>12, <2>1 DEF Bit
  <2>3. QED
    BY <1>4, <2>2
<1>15. QED
  BY <1>5, <1>6, <1>7, <1>10, <1>11, <1>12, <1>13, <1>14

(* A half of the sign of a single that stands for a number.                *)
LEMMA CandidateIs ==
    ASSUME NEW bits, NEW g, NEW b, NEW t, Splits(bits, g, b, t), NEW c \in Candidates(bits)
    PROVE  \E n \in Nat : /\ n <= Inf /\ c = g * (2^ExpSize * 2^SigSize) + n
                          /\ Magnitude(c * 2^Shift) = HalfMag(n)
                          /\ (Sign(c * 2^Shift) <=> g = 1)
<1>1. PICK E \in Nat \ {0}, S \in Nat \ {0}, P \in Nat \ {0} :
        /\ E = 2^ExpSize /\ S = 2^SigSize /\ P = 2^Shift /\ 2^HalfBits = 2 * (E * S)
  BY Format
<1>2. PICK K \in Nat \ {0} : K = E * S
  <2>1. E * S \in Nat \ {0}
    OBVIOUS
  <2>2. QED
    BY <2>1
<1>3. c \in Half /\ (Sign(c * 2^Shift) <=> Sign(bits)) /\ ~HalfIsNaN(c)
  BY DEF Candidates, Sign, Bit
<1>4. c \in Nat /\ c < 2 * K
  BY <1>1, <1>2, <1>3 DEF Half
<1>5. PICK a \in {0, 1}, n \in Nat : n < K /\ c = a * K + n
  <2>1. CASE c < K
    <3>1. c = 0 * K + c
      BY <1>4
    <3>2. QED
      BY <1>4, <2>1, <3>1
  <2>2. CASE c >= K
    <3>1. c = 1 * K + (c - K) /\ c - K \in Nat /\ c - K < K
      BY <1>4, <2>2
    <3>2. QED
      BY <3>1
  <2>3. QED
    BY <1>4, <2>1, <2>2
<1>6. n < 2^ExpSize * 2^SigSize /\ c = a * (2^ExpSize * 2^SigSize) + n
  BY <1>1, <1>2, <1>5
<1>7. /\ Splits(c * 2^Shift, a, n, 0)
      /\ Magnitude(c * 2^Shift) = HalfMag(n) /\ (Sign(c * 2^Shift) <=> a = 1)
      /\ HalfIsNaN(c) <=> n > Inf
  BY <1>6, HalfSplits
<1>8. Sign(bits) <=> g = 1
  BY SingleFields
<1>9. g \in {0, 1}
  BY DEF Splits
<1>10. a = g
  BY <1>3, <1>7, <1>8, <1>9
<1>11. n <= Inf
  <2>1. Inf \in Nat
    BY NaNs
  <2>2. QED
    BY <1>3, <1>7, <2>1
<1>12. QED
  BY <1>6, <1>7, <1>10, <1>11

-----------------------------------------------------------------------------
(* A single between its neighbours.                                         *)

(* Half number c, of magnitude M, seen from half number b of magnitude A,  *)
(* whose successor is D away.                                              *)
Near(c, M, b, A, D) ==
    \/ c < b /\ M < A
    \/ c = b /\ M = A
    \/ c = b + 1 /\ M = A + D
    \/ c > b + 1 /\ M > A + D

(* The single lies T above its lower neighbour.                            *)
Between(bits, b, t, A, D, T) ==
    /\ A = HalfMag(b) /\ Magnitude(bits) = A + T /\ T < D
    /\ t = 0 <=> T = 0
    /\ 2 * t >= 2^Shift <=> 2 * T >= D
    /\ 2 * t = 2^Shift <=> 2 * T = D
    /\ \A n \in Nat : n <= Inf => HalfMag(n) \in Nat /\ Near(n, HalfMag(n), b, A, D)
    /\ b < Inf => HalfMag(b + 1) = A + D

(* The halves around a single, and where it lies between the two next to   *)
(* it.                                                                     *)
LEMMA Neighbours ==
    ASSUME NEW bits, NEW g, NEW b, NEW t, Splits(bits, g, b, t), ~IsNaN(bits)
    PROVE  \E A \in Nat, D \in Nat \ {0}, T \in Nat : Between(bits, b, t, A, D, T)
<1>1. PICK E \in Nat \ {0}, S \in Nat \ {0}, P \in Nat \ {0} :
        E = 2^ExpSize /\ S = 2^SigSize /\ P = 2^Shift
  BY Format
<1>2. PICK K \in Nat \ {0} : K = E * S
  <2>1. E * S \in Nat \ {0}
    OBVIOUS
  <2>2. QED
    BY <2>1
<1>3. b \in Nat /\ b < K /\ t \in 0 .. P - 1
  BY <1>1, <1>2 DEF Splits
<1>4. Inf \in Nat /\ Inf < K /\ b <= Inf
  <2>1. Inf \in Nat /\ Inf < K /\ ~(b > Inf)
    BY <1>1, <1>2, NaNs
  <2>2. QED
    BY <1>3, <2>1
<1>5. PICK e \in 0 .. E - 1, f \in 0 .. S - 1 : b = e * S + f /\ e = b \div S /\ f = b % S
  BY <1>2, <1>3, HalfFields
<1>6. PICK u \in Nat \ {0} : u = Unit(b \div S)
  <2>1. e \in 0 .. 2^ExpSize - 1
    BY <1>1
  <2>2. QED
    BY <1>5, <2>1, Units
<1>7. PICK A, D, T : A = HalfMag(b) /\ D = P * u /\ T = t * u
  OBVIOUS
<1>8. D \in Nat \ {0} /\ T \in Nat
  <2>1. P * u \in Nat \ {0} /\ t * u \in Nat
    BY <1>3
  <2>2. QED
    BY <1>7, <2>1
<1>9. T < D /\ (t = 0 <=> T = 0)
  <2>1. t * u < P * u
    BY <1>3
  <2>2. t = 0 <=> t * u = 0
    BY <1>3
  <2>3. QED
    BY <1>7, <2>1, <2>2
<1>10. (2 * t >= P <=> 2 * T >= D) /\ (2 * t = P <=> 2 * T = D)
  <2>1. PICK x \in Nat : x = 2 * t
    BY <1>3
  <2>2. 2 * T = x * u
    BY <1>3, <1>7, <2>1
  <2>3. x >= P => x * u >= P * u
    OBVIOUS
  <2>4. x < P => x * u < P * u
    OBVIOUS
  <2>5. x > P => x * u > P * u
    OBVIOUS
  <2>6. x * u \in Nat /\ P * u \in Nat
    OBVIOUS
  <2>7. QED
    BY <1>7, <2>1, <2>2, <2>3, <2>4, <2>5, <2>6
<1>11. A \in Nat
  <2>1. CASE b > 0
    <3>1. 0 < b /\ b < 2^ExpSize * 2^SigSize
      BY <1>1, <1>2, <1>3, <2>1
    <3>2. HalfMag(b) \in Nat
      BY <1>3, <3>1, HalfMagMono
    <3>3. QED
      BY <1>7, <3>2
  <2>2. CASE b = 0
    <3>1. f * P \in Nat /\ e \in 0 .. 2^ExpSize - 1
      BY <1>1
    <3>2. Mag(e, f * P) \in Nat
      BY <3>1, MagInside
    <3>3. QED
      BY <1>1, <1>5, <1>7, <3>2 DEF HalfMag
  <2>3. QED
    BY <1>3, <2>1, <2>2
<1>12. Magnitude(bits) = A + T
  BY <1>1, <1>6, <1>7, Cut
<1>13. b < Inf => HalfMag(b + 1) = A + D
  <2>1. ASSUME b < Inf PROVE HalfMag(b + 1) = A + D
    <3>1. b + 1 < 2^ExpSize * 2^SigSize
      BY <1>1, <1>2, <1>3, <1>4, <2>1
    <3>2. HalfMag(b + 1) = HalfMag(b) + 2^Shift * Unit(b \div 2^SigSize)
      BY <1>3, <3>1, HalfMagNext
    <3>3. QED
      BY <1>1, <1>6, <1>7, <3>2
  <2>2. QED
    BY <2>1
<1>14. ASSUME NEW n \in Nat, n <= Inf
       PROVE  HalfMag(n) \in Nat /\ Near(n, HalfMag(n), b, A, D)
  <2>1. n < 2^ExpSize * 2^SigSize /\ b < 2^ExpSize * 2^SigSize
    BY <1>1, <1>2, <1>3, <1>4, <1>14
  <2>2. CASE n < b
    <3>1. HalfMag(n) \in Nat /\ HalfMag(n) < HalfMag(b)
      BY <1>3, <2>1, <2>2, HalfMagMono
    <3>2. QED
      BY <1>7, <2>2, <3>1 DEF Near
  <2>3. CASE n = b
    BY <1>7, <1>11, <2>3 DEF Near
  <2>4. CASE n = b + 1
    <3>1. b < Inf
      BY <1>3, <1>4, <1>14, <2>4
    <3>2. HalfMag(n) = A + D
      BY <1>13, <2>4, <3>1
    <3>3. A + D \in Nat
      BY <1>8, <1>11
    <3>4. QED
      BY <2>4, <3>2, <3>3 DEF Near
  <2>5. CASE n > b + 1
    <3>1. b < Inf /\ b + 1 \in Nat
      BY <1>3, <1>4, <1>14, <2>5
    <3>2. HalfMag(n) \in Nat /\ HalfMag(b + 1) < HalfMag(n)
      BY <2>1, <2>5, <3>1, HalfMagMono
    <3>3. HalfMag(b + 1) = A + D
      BY <1>13, <3>1
    <3>4. A + D \in Nat
      BY <1>8, <1>11
    <3>5. QED
      BY <2>5, <3>2, <3>3, <3>4 DEF Near
  <2>6. QED
    BY <1>3, <2>2, <2>3, <2>4, <2>5
<1>15. Between(bits, b, t, A, D, T)
  BY <1>1, <1>7, <1>9, <1>10, <1>12, <1>13, <1>14 DEF Between
<1>16. QED
  BY <1>8, <1>11, <1>15

(* How half number c, of magnitude M, compares with the rounded half r, of *)
(* magnitude R, seen from X, which lies T above the lower of two           *)
(* neighbours that are D apart.                                            *)
Chosen(c, M, r, R, X, T, D, up) ==
    /\ ~up => R <= X /\ (M <= X => M <= R)
    /\ up \/ T = 0 => R >= X /\ (M >= X => M >= R)
    /\ (up => 2 * T >= D) /\ (~up => 2 * T <= D) =>
         /\ Distance(M, X) >= Distance(R, X)
         /\ Distance(M, X) = Distance(R, X) /\ c # r => 2 * T = D
         /\ Distance(M, X) = Distance(R, X) /\ (~up => 2 * T < D) => M <= R
    /\ M <= X /\ ~up => Distance(M, X) >= Distance(R, X)
    /\ T # 0 <=> R # X

(* The lower neighbour is the nearest number towards zero, the upper one   *)
(* the nearest away from it, unless the single is the lower one; the       *)
(* nearer of the two is nearer than every other.                           *)
LEMMA Choice ==
    ASSUME NEW A \in Nat, NEW D \in Nat \ {0}, NEW T \in Nat, T < D, NEW b \in Nat,
           NEW c \in Nat, NEW M \in Nat, Near(c, M, b, A, D),
           NEW up \in BOOLEAN, up => T # 0, NEW r, r = IF up THEN b + 1 ELSE b,
           NEW R, R = IF up THEN A + D ELSE A, NEW X, X = A + T
    PROVE  Chosen(c, M, r, R, X, T, D, up)
<1>1. CASE up
  <2>1. R = A + D /\ r = b + 1 /\ Distance(R, X) = D - T /\ R >= X /\ R # X
    BY <1>1 DEF Distance
  <2>2. CASE c < b /\ M < A
    BY <1>1, <2>1, <2>2 DEF Distance, Chosen
  <2>3. CASE c = b /\ M = A
    BY <1>1, <2>1, <2>3 DEF Distance, Chosen
  <2>4. CASE c = b + 1 /\ M = A + D
    BY <1>1, <2>1, <2>4 DEF Distance, Chosen
  <2>5. CASE c > b + 1 /\ M > A + D
    BY <1>1, <2>1, <2>5 DEF Distance, Chosen
  <2>6. QED
    BY <2>2, <2>3, <2>4, <2>5 DEF Near
<1>2. CASE ~up
  <2>1. /\ R = A /\ r = b /\ Distance(R, X) = T /\ R <= X
        /\ (T = 0 => R >= X) /\ (T # 0 <=> R # X)
    BY <1>2 DEF Distance
  <2>2. CASE c < b /\ M < A
    BY <1>2, <2>1, <2>2 DEF Distance, Chosen
  <2>3. CASE c = b /\ M = A
    BY <1>2, <2>1, <2>3 DEF Distance, Chosen
  <2>4. CASE c = b + 1 /\ M = A + D
    BY <1>2, <2>1, <2>4 DEF Distance, Chosen
  <2>5. CASE c > b + 1 /\ M > A + D
    BY <1>2, <2>1, <2>5 DEF Distance, Chosen
  <2>6. QED
    BY <2>2, <2>3, <2>4, <2>5 DEF Near
<1>3. QED
  BY <1>1, <1>2

(* Rounding drops the low part, or takes the next half: never a NaN.       *)
LEMMA RoundedIs ==
    ASSUME NEW bits, NEW g, NEW b, NEW t, Splits(bits, g, b, t), ~IsNaN(bits), NEW m,
           NEW r, r = IF Increments(bits, m) THEN b + 1 ELSE b
    PROVE  /\ Lossy(bits) <=> t # 0
           /\ Increments(bits, m) => t # 0 /\ b < Inf
           /\ r \in Nat /\ r <= Inf /\ b <= Inf
           /\ Rounded(bits, m) = g * (2^ExpSize * 2^SigSize) + r
<1>1. PICK E \in Nat \ {0}, S \in Nat \ {0}, P \in Nat \ {0} :
        E = 2^ExpSize /\ S = 2^SigSize /\ P = 2^Shift /\ 2^HalfBits = 2 * (E * S)
  BY Format
<1>2. PICK K \in Nat \ {0} : K = E * S
  <2>1. E * S \in Nat \ {0}
    OBVIOUS
  <2>2. QED
    BY <2>1
<1>3. g \in {0, 1} /\ b \in Nat /\ b < K /\ t \in 0 .. P - 1
  BY <1>1, <1>2 DEF Splits
<1>4. /\ Guard(bits) <=> 2 * t >= P
      /\ Sticky(bits) <=> t # 0 /\ 2 * t # P
  BY <1>1, Cut
<1>5. Lossy(bits) <=> t # 0
  BY <1>3, <1>4 DEF Lossy
<1>6. Increments(bits, m) => Lossy(bits)
  BY DEF Increments, Lossy, RNE, RUP, RDN, RMM
<1>7. Inf \in Nat /\ Inf < K /\ ~(b > Inf) /\ ~(b = Inf /\ t # 0)
  BY <1>1, <1>2, NaNs
<1>8. Increments(bits, m) => t # 0 /\ b < Inf
  BY <1>3, <1>5, <1>6, <1>7
<1>9. r \in Nat /\ r <= Inf /\ b <= Inf
  BY <1>3, <1>7, <1>8
<1>10. Rounded(bits, m) = g * K + r
  <2>1. bits \div P = g * K + b
    BY <1>1, <1>2, SingleFields
  <2>2. PICK inc \in {0, 1} : inc = IF Increments(bits, m) THEN 1 ELSE 0
    OBVIOUS
  <2>3. r = b + inc
    BY <1>3, <2>2
  <2>4. g * K = 0 \/ g * K = K
    BY <1>3
  <2>5. (g * K + b) + inc = g * K + r /\ g * K + r \in 0 .. 2 * K - 1
    BY <1>3, <1>7, <1>9, <2>3, <2>4
  <2>6. (g * K + r) % (2 * K) = g * K + r
    BY <2>5
  <2>7. Rounded(bits, m) = ((g * K + b) + inc) % (2 * K)
    BY <1>1, <1>2, <2>1, <2>2 DEF Rounded
  <2>8. QED
    BY <2>5, <2>6, <2>7
<1>11. QED
  BY <1>1, <1>2, <1>5, <1>8, <1>9, <1>10

(* The number of a pattern, from its sign and its magnitude.               *)
Signed(g, M) == IF g = 1 THEN -M ELSE M

(* A sign does not change a distance, and turns the order around.          *)
SameOrder(g, M, X) ==
    /\ Distance(Signed(g, M), Signed(g, X)) = Distance(M, X)
    /\ Signed(g, M) >= Signed(g, X) <=> IF g = 1 THEN M <= X ELSE M >= X
    /\ Signed(g, M) <= Signed(g, X) <=> IF g = 1 THEN M >= X ELSE M <= X
    /\ Signed(g, M) = Signed(g, X) <=> M = X
    /\ Distance(M, X) \in Nat

(* Whatever the magnitudes are.                                            *)
LEMMA SignedOrder ==
    ASSUME NEW g \in {0, 1}, NEW M \in Nat, NEW X \in Nat
    PROVE  SameOrder(g, M, X)
<1>1. CASE g = 0
  BY <1>1 DEF SameOrder, Signed, Distance
<1>2. CASE g = 1
  BY <1>2 DEF SameOrder, Signed, Distance
<1>3. QED
  BY <1>1, <1>2

(* What a candidate is, seen from the single that is rounded to r.         *)
Compared(bits, c, g, r, R, X, T, D, up) ==
    \E n \in Nat, M \in Nat :
        /\ c = g * (2^ExpSize * 2^SigSize) + n
        /\ Magnitude(c * 2^Shift) = M /\ HalfValue(c) = Signed(g, M)
        /\ Chosen(n, M, r, R, X, T, D, up)

(* How a single is rounded.                                                *)
RoundsTo(bits, m, g, b, t, r, R, X, T, D, up) ==
    /\ g \in {0, 1} /\ b \in Nat /\ t \in Nat /\ r \in Nat /\ R \in Nat /\ X \in Nat
    /\ T \in Nat /\ D \in Nat /\ up \in BOOLEAN
    /\ Splits(bits, g, b, t) /\ (up <=> Increments(bits, m))
    /\ r = (IF up THEN b + 1 ELSE b) /\ r <= Inf /\ b <= Inf
    /\ Rounded(bits, m) = g * (2^ExpSize * 2^SigSize) + r
    /\ Rounded(bits, m) \in Candidates(bits)
    /\ Magnitude(bits) = X /\ Value(bits) = Signed(g, X)
    /\ Magnitude(Rounded(bits, m) * 2^Shift) = R
    /\ HalfValue(Rounded(bits, m)) = Signed(g, R)
    /\ (T = 0 <=> t = 0) /\ (t # 0 <=> Lossy(bits)) /\ (T # 0 <=> R # X) /\ (up => T # 0)
    /\ 2 * t >= 2^Shift <=> 2 * T >= D
    /\ 2 * t = 2^Shift <=> 2 * T = D
    /\ \A c \in Candidates(bits) : Compared(bits, c, g, r, R, X, T, D, up)

(* The rounded half is a candidate, and this is how every other compares.  *)
LEMMA RoundedAmong ==
    ASSUME NEW bits \in Word, ~IsNaN(bits), NEW m
    PROVE  \E g, b, t, r, R, X, T, D, up : RoundsTo(bits, m, g, b, t, r, R, X, T, D, up)
<1>1. PICK g, b, t : Splits(bits, g, b, t)
  BY EverySplits
<1>2. PICK P \in Nat \ {0}, K \in Nat \ {0} : P = 2^Shift /\ K = 2^ExpSize * 2^SigSize
  <2>1. PICK E \in Nat \ {0}, S \in Nat \ {0} : E = 2^ExpSize /\ S = 2^SigSize
    BY Powers
  <2>2. E * S \in Nat \ {0}
    OBVIOUS
  <2>3. QED
    BY <2>1, <2>2, Powers
<1>3. g \in {0, 1} /\ b \in Nat /\ t \in Nat /\ b < K
  BY <1>1, <1>2 DEF Splits
<1>0. PICK A \in Nat, D \in Nat \ {0}, T \in Nat : Between(bits, b, t, A, D, T)
  BY <1>1, Neighbours
<1>4. /\ A = HalfMag(b) /\ Magnitude(bits) = A + T /\ T < D
      /\ t = 0 <=> T = 0
      /\ 2 * t >= 2^Shift <=> 2 * T >= D
      /\ 2 * t = 2^Shift <=> 2 * T = D
      /\ \A n \in Nat : n <= Inf => HalfMag(n) \in Nat /\ Near(n, HalfMag(n), b, A, D)
      /\ b < Inf => HalfMag(b + 1) = A + D
  BY <1>0 DEF Between
<1>5. PICK up \in BOOLEAN : up <=> Increments(bits, m)
  OBVIOUS
<1>6. PICK r, R, X : r = (IF up THEN b + 1 ELSE b) /\ R = (IF up THEN A + D ELSE A) /\ X = A + T
  OBVIOUS
<1>7. /\ Lossy(bits) <=> t # 0
      /\ up => t # 0 /\ b < Inf
      /\ r \in Nat /\ r <= Inf /\ b <= Inf
      /\ Rounded(bits, m) = g * (2^ExpSize * 2^SigSize) + r
  <2>1. r = IF Increments(bits, m) THEN b + 1 ELSE b
    BY <1>5, <1>6
  <2>2. QED
    BY <1>1, <1>5, <2>1, RoundedIs
<1>8. R \in Nat /\ X \in Nat
  BY <1>6
<1>9. Inf < K /\ Inf \in Nat
  BY <1>1, <1>2, NaNs
<1>10. PICK h : h = Rounded(bits, m)
  OBVIOUS
<1>11. /\ h \in Half /\ Magnitude(h * 2^Shift) = HalfMag(r) /\ (Sign(h * 2^Shift) <=> g = 1)
       /\ ~HalfIsNaN(h)
  <2>1. r < 2^ExpSize * 2^SigSize
    BY <1>2, <1>7, <1>9
  <2>2. HalfIsNaN(h) <=> r > Inf
    BY <1>3, <1>7, <1>10, <2>1, HalfSplits
  <2>3. QED
    BY <1>3, <1>7, <1>9, <1>10, <2>1, <2>2, HalfSplits
<1>12. HalfMag(r) = R
  BY <1>4, <1>6, <1>7
<1>13. Sign(bits) <=> g = 1
  BY <1>1, SingleFields
<1>14. h \in Candidates(bits)
  BY <1>11, <1>13 DEF Candidates, Sign, Bit
<1>15. Value(bits) = Signed(g, X) /\ HalfValue(h) = Signed(g, R)
  BY <1>4, <1>6, <1>11, <1>12, <1>13 DEF Value, HalfValue, Signed
<1>16. ASSUME NEW c \in Nat, NEW M \in Nat, Near(c, M, b, A, D)
       PROVE  Chosen(c, M, r, R, X, T, D, up)
  <2>1. T < D /\ (up => T # 0)
    BY <1>4, <1>7
  <2>2. QED
    BY <1>3, <1>6, <1>16, <2>1, Choice
<1>17. ASSUME NEW c \in Candidates(bits)
       PROVE  Compared(bits, c, g, r, R, X, T, D, up)
  <2>1. PICK n \in Nat : /\ n <= Inf /\ c = g * (2^ExpSize * 2^SigSize) + n
                         /\ Magnitude(c * 2^Shift) = HalfMag(n)
                         /\ (Sign(c * 2^Shift) <=> g = 1)
    BY <1>1, CandidateIs
  <2>2. PICK M \in Nat : M = HalfMag(n) /\ Near(n, M, b, A, D)
    BY <1>4, <2>1
  <2>3. Chosen(n, M, r, R, X, T, D, up)
    BY <1>16, <2>2
  <2>4. HalfValue(c) = Signed(g, M)
    BY <2>1, <2>2 DEF HalfValue, Value, Signed
  <2>5. QED
    BY <2>1, <2>2, <2>3, <2>4 DEF Compared
<1>18. T # 0 <=> R # X
  <2>1. Near(b, A, b, A, D)
    BY DEF Near
  <2>2. QED
    BY <1>3, <1>16, <2>1 DEF Chosen
<1>19. /\ g \in {0, 1} /\ b \in Nat /\ t \in Nat /\ r \in Nat /\ R \in Nat /\ X \in Nat
       /\ T \in Nat /\ D \in Nat /\ up \in BOOLEAN
  BY <1>3, <1>7, <1>8
<1>20. RoundsTo(bits, m, g, b, t, r, R, X, T, D, up)
  BY <1>1, <1>4, <1>5, <1>6, <1>7, <1>10, <1>11, <1>12, <1>14, <1>15, <1>17, <1>18, <1>19 DEF RoundsTo
<1>21. QED
  BY <1>20, Zenon

(* When the code increments, in terms of the single's place.               *)
LEMMA IncrementIs ==
    ASSUME NEW bits, NEW g, NEW b, NEW t, Splits(bits, g, b, t)
    PROVE  /\ ~Increments(bits, RTZ)
           /\ Increments(bits, RUP) <=> g = 0 /\ Lossy(bits)
           /\ Increments(bits, RDN) <=> g = 1 /\ Lossy(bits)
           /\ Increments(bits, RMM) <=> 2 * t >= 2^Shift
           /\ Increments(bits, RNE) <=>
                /\ 2 * t >= 2^Shift
                /\ b % 2 = 1 \/ (t # 0 /\ 2 * t # 2^Shift)
<1>1. /\ Guard(bits) <=> 2 * t >= 2^Shift
      /\ Sticky(bits) <=> t # 0 /\ 2 * t # 2^Shift
      /\ Lsb(bits) <=> b % 2 = 1
  BY Cut
<1>2. (Sign(bits) <=> g = 1) /\ g \in {0, 1}
  BY SingleFields DEF Splits
<1>3. ~Increments(bits, RTZ)
  BY DEF Increments, RNE, RTZ, RUP, RDN, RMM
<1>4. Increments(bits, RUP) <=> ~Sign(bits) /\ Lossy(bits)
  BY DEF Increments, RNE, RTZ, RUP, RDN, RMM
<1>5. Increments(bits, RDN) <=> Sign(bits) /\ Lossy(bits)
  BY DEF Increments, RNE, RTZ, RUP, RDN, RMM
<1>6. Increments(bits, RMM) <=> Guard(bits)
  BY DEF Increments, RNE, RTZ, RUP, RDN, RMM
<1>7. Increments(bits, RNE) <=> Guard(bits) /\ (Lsb(bits) \/ Sticky(bits))
  BY DEF Increments, RNE, RTZ, RUP, RDN, RMM
<1>8. QED
  BY <1>1, <1>2, <1>3, <1>4, <1>5, <1>6, <1>7

(* In every mode the code's choice is the one that the numbers call for.   *)
LEMMA CorrectlyRounded ==
    ASSUME NEW bits \in Word, ~IsNaN(bits), NEW m \in {RNE, RTZ, RDN, RUP, RMM}
    PROVE  IsCorrectlyRounded(bits, m, Rounded(bits, m))
<1>1. PICK g, b, t, r, R, X, T, D, up : RoundsTo(bits, m, g, b, t, r, R, X, T, D, up)
  BY RoundedAmong
<1>2. PICK h, x, d, cs : /\ h = Rounded(bits, m) /\ x = Value(bits)
                         /\ d = Distance(HalfValue(h), x) /\ cs = Candidates(bits)
  OBVIOUS
<1>3. /\ g \in {0, 1} /\ b \in Nat /\ t \in Nat /\ r \in Nat /\ R \in Nat /\ X \in Nat
      /\ T \in Nat /\ D \in Nat /\ up \in BOOLEAN
  BY <1>1 DEF RoundsTo
<1>4. /\ Splits(bits, g, b, t) /\ (up <=> Increments(bits, m))
      /\ r = (IF up THEN b + 1 ELSE b)
      /\ h = g * (2^ExpSize * 2^SigSize) + r /\ h \in cs
      /\ Magnitude(bits) = X /\ x = Signed(g, X)
      /\ Magnitude(h * 2^Shift) = R /\ HalfValue(h) = Signed(g, R)
      /\ (T = 0 <=> t = 0) /\ (t # 0 <=> Lossy(bits)) /\ (T # 0 <=> R # X) /\ (up => T # 0)
      /\ 2 * t >= 2^Shift <=> 2 * T >= D
      /\ 2 * t = 2^Shift <=> 2 * T = D
      /\ \A c \in cs : Compared(bits, c, g, r, R, X, T, D, up)
  BY <1>1, <1>2 DEF RoundsTo
<1>5. /\ d = Distance(R, X) /\ d \in Nat
      /\ HalfValue(h) >= x <=> IF g = 1 THEN R <= X ELSE R >= X
      /\ HalfValue(h) <= x <=> IF g = 1 THEN R >= X ELSE R <= X
  <2>1. SameOrder(g, R, X)
    BY <1>3, SignedOrder
  <2>2. QED
    BY <1>2, <1>4, <2>1 DEF SameOrder
<1>6. /\ ~up => R <= X
      /\ up \/ T = 0 => R >= X
  <2>1. PICK n \in Nat, M \in Nat : Chosen(n, M, r, R, X, T, D, up)
    BY <1>4 DEF Compared
  <2>2. QED
    BY <2>1 DEF Chosen
<1>7. ASSUME NEW c \in cs
      PROVE  \E n \in Nat, M \in Nat :
               /\ c = g * (2^ExpSize * 2^SigSize) + n /\ Magnitude(c * 2^Shift) = M
               /\ Chosen(n, M, r, R, X, T, D, up)
               /\ Distance(HalfValue(c), x) = Distance(M, X) /\ Distance(M, X) \in Nat
               /\ HalfValue(c) >= x <=> IF g = 1 THEN M <= X ELSE M >= X
               /\ HalfValue(c) <= x <=> IF g = 1 THEN M >= X ELSE M <= X
               /\ HalfValue(c) >= HalfValue(h) <=> IF g = 1 THEN M <= R ELSE M >= R
               /\ HalfValue(c) <= HalfValue(h) <=> IF g = 1 THEN M >= R ELSE M <= R
  <2>1. PICK n \in Nat, M \in Nat :
          /\ c = g * (2^ExpSize * 2^SigSize) + n
          /\ Magnitude(c * 2^Shift) = M /\ HalfValue(c) = Signed(g, M)
          /\ Chosen(n, M, r, R, X, T, D, up)
    BY <1>4, <1>7 DEF Compared
  <2>2. /\ Distance(Signed(g, M), Signed(g, X)) = Distance(M, X)
        /\ Signed(g, M) >= Signed(g, X) <=> IF g = 1 THEN M <= X ELSE M >= X
        /\ Signed(g, M) <= Signed(g, X) <=> IF g = 1 THEN M >= X ELSE M <= X
        /\ Distance(M, X) \in Nat
    <3>1. SameOrder(g, M, X)
      BY <1>3, SignedOrder
    <3>2. QED
      BY <3>1 DEF SameOrder
  <2>3. /\ Signed(g, M) >= Signed(g, R) <=> IF g = 1 THEN M <= R ELSE M >= R
        /\ Signed(g, M) <= Signed(g, R) <=> IF g = 1 THEN M >= R ELSE M <= R
    <3>1. SameOrder(g, M, R)
      BY <1>3, SignedOrder
    <3>2. QED
      BY <3>1 DEF SameOrder
  <2>4. QED
    BY <1>4, <2>1, <2>2, <2>3
<1>8. CASE m = RTZ
  <2>1. ~up
    BY <1>4, <1>8, IncrementIs
  <2>2. R <= X
    BY <1>6, <2>1
  <2>3. ASSUME NEW c \in cs, Magnitude(c * 2^Shift) <= X PROVE Distance(HalfValue(c), x) >= d
    BY <1>5, <1>7, <2>1, <2>3 DEF Chosen
  <2>4. QED
    BY <1>2, <1>4, <1>8, <2>2, <2>3 DEF IsCorrectlyRounded, RNE, RTZ, RUP, RDN, RMM
<1>9. CASE m = RUP
  <2>1. up <=> g = 0 /\ T # 0
    BY <1>4, <1>9, IncrementIs
  <2>2. HalfValue(h) >= x
    BY <1>3, <1>5, <1>6, <2>1
  <2>3. ASSUME NEW c \in cs, HalfValue(c) >= x PROVE HalfValue(c) >= HalfValue(h)
    BY <1>3, <1>7, <2>1, <2>3 DEF Chosen
  <2>4. QED
    BY <1>2, <1>4, <1>9, <2>2, <2>3 DEF IsCorrectlyRounded, RNE, RTZ, RUP, RDN, RMM
<1>10. CASE m = RDN
  <2>1. up <=> g = 1 /\ T # 0
    BY <1>4, <1>10, IncrementIs
  <2>2. HalfValue(h) <= x
    BY <1>3, <1>5, <1>6, <2>1
  <2>3. ASSUME NEW c \in cs, HalfValue(c) <= x PROVE HalfValue(c) <= HalfValue(h)
    BY <1>3, <1>7, <2>1, <2>3 DEF Chosen
  <2>4. QED
    BY <1>2, <1>4, <1>10, <2>2, <2>3 DEF IsCorrectlyRounded, RNE, RTZ, RUP, RDN, RMM
<1>11. CASE m = RMM
  <2>1. up <=> 2 * T >= D
    BY <1>4, <1>11, IncrementIs
  <2>2. (up => 2 * T >= D) /\ (~up => 2 * T <= D) /\ (~up => 2 * T < D)
    BY <1>3, <2>1
  <2>3. ASSUME NEW c \in cs
        PROVE  /\ Distance(HalfValue(c), x) >= d
               /\ Distance(HalfValue(c), x) = d => Magnitude(c * 2^Shift) <= R
    BY <1>5, <1>7, <2>2, <2>3 DEF Chosen
  <2>4. QED
    BY <1>2, <1>4, <1>11, <2>3 DEF IsCorrectlyRounded, RNE, RTZ, RUP, RDN, RMM
<1>12. CASE m = RNE
  <2>1. up <=> 2 * T >= D /\ (b % 2 = 1 \/ (T # 0 /\ 2 * T # D))
    BY <1>4, <1>12, IncrementIs
  <2>2. (up => 2 * T >= D) /\ (~up => 2 * T <= D)
    <3>1. 2 * T > D => T # 0
      BY <1>3
    <3>2. QED
      BY <1>3, <2>1, <3>1
  <2>3. 2 * T = D => h % 2 = 0
    <3>1. ASSUME 2 * T = D PROVE r % 2 = 0
      BY <1>3, <1>4, <2>1, <3>1
    <3>2. r < 2^ExpSize * 2^SigSize
      <4>1. Inf \in Nat /\ Inf < 2^ExpSize * 2^SigSize
        BY <1>4, NaNs
      <4>2. PICK K \in Nat : K = 2^ExpSize * 2^SigSize
        <5>1. PICK E \in Nat, S \in Nat : E = 2^ExpSize /\ S = 2^SigSize
          BY Powers
        <5>2. E * S \in Nat
          OBVIOUS
        <5>3. QED
          BY <5>1, <5>2
      <4>3. r <= Inf
        BY <1>1 DEF RoundsTo
      <4>4. QED
        BY <1>3, <4>1, <4>2, <4>3
    <3>3. h % 2 = r % 2
      BY <1>3, <1>4, <3>2, HalfSplits
    <3>4. QED
      BY <3>1, <3>3
  <2>4. ASSUME NEW c \in cs
        PROVE  /\ Distance(HalfValue(c), x) >= d
               /\ Distance(HalfValue(c), x) = d /\ c # h => h % 2 = 0
    <3>1. PICK n \in Nat, M \in Nat :
            /\ c = g * (2^ExpSize * 2^SigSize) + n
            /\ Chosen(n, M, r, R, X, T, D, up)
            /\ Distance(HalfValue(c), x) = Distance(M, X)
      BY <1>7, <2>4
    <3>2. c # h => n # r
      BY <1>4, <3>1
    <3>3. QED
      BY <1>5, <2>2, <2>3, <3>1, <3>2 DEF Chosen
  <2>5. QED
    BY <1>2, <1>4, <1>12, <2>4 DEF IsCorrectlyRounded, RNE, RTZ, RUP, RDN, RMM
<1>13. QED
  BY <1>8, <1>9, <1>10, <1>11, <1>12

(* What the flags of a rounding depend on.                                 *)
LEMMA FlagFacts ==
    ASSUME NEW bits \in Word, ~IsNaN(bits), NEW m, NEW h, h = Rounded(bits, m)
    PROVE  /\ Lossy(bits) <=> HalfValue(h) # Value(bits)
           /\ Exp(bits) # MaxExp /\ HalfExp(h) = MaxExp => Increments(bits, m) /\ Lossy(bits)
           /\ Exp(bits) < MaxExp <=> Exp(bits) # MaxExp
           /\ MaxExp # 0
<1>1. PICK g, b, t, r, R, X, T, D, up : RoundsTo(bits, m, g, b, t, r, R, X, T, D, up)
  BY RoundedAmong
<1>2. /\ g \in {0, 1} /\ b \in Nat /\ r \in Nat /\ R \in Nat /\ X \in Nat /\ up \in BOOLEAN
      /\ Splits(bits, g, b, t) /\ (up <=> Increments(bits, m))
      /\ r = (IF up THEN b + 1 ELSE b) /\ r <= Inf
      /\ h = g * (2^ExpSize * 2^SigSize) + r
      /\ Value(bits) = Signed(g, X) /\ HalfValue(h) = Signed(g, R)
      /\ (T = 0 <=> t = 0) /\ (t # 0 <=> Lossy(bits)) /\ (T # 0 <=> R # X) /\ (up => T # 0)
  BY <1>1 DEF RoundsTo
<1>3. PICK E \in Nat \ {0}, S \in Nat \ {0} : E = 2^ExpSize /\ S = 2^SigSize /\ E >= 2
  BY Format
<1>4. PICK K \in Nat : K = E * S
  <2>1. E * S \in Nat
    OBVIOUS
  <2>2. QED
    BY <2>1
<1>5. Lossy(bits) <=> HalfValue(h) # Value(bits)
  <2>1. SameOrder(g, R, X)
    BY <1>2, SignedOrder
  <2>2. QED
    BY <1>2, <2>1 DEF SameOrder
<1>6. Inf \in Nat /\ Inf < K /\ (Exp(bits) = MaxExp <=> b >= Inf)
  BY <1>2, <1>3, <1>4, NaNs
<1>7. HalfExp(h) = MaxExp <=> r >= Inf
  <2>1. r < 2^ExpSize * 2^SigSize
    BY <1>2, <1>3, <1>4, <1>6
  <2>2. QED
    BY <1>2, <2>1, HalfSplits
<1>8. Exp(bits) # MaxExp /\ HalfExp(h) = MaxExp => Increments(bits, m) /\ Lossy(bits)
  BY <1>2, <1>6, <1>7
<1>9. MaxExp = E - 1
  BY <1>3 DEF MaxExp
<1>10. Exp(bits) \in 0 .. E - 1
  <2>1. b < E * S
    BY <1>2, <1>3 DEF Splits
  <2>2. \E e \in 0 .. E - 1, f \in 0 .. S - 1 : b = e * S + f /\ e = b \div S /\ f = b % S
    BY <1>2, <2>1, HalfFields
  <2>3. Exp(bits) = b \div S
    BY <1>2, <1>3, SingleFields
  <2>4. QED
    BY <2>2, <2>3
<1>11. QED
  BY <1>3, <1>5, <1>8, <1>9, <1>10

(* The bodies differ in how they find the flags; they find the same ones.  *)
LEMMA BodiesAgree ==
    ASSUME NEW bits \in Word, ~IsNaN(bits), NEW m, NEW body \in Bodies
    PROVE  /\ ConvertF32ToBF16(body, bits, m).res = Rounded(bits, m)
           /\ ConvertF32ToBF16(body, bits, m).flags =
                ExpectedFlags(bits, Rounded(bits, m)) \ (IF body = "base" THEN {"UF"} ELSE {})
<1>1. PICK h : h = Rounded(bits, m)
  OBVIOUS
<1>2. PICK nx \in BOOLEAN, of \in BOOLEAN, sub \in BOOLEAN, inc \in BOOLEAN :
        /\ nx <=> Lossy(bits)
        /\ inc <=> Increments(bits, m)
        /\ of <=> Exp(bits) # MaxExp /\ HalfExp(h) = MaxExp
        /\ sub <=> HalfExp(h) = 0
  OBVIOUS
<1>3. /\ nx <=> HalfValue(h) # Value(bits)
      /\ of => inc /\ nx
      /\ of => ~sub
      /\ of <=> Exp(bits) < MaxExp /\ HalfExp(h) = MaxExp
  BY <1>1, <1>2, FlagFacts
<1>4. ~IsSNaN(bits)
  BY DEF IsSNaN
<1>5. PICK want : want = {f \in {"NX"} : nx} \cup {f \in {"OF"} : of} \cup {f \in {"UF"} : nx /\ sub}
  OBVIOUS
<1>6. ExpectedFlags(bits, h) = want
  BY <1>2, <1>3, <1>5 DEF ExpectedFlags
<1>7. PICK got : got = {f \in {"NX"} : nx} \cup {f \in {"OF", "NX"} : of}
  OBVIOUS
<1>8. got = want \ {"UF"}
  BY <1>3, <1>5, <1>7
<1>9. RoundBFloat16(bits, m).res = h /\ RoundBFloat16(bits, m).flags = got
  <2>1. {f \in {"OF", "NX"} : /\ Increments(bits, m) /\ HalfExp(h) = MaxExp /\ Exp(bits) # MaxExp}
          = {f \in {"OF", "NX"} : of}
    BY <1>2, <1>3
  <2>2. {f \in {"NX"} : Lossy(bits)} = {f \in {"NX"} : nx}
    BY <1>2
  <2>3. QED
    BY <1>1, <1>7, <2>1, <2>2 DEF RoundBFloat16
<1>10. CASE body = "base"
  <2>1. /\ ConvertF32ToBF16(body, bits, m).res = RoundBFloat16(bits, m).res
        /\ ConvertF32ToBF16(body, bits, m).flags =
             RoundBFloat16(bits, m).flags \cup {f \in {"NV"} : IsSNaN(bits)}
    BY <1>10 DEF ConvertF32ToBF16, RoundBFloat16
  <2>2. QED
    BY <1>1, <1>4, <1>6, <1>8, <1>9, <1>10, <2>1
<1>11. CASE body = "m3"
  <2>1. /\ M3RoundBFloat16(bits, m).res = h
        /\ M3RoundBFloat16(bits, m).flags = got \cup {f \in {"UF"} : nx /\ sub}
    BY <1>2, <1>9 DEF M3RoundBFloat16, RoundBFloat16
  <2>2. got \cup {f \in {"UF"} : nx /\ sub} = want
    BY <1>3, <1>5, <1>7
  <2>3. ConvertF32ToBF16(body, bits, m) = M3RoundBFloat16(bits, m)
    BY <1>11 DEF ConvertF32ToBF16
  <2>4. QED
    BY <1>1, <1>6, <1>11, <2>1, <2>2, <2>3
<1>12. CASE body = "override"
  <2>1. PICK inexact, range :
          /\ inexact = {f \in {"NX"} : nx}
          /\ range = IF of THEN {"OF", "NX"} ELSE IF sub /\ inexact # {} THEN {"UF"} ELSE {}
    OBVIOUS
  <2>2. inexact # {} <=> nx
    BY <2>1
  <2>3. inexact \cup range = want
    BY <1>3, <1>5, <2>1, <2>2
  <2>4. OverrideRound(bits, m) = [res |-> h, flags |-> inexact \cup range]
    <3>1. {f \in {"NX"} : Lossy(bits)} = inexact
      BY <1>2, <2>1
    <3>2. CASE of
      BY <1>1, <1>2, <1>3, <2>1, <3>1, <3>2 DEF OverrideRound
    <3>3. CASE ~of
      BY <1>1, <1>2, <1>3, <2>1, <3>1, <3>3 DEF OverrideRound
    <3>4. QED
      BY <3>2, <3>3
  <2>5. ConvertF32ToBF16(body, bits, m) = OverrideRound(bits, m)
    BY <1>12 DEF ConvertF32ToBF16
  <2>6. QED
    BY <1>1, <1>6, <1>12, <2>3, <2>4, <2>5
<1>13. QED
  BY <1>10, <1>11, <1>12 DEF Bodies

(* A NaN becomes the canonical one, and says so if it signalled.           *)
LEMMA NaNConverted ==
    ASSUME NEW bits, IsNaN(bits), NEW m, NEW body \in Bodies
    PROVE  /\ ConvertF32ToBF16(body, bits, m).res = CanonicalHalf
           /\ ConvertF32ToBF16(body, bits, m).flags = {f \in {"NV"} : IsSNaN(bits)}
<1>1. CASE body # "base"
  BY <1>1 DEF ConvertF32ToBF16
<1>2. CASE body = "base"
  <2>1. CanonicalHalf \in Half /\ "base" \in Bodies
    BY CanonicalIsHalf DEF Bodies
  <2>2. ConvertBF16ToF32Precise(CanonicalHalf).res = CanonicalWord
    BY DEF ConvertBF16ToF32Precise, CanonicalWord
  <2>3. ConvertF32ToBF16("base", CanonicalWord, m) = [res |-> CanonicalHalf, flags |-> {}]
    BY <2>1, <2>2, NarrowWidened
  <2>4. /\ ConvertF32ToBF16("base", CanonicalWord, m).res = RoundBFloat16(CanonicalWord, m).res
        /\ RoundBFloat16(CanonicalWord, m).flags
              \subseteq ConvertF32ToBF16("base", CanonicalWord, m).flags
    BY DEF ConvertF32ToBF16, RoundBFloat16
  <2>5. RoundBFloat16(CanonicalWord, m).res = CanonicalHalf /\ RoundBFloat16(CanonicalWord, m).flags = {}
    BY <2>3, <2>4
  <2>6. /\ ConvertF32ToBF16("base", bits, m).res = RoundBFloat16(CanonicalWord, m).res
        /\ ConvertF32ToBF16("base", bits, m).flags =
             RoundBFloat16(CanonicalWord, m).flags \cup {f \in {"NV"} : IsSNaN(bits)}
    BY DEF ConvertF32ToBF16, RoundBFloat16
  <2>7. QED
    BY <1>2, <2>5, <2>6
<1>3. QED
  BY <1>1, <1>2

(* For every format: each of the three bodies rounds every single, in each *)
(* of the five modes, to the half that the numbers call for, with the      *)
(* flags that they call for (RoundBFloat16 and the conversions on it).     *)
THEOREM ConversionsAreExact == Spec => []ConversionExact
<1>1. Spec => []SourceInv
  BY SourceInit, SourceStep, PTL DEF Spec
<1>2. SourceInv => ConversionExact
  <2>1. SUFFICES ASSUME SourceInv, NEW body \in Bodies, NEW m \in {RNE, RTZ, RDN, RUP, RMM},
                        NEW bits, bits = Unboxed(src), NEW c, c = ConvertF32ToBF16(body, bits, m)
                 PROVE  IF IsNaN(bits)
                        THEN /\ c.res = CanonicalHalf
                             /\ c.flags = {f \in {"NV"} : IsSNaN(bits)}
                        ELSE /\ IsCorrectlyRounded(bits, m, c.res)
                             /\ c.flags = ExpectedFlags(bits, c.res)
                                             \ (IF body = "base" THEN {"UF"} ELSE {})
    BY DEF ConversionExact
  <2>2. bits \in Word
    BY <2>1, WidenedIsWord DEF SourceInv, Unboxed
  <2>3. CASE IsNaN(bits)
    BY <2>1, <2>3, NaNConverted
  <2>4. CASE ~IsNaN(bits)
    <3>1. /\ c.res = Rounded(bits, m)
          /\ c.flags = ExpectedFlags(bits, Rounded(bits, m)) \ (IF body = "base" THEN {"UF"} ELSE {})
      BY <2>1, <2>2, <2>4, BodiesAgree
    <3>2. IsCorrectlyRounded(bits, m, Rounded(bits, m))
      BY <2>2, <2>4, CorrectlyRounded
    <3>3. QED
      BY <2>4, <3>1, <3>2
  <2>5. QED
    BY <2>3, <2>4
<1>3. QED
  BY <1>1, <1>2, PTL

-----------------------------------------------------------------------------
(* Elements and halves.                                                     *)

(* Place b of item i, in an array of rows of P items of w places.          *)
LEMMA PlaceOfItem ==
    ASSUME NEW P \in Nat \ {0}, NEW w \in Nat \ {0}, NEW i \in Nat, NEW b \in 0 .. w - 1
    PROVE  /\ (i * w + b) \div (P * w) = i \div P
           /\ (i * w + b) % (P * w) = (i % P) * w + b
<1>1. PICK q \in Nat, r \in 0 .. P - 1 : i = q * P + r /\ q = i \div P /\ r = i % P
  OBVIOUS
<1>2. PICK n, c : n = P * w /\ c = r * w
  OBVIOUS
<1>3. n \in Nat \ {0} /\ c \in Nat
  BY <1>2
<1>4. c + w <= n
  <2>1. r + 1 <= P
    OBVIOUS
  <2>2. (r + 1) * w <= P * w /\ (r + 1) * w = r * w + w
    BY <2>1
  <2>3. QED
    BY <1>2, <2>2
<1>5. c + b \in 0 .. n - 1
  BY <1>3, <1>4
<1>6. i * w = q * n + c
  <2>1. i * w = (q * P) * w + r * w
    BY <1>1
  <2>2. (q * P) * w = q * (P * w)
    OBVIOUS
  <2>3. QED
    BY <1>2, <2>1, <2>2
<1>7. PICK x, y : x = i * w /\ y = q * n
  OBVIOUS
<1>8. x \in Nat /\ y \in Nat /\ x = y + c
  BY <1>3, <1>6, <1>7
<1>9. x + b = y + (c + b)
  BY <1>3, <1>8
<1>10. (q * n + (c + b)) \div n = q /\ (q * n + (c + b)) % n = c + b
  BY <1>3, <1>5, Quotient
<1>11. QED
  BY <1>1, <1>2, <1>7, <1>9, <1>10

(* Whole rows in front only move the row.                                  *)
LEMMA RowsInFront ==
    ASSUME NEW a \in Nat, NEW n \in Nat \ {0}, NEW x \in Nat
    PROVE  (a * n + x) \div n = a + x \div n /\ (a * n + x) % n = x % n
<1>1. PICK q \in Nat, r \in 0 .. n - 1 : x = q * n + r /\ q = x \div n /\ r = x % n
  OBVIOUS
<1>2. a * n + x = (a + q) * n + r
  <2>1. (a + q) * n = a * n + q * n
    OBVIOUS
  <2>2. PICK y, z : y = a * n /\ z = q * n
    OBVIOUS
  <2>3. y \in Nat /\ z \in Nat /\ x = z + r
    <3>1. a * n \in Nat /\ q * n \in Nat
      OBVIOUS
    <3>2. QED
      BY <1>1, <2>2, <3>1
  <2>4. y + x = (y + z) + r
    BY <2>3
  <2>5. QED
    BY <2>1, <2>2, <2>4
<1>3. a + q \in Nat
  OBVIOUS
<1>4. ((a + q) * n + r) \div n = a + q /\ ((a + q) * n + r) % n = r
  BY <1>3, Quotient
<1>5. QED
  BY <1>1, <1>2, <1>4

(* A register is two halves for each single.                               *)
LEMMA Sizes ==
    /\ SinglesPerReg \in Nat \ {0} /\ HalvesPerReg = SinglesPerReg * 2
    /\ HalvesPerReg \in Nat \ {0} /\ NumVRegs \in Nat \ {0} /\ Shift = HalfBits
<1>1. /\ HalvesPerReg \in Nat /\ HalvesPerReg >= 2 /\ HalvesPerReg % 2 = 0
      /\ NumVRegs \in Nat \ {0} /\ Shift = HalfBits
  BY RegisterAssumption
<1>2. QED
  BY <1>1 DEF SinglesPerReg

(* An element of the source group, and the halves that it is made of.      *)
LEMMA ElementAt ==
    ASSUME NEW s \in Nat, NEW i \in Nat
    PROVE  /\ HalfAt(s, i) = Flat(v, s * HalvesPerReg + i)
           /\ WordAt(s, i) = Flat(v, s * HalvesPerReg + 2 * i)
                               + 2^HalfBits * Flat(v, s * HalvesPerReg + 2 * i + 1)
<1>0. PICK H, S : H = HalvesPerReg /\ S = SinglesPerReg
  OBVIOUS
<1>1. H \in Nat \ {0} /\ S \in Nat \ {0} /\ H = S * 2
  BY <1>0, Sizes
<1>2. (s * H + i) \div H = s + i \div H /\ (s * H + i) % H = i % H
  BY <1>1, RowsInFront
<1>3. HalfAt(s, i) = Flat(v, s * HalvesPerReg + i)
  BY <1>0, <1>2 DEF HalfAt, Flat
<1>4. ASSUME NEW b \in 0 .. 1
      PROVE  /\ (s * H + (i * 2 + b)) \div H = s + i \div S
             /\ (s * H + (i * 2 + b)) % H = (i % S) * 2 + b
  <2>1. i * 2 + b \in Nat /\ b \in 0 .. 2 - 1 /\ 2 \in Nat \ {0}
    OBVIOUS
  <2>2. /\ (i * 2 + b) \div (S * 2) = i \div S
        /\ (i * 2 + b) % (S * 2) = (i % S) * 2 + b
    BY <1>1, <2>1, PlaceOfItem, Zenon
  <2>3. PICK x \in Nat : x = i * 2 + b
    BY <2>1
  <2>4. (s * H + x) \div H = s + x \div H /\ (s * H + x) % H = x % H
    BY <1>1, RowsInFront
  <2>5. QED
    BY <1>1, <2>2, <2>3, <2>4, Zenon
<1>5. /\ s * H + (i * 2 + 0) = s * H + 2 * i
      /\ s * H + (i * 2 + 1) = s * H + 2 * i + 1
      /\ (i % S) * 2 + 0 = 2 * (i % S) /\ (i % S) * 2 + 1 = 2 * (i % S) + 1
  <2>1. s * H \in Nat /\ i % S \in Nat
    BY <1>1
  <2>2. QED
    BY <2>1
<1>6. /\ (s * H + 2 * i) \div H = s + i \div S
      /\ (s * H + 2 * i) % H = 2 * (i % S)
      /\ (s * H + 2 * i + 1) \div H = s + i \div S
      /\ (s * H + 2 * i + 1) % H = 2 * (i % S) + 1
  <2>1. 0 \in 0 .. 1 /\ 1 \in 0 .. 1
    OBVIOUS
  <2>2. /\ (s * H + (i * 2 + 0)) \div H = s + i \div S
        /\ (s * H + (i * 2 + 0)) % H = (i % S) * 2 + 0
        /\ (s * H + (i * 2 + 1)) \div H = s + i \div S
        /\ (s * H + (i * 2 + 1)) % H = (i % S) * 2 + 1
    BY <1>4, <2>1
  <2>3. QED
    BY <1>5, <2>2
<1>7. WordAt(s, i) = Flat(v, s * HalvesPerReg + 2 * i)
                       + 2^HalfBits * Flat(v, s * HalvesPerReg + 2 * i + 1)
  BY <1>0, <1>6 DEF WordAt, Flat
<1>8. QED
  BY <1>3, <1>7

(* What a narrowing returns is a half.                                     *)
LEMMA NarrowedIsHalf ==
    ASSUME NEW body \in Bodies, NEW bits \in Nat, NEW m
    PROVE  ConvertF32ToBF16(body, bits, m).res \in Half
<1>1. ASSUME NEW b \in Nat PROVE Rounded(b, m) \in Half
  <2>1. PICK P, H : P = 2^Shift /\ H = 2^HalfBits
    OBVIOUS
  <2>2. P \in Nat \ {0} /\ H \in Nat \ {0}
    BY <2>1, Powers
  <2>3. PICK inc \in {0, 1} : inc = IF Increments(b, m) THEN 1 ELSE 0
    OBVIOUS
  <2>4. b \div P \in Nat
    BY <2>2
  <2>5. ((b \div P) + inc) % H \in 0 .. H - 1
    BY <2>2, <2>4
  <2>6. QED
    BY <2>1, <2>3, <2>5 DEF Rounded, Half
<1>2. CanonicalHalf \in Half /\ CanonicalWord \in Nat
  <2>1. CanonicalHalf \in Nat
    BY CanonicalIsHalf, Powers DEF Half
  <2>2. QED
    BY <2>1, CanonicalIsHalf, Powers DEF CanonicalWord
<1>3. \A b : RoundBFloat16(b, m).res = Rounded(b, m)
  BY DEF RoundBFloat16
<1>4. CASE body = "base"
  <2>1. PICK b : b = IF IsNaN(bits) THEN CanonicalWord ELSE bits
    OBVIOUS
  <2>2. b \in Nat
    BY <1>2, <2>1
  <2>3. ConvertF32ToBF16(body, bits, m).res = RoundBFloat16(b, m).res
    BY <1>4, <2>1 DEF ConvertF32ToBF16, RoundBFloat16
  <2>4. QED
    BY <1>1, <1>3, <2>2, <2>3
<1>5. CASE body # "base" /\ IsNaN(bits)
  BY <1>2, <1>5 DEF ConvertF32ToBF16
<1>6. CASE body = "m3" /\ ~IsNaN(bits)
  <2>1. M3RoundBFloat16(bits, m).res = Rounded(bits, m)
    BY DEF M3RoundBFloat16, RoundBFloat16
  <2>2. QED
    BY <1>1, <1>6, <2>1 DEF ConvertF32ToBF16
<1>7. CASE body = "override" /\ ~IsNaN(bits)
  <2>1. OverrideRound(bits, m).res = Rounded(bits, m)
    BY DEF OverrideRound
  <2>2. QED
    BY <1>1, <1>7, <2>1 DEF ConvertF32ToBF16
<1>8. QED
  BY <1>4, <1>5, <1>6, <1>7 DEF Bodies

(* The elements of a vector scenario that waits to be executed.            *)
VectorTyped ==
    /\ v \in [0 .. NumVRegs - 1 -> [0 .. HalvesPerReg - 1 -> Half]]
    /\ insn \in [wide : BOOLEAN, d : 0 .. NumVRegs - 1, s : 0 .. NumVRegs - 1]
    /\ vt.vl \in Nat /\ vt.vstart \in Nat /\ vt.vlmul \in 0 .. 7
    /\ vt.vlmul # 4 => /\ vt.vl <= WideCount(vt.vlmul) * SinglesPerReg
                       /\ NumVRegs % WideCount(vt.vlmul) = 0

(* The source elements lie in the register file.                           *)
SourcesInside(active) ==
    \A i \in active :
        /\ i \in Nat
        /\ IF insn.wide THEN insn.s + i \div HalvesPerReg < NumVRegs
                        ELSE insn.s + i \div SinglesPerReg < NumVRegs

(* An element of the file is a half.                                       *)
LEMMA HalfIsInside ==
    ASSUME VectorTyped, NEW s \in Nat, NEW i \in Nat
    PROVE  /\ s + i \div HalvesPerReg < NumVRegs => HalfAt(s, i) \in Half
           /\ s + i \div SinglesPerReg < NumVRegs => WordAt(s, i) \in Nat
<1>0. PICK H, S : H = HalvesPerReg /\ S = SinglesPerReg
  OBVIOUS
<1>1. H \in Nat \ {0} /\ S \in Nat \ {0} /\ H = S * 2 /\ NumVRegs \in Nat \ {0}
  BY <1>0, Sizes
<1>2. i \div H \in Nat /\ i % H \in 0 .. H - 1 /\ i \div S \in Nat /\ i % S \in 0 .. S - 1
  BY <1>1
<1>3. \A r \in 0 .. NumVRegs - 1, k \in 0 .. H - 1 : v[r][k] \in Half
  BY <1>0 DEF VectorTyped
<1>4. ASSUME s + i \div H < NumVRegs PROVE HalfAt(s, i) \in Half
  <2>1. s + i \div H \in 0 .. NumVRegs - 1
    BY <1>1, <1>2, <1>4
  <2>2. v[s + i \div H][i % H] \in Half
    BY <1>2, <1>3, <2>1
  <2>3. QED
    BY <1>0, <2>2 DEF HalfAt
<1>5. ASSUME s + i \div S < NumVRegs PROVE WordAt(s, i) \in Nat
  <2>1. s + i \div S \in 0 .. NumVRegs - 1
    BY <1>1, <1>2, <1>5
  <2>2. 2 * (i % S) \in 0 .. H - 1 /\ 2 * (i % S) + 1 \in 0 .. H - 1
    BY <1>1, <1>2
  <2>3. PICK a, b, h : /\ a = v[s + i \div S][2 * (i % S)]
                       /\ b = v[s + i \div S][2 * (i % S) + 1] /\ h = 2^HalfBits
    OBVIOUS
  <2>4. a \in Half /\ b \in Half /\ h \in Nat
    BY <1>3, <2>1, <2>2, <2>3, Powers
  <2>5. a \in Nat /\ b \in Nat
    BY <2>3, <2>4 DEF Half
  <2>6. a + h * b \in Nat
    BY <2>4, <2>5
  <2>7. QED
    BY <1>0, <2>3, <2>6 DEF WordAt
<1>6. QED
  BY <1>0, <1>4, <1>5

(* The conversion of an element is what the array of halves gives.         *)
LEMMA ConvertedIs ==
    ASSUME VectorTyped, NEW body \in Bodies, NEW active, SourcesInside(active), NEW i \in active
    PROVE  /\ Converted(insn.wide, body, insn.s, i) = FromElement(body, i)
           /\ insn.wide => \E g \in Half : FromElement(body, i).res = g * 2^HalfBits
           /\ ~insn.wide => FromElement(body, i).res \in Half
<1>1. insn.s \in Nat /\ i \in Nat /\ insn.wide \in BOOLEAN
  <2>1. NumVRegs \in Nat
    BY Sizes
  <2>2. QED
    BY <2>1 DEF SourcesInside, VectorTyped
<1>2. /\ HalfAt(insn.s, i) = Flat(v, insn.s * HalvesPerReg + i)
      /\ WordAt(insn.s, i) = Flat(v, insn.s * HalvesPerReg + 2 * i)
                          + 2^HalfBits * Flat(v, insn.s * HalvesPerReg + 2 * i + 1)
  BY <1>1, ElementAt
<1>3. CASE insn.wide
  <2>1. FromElement(body, i) = ConvertBF16ToF32Precise(HalfAt(insn.s, i))
    BY <1>2, <1>3 DEF FromElement
  <2>2. Converted(insn.wide, body, insn.s, i) = ConvertBF16ToF32Precise(HalfAt(insn.s, i))
    BY <1>3 DEF Converted
  <2>3. HalfAt(insn.s, i) \in Half
    BY <1>1, <1>3, HalfIsInside DEF SourcesInside
  <2>4. PICK h \in Half : h = HalfAt(insn.s, i)
    BY <2>3
  <2>5. \E g \in Half : ConvertBF16ToF32Precise(h).res = g * 2^HalfBits
    <3>1. 2^Shift = 2^HalfBits
      BY Sizes
    <3>2. ConvertBF16ToF32Precise(h).res = (IF HalfIsNaN(h) THEN CanonicalHalf ELSE h) * 2^Shift
      BY DEF ConvertBF16ToF32Precise, CanonicalWord
    <3>3. QED
      BY <3>1, <3>2, CanonicalIsHalf
  <2>6. QED
    BY <1>3, <2>1, <2>2, <2>4, <2>5
<1>4. CASE ~insn.wide
  <2>1. FromElement(body, i) = ConvertF32ToBF16(body, WordAt(insn.s, i), frm)
    BY <1>2, <1>4 DEF FromElement
  <2>2. Converted(insn.wide, body, insn.s, i) = ConvertF32ToBF16(body, WordAt(insn.s, i), frm)
    BY <1>4 DEF Converted
  <2>3. WordAt(insn.s, i) \in Nat
    BY <1>1, <1>4, HalfIsInside DEF SourcesInside
  <2>4. ConvertF32ToBF16(body, WordAt(insn.s, i), frm).res \in Half
    BY <2>3, NarrowedIsHalf
  <2>5. QED
    BY <1>4, <2>1, <2>2, <2>4
<1>5. QED
  BY <1>3, <1>4

(* The half that ElementsExact expects at place q.                         *)
Expected(body, q, new) ==
    LET k == q - insn.d * HalvesPerReg
        i == k \div ElementHalves
    IN  IF k >= 0 /\ Selected(body, i)
        THEN new = (FromElement(body, i).res
                      \div 2^(HalfBits * (k % ElementHalves))) % 2^HalfBits
        ELSE new = Flat(v, q)

(* Half c of register r is place k of the group at register d.             *)
PlaceOf(k, r, d, c, H, S) ==
    /\ k >= 0 <=> ~(r < d)
    /\ k \div 1 = (r - d) * H + c /\ k % 1 = 0
    /\ r >= d => k \div 2 = (r - d) * S + c \div 2 /\ k % 2 = c % 2

(* The place of a half among the elements of the destination group.        *)
LEMMA PlaceInGroup ==
    ASSUME NEW H \in Nat \ {0}, NEW S \in Nat, H = S * 2, NEW r \in Nat, NEW d \in Nat,
           NEW c \in 0 .. H - 1, NEW k, k = (r * H + c) - d * H
    PROVE  PlaceOf(k, r, d, c, H, S)
<1>1. PICK e \in Int : e = r - d
  OBVIOUS
<1>2. k = e * H + c
  <2>1. (r - d) * H = r * H - d * H
    OBVIOUS
  <2>2. r * H \in Nat /\ d * H \in Nat
    OBVIOUS
  <2>3. QED
    BY <1>1, <2>1, <2>2
<1>3. k \in Int /\ e * H \in Int
  BY <1>2
<1>4. k >= 0 <=> ~(r < d)
  <2>1. ASSUME r < d PROVE k < 0
    <3>1. e <= -1
      BY <1>1, <2>1
    <3>2. e * H <= -H
      BY <3>1
    <3>3. QED
      BY <1>2, <1>3, <3>2
  <2>2. ASSUME ~(r < d) PROVE k >= 0
    <3>1. e >= 0
      BY <1>1, <2>2
    <3>2. e * H >= 0
      BY <3>1
    <3>3. QED
      BY <1>2, <1>3, <3>2
  <2>3. QED
    BY <2>1, <2>2, <1>3
<1>5. k \div 1 = k /\ k % 1 = 0
  BY <1>3
<1>6. ASSUME r >= d PROVE k \div 2 = (r - d) * S + c \div 2 /\ k % 2 = c % 2
  <2>1. e \in Nat
    BY <1>1, <1>6
  <2>2. PICK a \in Nat, b \in 0 .. 1 : c = a * 2 + b /\ a = c \div 2 /\ b = c % 2
    OBVIOUS
  <2>3. PICK m : m = e * S
    OBVIOUS
  <2>4. m \in Nat /\ e * H = m * 2
    BY <2>1, <2>3
  <2>5. k = (m + a) * 2 + b
    BY <1>2, <1>3, <2>2, <2>4
  <2>6. k \div 2 = m + a /\ k % 2 = b
    BY <2>2, <2>4, <2>5
  <2>7. QED
    BY <1>1, <2>2, <2>3, <2>6
<1>7. QED
  BY <1>1, <1>2, <1>4, <1>5, <1>6 DEF PlaceOf

(* The halves of a converted element.                                      *)
LEMMA HalfOfElement ==
    ASSUME VectorTyped, NEW body \in Bodies, NEW active, SourcesInside(active), NEW i \in active,
           NEW c \in Nat, NEW w, w = Converted(insn.wide, body, insn.s, i).res
    PROVE  (IF ~insn.wide THEN w ELSE IF c % 2 = 0 THEN w % 2^HalfBits ELSE w \div 2^HalfBits)
             = (FromElement(body, i).res \div 2^(HalfBits * (IF insn.wide THEN c % 2 ELSE 0)))
                  % 2^HalfBits
<1>0. PICK B : B = 2^HalfBits
  OBVIOUS
<1>1. B \in Nat \ {0} /\ Half = 0 .. B - 1 /\ HalfBits \in Nat
  BY <1>0, Powers, FormatAssumption DEF Half, HalfBits
<1>2. 2^(HalfBits * 0) = 1 /\ 2^(HalfBits * 1) = B
  <2>1. HalfBits * 0 = 0 /\ HalfBits * 1 = HalfBits
    BY <1>1
  <2>2. 2^0 = 1
    OBVIOUS
  <2>3. QED
    BY <1>0, <2>1, <2>2
<1>3. w = FromElement(body, i).res
  BY ConvertedIs
<1>4. CASE ~insn.wide
  <2>1. w \in Half
    BY <1>3, <1>4, ConvertedIs
  <2>2. (w \div 1) % B = w
    BY <1>1, <2>1
  <2>3. QED
    BY <1>0, <1>2, <1>3, <1>4, <2>2
<1>5. CASE insn.wide
  <2>1. PICK g \in Half : w = g * B
    BY <1>0, <1>3, <1>5, ConvertedIs
  <2>2. g \in Nat /\ g < B /\ w \in Nat
    BY <1>1, <2>1
  <2>3. w \div B = g
    <3>1. (g * B) \div B = g
      BY <1>1, <2>2, Multiple
    <3>2. QED
      BY <2>1, <3>1
  <2>4. CASE c % 2 = 0
    <3>1. w \div 1 = w
      BY <2>2
    <3>2. QED
      BY <1>0, <1>2, <1>3, <1>5, <2>4, <3>1
  <2>5. CASE c % 2 # 0
    <3>1. c % 2 = 1
      BY <2>5
    <3>2. g % B = g
      BY <1>1, <2>2
    <3>3. QED
      BY <1>0, <1>2, <1>3, <1>5, <2>3, <2>5, <3>1, <3>2
  <2>6. QED
    BY <2>4, <2>5
<1>6. insn.wide \in BOOLEAN
  BY DEF VectorTyped
<1>7. QED
  BY <1>4, <1>5, <1>6

(* The element loop writes what is expected, if it runs over the selected  *)
(* elements and they come from the register file.                          *)
LEMMA FinishExact ==
    ASSUME VectorTyped, NEW body \in Bodies, NEW active, SourcesInside(active),
           \A i \in Nat : i \in active <=> Selected(body, i),
           NEW q \in 0 .. NumVRegs * HalvesPerReg - 1
    PROVE  Expected(body, q, Flat(Written(insn.wide, body, insn.d, insn.s, active), q))
<1>0. PICK H, S, r, c, d : /\ H = HalvesPerReg /\ S = SinglesPerReg
                           /\ r = q \div H /\ c = q % H /\ d = insn.d
  OBVIOUS
<1>1. H \in Nat \ {0} /\ S \in Nat \ {0} /\ H = S * 2 /\ NumVRegs \in Nat \ {0}
  BY <1>0, Sizes
<1>2. d \in Nat /\ insn.wide \in BOOLEAN
  BY <1>0, <1>1 DEF VectorTyped
<1>3. q \in Nat /\ q < NumVRegs * H
  BY <1>0, <1>1
<1>4. r \in Nat /\ c \in 0 .. H - 1 /\ q = r * H + c
  <2>1. \A n \in Nat \ {0}, x \in Nat : /\ x \div n \in Nat /\ x % n \in 0 .. n - 1
                                       /\ x = (x \div n) * n + (x % n)
    OBVIOUS
  <2>2. QED
    BY <1>0, <1>1, <1>3, <2>1, Zenon
<1>5. r \in 0 .. NumVRegs - 1
  <2>1. ASSUME r >= NumVRegs PROVE FALSE
    <3>1. r * H >= NumVRegs * H
      BY <1>1, <1>4, <2>1
    <3>2. r * H \in Nat /\ NumVRegs * H \in Nat
      BY <1>1, <1>4
    <3>3. QED
      BY <1>3, <1>4, <3>1, <3>2
  <2>2. QED
    BY <1>1, <1>4, <2>1
<1>6. PICK k, i, j : /\ k = q - d * H /\ i = k \div ElementHalves
                     /\ j = IF insn.wide THEN (r - d) * S + c \div 2 ELSE (r - d) * H + c
  OBVIOUS
<1>7. /\ k >= 0 <=> ~(r < d)
      /\ k \div 1 = (r - d) * H + c /\ k % 1 = 0
      /\ r >= d => k \div 2 = (r - d) * S + c \div 2 /\ k % 2 = c % 2
  <2>1. k = (r * H + c) - d * H
    BY <1>4, <1>6
  <2>2. QED
    <3>1. S \in Nat
      BY <1>1
    <3>2. PlaceOf(k, r, d, c, H, S)
      BY <1>1, <1>2, <1>4, <2>1, <3>1, PlaceInGroup, Zenon
    <3>3. QED
      BY <3>2 DEF PlaceOf
<1>8. ~(r < d) => i = j /\ i \in Nat /\ k % ElementHalves = IF insn.wide THEN c % 2 ELSE 0
  <2>1. r >= d <=> ~(r < d)
    BY <1>2, <1>4
  <2>2. k \in Int
    BY <1>1, <1>2, <1>3, <1>6
  <2>3. k >= 0 => k \div 2 \in Nat /\ k \div 1 \in Nat
    BY <2>2
  <2>4. QED
    BY <1>2, <1>6, <1>7, <2>1, <2>3 DEF ElementHalves
<1>9. PICK w, new : /\ w = Converted(insn.wide, body, insn.s, j).res
                    /\ new = Flat(Written(insn.wide, body, insn.d, insn.s, active), q)
  OBVIOUS
<1>10. new = IF r < d \/ j \notin active THEN v[r][c]
             ELSE IF ~insn.wide THEN w
             ELSE IF c % 2 = 0 THEN w % 2^HalfBits ELSE w \div 2^HalfBits
  BY <1>0, <1>4, <1>5, <1>6, <1>9 DEF Flat, Written
<1>11. Flat(v, q) = v[r][c]
  BY <1>0 DEF Flat
<1>12. CASE r < d
  BY <1>0, <1>6, <1>7, <1>9, <1>10, <1>11, <1>12 DEF Expected
<1>13. CASE ~(r < d) /\ j \notin active
  <2>1. ~Selected(body, i)
    BY <1>8, <1>13
  <2>2. QED
    BY <1>0, <1>6, <1>9, <1>10, <1>11, <1>13, <2>1 DEF Expected
<1>14. CASE ~(r < d) /\ j \in active
  <2>1. k >= 0 /\ Selected(body, i) /\ i = j
    BY <1>7, <1>8, <1>14
  <2>2. new = IF ~insn.wide THEN w
              ELSE IF c % 2 = 0 THEN w % 2^HalfBits ELSE w \div 2^HalfBits
    BY <1>10, <1>14
  <2>3. (IF ~insn.wide THEN w ELSE IF c % 2 = 0 THEN w % 2^HalfBits ELSE w \div 2^HalfBits)
          = (FromElement(body, j).res \div 2^(HalfBits * (IF insn.wide THEN c % 2 ELSE 0)))
              % 2^HalfBits
    BY <1>4, <1>9, <1>14, HalfOfElement
  <2>4. new = (FromElement(body, i).res \div 2^(HalfBits * (k % ElementHalves))) % 2^HalfBits
    BY <1>8, <1>14, <2>1, <2>2, <2>3
  <2>5. QED
    BY <1>0, <1>6, <1>9, <2>1, <2>4 DEF Expected
<1>15. QED
  BY <1>12, <1>13, <1>14

-----------------------------------------------------------------------------
(* The groups of the encoding lie in the register file.                     *)

(* A group of a wide operand is twice one of a narrow operand, or both are *)
(* one register.                                                           *)
LEMMA Counts ==
    ASSUME NEW m \in 0 .. 7, m # 4
    PROVE  /\ WideCount(m) \in Nat \ {0} /\ NarrowCount(m) \in Nat \ {0}
           /\ WideCount(m) = 2 * NarrowCount(m) \/ (WideCount(m) = 1 /\ NarrowCount(m) = 1)
<1>1. 2^0 = 1 /\ 2^1 = 2 /\ 2^2 = 4 /\ 2^3 = 8
  OBVIOUS
<1>2. m \in {0, 1, 2, 3, 5, 6, 7}
  OBVIOUS
<1>3. CASE m = 0
  BY <1>1, <1>3 DEF WideCount, NarrowCount
<1>4. CASE m = 1
  BY <1>1, <1>4 DEF WideCount, NarrowCount
<1>5. CASE m = 2
  BY <1>1, <1>5 DEF WideCount, NarrowCount
<1>6. CASE m = 3
  BY <1>1, <1>6 DEF WideCount, NarrowCount
<1>7. CASE m = 5
  BY <1>1, <1>7 DEF WideCount, NarrowCount
<1>8. CASE m = 6
  BY <1>1, <1>8 DEF WideCount, NarrowCount
<1>9. CASE m = 7
  BY <1>1, <1>9 DEF WideCount, NarrowCount
<1>10. QED
  BY <1>2, <1>3, <1>4, <1>5, <1>6, <1>7, <1>8, <1>9

(* An aligned group that begins in the file ends in it, and so does each   *)
(* of its n elements per register.                                         *)
LEMMA GroupInside ==
    ASSUME NEW c \in Nat \ {0}, NEW N \in Nat, N % c = 0, NEW s \in Nat, s < N, s % c = 0,
           NEW n \in Nat \ {0}, NEW i \in Nat, i < c * n
    PROVE  s + i \div n < N
<1>1. PICK a \in Nat, b \in Nat : a = s \div c /\ b = N \div c
  OBVIOUS
<1>2. s = a * c /\ N = b * c
  BY <1>1
<1>3. a + 1 <= b
  <2>1. ASSUME b <= a PROVE FALSE
    <3>1. b * c <= a * c
      BY <2>1
    <3>2. QED
      BY <1>2, <3>1
  <2>2. QED
    BY <2>1
<1>4. s + c <= N
  <2>1. (a + 1) * c <= b * c /\ (a + 1) * c = a * c + c
    BY <1>3
  <2>2. QED
    BY <1>2, <2>1
<1>5. i \div n < c
  <2>1. PICK x \in Nat, y \in 0 .. n - 1 : i = x * n + y /\ x = i \div n
    OBVIOUS
  <2>2. ASSUME x >= c PROVE FALSE
    <3>1. x * n >= c * n
      BY <2>2
    <3>2. x * n \in Nat /\ c * n \in Nat
      OBVIOUS
    <3>3. QED
      BY <2>1, <3>1, <3>2
  <2>3. QED
    BY <2>1, <2>2
<1>6. i \div n \in Nat
  OBVIOUS
<1>7. QED
  BY <1>4, <1>5, <1>6

(* The registers of the source operand.                                    *)
SourceCount == IF insn.wide THEN NarrowCount(vt.vlmul) ELSE WideCount(vt.vlmul)

(* Every element below vl lies in the source group, which is in the file.  *)
LEMMA VlInside ==
    ASSUME VectorTyped, vt.vlmul # 4, insn.s % SourceCount = 0, NEW i \in Nat,
           i < WideCount(vt.vlmul) * SinglesPerReg
    PROVE  IF insn.wide THEN insn.s + i \div HalvesPerReg < NumVRegs
                        ELSE insn.s + i \div SinglesPerReg < NumVRegs
<1>0. PICK H, S, W, M, N, s : /\ H = HalvesPerReg /\ S = SinglesPerReg
                              /\ W = WideCount(vt.vlmul) /\ M = NarrowCount(vt.vlmul)
                              /\ N = NumVRegs /\ s = insn.s
  OBVIOUS
<1>1. H \in Nat \ {0} /\ S \in Nat \ {0} /\ H = S * 2 /\ N \in Nat \ {0}
  BY <1>0, Sizes
<1>2. /\ W \in Nat \ {0} /\ M \in Nat \ {0} /\ (W = 2 * M \/ (W = 1 /\ M = 1))
  <2>1. vt.vlmul \in 0 .. 7
    BY DEF VectorTyped
  <2>2. QED
    BY <1>0, <2>1, Counts
<1>3. s \in Nat /\ s < N /\ insn.wide \in BOOLEAN /\ N % W = 0 /\ i < W * S
  BY <1>0, <1>1 DEF VectorTyped
<1>4. CASE insn.wide
  <2>1. s % M = 0
    BY <1>0, <1>4 DEF SourceCount
  <2>2. N % M = 0
    <3>1. CASE W = 1 /\ M = 1
      BY <1>1, <3>1
    <3>2. CASE W = 2 * M
      <4>1. PICK b \in Nat : b = N \div W
        BY <1>1, <1>2
      <4>2. N = b * W
        BY <1>1, <1>2, <1>3, <4>1
      <4>3. N = (b * 2) * M
        BY <1>2, <3>2, <4>2
      <4>4. b * 2 \in Nat
        OBVIOUS
      <4>5. PICK g \in Nat : g = b * 2
        BY <4>4
      <4>6. (g * M + 0) % M = 0
        BY <1>2, Quotient
      <4>7. g * M + 0 = N
        BY <1>1, <1>2, <4>3, <4>5
      <4>8. QED
        BY <4>6, <4>7
    <3>3. QED
      BY <1>2, <3>1, <3>2
  <2>3. i < M * H
    <3>1. CASE W = 1 /\ M = 1
      BY <1>1, <1>3, <3>1
    <3>2. CASE W = 2 * M
      <4>1. M * H = W * S
        BY <1>1, <1>2, <3>2
      <4>2. QED
        BY <1>3, <4>1
    <3>3. QED
      BY <1>2, <3>1, <3>2
  <2>4. s + i \div H < N
    <3>1. M \in Nat \ {0} /\ N \in Nat /\ s \in Nat /\ s < N /\ H \in Nat \ {0}
      BY <1>1, <1>2, <1>3
    <3>2. QED
      BY <2>1, <2>2, <2>3, <3>1, GroupInside
  <2>5. QED
    BY <1>0, <1>4, <2>4
<1>5. CASE ~insn.wide
  <2>1. s % W = 0
    BY <1>0, <1>5 DEF SourceCount
  <2>2. s + i \div S < N
    <3>1. W \in Nat \ {0} /\ N \in Nat /\ s \in Nat /\ s < N /\ S \in Nat \ {0}
      BY <1>1, <1>2, <1>3
    <3>2. QED
      BY <1>3, <2>1, <3>1, GroupInside
  <2>3. QED
    BY <1>0, <1>5, <2>2
<1>6. QED
  BY <1>3, <1>4, <1>5
-----------------------------------------------------------------------------
(* The vector conversions.                                                  *)

(* What ElementsExact asks of a step.                                      *)
StepExact ==
    (IsVector /\ status' \in {"base", "m3"}) =>
      \A q \in 0 .. NumVRegs * HalvesPerReg - 1 :
        LET k == q - insn.d * HalvesPerReg
            i == k \div ElementHalves
        IN  IF k >= 0 /\ Selected(status', i)
            THEN Flat(v', q) = (FromElement(status', i).res
                                  \div 2^(HalfBits * (k % ElementHalves))) % 2^HalfBits
            ELSE Flat(v', q) = Flat(v, q)

(* A vector instruction that waits has a typed register file.              *)
VectorReady == (IsVector /\ status = "ready") => VectorTyped

(* A completed conversion of the selected elements is exact.               *)
LEMMA FinishStep ==
    ASSUME VectorTyped, NEW body \in {"base", "m3"}, NEW active, SourcesInside(active),
           \A i \in Nat : i \in active <=> Selected(body, i), NEW start,
           FinishVector(insn.wide, body, insn.d, insn.s, active, start)
    PROVE  StepExact
<1>1. v' = Written(insn.wide, body, insn.d, insn.s, active) /\ status' = body
  BY DEF FinishVector
<1>2. body \in Bodies
  BY DEF Bodies
<1>3. \A q \in 0 .. NumVRegs * HalvesPerReg - 1 :
         Expected(body, q, Flat(Written(insn.wide, body, insn.d, insn.s, active), q))
  BY <1>2, FinishExact
<1>4. \A q \in 0 .. NumVRegs * HalvesPerReg - 1 : Expected(status', q, Flat(v', q))
  BY <1>1, <1>3
<1>5. QED
  BY <1>4 DEF StepExact, Expected

(* The M3 body.                                                            *)
LEMMA M3Exact ==
    ASSUME VectorTyped, M3Convert(insn.wide, insn.d, insn.s)
    PROVE  StepExact
<1>1. PICK dst, sg, active :
        /\ dst = IF insn.wide THEN WideGroup(insn.d) ELSE NarrowGroup(insn.d)
        /\ sg = IF insn.wide THEN NarrowGroup(insn.s) ELSE WideGroup(insn.s)
        /\ active = {i \in vt.vstart .. vt.vl - 1 : vt.masked => MaskBit(i)}
  OBVIOUS
<1>2. \/ Trap
      \/ /\ ~M3Illegal(insn.wide, dst, sg)
         /\ FinishVector(insn.wide, "m3", insn.d, insn.s, active, 0)
  BY <1>1 DEF M3Convert
<1>3. CASE Trap
  BY <1>3 DEF Trap, StepExact
<1>4. CASE /\ ~M3Illegal(insn.wide, dst, sg)
           /\ FinishVector(insn.wide, "m3", insn.d, insn.s, active, 0)
  <2>1. sg # Null
    BY <1>4 DEF M3Illegal
  <2>2. vt.vlmul # 4 /\ insn.s % SourceCount = 0
    BY <1>1, <2>1 DEF WideGroup, NarrowGroup, Group, SourceCount
  <2>3. vt.vl \in Nat /\ vt.vstart \in Nat
    BY DEF VectorTyped
  <2>4. \A i \in active : i \in Nat /\ i < vt.vl
    BY <1>1, <2>3
  <2>5. PICK n \in Nat : n = WideCount(vt.vlmul) * SinglesPerReg
    <3>1. vt.vlmul \in 0 .. 7
      BY DEF VectorTyped
    <3>2. QED
      BY <2>2, <3>1, Counts, Sizes
  <2>6. vt.vl <= n
    BY <2>2, <2>5 DEF VectorTyped
  <2>7. \A i \in active : i \in Nat /\ i < n
    BY <2>3, <2>4, <2>6
  <2>8. SourcesInside(active)
    BY <2>2, <2>5, <2>7, VlInside DEF SourcesInside
  <2>9. \A i \in Nat : i \in active <=> Selected("m3", i)
    <3>1. ASSUME NEW i \in Nat PROVE i \in active <=> Selected("m3", i)
      <4>1. i \in vt.vstart .. vt.vl - 1 <=> vt.vstart <= i /\ i < vt.vl
        BY <2>3
      <4>2. MaskBit(i) <=> Bit(v[0][i \div HalfBits], i % HalfBits)
        BY DEF MaskBit, Bit
      <4>3. QED
        BY <1>1, <4>1, <4>2 DEF Selected
    <3>2. QED
      BY <3>1
  <2>10. QED
    BY <1>4, <2>8, <2>9, FinishStep
<1>5. QED
  BY <1>2, <1>3, <1>4

(* The base body: one register of elements, and LMUL is one.               *)
LEMMA BaseExact ==
    ASSUME VectorTyped, BaseConvert(insn.wide, insn.d, insn.s)
    PROVE  StepExact
<1>1. PICK dst, sg, active :
        /\ dst = IF insn.wide THEN WideGroup(insn.d) ELSE NarrowGroup(insn.d)
        /\ sg = IF insn.wide THEN NarrowGroup(insn.s) ELSE WideGroup(insn.s)
        /\ active = 0 .. (IF insn.wide THEN SinglesPerReg ELSE HalvesPerReg) - 1
  OBVIOUS
<1>2. \/ Trap
      \/ /\ ~VectorIllegal(insn.wide, dst, insn.d, sg, insn.s) /\ sg # Null
         /\ FinishVector(insn.wide, "base", insn.d, insn.s, active, vt.vstart)
  BY <1>1 DEF BaseConvert
<1>3. CASE Trap
  BY <1>3 DEF Trap, StepExact
<1>4. CASE /\ ~VectorIllegal(insn.wide, dst, insn.d, sg, insn.s) /\ sg # Null
           /\ FinishVector(insn.wide, "base", insn.d, insn.s, active, vt.vstart)
  <2>1. vt.vlmul = 0
    BY <1>4 DEF VectorIllegal
  <2>2. vt.vlmul # 4 /\ insn.s % SourceCount = 0
    BY <1>1, <1>4, <2>1 DEF WideGroup, NarrowGroup, Group, SourceCount
  <2>3. PICK H, S : H = HalvesPerReg /\ S = SinglesPerReg
    OBVIOUS
  <2>4. H \in Nat \ {0} /\ S \in Nat \ {0} /\ H = S * 2 /\ insn.wide \in BOOLEAN
    BY <2>3, Sizes DEF VectorTyped
  <2>5. PICK W : W = WideCount(vt.vlmul)
    OBVIOUS
  <2>6. W = 2
    <3>1. 2^0 = 1
      OBVIOUS
    <3>2. QED
      BY <2>1, <2>5, <3>1 DEF WideCount
  <2>7. \A i \in active : i \in Nat /\ i < W * S
    <3>1. active = 0 .. (IF insn.wide THEN S ELSE H) - 1
      BY <1>1, <2>3
    <3>2. QED
      BY <2>4, <2>6, <3>1
  <2>8. SourcesInside(active)
    BY <2>2, <2>3, <2>5, <2>7, VlInside DEF SourcesInside
  <2>9. \A i \in Nat : i \in active <=> Selected("base", i)
    <3>1. H \div ElementHalves = IF insn.wide THEN S ELSE H
      BY <2>4 DEF ElementHalves
    <3>2. \A i : Selected("base", i) <=> i < H \div ElementHalves
      BY <2>3 DEF Selected
    <3>3. PICK n \in Nat : n = IF insn.wide THEN S ELSE H
      BY <2>4
    <3>4. active = 0 .. n - 1
      BY <1>1, <2>3, <3>3
    <3>5. QED
      BY <3>1, <3>2, <3>3, <3>4
  <2>10. QED
    BY <1>4, <2>8, <2>9, FinishStep
<1>5. QED
  BY <1>2, <1>3, <1>4

(* An instruction runs once: what it leaves does not wait again.           *)
LEMMA VectorOnce ==
    ASSUME [Next]_fpvars, VectorReady
    PROVE  VectorReady'
<1>1. CASE UNCHANGED fpvars
  BY <1>1 DEF fpvars, VectorReady, VectorTyped, IsVector
<1>2. CASE Next /\ IsVector
  <2>1. status' \in {"trap", "m3", "base"}
    BY <1>2 DEF Next, Vector, M3Convert, BaseConvert, Trap, FinishVector
  <2>2. QED
    BY <2>1 DEF VectorReady
<1>3. CASE Next /\ ~IsVector
  <2>1. vt' = vt
    BY <1>3 DEF Next, Scalar, FcvtBf16S, FcvtSBf16, Reuse, Trap, Complete
  <2>2. QED
    BY <1>3, <2>1 DEF VectorReady, IsVector
<1>4. QED
  BY <1>1, <1>2, <1>3

(* Every step is exact.                                                    *)
LEMMA EveryStepExact ==
    ASSUME [Next]_fpvars, VectorReady
    PROVE  [StepExact]_fpvars
<1>1. CASE UNCHANGED fpvars
  BY <1>1
<1>2. CASE Next /\ ~IsVector
  BY <1>2 DEF StepExact
<1>3. CASE Next /\ IsVector
  <2>1. VectorTyped
    BY <1>3 DEF VectorReady, Next, Vector
  <2>2. QED
    BY <1>3, <2>1, M3Exact, BaseExact DEF Next, Vector
<1>4. QED
  BY <1>1, <1>2, <1>3

(* For every format, every register length and number of registers, and    *)
(* every LMUL: a vector conversion of either body (Vfwcvtbf16ffv and       *)
(* Vfncvtbf16ffw) writes to the selected elements, and to nothing else,    *)
(* what they were in the source group before the instruction, converted.   *)
THEOREM ElementsAreExact == Spec => ElementsExact
<1>1. Init => VectorReady
  <2>1. SUFFICES ASSUME NEW c \in Scenarios, v = c.v, vt = c.vt, insn = c.insn, IsVector
                 PROVE  VectorTyped
    BY DEF Init, Start, VectorReady
  <2>2. QED
    BY <2>1, ScenarioAssumption DEF IsVector, VectorTyped
<1>2. [Next]_fpvars /\ VectorReady => VectorReady'
  BY VectorOnce
<1>3. [Next]_fpvars /\ VectorReady => [StepExact]_fpvars
  BY EveryStepExact
<1>4. ElementsExact <=> [][StepExact]_fpvars
  BY DEF ElementsExact, StepExact
<1>5. QED
  BY <1>1, <1>2, <1>3, <1>4, PTL DEF Spec
=============================================================================
