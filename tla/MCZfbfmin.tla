----------------------------- MODULE MCZfbfmin -----------------------------
(* Five-bit halves and ten-bit singles: two exponent bits (subnormals, two  *)
(* normal binades, infinity) and two significand bits, so that every NaN    *)
(* kind exists; every single is tried.  Eight vector registers of four      *)
(* halves hold different numbers, NaNs among them.                          *)
EXTENDS Zfbfmin

Contents(k) == [r \in 0 .. NumVRegs - 1 |->
                  [i \in 0 .. HalvesPerReg - 1 |-> (5 + k * (r * HalvesPerReg + i)) % 2^HalfBits]]

NoInsn == [wide |-> FALSE, d |-> 0, s |-> 0]
NoVector == [vlmul |-> 0, vill |-> FALSE, vl |-> None, vstart |-> 0, masked |-> FALSE]

\* The instruction's rounding mode, and frm where it is dynamic.
Modes == {<<m, 0>> : m \in 0 .. 6} \cup {<<Dynamic, f>> : f \in {0, 3, 4, 5}}

ScalarScenarios ==
    {[src |-> [hi |-> h, lo |-> w], rm |-> m[1], frm |-> m[2], fflags |-> {},
      fs |-> s, vs |-> 1, v |-> Contents(0), vt |-> NoVector, insn |-> NoInsn] :
        h \in BOOLEAN, w \in Word, m \in {<<0, 0>>, <<Dynamic, 3>>}, s \in {1}}
    \cup
    {[src |-> [hi |-> h, lo |-> w], rm |-> m[1], frm |-> m[2], fflags |-> {},
      fs |-> s, vs |-> 1, v |-> Contents(0), vt |-> NoVector, insn |-> NoInsn] :
        h \in {TRUE}, w \in {0, 37, CanonicalWord + 1, 2^WordBits - 1, 2^WordBits - 7},
        m \in Modes, s \in {0, 1}}

\* [vlmul, vl]: full, partial and two-register groups, LMUL 1/2, a reserved
\* LMUL, and an illegal vtype.
VTypes ==
    {[vlmul |-> mul, vill |-> FALSE, vl |-> n, vstart |-> p, masked |-> m] :
        mul \in {0, 1, 4, 7}, n \in {2, 4, 7}, p \in {0, 1}, m \in BOOLEAN}

Legal(t) == t.vl <= (CASE t.vlmul = 7 -> HalvesPerReg \div 2
                       [] t.vlmul = 1 -> 2 * HalvesPerReg
                       [] OTHER -> HalvesPerReg)

Insns == [wide : BOOLEAN, d : 0 .. NumVRegs - 1, s : {0, 2, 4, 5}]

VectorScenarios ==
    {[src |-> BoxWord(0), rm |-> Dynamic, frm |-> f, fflags |-> {"UF"},
      fs |-> 1, vs |-> 1, v |-> Contents(k), vt |-> t, insn |-> x] :
        f \in {3, 5}, k \in {7}, t \in {t \in VTypes : Legal(t)}, x \in Insns}
    \cup
    {[src |-> BoxWord(0), rm |-> Dynamic, frm |-> 0, fflags |-> {},
      fs |-> e[1], vs |-> e[2], v |-> Contents(11),
      vt |-> [vlmul |-> 0, vill |-> e[3], vl |-> 4, vstart |-> 0, masked |-> FALSE],
      insn |-> x] :
        x \in Insns, e \in {<<0, 1, FALSE>>, <<1, 0, FALSE>>, <<1, 1, TRUE>>, <<1, 1, FALSE>>}}

MCScenarios == ScalarScenarios \cup VectorScenarios
=============================================================================
