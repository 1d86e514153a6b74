---------------------------- MODULE MCVectorUnit ----------------------------
(* Registers of 16 bytes (four words), elements of one and two bytes, and  *)
(* programs: every lane instruction alone, with its destination apart from *)
(* its sources and on top of each; every walk through memory; and the      *)
(* sequences in which a narrowing follows a widening.  The lane functions  *)
(* are sampled beside them: lanes of 4 bits exhaustively, and lanes as     *)
(* wide as int (8 bits) with the first operand at the boundaries of the    *)
(* signed and unsigned types, at powers of two and at mixed patterns.      *)
EXTENDS VectorUnit, LaneArith

MCOperands(n) ==
    IF n <= 4 THEN 0 .. 2 ^ n - 1
    ELSE {0, 1, 2, 3, 5, 63, 64, 85, 126, 127, 128, 129, 130, 170, 192, 200, 254, 255}

Lane(kind, size, strip, vd, vs1, vs2, index) ==
    [kind |-> kind, size |-> size, strip |-> strip, vd |-> vd, vs1 |-> vs1,
     vs2 |-> vs2, index |-> index]

SizesOf(kind) == IF kind = "srans4" THEN {1} ELSE {1, 2}
StripsOf(kind) == IF kind \in {"slidehn", "slidehp"} THEN {TRUE} ELSE BOOLEAN
IndicesOf(kind) == IF kind \in Slides THEN 1 .. 3 ELSE {0}

LanePrograms ==
    UNION {{<<Lane(k, s, m, vd, 8, 24, idx)>> :
                s \in SizesOf(k), m \in StripsOf(k), idx \in IndicesOf(k), vd \in {0, 8, 24}} :
              k \in Kinds}

Memory(kind, size, strip, len, str, post, arg, xs2, quad, vd) ==
    [kind |-> kind, size |-> size, strip |-> strip, len |-> len, str |-> str,
     post |-> post, arg |-> arg, xs2 |-> xs2, quad |-> quad, vd |-> vd,
     ptr |-> IF kind = "vst" THEN "st" ELSE "ld"]

Walk(size, strip, len, str, post, arg, xs2) ==
    [n \in 1 .. 4 |-> Memory(IF n <= 2 THEN "vst" ELSE "vld", size, strip, len, str,
                             post, arg, xs2, FALSE, 4 * (n - 1))]

GetVlOf(size, strip, n) ==
    [kind |-> "getvl", size |-> size, strip |-> strip, arg |-> n]

MemoryPrograms ==
    UNION {
      {Walk(s, m, FALSE, FALSE, "x", 0, "arg") : s \in {1, 2}, m \in BOOLEAN},
      {Walk(s, m, FALSE, FALSE, "xx", 64, "arg") : s \in {1, 2}, m \in BOOLEAN},
      {Walk(2, m, TRUE, FALSE, "x", n, "arg") : m \in BOOLEAN, n \in {0, 1, 8, 13, 40}},
      {Walk(2, m, FALSE, TRUE, "x", n, "arg") : m \in BOOLEAN, n \in {8, 9}},
      {Walk(2, m, TRUE, TRUE, "x", n, "arg") : m \in BOOLEAN, n \in {5, 8, 16, 24}},
      {<<GetVlOf(2, m, n)>> \o Walk(2, m, TRUE, FALSE, "x", 0, "vl") :
            m \in BOOLEAN, n \in {3, 50}},
      {[Walk(1, m, FALSE, TRUE, "x", 4, "arg") EXCEPT ![1].quad = TRUE, ![2].quad = TRUE,
            ![3].str = FALSE, ![4].str = FALSE] : m \in BOOLEAN},
      {<<[kind |-> "vdup", size |-> 2, strip |-> TRUE, vd |-> 0],
         Memory("vst", 1, FALSE, FALSE, FALSE, "none", 0, "arg", FALSE, 0)>>}}

Conv(start, stop) ==
    [kind |-> "aconv", mode |-> 0, start |-> start, stop |-> stop, vs1 |-> 0, vs3 |-> 8]
VcGetTo(v) == [kind |-> "vcget", vd |-> v]
Dwconv(regbase, sparsity) ==
    [kind |-> "dwconv", regbase |-> regbase, sparsity |-> sparsity, vs1 |-> 0,
     vs3 |-> 12, vd |-> 16, write_acc |-> TRUE]

OrderPrograms ==
    UNION {
      {<<Lane("widen", s, m, 0, 8, 24, 0), Lane("srans2", s, m, 12, 0, 24, 0)>> :
            s \in {1, 2}, m \in BOOLEAN},
      {<<Lane("zip", s, m, 0, 8, 24, 0), Lane("evnodd", s, m, 12, 0, 4, 0)>> :
            s \in {1, 2}, m \in {TRUE}},
      {<<Lane("zip", 1, FALSE, 0, 8, 24, 0), Lane("evnodd", 1, FALSE, 12, 0, 1, 0)>>},
      {<<Conv(p[1], p[2]), VcGetTo(16), Lane("srans4", 1, FALSE, 24, 16, 28, 0)>> :
            p \in {<<0, 3>>, <<1, 2>>, <<3, 3>>, <<2, 1>>, <<0, 4>>}},
      {<<[kind |-> "adwinit", vs1 |-> 20, vd |-> 24], Dwconv(b, sparse),
         Lane("srans4", 1, FALSE, 24, 16, 28, 0)>> : b \in 0 .. 15, sparse \in 0 .. 3},
      {<<[kind |-> k, vs1 |-> 0], VcGetTo(8)>> : k \in {"acset", "actr"}}}

MCPrograms == LanePrograms \cup MemoryPrograms \cup OrderPrograms

(* A behaviour executes one program, or samples one operand of the lanes.  *)
MCInit ==
    \/ Init /\ LaneIdle
    \/ Reset /\ code = <<>> /\ LaneInit

MCNext ==
    \/ Next /\ UNCHANGED lanevars
    \/ NextOperand /\ UNCHANGED vars

MCSpec == MCInit /\ [][MCNext]_<<vars, lanevars>>
=============================================================================
