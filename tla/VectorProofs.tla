---------------------------- MODULE VectorProofs ----------------------------
(***************************************************************************)
(* Proofs about the first vector extension: that the lane functions round  *)
(* and saturate as they say, for every width of a lane and every operand;  *)
(* that the getters stay inside of the register groups of their operands;  *)
(* and that the op loop computes every element from the right ones.        *)
(***************************************************************************)
EXTENDS VectorUnit, LaneArith, TLAPS

-----------------------------------------------------------------------------
(* Integers.                                                               *)

(* A number has one quotient and one remainder.                            *)
LEMMA UniqueRemainder ==
    ASSUME NEW n \in Nat \ {0}, NEW q \in Int, NEW r \in 0 .. n - 1
    PROVE  (q * n + r) % n = r /\ (q * n + r) \div n = q
  OBVIOUS

(* A quotient is the largest one that fits.                                *)
LEMMA IntDivision ==
    ASSUME NEW n \in Nat \ {0}, NEW v \in Int
    PROVE  v \div n \in Int /\ (v \div n) * n <= v /\ v < (v \div n) * n + n
  OBVIOUS

(* A number is its quotient times the divisor and a remainder.             *)
LEMMA Remainder ==
    ASSUME NEW n \in Nat \ {0}, NEW v \in Int
    PROVE  /\ v % n \in 0 .. n - 1 /\ v \div n \in Int
           /\ v = (v \div n) * n + (v % n)
  OBVIOUS

(* Adding a multiple of the divisor leaves the remainder.                  *)
LEMMA SameRemainder ==
    ASSUME NEW n \in Nat \ {0}, NEW v \in Int, NEW k \in Int
    PROVE  (v + k * n) % n = v % n
<1>1. PICK q \in Int, r \in 0 .. n - 1 : r = v % n /\ v = q * n + r
  BY Remainder
<1>2. PICK u \in Int : u = q + k
  OBVIOUS
<1>3. v + k * n = u * n + r
  BY <1>1, <1>2
<1>4. (u * n + r) % n = r
  BY UniqueRemainder
<1>5. QED
  BY <1>1, <1>3, <1>4, Zenon

-----------------------------------------------------------------------------
(* Products of numbers of a lane type.                                     *)

(* Products of lanes of m values on each side of zero.                     *)
LEMMA ProductBounds ==
    ASSUME NEW m \in Nat \ {0}, NEW a \in -m .. m - 1, NEW b \in -m .. m - 1
    PROVE  /\ a * b \in Int /\ -(m * (m - 1)) <= a * b /\ a * b <= m * m
           /\ ~(a = -m /\ b = -m) => a * b <= m * (m - 1)
<1>1. CASE a >= 0 /\ b >= 0
  OBVIOUS
<1>2. CASE a >= 0 /\ b < 0
  OBVIOUS
<1>3. CASE a < 0 /\ b >= 0
  OBVIOUS
<1>4. CASE a < 0 /\ b < 0
  OBVIOUS
<1>5. QED
  BY <1>1, <1>2, <1>3, <1>4

-----------------------------------------------------------------------------
(* Casts.                                                                  *)

(* A type of n bits has p values, m of them on each side of zero when it   *)
(* is signed.                                                              *)
HalfRange(n, m, p) ==
    /\ m \in Nat \ {0} /\ p \in Nat \ {0} /\ p = 2 * m
    /\ 2 ^ (n - 1) = m /\ 2 ^ n = p

(* The numbers of a type lie between its limits.                           *)
LEMMA Limits ==
    ASSUME NEW n, NEW m \in Nat, NEW p \in Nat, HalfRange(n, m, p), NEW sg \in BOOLEAN
    PROVE  /\ Lowest(sg, n) = (IF sg THEN -m ELSE 0)
           /\ Highest(sg, n) = (IF sg THEN m - 1 ELSE p - 1)
           /\ Lowest(sg, n) \in Int /\ Highest(sg, n) \in Int
  BY DEF HalfRange, Lowest, Highest

(* A number and its remainder, when it is less than p away from the type.  *)
LEMMA NearRemainder ==
    ASSUME NEW p \in Nat \ {0}, NEW r \in Int
    PROVE  /\ r \in 0 .. p - 1 => r % p = r
           /\ r + p \in 0 .. p - 1 => r % p = r + p
<1>1. ASSUME NEW t \in 0 .. p - 1 PROVE t % p = t
  <2>1. t = 0 * p + t
    OBVIOUS
  <2>2. QED
    BY <2>1, UniqueRemainder
<1>2. PICK one \in Int : one = 1
  OBVIOUS
<1>3. (r + p) % p = r % p
  <2>1. (r + one * p) % p = r % p
    BY SameRemainder
  <2>2. r + one * p = r + p
    BY <1>2
  <2>3. QED
    BY <2>1, <2>2
<1>4. QED
  BY <1>1, <1>3

(* A cast returns the number of the type that is congruent to v.           *)
LEMMA CastUnique ==
    ASSUME NEW n, NEW m \in Nat, NEW p \in Nat, HalfRange(n, m, p), NEW sg \in BOOLEAN,
           NEW r \in Int, NEW k \in Int,
           Lowest(sg, n) <= r, r <= Highest(sg, n)
    PROVE  Cast(sg, n, r + k * p) = r
<1>1. m \in Nat \ {0} /\ p \in Nat \ {0} /\ p = 2 * m /\ 2 ^ n = p
  BY DEF HalfRange
<1>2. PICK u : u = (r + k * p) % p
  OBVIOUS
<1>3. u = r % p
  BY <1>1, <1>2, SameRemainder
<1>4. /\ sg => -m <= r /\ r <= m - 1
      /\ ~sg => 0 <= r /\ r <= p - 1
  BY <1>1, Limits
<1>5. Cast(sg, n, r + k * p) = IF sg /\ u > m - 1 THEN u - p ELSE u
  BY <1>1, <1>2, Limits DEF Cast
<1>6. CASE r >= 0
  <2>1. r \in 0 .. p - 1
    BY <1>1, <1>4, <1>6
  <2>2. u = r
    BY <1>1, <1>3, <2>1, NearRemainder
  <2>3. QED
    BY <1>1, <1>4, <1>5, <2>2
<1>7. CASE r < 0
  <2>1. r + p \in 0 .. p - 1
    BY <1>1, <1>4, <1>7
  <2>2. u = r + p
    BY <1>1, <1>3, <2>1, NearRemainder
  <2>3. QED
    BY <1>1, <1>4, <1>5, <1>7, <2>2
<1>8. QED
  BY <1>6, <1>7

(* u and v differ by a multiple of p.                                      *)
Congruent(u, v, p) == \E k \in Int : u = v + k * p

(* A cast is congruent to its argument, and a number of the type.          *)
LEMMA CastCongruent ==
    ASSUME NEW n, NEW m \in Nat, NEW p \in Nat, HalfRange(n, m, p), NEW sg \in BOOLEAN, NEW v \in Int
    PROVE  /\ Cast(sg, n, v) \in Int
           /\ Lowest(sg, n) <= Cast(sg, n, v) /\ Cast(sg, n, v) <= Highest(sg, n)
           /\ Congruent(v, Cast(sg, n, v), p)
<1>1. m \in Nat \ {0} /\ p \in Nat \ {0} /\ p = 2 * m /\ 2 ^ n = p
  BY DEF HalfRange
<1>2. PICK q \in Int, u \in 0 .. p - 1 : u = v % p /\ v = q * p + u
  BY <1>1, Remainder
<1>3. Cast(sg, n, v) = IF sg /\ u > m - 1 THEN u - p ELSE u
  BY <1>1, <1>2, Limits DEF Cast
<1>4. q + 1 \in Int /\ v = (u - p) + (q + 1) * p /\ v = u + q * p
  BY <1>1, <1>2
<1>5. PICK c : c = Cast(sg, n, v)
  OBVIOUS
<1>6. c \in Int /\ Congruent(v, c, p)
  <2>1. c = u \/ c = u - p
    BY <1>3, <1>5
  <2>2. u \in Int /\ u - p \in Int
    BY <1>1, <1>2
  <2>3. QED
    BY <1>2, <1>4, <2>1, <2>2, Zenon DEF Congruent
<1>7. IF sg THEN -m <= c /\ c <= m - 1 ELSE 0 <= c /\ c <= p - 1
  BY <1>1, <1>3, <1>5
<1>8. Lowest(sg, n) <= c /\ c <= Highest(sg, n)
  BY <1>7, Limits
<1>9. QED
  BY <1>5, <1>6, <1>8

(* A number of the type is its own cast.                                   *)
LEMMA CastExact ==
    ASSUME NEW n, NEW m \in Nat, NEW p \in Nat, HalfRange(n, m, p), NEW sg \in BOOLEAN, NEW v \in Int,
           Lowest(sg, n) <= v, v <= Highest(sg, n)
    PROVE  Cast(sg, n, v) = v
<1>1. PICK k \in Int : k = 0
  OBVIOUS
<1>2. v = v + k * p
  BY <1>1
<1>3. QED
  BY <1>2, CastUnique

(* The powers of two of a lane.                                            *)
LEMMA WidthFacts ==
    ASSUME NEW n \in Widths
    PROVE  \E h \in Nat \ {0} :
              /\ n \in Nat /\ n >= 2 /\ n <= IntBits /\ IntBits \in Nat
              /\ 2 ^ (n - 2) = h /\ 2 ^ (n - 1) = 2 * h /\ 2 ^ n = 4 * h
              /\ HalfRange(n, 2 * h, 4 * h) /\ HalfRange(2 * n, 8 * h * h, 16 * h * h)
<1>1. n \in Nat /\ n >= 2 /\ n <= IntBits /\ IntBits \in Nat
  BY WidthsAssumption
<1>2. PICK h : h = 2 ^ (n - 2)
  OBVIOUS
<1>3. h \in Nat \ {0}
  BY <1>1, <1>2, LanePowers
<1>4. 2 ^ (n - 1) = 2 * h
  <2>1. n - 2 \in 0 .. 2 * IntBits /\ n - 2 < 2 * IntBits /\ n - 1 = (n - 2) + 1
    BY <1>1
  <2>2. QED
    BY <1>2, <2>1, LanePowers
<1>5. 2 ^ n = 4 * h
  <2>1. n - 1 \in 0 .. 2 * IntBits /\ n - 1 < 2 * IntBits /\ n = (n - 1) + 1
    BY <1>1
  <2>2. 2 ^ n = 2 * 2 ^ (n - 1)
    BY <2>1, LanePowers
  <2>3. QED
    BY <1>3, <1>4, <2>2
<1>6. 2 ^ (2 * n) = (4 * h) * (4 * h)
  <2>1. 2 * n = n + n /\ n \in 0 .. IntBits
    BY <1>1
  <2>2. QED
    BY <1>5, <2>1, LanePowers
<1>7. 2 ^ (2 * n - 1) = (2 * h) * (4 * h)
  <2>1. 2 * n - 1 = (n - 1) + n /\ n \in 0 .. IntBits /\ n - 1 \in 0 .. IntBits
    BY <1>1
  <2>2. QED
    BY <1>4, <1>5, <2>1, LanePowers
<1>8. (2 * h) * (4 * h) = 8 * h * h /\ (4 * h) * (4 * h) = 16 * h * h
      /\ 16 * h * h = 2 * (8 * h * h) /\ 16 * h * h \in Nat \ {0} /\ 4 * h \in Nat \ {0}
      /\ 8 * h * h \in Nat \ {0} /\ 2 * h \in Nat \ {0} /\ 4 * h = 2 * (2 * h)
  BY <1>3
<1>9. HalfRange(n, 2 * h, 4 * h) /\ HalfRange(2 * n, 8 * h * h, 16 * h * h)
  BY <1>4, <1>5, <1>6, <1>7, <1>8 DEF HalfRange
<1>10. QED
  BY <1>1, <1>2, <1>3, <1>4, <1>5, <1>9

(* The cast of a number that is less than p away from the type.            *)
LEMMA CastNear ==
    ASSUME NEW n, NEW m \in Nat, NEW p \in Nat, HalfRange(n, m, p), NEW sg \in BOOLEAN, NEW v \in Int
    PROVE  /\ Lowest(sg, n) <= v /\ v <= Highest(sg, n) => Cast(sg, n, v) = v
           /\ Lowest(sg, n) <= v + p /\ v + p <= Highest(sg, n) => Cast(sg, n, v) = v + p
           /\ Lowest(sg, n) <= v - p /\ v - p <= Highest(sg, n) => Cast(sg, n, v) = v - p
<1>1. p \in Nat
  BY DEF HalfRange
<1>2. PICK k \in Int, j \in Int : k = -1 /\ j = 1
  OBVIOUS
<1>3. v = (v + p) + k * p /\ v = (v - p) + j * p /\ v + p \in Int /\ v - p \in Int
  BY <1>1, <1>2
<1>4. ASSUME Lowest(sg, n) <= v + p, v + p <= Highest(sg, n) PROVE Cast(sg, n, v) = v + p
  <2>1. PICK r \in Int : r = v + p /\ v = r + k * p
    BY <1>3
  <2>2. QED
    BY <1>4, <2>1, CastUnique
<1>5. ASSUME Lowest(sg, n) <= v - p, v - p <= Highest(sg, n) PROVE Cast(sg, n, v) = v - p
  <2>1. PICK r \in Int : r = v - p /\ v = r + j * p
    BY <1>3
  <2>2. QED
    BY <1>5, <2>1, CastUnique
<1>6. QED
  BY <1>4, <1>5, CastExact

-----------------------------------------------------------------------------
(* Lanes.                                                                  *)

(* The numbers of the lane type.                                           *)
InLane(sg, v) == v \in Int /\ Lowest(sg, w) <= v /\ v <= Highest(sg, w)

(* The lane has p values, m on each side of zero, and its products fit in  *)
(* the type of twice the width.                                            *)
LaneRange(m, p) ==
    /\ HalfRange(w, m, p) /\ m >= 2
    /\ HalfRange(2 * w, m * p, p * p)

(* A sampled lane has such a range.                                        *)
LEMMA LaneHasRange ==
    ASSUME w \in Widths
    PROVE  \E m, p \in Nat : LaneRange(m, p)
<1>1. PICK h \in Nat \ {0} : HalfRange(w, 2 * h, 4 * h) /\ HalfRange(2 * w, 8 * h * h, 16 * h * h)
  BY WidthFacts
<1>2. 8 * h * h = (2 * h) * (4 * h) /\ 16 * h * h = (4 * h) * (4 * h) /\ 2 * h >= 2
  OBVIOUS
<1>3. LaneRange(2 * h, 4 * h)
  BY <1>1, <1>2 DEF LaneRange
<1>4. 2 * h \in Nat /\ 4 * h \in Nat
  OBVIOUS
<1>5. QED
  BY <1>3, <1>4, Zenon

(* The limits of a lane.                                                   *)
LEMMA LaneLimits ==
    ASSUME NEW m \in Nat, NEW p \in Nat, LaneRange(m, p), NEW sg \in BOOLEAN
    PROVE  /\ m \in Nat /\ m >= 2 /\ p \in Nat \ {0} /\ p = 2 * m
           /\ Lowest(sg, w) = (IF sg THEN -m ELSE 0)
           /\ Highest(sg, w) = (IF sg THEN m - 1 ELSE p - 1)
  BY Limits DEF LaneRange, HalfRange

(* What a cast to the lane makes of a sum or a difference of lanes.        *)
LEMMA LaneCast ==
    ASSUME NEW m \in Nat, NEW p \in Nat, LaneRange(m, p), NEW sg \in BOOLEAN, NEW v \in Int
    PROVE  /\ InLane(sg, Cast(sg, w, v))
           /\ InLane(sg, v) => Cast(sg, w, v) = v
           /\ InLane(sg, v + p) => Cast(sg, w, v) = v + p
           /\ InLane(sg, v - p) => Cast(sg, w, v) = v - p
<1>1. HalfRange(w, m, p)
  BY DEF LaneRange
<1>2. InLane(sg, Cast(sg, w, v))
  BY <1>1, CastCongruent DEF InLane
<1>3. QED
  BY <1>1, <1>2, CastNear DEF InLane

(* The same in numbers, for the signed and the unsigned lane.              *)
LEMMA SignedCast ==
    ASSUME NEW m \in Nat, NEW p \in Nat, LaneRange(m, p), NEW v \in Int
    PROVE  /\ Cast(TRUE, w, v) \in -m .. m - 1
           /\ v \in -m .. m - 1 => Cast(TRUE, w, v) = v
           /\ v + p \in -m .. m - 1 => Cast(TRUE, w, v) = v + p
           /\ v - p \in -m .. m - 1 => Cast(TRUE, w, v) = v - p
<1>1. PICK sg \in BOOLEAN : sg = TRUE
  OBVIOUS
<1>2. m \in Nat /\ p \in Nat /\ Lowest(sg, w) = -m /\ Highest(sg, w) = m - 1
  BY <1>1, LaneLimits
<1>3. ASSUME NEW u PROVE InLane(sg, u) <=> u \in -m .. m - 1
  BY <1>2 DEF InLane
<1>4. QED
  BY <1>1, <1>3, LaneCast

(* The unsigned lane.                                                      *)
LEMMA UnsignedCast ==
    ASSUME NEW m \in Nat, NEW p \in Nat, LaneRange(m, p), NEW v \in Int
    PROVE  /\ Cast(FALSE, w, v) \in 0 .. p - 1
           /\ v \in 0 .. p - 1 => Cast(FALSE, w, v) = v
           /\ v + p \in 0 .. p - 1 => Cast(FALSE, w, v) = v + p
           /\ v - p \in 0 .. p - 1 => Cast(FALSE, w, v) = v - p
<1>1. PICK sg \in BOOLEAN : sg = FALSE
  OBVIOUS
<1>2. m \in Nat /\ p \in Nat /\ Lowest(sg, w) = 0 /\ Highest(sg, w) = p - 1
  BY <1>1, LaneLimits
<1>3. ASSUME NEW u PROVE InLane(sg, u) <=> u \in 0 .. p - 1
  BY <1>2 DEF InLane
<1>4. QED
  BY <1>1, <1>3, LaneCast

(* The limits in numbers.                                                  *)
LEMMA LaneNumbers ==
    ASSUME NEW m \in Nat, NEW p \in Nat, LaneRange(m, p)
    PROVE  /\ m \in Nat /\ m >= 2 /\ p \in Nat \ {0} /\ p = 2 * m
           /\ 2 ^ (w - 1) = m /\ 2 ^ w = p
           /\ Lowest(TRUE, w) = -m /\ Highest(TRUE, w) = m - 1
           /\ Lowest(FALSE, w) = 0 /\ Highest(FALSE, w) = p - 1
  BY DEF LaneRange, HalfRange, Lowest, Highest

(* A sum or a difference of lanes wraps around at most once.               *)
LEMMA SignedWrap ==
    ASSUME NEW m \in Nat, NEW p \in Nat, LaneRange(m, p),
           NEW v \in Int, -p <= v, v < p
    PROVE  Cast(TRUE, w, v) = IF v < -m THEN v + p ELSE IF v > m - 1 THEN v - p ELSE v
<1>1. m \in Nat /\ p = 2 * m
  BY LaneNumbers
<1>2. PICK c : c = Cast(TRUE, w, v)
  OBVIOUS
<1>3. /\ v \in -m .. m - 1 => c = v
      /\ v + p \in -m .. m - 1 => c = v + p
      /\ v - p \in -m .. m - 1 => c = v - p
  BY <1>2, SignedCast
<1>4. c = IF v < -m THEN v + p ELSE IF v > m - 1 THEN v - p ELSE v
  BY <1>1, <1>3
<1>5. QED
  BY <1>2, <1>4

(* The unsigned lane.                                                      *)
LEMMA UnsignedWrap ==
    ASSUME NEW m \in Nat, NEW p \in Nat, LaneRange(m, p),
           NEW v \in Int, -p <= v, v < 2 * p
    PROVE  Cast(FALSE, w, v) = IF v < 0 THEN v + p ELSE IF v > p - 1 THEN v - p ELSE v
<1>1. m \in Nat /\ p = 2 * m
  BY LaneNumbers
<1>2. PICK c : c = Cast(FALSE, w, v)
  OBVIOUS
<1>3. /\ v \in 0 .. p - 1 => c = v
      /\ v + p \in 0 .. p - 1 => c = v + p
      /\ v - p \in 0 .. p - 1 => c = v - p
  BY <1>2, UnsignedCast
<1>4. c = IF v < 0 THEN v + p ELSE IF v > p - 1 THEN v - p ELSE v
  BY <1>1, <1>3
<1>5. QED
  BY <1>2, <1>4

(* The sign tests of vadds find exactly the overflows.                     *)
LEMMA AddsExact ==
    ASSUME NEW m \in Nat, NEW p \in Nat, LaneRange(m, p),
           NEW a \in -m .. m - 1, NEW b \in -m .. m - 1
    PROVE  VAddsHelper(a, b) = Clamp(TRUE, w, a + b)
<1>1. /\ m >= 2 /\ p = 2 * m
      /\ Lowest(TRUE, w) = -m /\ Highest(TRUE, w) = m - 1
  BY LaneNumbers
<1>2. a + b \in Int /\ -p <= a + b /\ a + b < p
  BY <1>1
<1>3. PICK sum, v : sum = Cast(TRUE, w, v) /\ v = a + b
  OBVIOUS
<1>4. v = a + b
  BY <1>3
<1>5. v \in Int /\ -p <= v /\ v < p
  BY <1>2, <1>3
<1>6. sum = IF v < -m THEN v + p ELSE IF v > m - 1 THEN v - p ELSE v
  <2>1. Cast(TRUE, w, v) = IF v < -m THEN v + p ELSE IF v > m - 1 THEN v - p ELSE v
    BY <1>5, SignedWrap
  <2>2. QED
    BY <1>3, <2>1, Zenon
<1>7. VAddsHelper(a, b) = IF ~SignsDiffer(a, b) /\ SignsDiffer(sum, a)
                          THEN IF a > 0 THEN Highest(TRUE, w) ELSE Lowest(TRUE, w) ELSE sum
  BY <1>3, Zenon DEF VAddsHelper
<1>8. sum \in Int
  BY <1>5, <1>6
<1>9. /\ SignsDiffer(a, b) <=> (a < 0 /\ b >= 0) \/ (a >= 0 /\ b < 0)
      /\ SignsDiffer(sum, a) <=> (sum < 0 /\ a >= 0) \/ (sum >= 0 /\ a < 0)
  BY <1>8 DEF SignsDiffer
<1>10. PICK clamp : clamp = Clamp(TRUE, w, v)
  OBVIOUS
<1>11. clamp = IF v < -m THEN -m ELSE IF v > m - 1 THEN m - 1 ELSE v
  BY <1>1, <1>10 DEF Clamp
<1>12. PICK r : r = VAddsHelper(a, b)
  OBVIOUS
<1>13. r = IF ~SignsDiffer(a, b) /\ SignsDiffer(sum, a)
           THEN IF a > 0 THEN m - 1 ELSE -m ELSE sum
  BY <1>1, <1>7, <1>12, Zenon
<1>14. r = clamp
  <2>1. CASE v < -m
    <3>1. a < 0 /\ b < 0 /\ sum >= 0 /\ ~(a > 0)
      BY <1>4, <1>1, <1>5, <1>6, <2>1
    <3>2. ~SignsDiffer(a, b) /\ SignsDiffer(sum, a)
      BY <1>8, <1>9, <3>1
    <3>3. QED
      BY <1>1, <1>11, <1>13, <2>1, <3>1, <3>2
  <2>2. CASE v > m - 1
    <3>1. a >= 0 /\ b >= 0 /\ sum < 0 /\ a > 0
      BY <1>4, <1>1, <1>5, <1>6, <2>2
    <3>2. ~SignsDiffer(a, b) /\ SignsDiffer(sum, a)
      BY <1>8, <1>9, <3>1
    <3>3. QED
      BY <1>1, <1>5, <1>11, <1>13, <2>2, <3>1, <3>2
  <2>3. CASE -m <= v /\ v <= m - 1
    <3>1. sum = v
      BY <1>5, <1>6, <2>3
    <3>2. ~(~SignsDiffer(a, b) /\ SignsDiffer(sum, a))
      BY <1>4, <1>1, <1>5, <1>9, <3>1
    <3>3. QED
      BY <1>5, <1>11, <1>13, <2>3, <3>1, <3>2
  <2>4. QED
    BY <1>5, <2>1, <2>2, <2>3
<1>15. QED
  BY <1>3, <1>10, <1>12, <1>14, Zenon

(* Those of vsubs too.                                                     *)
LEMMA SubsExact ==
    ASSUME NEW m \in Nat, NEW p \in Nat, LaneRange(m, p),
           NEW a \in -m .. m - 1, NEW b \in -m .. m - 1
    PROVE  VSubsHelper(a, b) = Clamp(TRUE, w, a - b)
<1>1. /\ m >= 2 /\ p = 2 * m
      /\ Lowest(TRUE, w) = -m /\ Highest(TRUE, w) = m - 1
  BY LaneNumbers
<1>2. a - b \in Int /\ -p <= a - b /\ a - b < p
  BY <1>1
<1>3. PICK sub, v : sub = Cast(TRUE, w, v) /\ v = a - b
  OBVIOUS
<1>4. v = a - b
  BY <1>3
<1>5. v \in Int /\ -p <= v /\ v < p
  BY <1>2, <1>3
<1>6. sub = IF v < -m THEN v + p ELSE IF v > m - 1 THEN v - p ELSE v
  <2>1. Cast(TRUE, w, v) = IF v < -m THEN v + p ELSE IF v > m - 1 THEN v - p ELSE v
    BY <1>5, SignedWrap
  <2>2. QED
    BY <1>3, <2>1, Zenon
<1>7. VSubsHelper(a, b) = IF SignsDiffer(a, b) /\ ~SignsDiffer(sub, b)
                          THEN IF b < 0 THEN Highest(TRUE, w) ELSE Lowest(TRUE, w) ELSE sub
  BY <1>3, Zenon DEF VSubsHelper
<1>8. sub \in Int
  BY <1>5, <1>6
<1>9. /\ SignsDiffer(a, b) <=> (a < 0 /\ b >= 0) \/ (a >= 0 /\ b < 0)
      /\ SignsDiffer(sub, b) <=> (sub < 0 /\ b >= 0) \/ (sub >= 0 /\ b < 0)
  BY <1>8 DEF SignsDiffer
<1>10. PICK clamp : clamp = Clamp(TRUE, w, v)
  OBVIOUS
<1>11. clamp = IF v < -m THEN -m ELSE IF v > m - 1 THEN m - 1 ELSE v
  BY <1>1, <1>10 DEF Clamp
<1>12. PICK r : r = VSubsHelper(a, b)
  OBVIOUS
<1>13. r = IF SignsDiffer(a, b) /\ ~SignsDiffer(sub, b)
           THEN IF b < 0 THEN m - 1 ELSE -m ELSE sub
  BY <1>1, <1>7, <1>12, Zenon
<1>14. r = clamp
  <2>1. CASE v < -m
    <3>1. a < 0 /\ b >= 0 /\ sub >= 0 /\ ~(b < 0)
      BY <1>4, <1>1, <1>5, <1>6, <2>1
    <3>2. SignsDiffer(a, b) /\ ~SignsDiffer(sub, b)
      BY <1>8, <1>9, <3>1
    <3>3. QED
      BY <1>1, <1>11, <1>13, <2>1, <3>1, <3>2
  <2>2. CASE v > m - 1
    <3>1. a >= 0 /\ b < 0 /\ sub < 0
      BY <1>4, <1>1, <1>5, <1>6, <2>2
    <3>2. SignsDiffer(a, b) /\ ~SignsDiffer(sub, b)
      BY <1>8, <1>9, <3>1
    <3>3. QED
      BY <1>1, <1>5, <1>11, <1>13, <2>2, <3>1, <3>2
  <2>3. CASE -m <= v /\ v <= m - 1
    <3>1. sub = v
      BY <1>5, <1>6, <2>3
    <3>2. ~(SignsDiffer(a, b) /\ ~SignsDiffer(sub, b))
      BY <1>4, <1>1, <1>5, <1>9, <3>1
    <3>3. QED
      BY <1>5, <1>11, <1>13, <2>3, <3>1, <3>2
  <2>4. QED
    BY <1>5, <2>1, <2>2, <2>3
<1>15. QED
  BY <1>3, <1>10, <1>12, <1>14, Zenon

(* The wrap-around test of vaddsu and the comparison of vsubsu.            *)
LEMMA UnsignedExact ==
    ASSUME NEW m \in Nat, NEW p \in Nat, LaneRange(m, p),
           NEW a \in 0 .. p - 1, NEW b \in 0 .. p - 1
    PROVE  /\ VAddsuHelper(a, b) = Clamp(FALSE, w, a + b)
           /\ VSubsu(a, b) = Clamp(FALSE, w, a - b)
<1>1. Lowest(FALSE, w) = 0 /\ Highest(FALSE, w) = p - 1
  BY LaneNumbers
<1>2. PICK sum, v : sum = Cast(FALSE, w, v) /\ v = a + b
  OBVIOUS
<1>3. v = a + b
  BY <1>2
<1>4. v \in Int /\ -p <= v /\ v < 2 * p
  BY <1>3
<1>5. sum = IF v < 0 THEN v + p ELSE IF v > p - 1 THEN v - p ELSE v
  <2>1. Cast(FALSE, w, v) = IF v < 0 THEN v + p ELSE IF v > p - 1 THEN v - p ELSE v
    BY <1>4, UnsignedWrap
  <2>2. QED
    BY <1>2, <2>1, Zenon
<1>6. PICK r, c, d : /\ r = VAddsuHelper(a, b) /\ c = Clamp(FALSE, w, v)
                     /\ d = Clamp(FALSE, w, a - b)
  OBVIOUS
<1>7. r = IF sum < a THEN p - 1 ELSE sum
  BY <1>1, <1>2, <1>6, Zenon DEF VAddsuHelper
<1>8. /\ c = IF v < 0 THEN 0 ELSE IF v > p - 1 THEN p - 1 ELSE v
      /\ d = IF a - b < 0 THEN 0 ELSE IF a - b > p - 1 THEN p - 1 ELSE a - b
  BY <1>1, <1>6, Zenon DEF Clamp
<1>9. r = c
  BY <1>3, <1>4, <1>5, <1>7, <1>8
<1>10. VSubsu(a, b) = d
  BY <1>8 DEF VSubsu
<1>11. QED
  BY <1>3, <1>6, <1>9, <1>10, Zenon

(* The products of vmuls are clamped.                                      *)
LEMMA MulsExact ==
    ASSUME NEW m \in Nat, NEW p \in Nat, LaneRange(m, p), NEW sg \in BOOLEAN,
           NEW a, NEW b, InLane(sg, a), InLane(sg, b)
    PROVE  VMuls(sg, a, b) = Clamp(sg, w, a * b)
<1>1. /\ m \in Nat /\ m >= 2 /\ p = 2 * m /\ p \in Nat
      /\ Lowest(sg, w) = (IF sg THEN -m ELSE 0)
      /\ Highest(sg, w) = (IF sg THEN m - 1 ELSE p - 1)
  BY LaneLimits
<1>2. a \in Int /\ b \in Int /\ a * b \in Int /\ (~sg => a * b >= 0)
  BY <1>1 DEF InLane
<1>3. PICK v \in Int : v = a * b /\ (~sg => v >= 0)
  BY <1>2
<1>4. QED
  BY <1>1, <1>3 DEF VMuls, VMin, VMax, Clamp

(* Casts of congruent numbers are equal.                                   *)
LEMMA CastShift ==
    ASSUME NEW n, NEW m \in Nat, NEW p \in Nat, HalfRange(n, m, p), NEW sg \in BOOLEAN,
           NEW v \in Int, NEW k \in Int
    PROVE  Cast(sg, n, v + k * p) = Cast(sg, n, v)
<1>1. PICK c : c = Cast(sg, n, v)
  OBVIOUS
<1>2. c \in Int /\ Lowest(sg, n) <= c /\ c <= Highest(sg, n)
  BY <1>1, CastCongruent
<1>3. PICK j \in Int : v = c + j * p
  <2>1. Congruent(v, c, p)
    BY <1>1, CastCongruent
  <2>2. QED
    BY <2>1, Zenon DEF Congruent
<1>4. PICK i \in Int : i = j + k
  BY <1>3
<1>5. v + k * p = c + i * p
  <2>1. (j + k) * p = j * p + k * p /\ j * p \in Int /\ k * p \in Int
    OBVIOUS
  <2>2. QED
    BY <1>2, <1>3, <1>4, <2>1
<1>6. Cast(sg, n, c + i * p) = c
  BY <1>2, <1>4, CastUnique
<1>7. QED
  BY <1>1, <1>5, <1>6, Zenon

(* Of the signed lane: a cast differs from its argument by a multiple of   *)
(* the number of values, which no further cast sees.                       *)
LEMMA SignedModular ==
    ASSUME NEW m \in Nat, NEW p \in Nat, LaneRange(m, p), NEW v \in Int
    PROVE  /\ \E k \in Int : Cast(TRUE, w, v) = v + k * p
           /\ \A k \in Int : Cast(TRUE, w, v + k * p) = Cast(TRUE, w, v)
<1>1. HalfRange(w, m, p)
  BY DEF LaneRange
<1>2. PICK sg \in BOOLEAN : sg = TRUE
  OBVIOUS
<1>3. PICK c : c = Cast(sg, w, v)
  OBVIOUS
<1>4. c \in Int
  BY <1>1, <1>3, CastCongruent
<1>5. PICK j \in Int : v = c + j * p
  <2>1. Congruent(v, c, p)
    BY <1>1, <1>3, CastCongruent
  <2>2. QED
    BY <2>1, Zenon DEF Congruent
<1>6. PICK k \in Int : k = -j
  BY <1>5
<1>7. c = v + k * p
  <2>1. k * p = -(j * p) /\ j * p \in Int
    BY <1>6
  <2>2. QED
    BY <1>4, <1>5, <2>1
<1>8. \A i \in Int : Cast(sg, w, v + i * p) = c
  BY <1>1, <1>3, CastShift
<1>9. QED
  BY <1>2, <1>3, <1>6, <1>7, <1>8, Zenon

(* Wrapped sums and products undo and compose.                             *)
LEMMA ModularExact ==
    ASSUME NEW m \in Nat, NEW p \in Nat, LaneRange(m, p),
           NEW a \in -m .. m - 1, NEW b \in -m .. m - 1, NEW c \in -m .. m - 1
    PROVE  /\ VAdd(VSub(a, b), b) = a
           /\ VAdd3(VRSub(a, b), a, c) = VAdd(b, c)
           /\ VMacc(c, a, b) = VAdd(c, VMul(a, b))
           /\ VMadd(c, a, b) = VMacc(a, c, b)
<1> DEFINE C(v) == Cast(TRUE, w, v)
<1>1. ASSUME NEW v \in Int
      PROVE  (\E k \in Int : C(v) = v + k * p) /\ (\A k \in Int : C(v + k * p) = C(v))
  BY SignedModular
<1>2. a \in Int /\ b \in Int /\ c \in Int
  OBVIOUS
<1>3. C(a) = a
  BY <1>2, SignedCast
<1>4. /\ VAdd(VSub(a, b), b) = C(C(a - b) + b)
      /\ VAdd3(VRSub(a, b), a, c) = C(C(b - a) + a + c)
      /\ VAdd(b, c) = C(b + c)
      /\ VMacc(c, a, b) = C(c + a * b)
      /\ VAdd(c, VMul(a, b)) = C(c + C(a * b))
      /\ VMadd(c, a, b) = C(a + c * b) /\ VMacc(a, c, b) = C(a + c * b)
  BY Zenon DEF VAdd, VSub, VAdd3, VRSub, VMacc, VMul, VMadd
<1> HIDE DEF C
<1>5. C(C(a - b) + b) = a
  <2>1. PICK v \in Int : v = a - b
    BY <1>2
  <2>2. PICK k \in Int : C(v) = v + k * p
    BY <1>1
  <2>3. C(v) + b = a + k * p
    BY <1>2, <2>1, <2>2
  <2>4. C(a + k * p) = C(a)
    BY <1>1, <1>2
  <2>5. QED
    BY <1>3, <2>1, <2>3, <2>4, Zenon
<1>6. C(C(b - a) + a + c) = C(b + c)
  <2>1. PICK v \in Int : v = b - a
    BY <1>2
  <2>2. PICK k \in Int : C(v) = v + k * p
    BY <1>1
  <2>3. PICK s \in Int : s = b + c
    BY <1>2
  <2>4. C(v) + a + c = s + k * p
    BY <1>2, <2>1, <2>2, <2>3
  <2>5. C(s + k * p) = C(s)
    BY <1>1
  <2>6. QED
    BY <2>1, <2>3, <2>4, <2>5, Zenon
<1>7. C(c + C(a * b)) = C(c + a * b)
  <2>1. a * b \in Int
    BY <1>2
  <2>2. PICK v \in Int : v = a * b
    BY <2>1
  <2>3. PICK k \in Int : C(v) = v + k * p
    BY <1>1
  <2>4. PICK s \in Int : s = c + v
    BY <1>2
  <2>5. c + C(v) = s + k * p
    BY <1>2, <2>3, <2>4
  <2>6. C(s + k * p) = C(s)
    BY <1>1
  <2>7. QED
    BY <2>2, <2>4, <2>5, <2>6, Zenon
<1>8. QED
  BY <1>4, <1>5, <1>6, <1>7, Zenon

(* Casts to the type of twice the width are exact for what fits in it.     *)
LEMMA WideCast ==
    ASSUME NEW m \in Nat, NEW p \in Nat, LaneRange(m, p), NEW sg \in BOOLEAN, NEW v \in Int,
           IF sg THEN -(m * p) <= v /\ v < m * p ELSE 0 <= v /\ v < p * p
    PROVE  Cast(sg, 2 * w, v) = v
<1>1. PICK n, mm, pp : n = 2 * w /\ mm = m * p /\ pp = p * p
  OBVIOUS
<1>2. mm \in Nat /\ pp \in Nat
  BY <1>1
<1>3. HalfRange(n, mm, pp)
  BY <1>1 DEF LaneRange
<1>4. IF sg THEN -mm <= v /\ v < mm ELSE 0 <= v /\ v < pp
  BY <1>1
<1>5. Lowest(sg, n) <= v /\ v <= Highest(sg, n)
  BY <1>2, <1>3, <1>4, Limits
<1>6. Cast(sg, n, v) = v
  BY <1>2, <1>3, <1>5, CastExact
<1>7. QED
  BY <1>1, <1>6, Zenon

(* Products of lanes.                                                      *)
LEMMA LaneProducts ==
    ASSUME NEW m \in Nat, NEW p \in Nat, LaneRange(m, p), NEW sg \in BOOLEAN,
           NEW a, NEW b, InLane(sg, a), InLane(sg, b)
    PROVE  /\ a \in Int /\ b \in Int /\ a * b \in Int
           /\ sg => /\ a \in -m .. m - 1 /\ b \in -m .. m - 1
                    /\ -(m * (m - 1)) <= a * b /\ a * b <= m * m
           /\ ~sg => /\ a \in 0 .. p - 1 /\ b \in 0 .. p - 1
                     /\ 0 <= a * b /\ a * b <= (p - 1) * (p - 1)
<1>1. /\ m \in Nat \ {0} /\ p \in Nat
      /\ Lowest(sg, w) = (IF sg THEN -m ELSE 0)
      /\ Highest(sg, w) = (IF sg THEN m - 1 ELSE p - 1)
  BY LaneLimits
<1>2. /\ a \in Int /\ b \in Int
      /\ sg => a \in -m .. m - 1 /\ b \in -m .. m - 1
      /\ ~sg => a \in 0 .. p - 1 /\ b \in 0 .. p - 1
  BY <1>1 DEF InLane
<1>3. a * b \in Int
  BY <1>2
<1>4. ASSUME NEW i \in 0 .. p - 1, NEW j \in 0 .. p - 1
      PROVE  0 <= i * j /\ i * j <= (p - 1) * (p - 1)
  OBVIOUS
<1>5. QED
  BY <1>1, <1>2, <1>3, <1>4, ProductBounds

(* Widened sums, differences and products are exact.                       *)
LEMMA WidenedExact ==
    ASSUME NEW m \in Nat, NEW p \in Nat, LaneRange(m, p), NEW sg \in BOOLEAN,
           NEW a, NEW b, InLane(sg, a), InLane(sg, b)
    PROVE  /\ VAddw(sg, a, b) = a + b /\ VMulw(sg, a, b) = a * b
           /\ sg => VSubw(sg, a, b) = a - b
<1>1. m >= 2 /\ p = 2 * m
  BY LaneNumbers
<1>2. /\ a \in Int /\ b \in Int /\ a * b \in Int
      /\ sg => /\ a \in -m .. m - 1 /\ b \in -m .. m - 1
               /\ -(m * (m - 1)) <= a * b /\ a * b <= m * m
      /\ ~sg => /\ a \in 0 .. p - 1 /\ b \in 0 .. p - 1
                /\ 0 <= a * b /\ a * b <= (p - 1) * (p - 1)
  BY LaneProducts
<1>3. PICK mm, pp \in Nat : mm = m * p /\ pp = p * p
  OBVIOUS
<1>4. mm = 2 * (m * m) /\ m * m >= 2 * m /\ pp >= 4 * p /\ m * m \in Nat
  BY <1>1, <1>3
<1>5. ASSUME NEW v \in Int, IF sg THEN -mm <= v /\ v < mm ELSE 0 <= v /\ v < pp
      PROVE  Cast(sg, 2 * w, v) = v
  BY <1>3, <1>5, WideCast
<1>6. VAddw(sg, a, b) = a + b
  <2>1. PICK v \in Int : v = a + b
    BY <1>2
  <2>2. IF sg THEN -mm <= v /\ v < mm ELSE 0 <= v /\ v < pp
    BY <1>1, <1>2, <1>4, <2>1
  <2>3. Cast(sg, 2 * w, v) = v
    BY <1>5, <2>2
  <2>4. QED
    BY <2>1, <2>3, Zenon DEF VAddw
<1>7. sg => VSubw(sg, a, b) = a - b
  <2> SUFFICES ASSUME sg PROVE VSubw(sg, a, b) = a - b
    OBVIOUS
  <2>1. PICK v \in Int : v = a - b
    BY <1>2
  <2>2. IF sg THEN -mm <= v /\ v < mm ELSE 0 <= v /\ v < pp
    BY <1>1, <1>2, <1>4, <2>1
  <2>3. Cast(sg, 2 * w, v) = v
    BY <1>5, <2>2
  <2>4. QED
    BY <2>1, <2>3, Zenon DEF VSubw
<1>8. VMulw(sg, a, b) = a * b
  <2>1. PICK v \in Int : v = a * b
    BY <1>2
  <2>2. m * (m - 1) = m * m - m /\ (p - 1) * (p - 1) = p * p - 2 * p + 1
    OBVIOUS
  <2>3. IF sg THEN -mm <= v /\ v < mm ELSE 0 <= v /\ v < pp
    BY <1>1, <1>2, <1>3, <1>4, <2>1, <2>2
  <2>4. Cast(sg, 2 * w, v) = v
    BY <1>5, <2>3
  <2>5. QED
    BY <2>1, <2>4, Zenon DEF VMulw
<1>9. QED
  BY <1>6, <1>7, <1>8

(* Absolute differences, computed on the unsigned patterns of both.        *)
LEMMA AbsdExact ==
    ASSUME NEW m \in Nat, NEW p \in Nat, LaneRange(m, p), NEW sg \in BOOLEAN,
           NEW a, NEW b, InLane(sg, a), InLane(sg, b)
    PROVE  VAbsd(sg, a, b) = VMax(a, b) - VMin(a, b)
<1>1. p = 2 * m /\ m >= 2
  BY LaneNumbers
<1>2. /\ a \in Int /\ b \in Int
      /\ \/ a \in -m .. m - 1 /\ b \in -m .. m - 1
         \/ a \in 0 .. p - 1 /\ b \in 0 .. p - 1
  BY LaneProducts
<1>3. -p <= a /\ a < 2 * p /\ -p <= b /\ b < 2 * p
  BY <1>1, <1>2
<1>4. PICK ua, ub : ua = Cast(FALSE, w, a) /\ ub = Cast(FALSE, w, b)
  OBVIOUS
<1>5. /\ ua = IF a < 0 THEN a + p ELSE IF a > p - 1 THEN a - p ELSE a
      /\ ub = IF b < 0 THEN b + p ELSE IF b > p - 1 THEN b - p ELSE b
  <2>1. a \in Int /\ b \in Int
    BY <1>2
  <2>2. QED
    BY <1>3, <1>4, <2>1, UnsignedWrap
<1>6. PICK d : d = IF a > b THEN ua - ub ELSE ub - ua
  OBVIOUS
<1>7. d \in Int /\ -p <= d /\ d < 2 * p
  BY <1>1, <1>2, <1>5, <1>6
<1>8. PICK r : r = Cast(FALSE, w, d)
  OBVIOUS
<1>9. r = IF d < 0 THEN d + p ELSE IF d > p - 1 THEN d - p ELSE d
  BY <1>7, <1>8, UnsignedWrap
<1>10. VAbsd(sg, a, b) = r
  BY <1>4, <1>6, <1>8, Zenon DEF VAbsd
<1>11. r = IF a > b THEN a - b ELSE b - a
  BY <1>1, <1>2, <1>5, <1>6, <1>7, <1>9
<1>12. QED
  BY <1>2, <1>10, <1>11 DEF VMax, VMin

(* Comparisons and extrema describe one order.                             *)
LEMMA OrderExact ==
    ASSUME NEW a \in Int, NEW b \in Int
    PROVE  /\ VLt(a, b) + VEq(a, b) + VGt(a, b) = 1
           /\ VLe(a, b) = VMax(VLt(a, b), VEq(a, b)) /\ VGe(a, b) = VLe(b, a)
           /\ VNe(a, b) = 1 - VEq(a, b)
  BY DEF VLt, VEq, VGt, VLe, VGe, VNe, VMax, Flag

(* A sampled lane is typed.                                                *)
LaneTypeOK == w \in Widths /\ {x, y, z} \subseteq 0 .. 2 ^ w - 1

(* The samples are bit patterns of the width of the lane.                  *)
LEMMA LaneTyped == LaneSpec => []LaneTypeOK
<1>1. ASSUME w \in Widths PROVE w \in Nat /\ 2 ^ w \in Nat \ {0}
  BY <1>1, WidthFacts
<1>2. LaneInit => LaneTypeOK
  BY <1>1, WidthsAssumption DEF LaneInit, LaneTypeOK
<1>3. LaneTypeOK /\ [NextOperand]_lanevars => LaneTypeOK'
  <2> SUFFICES ASSUME LaneTypeOK, [NextOperand]_lanevars PROVE LaneTypeOK'
    OBVIOUS
  <2>1. CASE NextOperand
    <3>1. PICK p \in Nat \ {0} : p = 2 ^ w
      BY <1>1 DEF LaneTypeOK
    <3>2. /\ w' = w /\ w \in Widths /\ x' = x /\ x \in 0 .. p - 1 /\ y \in 0 .. p - 1
          /\ y < p - 1 /\ y' = y + 1 /\ z' = (x + 3 * y) % p
      BY <2>1, <3>1 DEF NextOperand, LaneTypeOK
    <3>3. z' \in 0 .. p - 1 /\ y' \in 0 .. p - 1
      BY <3>2
    <3>4. QED
      BY <3>1, <3>2, <3>3 DEF LaneTypeOK
  <2>2. CASE UNCHANGED lanevars
    BY <2>2 DEF lanevars, LaneTypeOK
  <2>3. QED
    BY <2>1, <2>2
<1>4. QED
  BY <1>2, <1>3, PTL DEF LaneSpec

(* In both readings, a sample is a number of the lane type.                *)
LEMMA SampleInLane ==
    ASSUME NEW m \in Nat, NEW p \in Nat, LaneRange(m, p), NEW v \in 0 .. 2 ^ w - 1
    PROVE  /\ \A sg \in BOOLEAN : InLane(sg, As(sg, v))
           /\ S(v) \in -m .. m - 1 /\ v \in 0 .. p - 1
<1>1. 2 ^ w = p
  BY LaneNumbers
<1>2. v \in 0 .. p - 1 /\ v \in Int
  BY <1>1
<1>3. ASSUME NEW sg \in BOOLEAN
      PROVE  InLane(sg, As(sg, v))
  <2>1. InLane(sg, Cast(sg, w, v))
    BY <1>2, LaneCast
  <2>2. QED
    BY <2>1, Zenon DEF As
<1>4. Cast(TRUE, w, v) \in -m .. m - 1
  BY <1>2, SignedCast
<1>5. QED
  BY <1>2, <1>3, <1>4, Zenon DEF S

(* What ArithmeticExact says of one lane.                                  *)
LEMMA ArithmeticOfLane == LaneTypeOK => ArithmeticExact
<1> SUFFICES ASSUME LaneTypeOK PROVE ArithmeticExact
  OBVIOUS
<1>1. PICK m, p \in Nat : LaneRange(m, p)
  BY LaneHasRange DEF LaneTypeOK
<1>2. x \in 0 .. 2 ^ w - 1 /\ y \in 0 .. 2 ^ w - 1 /\ z \in 0 .. 2 ^ w - 1
  BY DEF LaneTypeOK
<1>3. /\ S(x) \in -m .. m - 1 /\ S(y) \in -m .. m - 1 /\ S(z) \in -m .. m - 1
      /\ x \in 0 .. p - 1 /\ y \in 0 .. p - 1
  BY <1>1, <1>2, SampleInLane
<1>4. /\ VAddsHelper(S(x), S(y)) = Clamp(TRUE, w, S(x) + S(y))
      /\ VSubsHelper(S(x), S(y)) = Clamp(TRUE, w, S(x) - S(y))
  BY <1>1, <1>3, AddsExact, SubsExact
<1>5. /\ VAddsuHelper(x, y) = Clamp(FALSE, w, x + y)
      /\ VSubsu(x, y) = Clamp(FALSE, w, x - y)
  BY <1>1, <1>3, UnsignedExact
<1>6. ASSUME NEW sg \in BOOLEAN PROVE InLane(sg, As(sg, x)) /\ InLane(sg, As(sg, y))
  BY <1>1, <1>2, SampleInLane
<1>7. \A sg \in BOOLEAN :
          VMuls(sg, As(sg, x), As(sg, y)) = Clamp(sg, w, As(sg, x) * As(sg, y))
  BY <1>1, <1>6, MulsExact
<1>8. VSubw(TRUE, S(x), S(y)) = S(x) - S(y)
  <2>1. PICK sg \in BOOLEAN : sg = TRUE
    OBVIOUS
  <2>2. As(sg, x) = S(x) /\ As(sg, y) = S(y)
    BY <2>1 DEF As, S
  <2>3. VSubw(sg, As(sg, x), As(sg, y)) = As(sg, x) - As(sg, y)
    BY <1>1, <1>6, <2>1, WidenedExact
  <2>4. QED
    BY <2>1, <2>2, <2>3, Zenon
<1>9. ASSUME NEW sg \in BOOLEAN
      PROVE  LET a == As(sg, x)
                 b == As(sg, y)
             IN  /\ VLt(a, b) + VEq(a, b) + VGt(a, b) = 1
                 /\ VLe(a, b) = VMax(VLt(a, b), VEq(a, b)) /\ VGe(a, b) = VLe(b, a)
                 /\ VNe(a, b) = 1 - VEq(a, b)
                 /\ VAbsd(sg, a, b) = VMax(a, b) - VMin(a, b)
                 /\ VAddw(sg, a, b) = a + b /\ VMulw(sg, a, b) = a * b
                 /\ VSubw(TRUE, S(x), S(y)) = S(x) - S(y)
  <2> DEFINE a == As(sg, x)
             b == As(sg, y)
  <2>1. InLane(sg, a) /\ InLane(sg, b)
    BY <1>6
  <2> HIDE DEF a, b
  <2>2. a \in Int /\ b \in Int
    BY <2>1 DEF InLane
  <2>3. VAbsd(sg, a, b) = VMax(a, b) - VMin(a, b)
    BY <1>1, <2>1, AbsdExact
  <2>4. VAddw(sg, a, b) = a + b /\ VMulw(sg, a, b) = a * b
    BY <1>1, <2>1, WidenedExact
  <2>5. /\ VLt(a, b) + VEq(a, b) + VGt(a, b) = 1
        /\ VLe(a, b) = VMax(VLt(a, b), VEq(a, b)) /\ VGe(a, b) = VLe(b, a)
        /\ VNe(a, b) = 1 - VEq(a, b)
    BY <2>2, OrderExact
  <2>6. QED
    BY <1>8, <2>3, <2>4, <2>5, Zenon DEF a, b
<1>10. /\ VAdd(VSub(S(x), S(y)), S(y)) = S(x)
       /\ VAdd3(VRSub(S(x), S(y)), S(x), S(z)) = VAdd(S(y), S(z))
       /\ VMacc(S(z), S(x), S(y)) = VAdd(S(z), VMul(S(x), S(y)))
       /\ VMadd(S(z), S(x), S(y)) = VMacc(S(x), S(z), S(y))
  BY <1>1, <1>3, ModularExact
<1>11. QED
  BY <1>4, <1>5, <1>7, <1>9, <1>10, Zenon DEF ArithmeticExact

(* Saturating operations return the exact result clamped to the lane,      *)
(* widened ones and absolute differences the exact result, and wrapped     *)
(* ones compose: for every width of a lane and all operands.               *)
THEOREM ArithmeticIsExact == LaneSpec => []ArithmeticExact
<1>1. QED
  BY LaneTyped, ArithmeticOfLane, PTL

-----------------------------------------------------------------------------
(* Rounding.                                                               *)

(* A quotient lies between those of the limits of its dividend.            *)
LEMMA QuotientRange ==
    ASSUME NEW d \in Nat \ {0}, NEW v \in Int, NEW lo \in Int, NEW hi \in Int,
           lo * d <= v, v < hi * d
    PROVE  v \div d \in Int /\ lo <= v \div d /\ v \div d < hi
<1>1. PICK q : q = v \div d
  OBVIOUS
<1>2. q \in Int /\ q * d <= v /\ v < q * d + d
  BY <1>1, IntDivision
<1>3. q * d + d = (q + 1) * d
  BY <1>2
<1>4. ASSUME NEW i \in Int, NEW j \in Int, i * d < j * d PROVE i < j
  BY <1>4
<1>5. lo * d < (q + 1) * d /\ q * d < hi * d
  BY <1>2, <1>3
<1>6. lo < q + 1 /\ q < hi
  <2>1. q + 1 \in Int
    BY <1>2
  <2>2. QED
    BY <1>2, <1>4, <1>5, <2>1
<1>7. QED
  BY <1>1, <1>2, <1>6

(* A shift rounds down.                                                    *)
LEMMA FloorShift ==
    ASSUME NEW k, NEW d \in Nat \ {0}, 2 ^ k = d, NEW v \in Int
    PROVE  IsFloor(v \div d, v, k)
<1>1. PICK q : q = v \div d
  OBVIOUS
<1>2. q \in Int /\ q * d <= v /\ v < q * d + d
  BY <1>1, IntDivision
<1>3. q * d + d = (q + 1) * d
  BY <1>2
<1>4. IsFloor(q, v, k)
  BY <1>2, <1>3 DEF IsFloor
<1>5. QED
  BY <1>1, <1>4

(* A shift after half of the divisor has been added rounds to the nearest, *)
(* halves upwards.                                                         *)
LEMMA NearestShift ==
    ASSUME NEW k, NEW h \in Nat \ {0}, 2 ^ k = 2 * h, NEW v \in Int
    PROVE  IsNearest((v + h) \div (2 * h), v, k)
<1>1. PICK q, d : d = 2 * h /\ q = (v + h) \div d
  OBVIOUS
<1>2. d \in Nat \ {0} /\ v + h \in Int
  BY <1>1
<1>3. q \in Int /\ q * d <= v + h /\ v + h < q * d + d
  BY <1>1, <1>2, IntDivision
<1>4. /\ (2 * q - 1) * d = 2 * (q * d) - d /\ (2 * q + 1) * d = 2 * (q * d) + d
      /\ q * d \in Int
  BY <1>2, <1>3
<1>5. (2 * q - 1) * d <= 2 * v /\ 2 * v < (2 * q + 1) * d
  BY <1>1, <1>3, <1>4
<1>6. IsNearest(q, v, k)
  BY <1>1, <1>5 DEF IsNearest
<1>7. QED
  BY <1>1, <1>6

(* Both, as the flag round chooses.                                        *)
LEMMA RoundedShift ==
    ASSUME NEW k, NEW h \in Nat \ {0}, 2 ^ k = 2 * h, NEW v \in Int, NEW round \in BOOLEAN
    PROVE  IsShifted((v + (IF round THEN h ELSE 0)) \div (2 * h), v, k, round)
<1>1. CASE round
  BY <1>1, NearestShift DEF IsShifted
<1>2. CASE ~round
  <2>1. 2 * h \in Nat \ {0} /\ v + 0 = v
    OBVIOUS
  <2>2. QED
    BY <1>2, <2>1, FloorShift DEF IsShifted
<1>3. QED
  BY <1>1, <1>2

(* A halved number.                                                        *)
LEMMA Halved ==
    ASSUME IntBits \in Nat \ {0}, NEW v \in Int, NEW round \in BOOLEAN
    PROVE  IsShifted((v + Flag(round)) \div 2, v, 1, round)
<1>1. 2 ^ 1 = 2
  <2>1. PICK n \in 0 .. 2 * IntBits : n = 0
    OBVIOUS
  <2>2. n < 2 * IntBits /\ 2 ^ n = 1 /\ n + 1 = 1
    BY <2>1, LanePowers
  <2>3. 2 ^ (n + 1) = 2 * 2 ^ n
    BY <2>2, LanePowers
  <2>4. QED
    BY <2>2, <2>3
<1>2. QED
  BY <1>1 DEF IsShifted, IsFloor, IsNearest, Flag

(* What fits in the type of twice the width, and what wraps in it.         *)
LEMMA WideFits ==
    ASSUME NEW m \in Nat, NEW p \in Nat, LaneRange(m, p), NEW sg \in BOOLEAN, NEW v \in Int,
           sg => -p <= v /\ v <= p, ~sg => 0 <= v /\ v <= 2 * p
    PROVE  Cast(sg, 2 * w, v) = v
<1>1. m >= 2 /\ p = 2 * m
  BY LaneNumbers
<1>2. PICK mm, pp : mm = m * p /\ pp = p * p
  OBVIOUS
<1>3. mm = 2 * (m * m) /\ m * m >= 2 * m /\ pp = 2 * mm /\ m * m \in Nat
  BY <1>1, <1>2
<1>4. IF sg THEN -mm <= v /\ v < mm ELSE 0 <= v /\ v < pp
  BY <1>1, <1>3
<1>5. QED
  BY <1>2, <1>4, WideCast

(* An unsigned number below zero.                                          *)
LEMMA WideBelow ==
    ASSUME NEW m \in Nat, NEW p \in Nat, LaneRange(m, p), NEW sg \in BOOLEAN, NEW v \in Int,
           ~sg, -p <= v, v < 0
    PROVE  Cast(sg, 2 * w, v) = v + p * p
<1>1. m >= 2 /\ p = 2 * m
  BY LaneNumbers
<1>2. PICK n, mm, pp : n = 2 * w /\ mm = m * p /\ pp = p * p
  OBVIOUS
<1>3. mm \in Nat /\ pp \in Nat /\ pp >= 2 * p
  BY <1>1, <1>2
<1>4. HalfRange(n, mm, pp)
  BY <1>2 DEF LaneRange
<1>5. Lowest(sg, n) = 0 /\ Highest(sg, n) = pp - 1
  BY <1>3, <1>4, Limits
<1>6. Lowest(sg, n) <= v + pp /\ v + pp <= Highest(sg, n)
  BY <1>1, <1>3, <1>5
<1>7. Cast(sg, n, v) = v + pp
  BY <1>3, <1>4, <1>6, CastNear
<1>8. QED
  BY <1>2, <1>7, Zenon

(* A number of the lane is its own cast.                                   *)
LEMMA LaneExact ==
    ASSUME NEW m \in Nat, NEW p \in Nat, LaneRange(m, p), NEW sg \in BOOLEAN, NEW v \in Int,
           sg => -m <= v /\ v <= m - 1, ~sg => 0 <= v /\ v <= p - 1
    PROVE  Cast(sg, w, v) = v
<1>1. InLane(sg, v)
  BY LaneLimits DEF InLane
<1>2. QED
  BY <1>1, LaneCast

(* Halved sums round as they say.                                          *)
LEMMA HaddRounds ==
    ASSUME IntBits \in Nat \ {0}, NEW m \in Nat, NEW p \in Nat, LaneRange(m, p),
           NEW sg \in BOOLEAN, NEW round \in BOOLEAN,
           NEW a, NEW b, InLane(sg, a), InLane(sg, b)
    PROVE  IsShifted(VHaddHelper(sg, round, a, b), a + b, 1, round)
<1>1. m >= 2 /\ p = 2 * m
  BY LaneNumbers
<1>2. /\ a \in Int /\ b \in Int
      /\ sg => a \in -m .. m - 1 /\ b \in -m .. m - 1
      /\ ~sg => a \in 0 .. p - 1 /\ b \in 0 .. p - 1
  BY LaneProducts
<1>3. PICK v, e : v = a + b /\ e = Flag(round)
  OBVIOUS
<1>4. v \in Int /\ e \in 0 .. 1 /\ v + e \in Int
  BY <1>2, <1>3 DEF Flag
<1>5. /\ sg => -p <= v + e /\ v + e <= p - 1
      /\ ~sg => 0 <= v + e /\ v + e <= 2 * p - 1
  BY <1>1, <1>2, <1>3, <1>4
<1>6. Cast(sg, 2 * w, v + e) = v + e
  BY <1>1, <1>4, <1>5, WideFits
<1>7. PICK q : q = (v + e) \div 2
  OBVIOUS
<1>8. q \in Int /\ (sg => -m <= q /\ q <= m - 1) /\ (~sg => 0 <= q /\ q <= p - 1)
  BY <1>1, <1>4, <1>5, <1>7
<1>9. Cast(sg, w, q) = q
  BY <1>8, LaneExact
<1>10. VHaddHelper(sg, round, a, b) = q
  BY <1>3, <1>6, <1>7, <1>9, Zenon DEF VHaddHelper
<1>11. IsShifted(q, v, 1, round)
  BY <1>3, <1>4, <1>7, Halved
<1>12. QED
  BY <1>3, <1>10, <1>11, Zenon

(* Halved differences do, but for the two cases that leave the lane.       *)
LEMMA HsubRounds ==
    ASSUME IntBits \in Nat \ {0}, NEW m \in Nat, NEW p \in Nat, LaneRange(m, p),
           NEW sg \in BOOLEAN, NEW round \in BOOLEAN,
           NEW a, NEW b, InLane(sg, a), InLane(sg, b)
    PROVE  LET h == VHsubHelper(sg, round, a, b)
           IN  \/ IsShifted(h, a - b, 1, round)
               \/ sg /\ round /\ a - b = Highest(FALSE, w) /\ h = Lowest(sg, w)
               \/ ~sg /\ a < b /\ IsShifted(h - 2 ^ w, a - b, 1, round)
<1>1. m >= 2 /\ p = 2 * m /\ 2 ^ w = p /\ Highest(FALSE, w) = p - 1
  BY LaneNumbers
<1>2. /\ a \in Int /\ b \in Int
      /\ sg => a \in -m .. m - 1 /\ b \in -m .. m - 1
      /\ ~sg => a \in 0 .. p - 1 /\ b \in 0 .. p - 1
  BY LaneProducts
<1>3. PICK v, e : v = a - b /\ e = Flag(round)
  OBVIOUS
<1>4. v \in Int /\ e \in 0 .. 1 /\ v + e \in Int
  BY <1>2, <1>3 DEF Flag
<1>5. -(p - 1) <= v /\ v <= p - 1
  BY <1>1, <1>2, <1>3
<1>6. PICK q : q = (v + e) \div 2
  OBVIOUS
<1>7. IsShifted(q, v, 1, round)
  BY <1>3, <1>4, <1>6, Halved
<1>8. q \in Int /\ -m <= q /\ q <= m /\ (v + e < 0 <=> q < 0)
  BY <1>1, <1>4, <1>5, <1>6
<1>9. PICK h : h = VHsubHelper(sg, round, a, b)
  OBVIOUS
<1>10. h = Cast(sg, w, Cast(sg, 2 * w, v + e) \div 2)
  BY <1>3, <1>9, Zenon DEF VHsubHelper
<1>11. CASE sg \/ v + e >= 0
  <2>1. Cast(sg, 2 * w, v + e) = v + e
    BY <1>1, <1>4, <1>5, <1>11, WideFits
  <2>2. h = Cast(sg, w, q)
    BY <1>6, <1>10, <2>1, Zenon
  <2>3. CASE sg /\ q = m
    <3>1. v = p - 1 /\ e = 1
      BY <1>1, <1>4, <1>5, <1>6, <2>3
    <3>2. round
      BY <1>3, <3>1 DEF Flag
    <3>3. Lowest(sg, w) = -m /\ Highest(sg, w) = m - 1
      BY <2>3, LaneLimits
    <3>4. Cast(sg, w, q) = q - p
      <4>1. q - p = -m /\ q - p \in Int
        BY <1>1, <2>3
      <4>2. -m \in Int /\ -m <= -m /\ -m <= m - 1
        BY <1>1
      <4>3. InLane(sg, q - p)
        BY <3>3, <4>1, <4>2 DEF InLane
      <4>4. QED
        BY <1>8, <4>3, LaneCast
    <3>5. h = Lowest(sg, w)
      <4>1. q - p = -m
        BY <1>1, <2>3
      <4>2. QED
        BY <2>2, <3>3, <3>4, <4>1, Zenon
    <3>6. QED
      BY <1>1, <1>3, <1>9, <2>3, <3>1, <3>2, <3>5
  <2>4. CASE ~(sg /\ q = m)
    <3>1. (sg => -m <= q /\ q <= m - 1) /\ (~sg => 0 <= q /\ q <= p - 1)
      BY <1>1, <1>4, <1>8, <1>11, <2>4
    <3>2. Cast(sg, w, q) = q
      BY <1>8, <3>1, LaneExact
    <3>3. QED
      BY <1>3, <1>7, <1>9, <2>2, <3>2, Zenon
  <2>5. QED
    BY <2>3, <2>4
<1>12. CASE ~sg /\ v + e < 0
  <2>1. Cast(sg, 2 * w, v + e) = (v + e) + p * p
    BY <1>1, <1>4, <1>5, <1>12, WideBelow
  <2>2. ((v + e) + p * p) \div 2 = q + m * p
    <3>1. p * p = 2 * (m * p) /\ m * p \in Int
      BY <1>1
    <3>2. ASSUME NEW i \in Int, NEW j \in Int PROVE (i + 2 * j) \div 2 = (i \div 2) + j
      OBVIOUS
    <3>3. QED
      BY <1>4, <1>6, <3>1, <3>2
  <2>3. h = Cast(sg, w, q + m * p)
    BY <1>10, <2>1, <2>2, Zenon
  <2>4. Cast(sg, w, q + m * p) = Cast(sg, w, q)
    <3>1. HalfRange(w, m, p) /\ m \in Int
      BY DEF LaneRange
    <3>2. QED
      BY <1>8, <3>1, CastShift
  <2>5. Cast(sg, w, q) = q + p
    <3>1. InLane(sg, q + p)
      BY <1>1, <1>8, <1>12, LaneLimits DEF InLane
    <3>2. QED
      BY <1>8, <3>1, LaneCast
  <2>6. h = q + p
    BY <2>3, <2>4, <2>5
  <2>7. h - 2 ^ w = q
    BY <1>1, <1>8, <2>6
  <2>8. a < b
    BY <1>2, <1>3, <1>4, <1>12
  <2>9. QED
    BY <1>3, <1>7, <1>9, <1>12, <2>7, <2>8, Zenon
<1>13. v + e >= 0 \/ v + e < 0
  BY <1>4
<1>14. QED
  BY <1>11, <1>12, <1>13, Zenon

(* High halves of products do.                                             *)
LEMMA MulhRounds ==
    ASSUME NEW m \in Nat, NEW p \in Nat, LaneRange(m, p),
           NEW sg \in BOOLEAN, NEW round \in BOOLEAN,
           NEW a, NEW b, InLane(sg, a), InLane(sg, b)
    PROVE  IsShifted(VMulhHelper(sg, round, a, b), a * b, w, round)
<1>1. m >= 2 /\ p = 2 * m /\ 2 ^ w = p /\ 2 ^ (w - 1) = m /\ p \in Nat \ {0}
  BY LaneNumbers
<1>2. /\ a * b \in Int
      /\ sg => -(m * (m - 1)) <= a * b /\ a * b <= m * m
      /\ ~sg => 0 <= a * b /\ a * b <= (p - 1) * (p - 1)
  BY LaneProducts
<1>3. PICK v, e : v = a * b /\ e = IF round THEN m ELSE 0
  OBVIOUS
<1>4. v \in Int /\ e \in 0 .. m
  BY <1>2, <1>3
<1>5. PICK u \in Int : u = v + e
  BY <1>4
<1>6. IF sg THEN -(m * p) <= u /\ u < m * p ELSE 0 <= u /\ u < p * p
  <2>1. /\ m * (m - 1) = m * m - m /\ (p - 1) * (p - 1) = p * p - 2 * p + 1
        /\ m * p = 2 * (m * m) /\ m * m >= 2 * m /\ m * m \in Nat /\ p * p \in Nat
    BY <1>1
  <2>2. /\ sg => -(m * m - m) <= v /\ v <= m * m
        /\ ~sg => 0 <= v /\ v <= p * p - 2 * p + 1
    BY <1>2, <1>3, <2>1
  <2>3. QED
    BY <1>1, <1>4, <1>5, <2>1, <2>2
<1>7. Cast(sg, 2 * w, u) = u
  BY <1>6, WideCast
<1>8. PICK q : q = u \div p
  OBVIOUS
<1>9. q \in Int /\ (sg => -m <= q /\ q <= m - 1) /\ (~sg => 0 <= q /\ q <= p - 1)
  <2>1. CASE sg
    <3>1. -m \in Int /\ (-m) * p = -(m * p) /\ (-m) * p <= u /\ u < m * p /\ m \in Int
      BY <1>6, <2>1
    <3>2. q \in Int /\ -m <= q /\ q < m
      BY <1>1, <1>8, <3>1, QuotientRange
    <3>3. QED
      BY <2>1, <3>2
  <2>2. CASE ~sg
    <3>1. PICK nil \in Int : nil = 0 /\ nil * p = 0
      OBVIOUS
    <3>2. nil * p <= u /\ u < p * p /\ p \in Int
      BY <1>6, <2>2, <3>1
    <3>3. q \in Int /\ nil <= q /\ q < p
      BY <1>1, <1>8, <3>2, QuotientRange
    <3>4. QED
      BY <2>2, <3>1, <3>3
  <2>3. QED
    BY <2>1, <2>2
<1>10. Cast(sg, w, q) = q
  BY <1>9, LaneExact
<1>11. VMulhHelper(sg, round, a, b) = q
  BY <1>1, <1>3, <1>5, <1>7, <1>8, <1>10, Zenon DEF VMulhHelper
<1>12. IsShifted(q, v, w, round)
  <2>1. IsShifted((v + (IF round THEN m ELSE 0)) \div (2 * m), v, w, round)
    BY <1>1, <1>4, RoundedShift
  <2>2. QED
    BY <1>1, <1>3, <1>5, <1>8, <2>1, Zenon
<1>13. QED
  BY <1>3, <1>11, <1>12, Zenon

(* What is below, or above, a limit after a shift is so before it.         *)
LEMMA ShiftedBeyond ==
    ASSUME NEW d \in Nat \ {0}, NEW v \in Int, NEW half \in 0 .. d - 1, NEW lim \in Int
    PROVE  /\ (v + half) \div d \in Int
           /\ (v + half) \div d < lim => v < lim * d
           /\ (v + half) \div d > lim => v > lim * d
<1>1. PICK q : q = (v + half) \div d
  OBVIOUS
<1>2. q \in Int /\ q * d <= v + half /\ v + half < q * d + d
  BY <1>1, IntDivision
<1>3. ASSUME NEW i \in Int, NEW j \in Int, i < j PROVE i * d + d <= j * d
  BY <1>3
<1>4. q * d \in Int /\ lim * d \in Int
  BY <1>2
<1>5. q < lim => v < lim * d
  <2>1. q < lim => q * d + d <= lim * d
    BY <1>2, <1>3
  <2>2. QED
    BY <1>2, <1>4, <2>1
<1>6. q > lim => v > lim * d
  <2>1. q > lim => lim * d + d <= q * d
    BY <1>2, <1>3
  <2>2. QED
    BY <1>2, <1>4, <2>1
<1>7. QED
  BY <1>1, <1>2, <1>5, <1>6

(* The shift of a narrowing, for every amount below the source width.      *)
LEMMA SransShift ==
    ASSUME w \in Widths, NEW k \in 0 .. w - 1, NEW v \in Int, NEW round \in BOOLEAN
    PROVE  LET half == IF k # 0 /\ round THEN 2 ^ (k - 1) ELSE 0
           IN  /\ 2 ^ k \in Nat \ {0} /\ half \in 0 .. 2 ^ k - 1
               /\ IsShifted((v + half) \div 2 ^ k, v, k, round)
<1>1. w \in Nat /\ w <= IntBits /\ IntBits \in Nat
  BY WidthFacts
<1>2. PICK half : half = IF k # 0 /\ round THEN 2 ^ (k - 1) ELSE 0
  OBVIOUS
<1>3. CASE k = 0
  <2>1. 2 ^ k = 1 /\ half = 0
    BY <1>2, <1>3, LanePowers
  <2>2. (v + half) \div 2 ^ k = v
    BY <2>1
  <2>3. IsShifted(v, v, k, round)
    BY <2>1 DEF IsShifted, IsFloor, IsNearest
  <2>4. 2 ^ k \in Nat \ {0} /\ half \in 0 .. 2 ^ k - 1
    BY <2>1
  <2>5. QED
    BY <1>2, <2>2, <2>3, <2>4, Zenon
<1>4. CASE k # 0
  <2>1. PICK h : h = 2 ^ (k - 1)
    OBVIOUS
  <2>2. k - 1 \in 0 .. 2 * IntBits /\ k - 1 < 2 * IntBits /\ (k - 1) + 1 = k
    BY <1>1, <1>4
  <2>3. h \in Nat \ {0} /\ 2 ^ k = 2 * h
    BY <2>1, <2>2, LanePowers
  <2>4. half = IF round THEN h ELSE 0
    BY <1>2, <1>4, <2>1
  <2>5. 2 ^ k \in Nat \ {0} /\ half \in 0 .. 2 ^ k - 1
    BY <2>3, <2>4
  <2>6. IsShifted((v + (IF round THEN h ELSE 0)) \div (2 * h), v, k, round)
    BY <2>3, RoundedShift
  <2>7. IsShifted((v + half) \div 2 ^ k, v, k, round)
    BY <2>3, <2>4, <2>6, Zenon
  <2>8. QED
    BY <1>2, <2>5, <2>7, Zenon
<1>5. QED
  BY <1>3, <1>4

(* Narrowing is the saturated shift of the wide source.                    *)
LEMMA SransRounds ==
    ASSUME w \in Widths, NEW n \in Widths, NEW sg \in BOOLEAN, NEW round \in BOOLEAN,
           NEW a \in Int, NEW b \in Int
    PROVE  LET k == b % w
               r == VSransHelper(sg, n, w, round, a, b)
           IN  \/ IsShifted(r, a, k, round)
               \/ r = Lowest(sg, n) /\ a < r * 2 ^ k
               \/ r = Highest(sg, n) /\ a > r * 2 ^ k
<1>1. w \in Nat \ {0}
  BY WidthFacts
<1>2. PICK k : k = b % w
  OBVIOUS
<1>3. k \in 0 .. w - 1
  BY <1>1, <1>2
<1>4. PICK d, half : d = 2 ^ k /\ half = IF k # 0 /\ round THEN 2 ^ (k - 1) ELSE 0
  OBVIOUS
<1>5. PICK res : res = (a + half) \div d
  OBVIOUS
<1>6. d \in Nat \ {0} /\ half \in 0 .. d - 1 /\ IsShifted(res, a, k, round)
  BY <1>3, <1>4, <1>5, SransShift
<1>7. PICK m, p \in Nat : HalfRange(n, m, p)
  <2>1. PICK h \in Nat \ {0} : HalfRange(n, 2 * h, 4 * h)
    BY WidthFacts
  <2>2. 2 * h \in Nat /\ 4 * h \in Nat
    OBVIOUS
  <2>3. QED
    BY <2>1, <2>2, Zenon
<1>8. PICK lo, hi : lo = Lowest(sg, n) /\ hi = Highest(sg, n)
  OBVIOUS
<1>9. lo \in Int /\ hi \in Int
  BY <1>7, <1>8, Limits
<1>10. /\ res \in Int
       /\ res < lo => a < lo * d
       /\ res > hi => a > hi * d
  BY <1>5, <1>6, <1>9, ShiftedBeyond
<1>11. lo <= res /\ res <= hi => Cast(sg, n, res) = res
  BY <1>7, <1>8, <1>10, CastExact
<1>12. lo <= hi
  BY <1>7, <1>8, Limits DEF HalfRange
<1>13. PICK r : r = VSransHelper(sg, n, w, round, a, b)
  OBVIOUS
<1>14. r = CASE res < lo -> lo
             [] res > hi -> hi
             [] OTHER    -> Cast(sg, n, res)
  BY <1>2, <1>4, <1>5, <1>8, <1>13, Zenon DEF VSransHelper
<1>15. CASE res < lo
  <2>1. r = lo
    BY <1>9, <1>10, <1>12, <1>14, <1>15
  <2>2. QED
    BY <1>2, <1>4, <1>8, <1>10, <1>13, <1>15, <2>1, Zenon
<1>16. CASE res > hi
  <2>1. r = hi
    BY <1>9, <1>10, <1>12, <1>14, <1>16
  <2>2. QED
    BY <1>2, <1>4, <1>8, <1>10, <1>13, <1>16, <2>1, Zenon
<1>17. CASE lo <= res /\ res <= hi
  <2>1. r = res
    BY <1>9, <1>10, <1>11, <1>14, <1>17
  <2>2. QED
    BY <1>2, <1>6, <1>13, <2>1, Zenon
<1>18. res < lo \/ res > hi \/ (lo <= res /\ res <= hi)
  BY <1>9, <1>10
<1>19. QED
  BY <1>15, <1>16, <1>17, <1>18, Zenon

(* The doubling product saturates only for lowest times lowest.            *)
LEMMA DmulhRounds ==
    ASSUME w \in Widths, NEW m \in Nat, NEW p \in Nat, LaneRange(m, p),
           NEW a \in -m .. m - 1, NEW b \in -m .. m - 1,
           NEW round \in BOOLEAN, NEW round_neg \in BOOLEAN
    PROVE  LET r == VDmulhHelper(round, round_neg, a, b)
           IN  /\ ~round_neg => \/ IsShifted(r, a * b, w - 1, round)
                                \/ a = -m /\ b = -m /\ r = m - 1
               /\ round /\ round_neg /\ a * b < 0 =>
                    \/ IsNearest(r, a * b, w - 1)
                    \/ IsNearest(r + 1, a * b, w - 1)
<1>1. PICK h \in Nat \ {0} : 2 ^ (w - 2) = h /\ 2 ^ (w - 1) = 2 * h
  BY WidthFacts
<1>2. m >= 2 /\ 2 ^ (w - 1) = m /\ Lowest(TRUE, w) = -m /\ Highest(TRUE, w) = m - 1
  BY LaneNumbers
<1>3. m = 2 * h
  BY <1>1, <1>2
<1>4. PICK v : v = a * b
  OBVIOUS
<1>5. /\ v \in Int /\ -(m * (m - 1)) <= v
      /\ ~(a = -m /\ b = -m) => v <= m * (m - 1)
      /\ v < 0 => ~(a = -m /\ b = -m)
  BY <1>2, <1>4, ProductBounds
<1>6. PICK e : e = IF round THEN IF v < 0 /\ round_neg THEN -h ELSE h ELSE 0
  OBVIOUS
<1>7. e \in Int /\ -h <= e /\ e <= h /\ v + e \in Int
  BY <1>5, <1>6
<1>8. PICK q : q = (v + e) \div m
  OBVIOUS
<1>9. PICK r : r = VDmulhHelper(round, round_neg, a, b)
  OBVIOUS
<1>10. r = IF a = -m /\ b = -m THEN m - 1 ELSE Cast(TRUE, w, q)
  BY <1>1, <1>2, <1>4, <1>6, <1>8, <1>9, Zenon DEF VDmulhHelper
<1>11. CASE a = -m /\ b = -m
  <2>1. ~(v < 0)
    BY <1>5, <1>11
  <2>2. r = m - 1
    BY <1>10, <1>11
  <2>3. QED
    BY <1>2, <1>4, <1>9, <1>11, <2>1, <2>2, Zenon
<1>12. CASE ~(a = -m /\ b = -m)
  <2>1. q \in Int /\ -m <= q /\ q < m
    <3>1. m * (m - 1) = m * m - m /\ (-m) * m = -(m * m) /\ m * m \in Nat
      OBVIOUS
    <3>2. -(m * m) + m <= v /\ v <= m * m - m
      BY <1>5, <1>12, <3>1
    <3>3. -(m * m) <= v + e /\ v + e < m * m
      BY <1>3, <1>5, <1>7, <3>1, <3>2
    <3>4. -m \in Int /\ m \in Int /\ (-m) * m <= v + e /\ v + e < m * m /\ m \in Nat \ {0}
      BY <1>2, <3>1, <3>3
    <3>5. QED
      BY <1>7, <1>8, <3>4, QuotientRange
  <2>2. q \in -m .. m - 1
    BY <2>1
  <2>3. r = q
    <3>1. Cast(TRUE, w, q) = q
      BY <2>1, <2>2, SignedCast
    <3>2. QED
      BY <1>10, <1>12, <3>1, Zenon
  <2>4. ~round_neg => IsShifted(q, v, w - 1, round)
    <3> SUFFICES ASSUME ~round_neg PROVE IsShifted(q, v, w - 1, round)
      OBVIOUS
    <3>1. e = IF round THEN h ELSE 0
      BY <1>6
    <3>2. IsShifted((v + (IF round THEN h ELSE 0)) \div (2 * h), v, w - 1, round)
      BY <1>1, <1>5, RoundedShift
    <3>3. QED
      BY <1>3, <1>8, <3>1, <3>2, Zenon
  <2>5. round /\ round_neg /\ v < 0 => IsNearest(q + 1, v, w - 1)
    <3> SUFFICES ASSUME round, round_neg, v < 0 PROVE IsNearest(q + 1, v, w - 1)
      OBVIOUS
    <3>1. e = -h
      BY <1>6
    <3>2. m \in Nat \ {0}
      BY <1>2
    <3>3. q * m <= v + e /\ v + e < q * m + m
      BY <1>7, <1>8, <3>2, IntDivision
    <3>4. /\ (2 * (q + 1) - 1) * m = 2 * (q * m) + m
          /\ (2 * (q + 1) + 1) * m = 2 * (q * m) + 3 * m /\ q * m \in Int
      BY <2>1
    <3>5. (2 * (q + 1) - 1) * m <= 2 * v /\ 2 * v < (2 * (q + 1) + 1) * m
      BY <1>3, <1>5, <3>1, <3>3, <3>4
    <3>6. QED
      BY <1>2, <3>5 DEF IsNearest
  <2>6. QED
    BY <1>4, <1>9, <2>3, <2>4, <2>5, Zenon
<1>13. QED
  BY <1>11, <1>12, Zenon

(* What RoundingExact says of one lane.                                    *)
LEMMA RoundingOfLane == LaneTypeOK => RoundingExact
<1> SUFFICES ASSUME LaneTypeOK, NEW round \in BOOLEAN
    PROVE  /\ \A sg \in BOOLEAN :
              LET a == As(sg, x)
                  b == As(sg, y)
              IN  /\ IsShifted(VHaddHelper(sg, round, a, b), a + b, 1, round)
                  /\ LET h == VHsubHelper(sg, round, a, b)
                     IN  \/ IsShifted(h, a - b, 1, round)
                         \/ sg /\ round /\ a - b = Highest(FALSE, w) /\ h = Lowest(sg, w)
                         \/ ~sg /\ a < b /\ IsShifted(h - 2 ^ w, a - b, 1, round)
                  /\ IsShifted(VMulhHelper(sg, round, a, b), a * b, w, round)
                  /\ \A n \in {i \in Widths : 2 * i = w} :
                       LET b2 == Cast(sg, n, y)
                           k  == b2 % w
                           r  == VSransHelper(sg, n, w, round, a, b2)
                       IN  \/ IsShifted(r, a, k, round)
                           \/ r = Lowest(sg, n) /\ a < r * 2 ^ k
                           \/ r = Highest(sg, n) /\ a > r * 2 ^ k
           /\ LET a == S(x)
                  b == S(y)
                  r == VDmulhHelper(round, FALSE, a, b)
                  m == VDmulhHelper(TRUE, TRUE, a, b)
              IN  /\ \/ IsShifted(r, a * b, w - 1, round)
                     \/ a = Lowest(TRUE, w) /\ b = a /\ r = Highest(TRUE, w)
                  /\ a * b < 0 => \/ IsNearest(m, a * b, w - 1)
                                  \/ IsNearest(m + 1, a * b, w - 1)
  BY DEF RoundingExact
<1>1. PICK half, p \in Nat : LaneRange(half, p)
  BY LaneHasRange DEF LaneTypeOK
<1>2. w \in Widths /\ x \in 0 .. 2 ^ w - 1 /\ y \in 0 .. 2 ^ w - 1 /\ y \in Int
  BY DEF LaneTypeOK
<1>3. S(x) \in -half .. half - 1 /\ S(y) \in -half .. half - 1
  BY <1>1, <1>2, SampleInLane
<1>4. IntBits \in Nat \ {0}
  BY <1>2, WidthFacts
<1>5. ASSUME NEW sg \in BOOLEAN
      PROVE  LET a == As(sg, x)
                 b == As(sg, y)
             IN  /\ IsShifted(VHaddHelper(sg, round, a, b), a + b, 1, round)
                 /\ LET h == VHsubHelper(sg, round, a, b)
                    IN  \/ IsShifted(h, a - b, 1, round)
                        \/ sg /\ round /\ a - b = Highest(FALSE, w) /\ h = Lowest(sg, w)
                        \/ ~sg /\ a < b /\ IsShifted(h - 2 ^ w, a - b, 1, round)
                 /\ IsShifted(VMulhHelper(sg, round, a, b), a * b, w, round)
                 /\ \A n \in {i \in Widths : 2 * i = w} :
                      LET b2 == Cast(sg, n, y)
                          k  == b2 % w
                          r  == VSransHelper(sg, n, w, round, a, b2)
                      IN  \/ IsShifted(r, a, k, round)
                          \/ r = Lowest(sg, n) /\ a < r * 2 ^ k
                          \/ r = Highest(sg, n) /\ a > r * 2 ^ k
  <2> DEFINE a == As(sg, x)
             b == As(sg, y)
  <2>1. InLane(sg, a) /\ InLane(sg, b)
    BY <1>1, <1>2, SampleInLane
  <2> HIDE DEF a, b
  <2>2. a \in Int
    BY <2>1 DEF InLane
  <2>3. IsShifted(VHaddHelper(sg, round, a, b), a + b, 1, round)
    BY <1>1, <1>4, <2>1, HaddRounds
  <2>4. LET h == VHsubHelper(sg, round, a, b)
        IN  \/ IsShifted(h, a - b, 1, round)
            \/ sg /\ round /\ a - b = Highest(FALSE, w) /\ h = Lowest(sg, w)
            \/ ~sg /\ a < b /\ IsShifted(h - 2 ^ w, a - b, 1, round)
    BY <1>1, <1>4, <2>1, HsubRounds
  <2>5. IsShifted(VMulhHelper(sg, round, a, b), a * b, w, round)
    BY <1>1, <2>1, MulhRounds
  <2>6. ASSUME NEW n \in Widths
        PROVE  LET b2 == Cast(sg, n, y)
                   k  == b2 % w
                   r  == VSransHelper(sg, n, w, round, a, b2)
               IN  \/ IsShifted(r, a, k, round)
                   \/ r = Lowest(sg, n) /\ a < r * 2 ^ k
                   \/ r = Highest(sg, n) /\ a > r * 2 ^ k
    <3>1. PICK h \in Nat \ {0} : HalfRange(n, 2 * h, 4 * h)
      BY WidthFacts
    <3>2. PICK mm, pp \in Nat : HalfRange(n, mm, pp)
      <4>1. 2 * h \in Nat /\ 4 * h \in Nat
        OBVIOUS
      <4>2. QED
        BY <3>1, <4>1, Zenon
    <3>3. PICK b2 : b2 = Cast(sg, n, y)
      OBVIOUS
    <3>4. b2 \in Int
      BY <1>2, <3>2, <3>3, CastCongruent
    <3>5. LET k  == b2 % w
              r  == VSransHelper(sg, n, w, round, a, b2)
          IN  \/ IsShifted(r, a, k, round)
              \/ r = Lowest(sg, n) /\ a < r * 2 ^ k
              \/ r = Highest(sg, n) /\ a > r * 2 ^ k
      BY <1>2, <2>2, <3>4, SransRounds
    <3>6. QED
      BY <3>3, <3>5, Zenon
  <2>7. QED
    BY <2>3, <2>4, <2>5, <2>6, Zenon DEF a, b
<1>6. LET a == S(x)
          b == S(y)
          r == VDmulhHelper(round, FALSE, a, b)
          m == VDmulhHelper(TRUE, TRUE, a, b)
      IN  /\ \/ IsShifted(r, a * b, w - 1, round)
             \/ a = Lowest(TRUE, w) /\ b = a /\ r = Highest(TRUE, w)
          /\ a * b < 0 => \/ IsNearest(m, a * b, w - 1)
                          \/ IsNearest(m + 1, a * b, w - 1)
  <2>1. PICK yes \in BOOLEAN, no \in BOOLEAN : yes = TRUE /\ no = FALSE
    OBVIOUS
  <2>2. LET r == VDmulhHelper(round, no, S(x), S(y))
        IN  ~no => \/ IsShifted(r, S(x) * S(y), w - 1, round)
                   \/ S(x) = -half /\ S(y) = -half /\ r = half - 1
    BY <1>1, <1>2, <1>3, DmulhRounds
  <2>3. LET r == VDmulhHelper(yes, yes, S(x), S(y))
        IN  yes /\ yes /\ S(x) * S(y) < 0 => \/ IsNearest(r, S(x) * S(y), w - 1)
                                             \/ IsNearest(r + 1, S(x) * S(y), w - 1)
    BY <1>1, <1>2, <1>3, DmulhRounds
  <2>4. Lowest(TRUE, w) = -half /\ Highest(TRUE, w) = half - 1
    BY <1>1, LaneNumbers
  <2>5. QED
    BY <2>1, <2>2, <2>3, <2>4, Zenon
<1>7. QED
  BY <1>5, <1>6, Zenon

(* Halving, high-half, doubling and narrowing operations round down or to  *)
(* the nearest as their name says and saturate only at the limits: for     *)
(* every width of a lane and all operands.                                 *)
THEOREM RoundingIsExact == LaneSpec => []RoundingExact
<1>1. QED
  BY LaneTyped, RoundingOfLane, PTL

-----------------------------------------------------------------------------
(* The shift by a signed amount.                                           *)

(* The powers of two of a shift amount.                                    *)
LEMMA ShiftPowers ==
    ASSUME w \in Widths, NEW m \in Nat, NEW p \in Nat, LaneRange(m, p), NEW k \in 1 .. w + 1
    PROVE  \E h \in Nat \ {0} :
              /\ 2 ^ (k - 1) = h /\ 2 ^ k = 2 * h
              /\ k <= w => 2 * h <= p
              /\ k = w => 2 * h = p
              /\ k = w + 1 => h = p
<1>1. w \in Nat /\ w >= 2 /\ w <= IntBits /\ IntBits \in Nat
  BY WidthFacts
<1>2. PICK h : h = 2 ^ (k - 1)
  OBVIOUS
<1>3. k - 1 \in 0 .. 2 * IntBits /\ k - 1 < 2 * IntBits /\ (k - 1) + 1 = k
  BY <1>1
<1>4. h \in Nat \ {0} /\ 2 ^ k = 2 * h
  BY <1>2, <1>3, LanePowers
<1>5. 2 ^ w = p
  BY LaneNumbers
<1>6. ASSUME k <= w PROVE 2 * h <= p
  <2>1. k \in 0 .. IntBits /\ w - k \in 0 .. IntBits /\ k + (w - k) = w /\ w - k \in 0 .. 2 * IntBits
    BY <1>1, <1>6
  <2>2. PICK g : g = 2 ^ (w - k)
    OBVIOUS
  <2>3. g \in Nat \ {0}
    BY <2>1, <2>2, LanePowers
  <2>4. 2 ^ (k + (w - k)) = 2 ^ k * 2 ^ (w - k)
    BY <2>1, LanePowers
  <2>5. p = (2 * h) * g
    BY <1>4, <1>5, <2>1, <2>2, <2>4
  <2>6. QED
    BY <1>4, <2>3, <2>5
<1>7. k = w => 2 * h = p
  BY <1>4, <1>5
<1>8. k = w + 1 => h = p
  <2>1. k = w + 1 => k - 1 = w
    BY <1>1
  <2>2. QED
    BY <1>2, <1>5, <2>1
<1>9. QED
  BY <1>2, <1>4, <1>6, <1>7, <1>8

(* A left shift multiplies by a power of two that the lane holds.          *)
LEMMA LeftPowers ==
    ASSUME w \in Widths, NEW m \in Nat, NEW p \in Nat, LaneRange(m, p), NEW k \in 0 .. w
    PROVE  /\ 2 ^ k \in Nat \ {0} /\ 2 ^ k <= p
           /\ k < w => 2 ^ k <= m
           /\ k = w => 2 ^ k = p
<1>1. w \in Nat /\ w >= 2 /\ w <= IntBits /\ IntBits \in Nat
  BY WidthFacts
<1>2. 2 ^ w = p /\ 2 ^ (w - 1) = m /\ p = 2 * m
  BY LaneNumbers
<1>3. PICK d : d = 2 ^ k
  OBVIOUS
<1>4. d \in Nat \ {0}
  <2>1. k \in 0 .. 2 * IntBits
    BY <1>1
  <2>2. QED
    BY <1>3, <2>1, LanePowers
<1>5. ASSUME k < w PROVE d <= m
  <2>1. k \in 0 .. IntBits /\ w - 1 - k \in 0 .. IntBits /\ k + (w - 1 - k) = w - 1
        /\ w - 1 - k \in 0 .. 2 * IntBits
    BY <1>1, <1>5
  <2>2. PICK g : g = 2 ^ (w - 1 - k)
    OBVIOUS
  <2>3. g \in Nat \ {0}
    BY <2>1, <2>2, LanePowers
  <2>4. 2 ^ (k + (w - 1 - k)) = 2 ^ k * 2 ^ (w - 1 - k)
    BY <2>1, LanePowers
  <2>5. m = d * g
    BY <1>2, <1>3, <2>1, <2>2, <2>4
  <2>6. QED
    BY <1>4, <2>3, <2>5
<1>6. k = w => d = p
  BY <1>2, <1>3
<1>7. d <= p
  <2>1. k < w \/ k = w
    BY <1>1
  <2>2. QED
    BY <1>2, <1>4, <1>5, <1>6, <2>1
<1>8. QED
  BY <1>3, <1>4, <1>5, <1>6, <1>7

(* A right shift by the width of the lane or more leaves nothing but the   *)
(* sign of the operand, and rounded it leaves nothing.                     *)
LEMMA NothingLeft ==
    ASSUME w \in Widths, NEW m \in Nat, NEW p \in Nat, LaneRange(m, p), NEW round \in BOOLEAN,
           NEW k \in {w, w + 1}, NEW a \in Int
    PROVE  /\ -m <= a /\ a < 0 => IsShifted(-1 + Flag(round), a, k, round)
           /\ 0 <= a /\ a < m => IsShifted(0, a, k, round)
           /\ 0 <= a /\ a < p /\ k = w + 1 => IsShifted(0, a, k, round)
<1>1. m >= 2 /\ p = 2 * m
  BY LaneNumbers
<1>2. w \in Nat /\ w >= 2
  BY WidthFacts
<1>3. k \in 1 .. w + 1
  BY <1>2
<1>4. PICK h \in Nat \ {0} : 2 ^ k = 2 * h /\ (k = w => 2 * h = p) /\ (k = w + 1 => h = p)
  BY <1>3, ShiftPowers
<1>5. PICK d \in Nat \ {0} : 2 ^ k = d /\ d >= p /\ (k = w + 1 => d = 2 * p)
  <2>1. 2 * h \in Nat \ {0} /\ 2 * h >= p /\ (k = w + 1 => 2 * h = 2 * p)
    BY <1>2, <1>4
  <2>2. QED
    BY <1>4, <2>1, Zenon
<1>6. CASE round
  <2>1. -1 + Flag(round) = 0
    BY <1>6 DEF Flag
  <2>2. (2 * 0 - 1) * d = -d /\ (2 * 0 + 1) * d = d
    OBVIOUS
  <2>3. IsNearest(0, a, k) <=> -d <= 2 * a /\ 2 * a < d
    BY <1>5, <2>2 DEF IsNearest
  <2>4. /\ -m <= a /\ a < 0 => -d <= 2 * a /\ 2 * a < d
        /\ 0 <= a /\ a < m => -d <= 2 * a /\ 2 * a < d
        /\ 0 <= a /\ a < p /\ k = w + 1 => -d <= 2 * a /\ 2 * a < d
    BY <1>1, <1>5
  <2>5. QED
    BY <1>6, <2>1, <2>3, <2>4 DEF IsShifted
<1>7. CASE ~round
  <2>1. -1 + Flag(round) = -1
    BY <1>7 DEF Flag
  <2>2. (-1) * d = -d /\ (-1 + 1) * d = 0 /\ 0 * d = 0 /\ (0 + 1) * d = d
    OBVIOUS
  <2>3. /\ IsFloor(-1, a, k) <=> -d <= a /\ a < 0
        /\ IsFloor(0, a, k) <=> 0 <= a /\ a < d
    BY <1>5, <2>2 DEF IsFloor
  <2>4. /\ -m <= a /\ a < 0 => -d <= a
        /\ a < m => a < d
        /\ a < p => a < d
    BY <1>1, <1>5
  <2>5. QED
    BY <1>7, <2>1, <2>3, <2>4 DEF IsShifted
<1>8. QED
  BY <1>6, <1>7

(* A right shift by less: the result stays in the lane.                    *)
LEMMA RightShift ==
    ASSUME w \in Widths, NEW m \in Nat, NEW p \in Nat, LaneRange(m, p), NEW round \in BOOLEAN,
           NEW k \in 1 .. w, NEW a \in Int
    PROVE  LET q == (a + IF round THEN 2 ^ (k - 1) ELSE 0) \div 2 ^ k
           IN  /\ q \in Int /\ IsShifted(q, a, k, round)
               /\ -m <= a /\ a < m => -m <= q /\ q < m
               /\ 0 <= a /\ a < p => 0 <= q /\ q < p
<1>1. m >= 2 /\ p = 2 * m
  BY LaneNumbers
<1>2. k \in 1 .. w + 1
  BY WidthFacts
<1>3. PICK h \in Nat \ {0} : 2 ^ (k - 1) = h /\ 2 ^ k = 2 * h
  BY <1>2, ShiftPowers
<1>4. PICK half : half = IF round THEN h ELSE 0
  OBVIOUS
<1>5. PICK d : d = 2 * h
  OBVIOUS
<1>6. PICK q : q = (a + half) \div d
  OBVIOUS
<1>7. IsShifted(q, a, k, round)
  BY <1>3, <1>4, <1>5, <1>6, RoundedShift
<1>8. half \in 0 .. h /\ d \in Nat \ {0} /\ a + half \in Int
  BY <1>4, <1>5
<1>9. q \in Int
  BY <1>6, <1>8, IntDivision
<1>10. ASSUME NEW lo \in Int, NEW hi \in Int, lo <= 0, hi >= 2, lo <= a, a < hi
       PROVE  lo <= q /\ q < hi
  <2>1. hi * h >= hi + 2 * h - 2
    <3>1. (hi - 2) * (h - 1) >= 0
      BY <1>10
    <3>2. (hi - 2) * (h - 1) = hi * h - 2 * h - hi + 2 /\ hi * h \in Int
      BY <1>10
    <3>3. QED
      BY <1>10, <3>1, <3>2
  <2>2. lo * h <= lo
    <3>1. (0 - lo) * (h - 1) >= 0
      BY <1>10
    <3>2. (0 - lo) * (h - 1) = lo - lo * h /\ lo * h \in Int
      BY <1>10
    <3>3. QED
      BY <3>1, <3>2
  <2>3. lo * d = 2 * (lo * h) /\ hi * d = 2 * (hi * h) /\ lo * h \in Int /\ hi * h \in Int
    BY <1>5, <1>10
  <2>4. lo * d <= a + half /\ a + half < hi * d
    BY <1>8, <1>10, <2>1, <2>2, <2>3
  <2>5. QED
    BY <1>6, <1>8, <1>10, <2>4, QuotientRange
<1>11. -m <= a /\ a < m => -m <= q /\ q < m
  <2>1. -m \in Int /\ m \in Int /\ -m <= 0
    BY <1>1
  <2>2. QED
    BY <1>1, <1>10, <2>1
<1>12. 0 <= a /\ a < p => 0 <= q /\ q < p
  BY <1>1, <1>10
<1>13. q = (a + IF round THEN 2 ^ (k - 1) ELSE 0) \div 2 ^ k
  BY <1>3, <1>4, <1>5, <1>6
<1>14. QED
  BY <1>7, <1>9, <1>11, <1>12, <1>13, Zenon

(* A left shift by less than the width, computed on the unsigned image of  *)
(* the operand in the type of twice the width, is the exact product.       *)
LEMMA SignedLeft ==
    ASSUME w \in Widths, NEW m \in Nat, NEW p \in Nat, LaneRange(m, p),
           NEW j \in 0 .. w - 1, NEW a \in -m .. m - 1
    PROVE  /\ a * 2 ^ j \in Int
           /\ Cast(TRUE, 2 * w, Cast(FALSE, 2 * w, a) * 2 ^ j) = a * 2 ^ j
<1>1. m >= 2 /\ p = 2 * m
  BY LaneNumbers
<1>2. j \in 0 .. w /\ j < w
  BY WidthFacts
<1>3. PICK d \in Nat \ {0} : d = 2 ^ j /\ d <= m
  BY <1>2, LeftPowers
<1>4. PICK n, mm, pp : n = 2 * w /\ mm = m * p /\ pp = p * p
  OBVIOUS
<1>5. mm \in Nat /\ pp \in Nat
  BY <1>4
<1>6. HalfRange(n, mm, pp)
  BY <1>4 DEF LaneRange
<1>7. PICK yes \in BOOLEAN, no \in BOOLEAN : yes = TRUE /\ no = FALSE
  OBVIOUS
<1>8. PICK i \in Int : Cast(no, n, a) = a + i * pp
  <2>1. CASE a < 0
    <3>1. -p <= a /\ a \in Int
      BY <1>1
    <3>2. Cast(no, 2 * w, a) = a + p * p
      BY <1>7, <2>1, <3>1, WideBelow
    <3>3. Cast(no, n, a) = a + 1 * pp
      BY <1>4, <1>5, <3>2
    <3>4. QED
      BY <3>3
  <2>2. CASE 0 <= a
    <3>1. a <= 2 * p /\ a \in Int
      BY <1>1
    <3>2. Cast(no, 2 * w, a) = a
      BY <1>7, <2>2, <3>1, WideFits
    <3>3. Cast(no, n, a) = a + 0 * pp
      BY <1>4, <1>5, <3>2
    <3>4. QED
      BY <3>3
  <2>3. QED
    BY <2>1, <2>2
<1>9. PICK r \in Int, k \in Int : r = a * d /\ k = i * d
  OBVIOUS
<1>10. (a + i * pp) * d = r + k * pp
  BY <1>5, <1>9
<1>11. -mm <= r /\ r <= mm - 1
  <2>1. -(m * d) <= r /\ r <= (m - 1) * d /\ (m - 1) * d = m * d - d /\ m * d \in Nat
    BY <1>9
  <2>2. m * d <= m * m
    BY <1>3
  <2>3. mm = 2 * (m * m) /\ m * m \in Nat
    BY <1>1, <1>4
  <2>4. QED
    BY <2>1, <2>2, <2>3
<1>12. Lowest(yes, n) <= r /\ r <= Highest(yes, n)
  BY <1>5, <1>6, <1>7, <1>11, Limits
<1>13. Cast(yes, n, r + k * pp) = r
  BY <1>5, <1>6, <1>12, CastUnique
<1>14. QED
  BY <1>3, <1>4, <1>7, <1>8, <1>9, <1>10, <1>13

(* The unsigned left shift is exact up to the width.                       *)
LEMMA UnsignedLeft ==
    ASSUME w \in Widths, NEW m \in Nat, NEW p \in Nat, LaneRange(m, p),
           NEW j \in 0 .. w, NEW a \in 0 .. p - 1
    PROVE  /\ a * 2 ^ j \in Nat
           /\ Cast(FALSE, 2 * w, a * 2 ^ j) = a * 2 ^ j
           /\ j = w /\ a # 0 => a * 2 ^ j >= p
<1>1. PICK d \in Nat \ {0} : d = 2 ^ j /\ d <= p /\ (j = w => d = p)
  BY LeftPowers
<1>2. PICK r : r = a * d
  OBVIOUS
<1>3. r \in Nat /\ r \in Int
  BY <1>2
<1>4. r < p * p
  <2>1. r <= (p - 1) * d /\ (p - 1) * d <= (p - 1) * p /\ (p - 1) * p < p * p
    BY <1>1, <1>2
  <2>2. (p - 1) * d \in Int /\ (p - 1) * p \in Int /\ p * p \in Int
    OBVIOUS
  <2>3. QED
    BY <1>3, <2>1, <2>2
<1>5. PICK no \in BOOLEAN : no = FALSE
  OBVIOUS
<1>6. Cast(no, 2 * w, r) = r
  BY <1>3, <1>4, <1>5, WideCast
<1>7. j = w /\ a # 0 => r >= p
  BY <1>1, <1>2
<1>8. QED
  BY <1>1, <1>2, <1>3, <1>5, <1>6, <1>7

(* A number of the signed lane is its own cast.                            *)
LEMMA SignedSame ==
    ASSUME NEW m \in Nat, NEW p \in Nat, LaneRange(m, p), NEW v \in Int, -m <= v, v < m
    PROVE  Cast(TRUE, w, v) = v
<1>1. PICK sg \in BOOLEAN : sg = TRUE
  OBVIOUS
<1>2. (sg => -m <= v /\ v <= m - 1) /\ (~sg => 0 <= v /\ v <= p - 1)
  BY <1>1
<1>3. Cast(sg, w, v) = v
  BY <1>2, LaneExact
<1>4. QED
  BY <1>1, <1>3, Zenon

(* The local variable shift of the signed shift.                           *)
SignedShift(round, a, k) ==
    CASE a < 0 /\ k >= w -> -1 + Flag(round)
      [] a > 0 /\ k >= w -> 0
      [] k > 0 /\ k < w ->
           (a + IF round THEN 2 ^ (k - 1) ELSE 0) \div 2 ^ k
      [] OTHER ->
           Cast(TRUE, 2 * w, Cast(FALSE, 2 * w, a) * 2 ^ VMin(-k, w))

(* What the signed shift returns, given that variable.                     *)
LEMMA SignedShape ==
    ASSUME NEW round, NEW a \in Int, NEW k, NEW v, v = SignedShift(round, a, k)
    PROVE  /\ a = 0 => VShiftSigned(round, a, k) = 0
           /\ a < 0 /\ (k <= -w \/ v < Lowest(TRUE, w)) =>
                 VShiftSigned(round, a, k) = Lowest(TRUE, w)
           /\ a > 0 /\ (k <= -w \/ v > Highest(TRUE, w)) =>
                 VShiftSigned(round, a, k) = Highest(TRUE, w)
           /\ a < 0 /\ ~(k <= -w \/ v < Lowest(TRUE, w)) =>
                 VShiftSigned(round, a, k) = Cast(TRUE, w, v)
           /\ a > 0 /\ ~(k <= -w \/ v > Highest(TRUE, w)) =>
                 VShiftSigned(round, a, k) = Cast(TRUE, w, v)
<1>1. VShiftSigned(round, a, k) =
        CASE a = 0 -> 0
          [] a < 0 /\ (k <= -w \/ v < Lowest(TRUE, w))  -> Lowest(TRUE, w)
          [] a > 0 /\ (k <= -w \/ v > Highest(TRUE, w)) -> Highest(TRUE, w)
          [] OTHER -> Cast(TRUE, w, v)
  BY Zenon DEF VShiftSigned, SignedShift
<1>2. PICK r, lo, hi, c : /\ r = VShiftSigned(round, a, k) /\ lo = Lowest(TRUE, w)
                          /\ hi = Highest(TRUE, w) /\ c = Cast(TRUE, w, v)
  OBVIOUS
<1>3. PICK below \in BOOLEAN, above \in BOOLEAN :
         /\ below <=> (k <= -w \/ v < lo)
         /\ above <=> (k <= -w \/ v > hi)
  OBVIOUS
<1>4. PICK neg \in BOOLEAN, zero \in BOOLEAN, pos \in BOOLEAN :
         /\ neg <=> a < 0
         /\ zero <=> a = 0
         /\ pos <=> a > 0
  OBVIOUS
<1>5. (neg => ~zero /\ ~pos) /\ (pos => ~zero /\ ~neg) /\ (zero => ~neg /\ ~pos)
  BY <1>4
<1>6. r = CASE zero -> 0 [] neg /\ below -> lo [] pos /\ above -> hi [] OTHER -> c
  BY <1>1, <1>2, <1>3, <1>4, Zenon
<1>7. /\ zero => r = 0
      /\ neg /\ below => r = lo
      /\ pos /\ above => r = hi
      /\ neg /\ ~below => r = c
      /\ pos /\ ~above => r = c
  BY <1>5, <1>6
<1>8. QED
  BY <1>2, <1>3, <1>4, <1>7, Zenon

(* The signed shift to the right.                                          *)
LEMMA SignedRight ==
    ASSUME w \in Widths, NEW m \in Nat, NEW p \in Nat, LaneRange(m, p), NEW round \in BOOLEAN,
           NEW a \in -m .. m - 1, NEW k \in Int, k > 0
    PROVE  IsShifted(VShiftSigned(round, a, k), a, VMin(k, w + 1), round)
<1>1. m >= 2 /\ p = 2 * m /\ Lowest(TRUE, w) = -m /\ Highest(TRUE, w) = m - 1
  BY LaneNumbers
<1>2. w \in Nat /\ w >= 2
  BY WidthFacts
<1>3. PICK kk : kk = VMin(k, w + 1)
  OBVIOUS
<1>4. kk \in Nat /\ kk > 0 /\ (k >= w => kk \in {w, w + 1}) /\ (k < w => kk = k)
  BY <1>2, <1>3 DEF VMin
<1>5. PICK lo, hi : lo = Lowest(TRUE, w) /\ hi = Highest(TRUE, w)
  OBVIOUS
<1>6. lo = -m /\ hi = m - 1
  BY <1>5, <1>1, Zenon
<1>7. PICK s : s = VShiftSigned(round, a, k)
  OBVIOUS
<1>8. a \in Int /\ -m <= a /\ a < m
  OBVIOUS
<1>9. CASE a = 0
  <2>1. s = 0
    BY <1>5, <1>7, <1>8, <1>9, SignedShape, Zenon
  <2>2. CASE k >= w
    BY <1>1, <1>3, <1>4, <1>7, <1>9, <2>1, <2>2, NothingLeft
  <2>3. CASE k < w
    <3>1. k \in 1 .. w + 1
      BY <1>2, <2>3
    <3>2. PICK h \in Nat \ {0} : 2 ^ k = 2 * h
      BY <3>1, ShiftPowers
    <3>3. IsFloor(0, a, k) /\ IsNearest(0, a, k)
      BY <1>9, <3>2 DEF IsFloor, IsNearest
    <3>4. IsShifted(0, a, k, round)
      BY <3>3 DEF IsShifted
    <3>5. QED
      BY <1>3, <1>4, <1>7, <2>1, <2>3, <3>4
  <2>4. QED
    BY <1>2, <2>2, <2>3
<1>10. CASE a < 0 /\ k >= w
  <2>1. PICK v : v = -1 + Flag(round)
    OBVIOUS
  <2>2. v \in Int /\ -m <= v /\ v < m
    BY <1>1, <2>1 DEF Flag
  <2>3. a < 0 /\ k >= w /\ ~(a > 0 /\ k >= w) /\ ~(k > 0 /\ k < w)
    BY <1>2, <1>8, <1>10
  <2>4. v = SignedShift(round, a, k)
    BY <2>1, <2>3, Zenon DEF SignedShift
  <2>5. ~(k <= -w \/ v < lo)
    BY <1>6, <1>1, <1>2, <1>10, <2>2
  <2>6. s = Cast(TRUE, w, v)
    <3>1. a < 0 /\ ~(k <= -w \/ v < Lowest(TRUE, w))
      BY <1>5, <1>10, <2>5, Zenon
    <3>2. VShiftSigned(round, a, k) = Cast(TRUE, w, v)
      BY <1>8, <2>4, <3>1, SignedShape, Zenon
    <3>3. QED
      BY <1>7, <3>2, Zenon
  <2>7. Cast(TRUE, w, v) = v
    BY <2>2, SignedSame
  <2>8. IsShifted(v, a, kk, round)
    BY <1>4, <1>8, <1>10, <2>1, NothingLeft
  <2>9. QED
    BY <1>3, <1>7, <2>6, <2>7, <2>8, Zenon
<1>11. CASE a > 0 /\ k >= w
  <2>1. PICK v \in Int : v = 0 /\ -m <= v /\ v < m
    BY <1>1
  <2>2. a > 0 /\ k >= w /\ ~(a < 0 /\ k >= w) /\ ~(k > 0 /\ k < w)
    BY <1>2, <1>8, <1>11
  <2>3. v = SignedShift(round, a, k)
    BY <2>1, <2>2, Zenon DEF SignedShift
  <2>4. ~(k <= -w \/ v > hi)
    BY <1>6, <1>1, <1>2, <1>11, <2>1
  <2>5. s = Cast(TRUE, w, v)
    <3>1. a > 0 /\ ~(k <= -w \/ v > Highest(TRUE, w))
      BY <1>5, <1>11, <2>4, Zenon
    <3>2. VShiftSigned(round, a, k) = Cast(TRUE, w, v)
      BY <1>8, <2>3, <3>1, SignedShape, Zenon
    <3>3. QED
      BY <1>7, <3>2, Zenon
  <2>6. Cast(TRUE, w, v) = v
    BY <2>1, SignedSame
  <2>7. IsShifted(v, a, kk, round)
    BY <1>4, <1>8, <1>11, <2>1, NothingLeft
  <2>8. QED
    BY <1>3, <1>7, <2>5, <2>6, <2>7, Zenon
<1>12. CASE a # 0 /\ k < w
  <2>1. k \in 1 .. w
    BY <1>2, <1>12
  <2>2. PICK v : v = (a + IF round THEN 2 ^ (k - 1) ELSE 0) \div 2 ^ k
    OBVIOUS
  <2>3. v \in Int /\ IsShifted(v, a, k, round) /\ -m <= v /\ v < m
    BY <1>8, <2>1, <2>2, RightShift
  <2>4. ~(a < 0 /\ k >= w) /\ ~(a > 0 /\ k >= w) /\ (k > 0 /\ k < w)
    BY <1>2, <1>12
  <2>5. v = SignedShift(round, a, k)
    BY <2>2, <2>4, Zenon DEF SignedShift
  <2>6. /\ ~(k <= -w \/ v < lo) /\ ~(k <= -w \/ v > hi)
        /\ a < 0 \/ a > 0
    BY <1>6, <1>1, <1>2, <1>8, <1>12, <2>1, <2>3
  <2>7. s = Cast(TRUE, w, v)
    <3>1. /\ ~(k <= -w \/ v < Lowest(TRUE, w)) /\ ~(k <= -w \/ v > Highest(TRUE, w))
          /\ a < 0 \/ a > 0
      BY <1>5, <2>6, Zenon
    <3>2. VShiftSigned(round, a, k) = Cast(TRUE, w, v)
      BY <1>8, <2>5, <3>1, SignedShape, Zenon
    <3>3. QED
      BY <1>7, <3>2, Zenon
  <2>8. Cast(TRUE, w, v) = v
    BY <2>3, SignedSame
  <2>9. kk = k
    BY <1>4, <1>12
  <2>10. QED
    BY <1>3, <1>7, <2>3, <2>7, <2>8, <2>9, Zenon
<1>13. a = 0 \/ (a < 0 /\ k >= w) \/ (a > 0 /\ k >= w) \/ (a # 0 /\ k < w)
  BY <1>2, <1>8
<1>14. QED
  BY <1>9, <1>10, <1>11, <1>12, <1>13, Zenon
(* Clamping, in numbers.                                                   *)
LEMMA ClampNumbers ==
    ASSUME NEW m \in Nat, NEW p \in Nat, LaneRange(m, p), NEW v \in Int
    PROVE  /\ v < -m => Clamp(TRUE, w, v) = -m
           /\ v > m - 1 => Clamp(TRUE, w, v) = m - 1
           /\ -m <= v /\ v <= m - 1 => Clamp(TRUE, w, v) = v
           /\ v > p - 1 => Clamp(FALSE, w, v) = p - 1
           /\ 0 <= v /\ v <= p - 1 => Clamp(FALSE, w, v) = v
<1>1. /\ m >= 2 /\ p = 2 * m
      /\ Lowest(TRUE, w) = -m /\ Highest(TRUE, w) = m - 1
      /\ Lowest(FALSE, w) = 0 /\ Highest(FALSE, w) = p - 1
  BY LaneNumbers
<1>2. PICK s, u : s = Clamp(TRUE, w, v) /\ u = Clamp(FALSE, w, v)
  OBVIOUS
<1>3. /\ s = IF v < -m THEN -m ELSE IF v > m - 1 THEN m - 1 ELSE v
      /\ u = IF v < 0 THEN 0 ELSE IF v > p - 1 THEN p - 1 ELSE v
  BY <1>1, <1>2, Zenon DEF Clamp
<1>4. /\ v < -m => s = -m
      /\ v > m - 1 => s = m - 1
      /\ -m <= v /\ v <= m - 1 => s = v
      /\ v > p - 1 => u = p - 1
      /\ 0 <= v /\ v <= p - 1 => u = v
  BY <1>1, <1>3
<1>5. QED
  BY <1>2, <1>4, Zenon

(* The signed shift to the left.                                           *)
LEMMA SignedLeftClamps ==
    ASSUME w \in Widths, NEW m \in Nat, NEW p \in Nat, LaneRange(m, p), NEW round \in BOOLEAN,
           NEW a \in -m .. m - 1, NEW k \in Int, k <= 0
    PROVE  VShiftSigned(round, a, k) = Clamp(TRUE, w, a * 2 ^ VMin(-k, w))
<1>1. m >= 2 /\ p = 2 * m /\ Lowest(TRUE, w) = -m /\ Highest(TRUE, w) = m - 1
  BY LaneNumbers
<1>2. w \in Nat /\ w >= 2
  BY WidthFacts
<1>3. PICK j : j = VMin(-k, w)
  OBVIOUS
<1>4. j \in 0 .. w /\ (k <= -w => j = w) /\ (~(k <= -w) => j \in 0 .. w - 1)
  BY <1>2, <1>3 DEF VMin
<1>5. PICK d \in Nat \ {0} : d = 2 ^ j /\ (j = w => d = p)
  BY <1>4, LeftPowers
<1>6. PICK v \in Int : v = a * d
  OBVIOUS
<1>7. v = a * 2 ^ VMin(-k, w)
  BY <1>3, <1>5, <1>6, Zenon
<1>8. (a < 0 => v < 0) /\ (a > 0 => v > 0) /\ (a = 0 => v = 0)
  BY <1>6
<1>9. a \in Int
  OBVIOUS
<1>10. PICK s, sh : s = VShiftSigned(round, a, k) /\ sh = SignedShift(round, a, k)
  OBVIOUS
<1>11. PICK lo, hi : lo = Lowest(TRUE, w) /\ hi = Highest(TRUE, w)
  OBVIOUS
<1>12. lo = -m /\ hi = m - 1
  BY <1>1, <1>11, Zenon
<1>13. /\ a = 0 => s = 0
       /\ a < 0 /\ (k <= -w \/ sh < lo) => s = lo
       /\ a > 0 /\ (k <= -w \/ sh > hi) => s = hi
       /\ a < 0 /\ ~(k <= -w \/ sh < lo) => s = Cast(TRUE, w, sh)
       /\ a > 0 /\ ~(k <= -w \/ sh > hi) => s = Cast(TRUE, w, sh)
  BY <1>9, <1>10, <1>11, SignedShape, Zenon
<1>14. ASSUME ~(k <= -w) PROVE sh = v
  <2>1. j \in 0 .. w - 1
    BY <1>4, <1>14
  <2>2. Cast(TRUE, 2 * w, Cast(FALSE, 2 * w, a) * 2 ^ j) = a * 2 ^ j
    BY <2>1, SignedLeft
  <2>3. ~(k >= w) /\ ~(k > 0)
    BY <1>2
  <2>4. sh = Cast(TRUE, 2 * w, Cast(FALSE, 2 * w, a) * 2 ^ j)
    BY <1>3, <1>10, <2>3, Zenon DEF SignedShift
  <2>5. QED
    BY <1>5, <1>6, <2>2, <2>4, Zenon
<1>15. ASSUME k <= -w PROVE (a < 0 => v < -m) /\ (a > 0 => v > m - 1)
  <2>1. v = a * p
    BY <1>4, <1>5, <1>6, <1>15
  <2>2. (a < 0 => a * p <= -p) /\ (a > 0 => a * p >= p)
    BY <1>1
  <2>3. QED
    BY <1>1, <2>1, <2>2
<1>16. /\ v < -m => Clamp(TRUE, w, v) = -m
       /\ v > m - 1 => Clamp(TRUE, w, v) = m - 1
       /\ -m <= v /\ v <= m - 1 => Clamp(TRUE, w, v) = v
  BY ClampNumbers
<1>17. -m <= v /\ v <= m - 1 => Cast(TRUE, w, v) = v
  <2>1. v <= m - 1 => v < m
    OBVIOUS
  <2>2. QED
    BY <2>1, SignedSame
<1>18. PICK c, cl : c = Cast(TRUE, w, v) /\ cl = Clamp(TRUE, w, v)
  OBVIOUS
<1>19. /\ v < -m => cl = -m
       /\ v > m - 1 => cl = m - 1
       /\ -m <= v /\ v <= m - 1 => cl = v /\ c = v
  BY <1>16, <1>17, <1>18, Zenon
<1>20. CASE k <= -w
  <2>1. (a = 0 => s = 0) /\ (a < 0 => s = lo) /\ (a > 0 => s = hi)
    BY <1>13, <1>20, Zenon
  <2>2. s = cl
    BY <1>1, <1>8, <1>12, <1>15, <1>19, <1>20, <2>1
  <2>3. QED
    BY <1>7, <1>10, <1>18, <2>2, Zenon
<1>21. CASE ~(k <= -w)
  <2>1. /\ a = 0 => s = 0
        /\ a < 0 /\ v < lo => s = lo
        /\ a > 0 /\ v > hi => s = hi
        /\ a < 0 /\ ~(v < lo) => s = c
        /\ a > 0 /\ ~(v > hi) => s = c
    BY <1>13, <1>14, <1>18, <1>21, Zenon
  <2>2. s = cl
    BY <1>1, <1>8, <1>12, <1>19, <2>1
  <2>3. QED
    BY <1>7, <1>10, <1>18, <2>2, Zenon
<1>22. QED
  BY <1>20, <1>21, Zenon

(* The local variable shift of the unsigned shift.                         *)
UnsignedShift(round, a, k) ==
    CASE k > w -> 0
      [] k > 0 /\ k <= w ->
           (a + IF round THEN 2 ^ (k - 1) ELSE 0) \div 2 ^ k
      [] OTHER -> Cast(FALSE, 2 * w, a * 2 ^ VMin(-k, w))

(* Its amount, read as a signed lane.                                      *)
ShiftAmount(b) == Cast(TRUE, w, b)

(* What the unsigned shift returns, given its amount and that variable.    *)
UnsignedReturns(round, a, b, k, v) ==
    /\ a = 0 => VShiftUnsigned(round, a, b) = 0
    /\ a # 0 /\ (k < -w \/ v > Highest(FALSE, w)) =>
          VShiftUnsigned(round, a, b) = Highest(FALSE, w)
    /\ a # 0 /\ ~(k < -w \/ v > Highest(FALSE, w)) =>
          VShiftUnsigned(round, a, b) = Cast(FALSE, w, v)

(* It does so.                                                             *)
LEMMA UnsignedShape ==
    ASSUME NEW round, NEW a, NEW b
    PROVE  UnsignedReturns(round, a, b, ShiftAmount(b), UnsignedShift(round, a, ShiftAmount(b)))
<1>1. PICK k, v : k = ShiftAmount(b) /\ v = UnsignedShift(round, a, k)
  OBVIOUS
<1>2. VShiftUnsigned(round, a, b) =
        CASE a = 0 -> 0
          [] a # 0 /\ (k < -w \/ v > Highest(FALSE, w)) -> Highest(FALSE, w)
          [] OTHER -> Cast(FALSE, w, v)
  BY <1>1, Zenon DEF VShiftUnsigned, UnsignedShift, ShiftAmount
<1>3. PICK r, hi, c : r = VShiftUnsigned(round, a, b) /\ hi = Highest(FALSE, w) /\ c = Cast(FALSE, w, v)
  OBVIOUS
<1>4. PICK above \in BOOLEAN, zero \in BOOLEAN :
         /\ above <=> (k < -w \/ v > hi)
         /\ zero <=> a = 0
  OBVIOUS
<1>5. r = CASE zero -> 0 [] ~zero /\ above -> hi [] OTHER -> c
  BY <1>2, <1>3, <1>4, Zenon
<1>6. /\ zero => r = 0
      /\ ~zero /\ above => r = hi
      /\ ~zero /\ ~above => r = c
  BY <1>5
<1>7. UnsignedReturns(round, a, b, k, v)
  BY <1>3, <1>4, <1>6, Zenon DEF UnsignedReturns
<1>8. QED
  BY <1>1, <1>7, Zenon

(* A number of the unsigned lane is its own cast.                          *)
LEMMA UnsignedSame ==
    ASSUME NEW m \in Nat, NEW p \in Nat, LaneRange(m, p), NEW v \in Int, 0 <= v, v < p
    PROVE  Cast(FALSE, w, v) = v
<1>1. PICK sg \in BOOLEAN : sg = FALSE
  OBVIOUS
<1>2. (sg => -m <= v /\ v <= m - 1) /\ (~sg => 0 <= v /\ v <= p - 1)
  BY <1>1
<1>3. Cast(sg, w, v) = v
  BY <1>2, LaneExact
<1>4. QED
  BY <1>1, <1>3, Zenon

(* A shift by k to the right rounds, and to the left clamps.               *)
UnsignedShifted(round, a, b, k) ==
    /\ k > 0 => IsShifted(VShiftUnsigned(round, a, b), a, VMin(k, w + 1), round)
    /\ k <= 0 => VShiftUnsigned(round, a, b) = Clamp(FALSE, w, a * 2 ^ VMin(-k, w))

(* The unsigned shift does so.                                             *)
LEMMA UnsignedShifts ==
    ASSUME w \in Widths, NEW m \in Nat, NEW p \in Nat, LaneRange(m, p), NEW round \in BOOLEAN,
           NEW a \in 0 .. p - 1, NEW b, ShiftAmount(b) \in Int
    PROVE  UnsignedShifted(round, a, b, ShiftAmount(b))
<1>1. PICK k \in Int : k = ShiftAmount(b)
  OBVIOUS
<1>2. m >= 2 /\ p = 2 * m /\ Highest(FALSE, w) = p - 1
  BY LaneNumbers
<1>3. w \in Nat /\ w >= 2
  BY WidthFacts
<1>4. PICK s, sh, hi : /\ s = VShiftUnsigned(round, a, b) /\ sh = UnsignedShift(round, a, k)
                       /\ hi = Highest(FALSE, w)
  OBVIOUS
<1>5. hi = p - 1
  BY <1>2, <1>4, Zenon
<1>6. /\ a = 0 => s = 0
      /\ a # 0 /\ (k < -w \/ sh > hi) => s = hi
      /\ a # 0 /\ ~(k < -w \/ sh > hi) => s = Cast(FALSE, w, sh)
  <2>1. UnsignedReturns(round, a, b, ShiftAmount(b), UnsignedShift(round, a, ShiftAmount(b)))
    BY UnsignedShape
  <2>2. UnsignedReturns(round, a, b, k, sh)
    BY <1>1, <1>4, <2>1, Zenon
  <2>3. QED
    BY <1>4, <2>2, Zenon DEF UnsignedReturns
<1>7. a \in Int /\ 0 <= a /\ a < p
  OBVIOUS
<1>8. ASSUME k > 0 PROVE IsShifted(s, a, VMin(k, w + 1), round)
  <2>1. CASE k > w
    <3>1. VMin(k, w + 1) = w + 1
      BY <1>3, <2>1 DEF VMin
    <3>2. PICK kk \in {w, w + 1} : kk = w + 1
      OBVIOUS
    <3>3. IsShifted(0, a, kk, round)
      BY <1>7, <3>2, NothingLeft
    <3>4. k > w /\ ~(k > 0 /\ k <= w)
      BY <1>3, <2>1
    <3>5. sh = 0
      BY <1>4, <3>4, Zenon DEF UnsignedShift
    <3>6. ~(k < -w \/ sh > hi)
      BY <1>2, <1>3, <1>5, <2>1, <3>5
    <3>7. PICK zr \in Int : zr = 0 /\ 0 <= zr /\ zr < p
      BY <1>2
    <3>8. Cast(FALSE, w, zr) = zr
      BY <3>7, UnsignedSame
    <3>9. s = 0
      BY <1>6, <3>5, <3>6, <3>7, <3>8, Zenon
    <3>10. QED
      BY <3>1, <3>2, <3>3, <3>9, Zenon
  <2>2. CASE k <= w
    <3>1. VMin(k, w + 1) = k
      BY <1>3, <2>2 DEF VMin
    <3>2. k \in 1 .. w
      BY <1>3, <1>8, <2>2
    <3>3. PICK v : v = (a + IF round THEN 2 ^ (k - 1) ELSE 0) \div 2 ^ k
      OBVIOUS
    <3>4. v \in Int /\ IsShifted(v, a, k, round) /\ 0 <= v /\ v < p
      BY <1>7, <3>2, <3>3, RightShift
    <3>5. ~(k > w) /\ k > 0 /\ k <= w
      BY <1>3, <1>8, <2>2
    <3>6. sh = v
      BY <1>4, <3>3, <3>5, Zenon DEF UnsignedShift
    <3>7. ~(k < -w \/ v > hi)
      BY <1>3, <1>5, <1>8, <3>4
    <3>8. Cast(FALSE, w, v) = v
      BY <3>4, UnsignedSame
    <3>9. a # 0 => s = v
      BY <1>6, <3>6, <3>7, <3>8, Zenon
    <3>10. CASE a # 0
      BY <3>1, <3>4, <3>9, <3>10, Zenon
    <3>11. CASE a = 0
      <4>1. k \in 1 .. w + 1
        BY <1>3, <3>2
      <4>2. PICK h \in Nat \ {0} : 2 ^ k = 2 * h
        BY <4>1, ShiftPowers
      <4>3. IsFloor(0, a, k) /\ IsNearest(0, a, k)
        BY <3>11, <4>2 DEF IsFloor, IsNearest
      <4>4. IsShifted(0, a, k, round)
        BY <4>3 DEF IsShifted
      <4>5. QED
        BY <1>6, <3>1, <3>11, <4>4, Zenon
    <3>12. QED
      BY <3>10, <3>11
  <2>3. QED
    BY <1>3, <2>1, <2>2
<1>9. ASSUME k <= 0 PROVE s = Clamp(FALSE, w, a * 2 ^ VMin(-k, w))
  <2>1. PICK j : j = VMin(-k, w)
    OBVIOUS
  <2>2. j \in 0 .. w /\ (k < -w => j = w)
    BY <1>3, <1>9, <2>1 DEF VMin
  <2>3. PICK v : v = a * 2 ^ j
    OBVIOUS
  <2>4. /\ v \in Nat /\ Cast(FALSE, 2 * w, v) = v
        /\ j = w /\ a # 0 => v >= p
    BY <2>2, <2>3, UnsignedLeft
  <2>5. ~(k > w) /\ ~(k > 0)
    BY <1>3, <1>9
  <2>6. sh = Cast(FALSE, 2 * w, v)
    BY <1>4, <2>1, <2>3, <2>5, Zenon DEF UnsignedShift
  <2>7. PICK c, cl : c = Cast(FALSE, w, v) /\ cl = Clamp(FALSE, w, v)
    OBVIOUS
  <2>8. /\ v > p - 1 => cl = p - 1
        /\ v <= p - 1 => cl = v /\ c = v
    <3>1. v \in Int /\ 0 <= v /\ (v <= p - 1 => v < p)
      BY <2>4
    <3>2. (v > p - 1 => Clamp(FALSE, w, v) = p - 1) /\ (v <= p - 1 => Clamp(FALSE, w, v) = v)
      BY <3>1, ClampNumbers
    <3>3. v <= p - 1 => Cast(FALSE, w, v) = v
      BY <3>1, UnsignedSame
    <3>4. QED
      BY <2>7, <3>2, <3>3, Zenon
  <2>9. /\ a = 0 => s = 0
        /\ a # 0 /\ (k < -w \/ v > hi) => s = hi
        /\ a # 0 /\ ~(k < -w \/ v > hi) => s = c
    BY <1>6, <2>4, <2>6, <2>7, Zenon
  <2>10. a = 0 => v = 0
    <3>1. 2 ^ j \in Nat
      BY <2>2, LeftPowers
    <3>2. QED
      BY <2>3, <3>1
  <2>11. s = cl
    <3>1. v \in Nat /\ (j = w /\ a # 0 => v >= p)
      BY <2>4
    <3>2. QED
      BY <1>2, <1>5, <2>2, <2>8, <2>9, <2>10, <3>1
  <2>12. QED
    BY <2>1, <2>3, <2>7, <2>11, Zenon
<1>10. UnsignedShifted(round, a, b, k)
  BY <1>4, <1>8, <1>9, Zenon DEF UnsignedShifted
<1>11. QED
  BY <1>1, <1>10, Zenon

(* What ShiftExact says of one lane.                                       *)
LEMMA ShiftOfLane == LaneTypeOK => ShiftExact
<1> SUFFICES ASSUME LaneTypeOK, NEW sg \in BOOLEAN, NEW round \in BOOLEAN
    PROVE  LET a == As(sg, x)
               k == S(y)
               r == CoralNPUVShiftHelper(sg, round, a, As(sg, y))
           IN  IF k > 0 THEN IsShifted(r, a, VMin(k, w + 1), round)
               ELSE r = Clamp(sg, w, a * 2 ^ VMin(-k, w))
  BY DEF ShiftExact
<1>1. PICK m, p \in Nat : LaneRange(m, p)
  BY LaneHasRange DEF LaneTypeOK
<1>2. w \in Widths /\ x \in 0 .. 2 ^ w - 1 /\ y \in 0 .. 2 ^ w - 1
  BY DEF LaneTypeOK
<1>3. S(x) \in -m .. m - 1 /\ S(y) \in -m .. m - 1
  BY <1>1, <1>2, SampleInLane
<1>4. PICK a, k : a = As(sg, x) /\ k = S(y)
  OBVIOUS
<1>5. k \in Int
  <2>1. k \in -m .. m - 1
    BY <1>3, <1>4, Zenon
  <2>2. QED
    BY <2>1
<1>6. PICK r : r = CoralNPUVShiftHelper(sg, round, a, As(sg, y))
  OBVIOUS
<1>7. /\ k > 0 => IsShifted(r, a, VMin(k, w + 1), round)
      /\ k <= 0 => r = Clamp(sg, w, a * 2 ^ VMin(-k, w))
  <2>1. CASE sg = TRUE
    <3>1. a = S(x) /\ k = As(sg, y)
      BY <1>4, <2>1, Zenon DEF As, S
    <3>2. a \in -m .. m - 1
      BY <1>3, <3>1, Zenon
    <3>3. r = VShiftSigned(round, a, k)
      BY <1>6, <2>1, <3>1, Zenon DEF CoralNPUVShiftHelper
    <3>4. /\ k > 0 => IsShifted(VShiftSigned(round, a, k), a, VMin(k, w + 1), round)
          /\ k <= 0 => VShiftSigned(round, a, k) = Clamp(TRUE, w, a * 2 ^ VMin(-k, w))
      BY <1>1, <1>2, <1>5, <3>2, SignedRight, SignedLeftClamps
    <3>5. QED
      BY <2>1, <3>3, <3>4, Zenon
  <2>2. CASE sg = FALSE
    <3>1. 2 ^ w = p
      BY <1>1, LaneNumbers
    <3>2. x \in Int /\ 0 <= x /\ x < p /\ y \in Int /\ 0 <= y /\ y < p
      BY <1>2, <3>1
    <3>3. Cast(FALSE, w, x) = x /\ Cast(FALSE, w, y) = y
      BY <1>1, <3>2, UnsignedSame
    <3>4. a = x /\ As(sg, y) = y /\ k = ShiftAmount(y)
      BY <1>4, <2>2, <3>3, Zenon DEF As, S, ShiftAmount
    <3>5. a \in 0 .. p - 1
      BY <3>2, <3>4
    <3>6. r = VShiftUnsigned(round, a, y)
      BY <1>6, <2>2, <3>4, Zenon DEF CoralNPUVShiftHelper
    <3>7. UnsignedShifted(round, a, y, ShiftAmount(y))
      <4>1. ShiftAmount(y) \in Int
        BY <1>5, <3>4, Zenon
      <4>2. QED
        BY <1>1, <1>2, <3>5, <4>1, UnsignedShifts
    <3>8. UnsignedShifted(round, a, y, k)
      BY <3>4, <3>7, Zenon
    <3>9. QED
      BY <2>2, <3>6, <3>8, Zenon DEF UnsignedShifted
  <2>3. QED
    BY <2>1, <2>2
<1>8. k > 0 \/ (~(k > 0) /\ k <= 0)
  BY <1>5
<1>9. QED
  BY <1>4, <1>6, <1>7, <1>8, Zenon

(* The two-way shift: a positive amount shifts right, rounding as it says, *)
(* a negative one shifts left and saturates, although the code computes    *)
(* both in a type of twice the width, treats amounts beyond the width      *)
(* apart and shifts a negative operand as an unsigned number: for every    *)
(* width of a lane and all operands, but for the one amount whose negation *)
(* overflows an int.                                                       *)
THEOREM ShiftsAreExact == LaneSpec => []ShiftExact
<1>1. QED
  BY LaneTyped, ShiftOfLane, PTL

-----------------------------------------------------------------------------
(* Operands of lane instructions.                                          *)

(* A getter reads inside of the register group of its operand.             *)
Within(i, arg, size) ==
    arg.operand # "xs2" => arg.index \div Elts(size) \in 0 .. GroupSize(i, arg.operand) - 1

(* What OperandsFit says of one element of one op.                         *)
Fits(i, o, e, r) ==
    /\ Within(i, Arg1(i, o, e, r), Size1(i))
    /\ Within(i, Arg2(i, o, e, r), IF i.kind = "packed" THEN Size1(i) ELSE Size2(i))

(* An element index below that of the end of a group is inside of it.      *)
LEMMA IndexInside ==
    ASSUME NEW n \in Nat \ {0}, NEW g \in Nat, NEW index \in Int, 0 <= index, index < g * n
    PROVE  index \div n \in 0 .. g - 1
<1>1. PICK nil \in Int : nil = 0 /\ nil * n = 0
  OBVIOUS
<1>2. nil * n <= index /\ g \in Int
  BY <1>1
<1>3. index \div n \in Int /\ nil <= index \div n /\ index \div n < g
  BY <1>2, QuotientRange
<1>4. QED
  BY <1>1, <1>3

(* The number of elements in a register, for each size.                    *)
LEMMA EltsFacts ==
    \E t \in Nat \ {0} :
        Elts(1) = 16 * t /\ Elts(2) = 8 * t /\ Elts(4) = 4 * t
<1>1. PICK t : t = RegBytes \div 16
  OBVIOUS
<1>2. t \in Nat \ {0} /\ RegBytes = 16 * t
  BY <1>1, RegBytesAssumption
<1>3. RegBytes \div 1 = 16 * t /\ RegBytes \div 2 = 8 * t /\ RegBytes \div 4 = 4 * t
  BY <1>2
<1>4. QED
  BY <1>2, <1>3 DEF Elts

(* An op of the loop, counted in elements.                                 *)
LEMMA OpInside ==
    ASSUME NEW n \in Nat, NEW k \in Nat, NEW o \in 0 .. n - 1, NEW j \in Int, 0 <= j, j < k
    PROVE  o * k + j \in Int /\ 0 <= o * k + j /\ o * k + j < n * k
<1>1. o * k \in Nat /\ n * k \in Nat /\ (o + 1) * k <= n * k /\ (o + 1) * k = o * k + k
  OBVIOUS
<1>2. QED
  BY <1>1

(* An argument inside of its group.                                        *)
LEMMA WithinAt ==
    ASSUME NEW i, NEW operand, NEW index, NEW size, NEW n \in Nat \ {0}, NEW g \in Nat,
           Elts(size) = n, GroupSize(i, operand) = g,
           index \in Int, 0 <= index, index < g * n
    PROVE  Within(i, At(operand, index), size)
<1>1. index \div n \in 0 .. g - 1
  BY IndexInside
<1>2. At(operand, index).operand = operand /\ At(operand, index).index = index
  BY DEF At
<1>3. QED
  BY <1>1, <1>2, Zenon DEF Within

(* The kinds whose elements have one size, and those that widen or narrow. *)
EvenKinds == Binary \cup Moves

(* The sizes and groups of an instruction with elements of one size.       *)
LEMMA EvenFacts ==
    ASSUME NEW i, i.kind \in EvenKinds, Encodable(i)
    PROVE  /\ SizeD(i) = i.size /\ Size1(i) = i.size /\ Size2(i) = i.size
           /\ NumOps(i) \in {1, 4} /\ i.size \in Nat \ {0}
           /\ GroupSize(i, "vs1") = NumOps(i) /\ GroupSize(i, "vs2") = NumOps(i)
           /\ DestRegsPerOp(i) \in {1, 2}
           /\ i.kind \notin {"mvp", "evnodd", "zip"} => DestRegsPerOp(i) = 1
           /\ \E k \in Nat : k >= 2 /\ Elts(i.size) = 2 * k
<1>1. /\ i.size \in {1, 2, 4} /\ i.strip \in BOOLEAN
      /\ i.kind \notin {"widen", "acc", "packed", "srans2", "srans4"}
  BY DEF EvenKinds, Binary, Moves, Slides, Shuffles, Encodable
<1>2. /\ SizeD(i) = i.size /\ Size1(i) = i.size /\ Size2(i) = i.size
      /\ NumOps(i) \in {1, 4} /\ i.size \in Nat \ {0}
  BY <1>1 DEF SizeD, Size1, Size2, NumOps
<1>3. GroupSize(i, "vs1") = NumOps(i) /\ GroupSize(i, "vs2") = NumOps(i)
  BY <1>1, <1>2 DEF GroupSize, GetSrc1WidenFactor
<1>4. /\ DestRegsPerOp(i) \in {1, 2}
      /\ i.kind \notin {"mvp", "evnodd", "zip"} => DestRegsPerOp(i) = 1
  BY <1>1, <1>2 DEF DestRegsPerOp
<1>5. PICK t \in Nat \ {0} : Elts(1) = 16 * t /\ Elts(2) = 8 * t /\ Elts(4) = 4 * t
  BY EltsFacts
<1>6. \E k \in Nat : k >= 2 /\ Elts(i.size) = 2 * k
  <2>1. 8 * t \in Nat /\ 4 * t \in Nat /\ 2 * t \in Nat /\ 2 * t >= 2
        /\ 16 * t = 2 * (8 * t) /\ 8 * t = 2 * (4 * t) /\ 4 * t = 2 * (2 * t)
        /\ 8 * t >= 2 /\ 4 * t >= 2
    OBVIOUS
  <2>2. QED
    BY <1>1, <1>5, <2>1, Zenon
<1>7. QED
  BY <1>2, <1>3, <1>4, <1>6

(* Elementwise operations and moves of pairs.                              *)
LEMMA CommonFits ==
    ASSUME NEW i, i.kind \in Binary \cup {"mvp"}, Encodable(i), NEW o \in 0 .. NumOps(i) - 1,
           NEW e \in 0 .. Elts(SizeD(i)) - 1, NEW r \in 0 .. DestRegsPerOp(i) - 1
    PROVE  Fits(i, o, e, r)
<1>1. i.kind \in EvenKinds
  BY DEF EvenKinds, Moves
<1>2. /\ SizeD(i) = i.size /\ Size1(i) = i.size /\ Size2(i) = i.size
      /\ NumOps(i) \in {1, 4} /\ i.size \in Nat \ {0}
      /\ GroupSize(i, "vs1") = NumOps(i) /\ GroupSize(i, "vs2") = NumOps(i)
      /\ i.kind \notin {"mvp", "evnodd", "zip"} => DestRegsPerOp(i) = 1
  BY <1>1, EvenFacts
<1>3. PICK n : n = Elts(i.size)
  OBVIOUS
<1>4. n \in Nat \ {0} /\ e \in 0 .. n - 1
  <2>1. PICK k \in Nat : k >= 2 /\ n = 2 * k
    BY <1>1, <1>3, EvenFacts
  <2>2. QED
    BY <1>2, <1>3, <2>1
<1>5. (e * i.size) \div i.size = e
  BY <1>2, <1>4, UniqueRemainder
<1>6. PICK index : index = o * n + e
  OBVIOUS
<1>7. index \in Int /\ 0 <= index /\ index < NumOps(i) * n
  BY <1>2, <1>4, <1>6, OpInside
<1>8. /\ CommonArg1(i, o, e, 0) = At("vs1", index)
      /\ CommonArg2(i, o, e, 0) = At("vs2", index)
  <2>1. ~(Size1(i) = 2 * Size2(i)) /\ index + 0 = index
    BY <1>2, <1>7
  <2>2. QED
    BY <1>2, <1>3, <1>5, <1>6, <2>1 DEF CommonArg1, CommonArg2
<1>9. Within(i, At("vs1", index), i.size) /\ Within(i, At("vs2", index), i.size)
  <2>1. NumOps(i) \in Nat
    BY <1>2
  <2>2. QED
    BY <1>2, <1>3, <1>4, <1>7, <2>1, WithinAt
<1>10. Within(i, At("xs2", 0), i.size)
  BY DEF Within, At
<1>11. Arg1(i, o, e, r) \in {At("vs1", index), At("vs2", index)}
  <2>1. CASE i.kind \in Binary
    <3>1. r = 0
      BY <1>2, <2>1 DEF Binary
    <3>2. QED
      BY <1>8, <2>1, <3>1 DEF Arg1, Binary
  <2>2. CASE i.kind = "mvp"
    BY <1>8, <2>2 DEF Arg1, MvpArg, Binary
  <2>3. QED
    BY <2>1, <2>2
<1>12. Arg2(i, o, e, r) \in {At("vs1", index), At("vs2", index), At("xs2", 0)}
  <2>1. CASE i.kind \in {"unary", "mvp"}
    BY <1>11, <2>1 DEF Arg2, Shuffles
  <2>2. CASE i.kind = "scalar"
    BY <2>2 DEF Arg2, Shuffles
  <2>3. CASE i.kind \in {"binary", "ternary"}
    <3>1. r = 0
      BY <1>2, <2>3
    <3>2. QED
      BY <1>8, <2>3, <3>1 DEF Arg2, Shuffles
  <2>4. QED
    BY <2>1, <2>2, <2>3 DEF Binary
<1>13. i.kind # "packed"
  BY DEF Binary
<1>14. QED
  BY <1>2, <1>9, <1>10, <1>11, <1>12, <1>13 DEF Fits

(* An instruction with elements of one size, n to a register, which is an  *)
(* even number.                                                            *)
EvenInst(i, n, k) ==
    /\ SizeD(i) = i.size /\ Size1(i) = i.size /\ Size2(i) = i.size
    /\ NumOps(i) \in {1, 4} /\ i.size \in Nat \ {0} /\ i.kind # "packed"
    /\ GroupSize(i, "vs1") = NumOps(i) /\ GroupSize(i, "vs2") = NumOps(i)
    /\ n = Elts(i.size) /\ n = 2 * k /\ n \in Nat \ {0} /\ k \in Nat /\ k >= 2

(* Every such instruction is one.                                          *)
LEMMA EvenKind ==
    ASSUME NEW i, i.kind \in EvenKinds, Encodable(i)
    PROVE  \E n, k : EvenInst(i, n, k)
<1>1. PICK k \in Nat : k >= 2 /\ Elts(i.size) = 2 * k
  BY EvenFacts
<1>2. PICK n : n = Elts(i.size)
  OBVIOUS
<1>3. n = 2 * k /\ n \in Nat \ {0}
  BY <1>1, <1>2
<1>4. i.kind # "packed"
  BY DEF EvenKinds, Binary, Moves, Slides, Shuffles
<1>5. EvenInst(i, n, k)
  BY <1>1, <1>2, <1>3, <1>4, EvenFacts DEF EvenInst
<1>6. QED
  BY <1>5, Zenon

(* Inside of a group of such an instruction.                               *)
LEMMA EvenWithin ==
    ASSUME NEW i, NEW n, NEW k, EvenInst(i, n, k), NEW operand \in {"vs1", "vs2"},
           NEW index \in Int, 0 <= index, index < NumOps(i) * n
    PROVE  Within(i, At(operand, index), i.size)
<1>1. PICK g : g = NumOps(i)
  OBVIOUS
<1>2. g \in Nat /\ n \in Nat \ {0} /\ Elts(i.size) = n /\ GroupSize(i, operand) = g
  BY <1>1 DEF EvenInst
<1>3. index < g * n
  BY <1>1
<1>4. QED
  BY <1>2, <1>3, WithinAt

(* Both getters of such an instruction.                                    *)
LEMMA EvenFits ==
    ASSUME NEW i, NEW n, NEW k, EvenInst(i, n, k), NEW o, NEW e, NEW r,
           Within(i, Arg1(i, o, e, r), i.size), Within(i, Arg2(i, o, e, r), i.size)
    PROVE  Fits(i, o, e, r)
  BY DEF Fits, EvenInst

(* A multiple is divided without a remainder.                              *)
LEMMA ExactQuotient ==
    ASSUME NEW e \in Int, NEW s \in Nat \ {0}
    PROVE  (e * s) \div s = e
  BY UniqueRemainder

(* Element j of register q of a group of such an instruction.              *)
LEMMA InGroup ==
    ASSUME NEW i, NEW n, NEW k, EvenInst(i, n, k), NEW operand \in {"vs1", "vs2"},
           NEW q \in 0 .. NumOps(i) - 1, NEW j \in 0 .. n - 1,
           NEW index, index = q * n + j
    PROVE  Within(i, At(operand, index), i.size)
<1>1. PICK g : g = NumOps(i)
  OBVIOUS
<1>2. g \in Nat /\ n \in Nat /\ n \in Nat \ {0}
  BY <1>1 DEF EvenInst
<1>3. q \in 0 .. g - 1 /\ j \in Int /\ 0 <= j /\ j < n
  BY <1>1, <1>2
<1>4. q * n + j \in Int /\ 0 <= q * n + j /\ q * n + j < g * n
  BY <1>2, <1>3, OpInside
<1>5. index \in Int /\ 0 <= index /\ index < NumOps(i) * n
  BY <1>1, <1>4
<1>6. QED
  BY <1>5, EvenWithin

(* The second getter of a slide reads as an elementwise operation does.    *)
LEMMA SlideArg2 ==
    ASSUME NEW i, NEW n, NEW k, EvenInst(i, n, k), i.kind \in Slides,
           NEW o \in 0 .. NumOps(i) - 1, NEW e \in 0 .. n - 1
    PROVE  Within(i, Arg2(i, o, e, 0), i.size)
<1>1. /\ NumOps(i) \in Nat /\ n \in Nat \ {0} /\ i.size \in Nat \ {0}
      /\ SizeD(i) = i.size /\ Size2(i) = i.size /\ Elts(i.size) = n
  BY DEF EvenInst
<1>2. PICK index : index = o * n + e
  OBVIOUS
<1>3. index \in Int
  BY <1>1, <1>2
<1>4. (e * i.size) \div i.size = e
  BY <1>1, ExactQuotient
<1>5. CommonArg2(i, o, e, 0) = At("vs2", index)
  <2>1. index + 0 = index
    BY <1>3
  <2>2. QED
    BY <1>1, <1>2, <1>4, <2>1 DEF CommonArg2
<1>6. Arg2(i, o, e, 0) = CommonArg2(i, o, e, 0)
  BY DEF Arg2, Slides, Shuffles
<1>7. QED
  BY <1>2, <1>5, <1>6, InGroup

(* Slides to the next register.                                            *)
LEMMA SlidenFits ==
    ASSUME NEW i, i.kind \in {"slidevn", "slidehn"}, Encodable(i),
           NEW o \in 0 .. NumOps(i) - 1,
           NEW e \in 0 .. Elts(SizeD(i)) - 1, NEW r \in 0 .. DestRegsPerOp(i) - 1
    PROVE  Fits(i, o, e, r)
<1>1. i.kind \in EvenKinds /\ i.kind \in Slides
  BY DEF EvenKinds, Moves, Slides
<1>2. PICK n, k : EvenInst(i, n, k)
  BY <1>1, EvenKind
<1>3. /\ n = Elts(i.size) /\ n \in Nat /\ n >= 4 /\ e \in 0 .. n - 1
      /\ NumOps(i) \in {1, 4}
  BY <1>2 DEF EvenInst
<1>4. r = 0
  BY <1>1, EvenFacts DEF Slides
<1>5. i.index \in 1 .. 4 /\ (i.kind = "slidehn" => NumOps(i) = 4)
  BY <1>1 DEF Encodable, NumOps
<1>6. o \in 0 .. 3 /\ o * n \in Int /\ (o + 1) * n \in Int
  BY <1>3
<1>7. PICK h \in BOOLEAN : h = (i.kind = "slidehn")
  OBVIOUS
<1>8. h => NumOps(i) = 4
  BY <1>5, <1>7, Zenon
<1>9. Arg1(i, o, e, r) = SlidenArg(h, i, o, e)
  <2>1. Arg1(i, o, e, r) = SlidenArg(i.kind = "slidehn", i, o, e)
    BY DEF Arg1, Binary
  <2>2. QED
    BY <1>7, <2>1, Zenon
<1>10. Within(i, SlidenArg(h, i, o, e), i.size)
  <2>1. CASE e + i.index < n
    <3>1. SlidenArg(h, i, o, e) = At("vs1", o * n + e + i.index)
      <4>1. ~(e + i.index >= n)
        BY <1>3, <1>5, <2>1
      <4>2. QED
        BY <1>3, <2>1, <4>1 DEF SlidenArg
    <3>2. PICK j \in 0 .. n - 1 : o * n + e + i.index = o * n + j
      <4>1. e + i.index \in 0 .. n - 1 /\ o * n + e + i.index = o * n + (e + i.index)
        BY <1>3, <1>5, <1>6, <2>1
      <4>2. QED
        BY <4>1, Zenon
    <3>3. QED
      BY <1>2, <3>1, <3>2, InGroup, Zenon
  <2>2. CASE ~(e + i.index < n)
    <3>1. e + i.index >= n /\ e + i.index - n \in 0 .. n - 1
      BY <1>3, <1>5, <2>2
    <3>2. CASE h /\ o < 3
      <4>1. SlidenArg(h, i, o, e) = At("vs1", (o + 1) * n + e + i.index - n)
        <5>1. o # 3
          BY <3>2, <1>6
        <5>2. QED
          BY <1>3, <2>2, <3>1, <3>2, <5>1 DEF SlidenArg
      <4>2. PICK q \in 0 .. NumOps(i) - 1 : q = o + 1
        <5>1. NumOps(i) = 4
          BY <1>8, <3>2
        <5>2. QED
          BY <1>6, <3>2, <5>1
      <4>3. PICK j \in 0 .. n - 1 : (o + 1) * n + e + i.index - n = q * n + j
        <5>1. (o + 1) * n + e + i.index - n = (o + 1) * n + (e + i.index - n)
          BY <1>3, <1>5, <1>6
        <5>2. QED
          BY <3>1, <4>2, <5>1
      <4>4. QED
        BY <1>2, <4>1, <4>3, InGroup, Zenon
    <3>3. CASE h /\ o = 3
      <4>1. SlidenArg(h, i, o, e) = At("vs2", e + i.index - n)
        <5>1. ~(o < 3)
          BY <3>3, <1>6
        <5>2. QED
          BY <1>3, <2>2, <3>1, <3>3, <5>1 DEF SlidenArg
      <4>2. PICK q \in 0 .. NumOps(i) - 1 : q = 0
        BY <1>3
      <4>3. PICK j \in 0 .. n - 1 : e + i.index - n = q * n + j
        BY <1>3, <1>5, <3>1, <4>2
      <4>4. QED
        BY <1>2, <4>1, <4>3, InGroup, Zenon
    <3>4. CASE ~h
      <4>1. SlidenArg(h, i, o, e) = At("vs2", o * n + e + i.index - n)
        BY <1>3, <2>2, <3>1, <3>4 DEF SlidenArg
      <4>2. PICK j \in 0 .. n - 1 : o * n + e + i.index - n = o * n + j
        <5>1. o * n + e + i.index - n = o * n + (e + i.index - n)
          BY <1>3, <1>5, <1>6
        <5>2. QED
          BY <3>1, <5>1, Zenon
      <4>3. QED
        BY <1>2, <4>1, <4>2, InGroup, Zenon
    <3>5. QED
      <4>1. o < 3 \/ o = 3
        BY <1>6
      <4>2. QED
        BY <3>2, <3>3, <3>4, <4>1, Zenon
  <2>3. QED
    BY <2>1, <2>2, Zenon
<1>11. Within(i, Arg1(i, o, e, r), i.size)
  BY <1>9, <1>10, Zenon
<1>12. Within(i, Arg2(i, o, e, r), i.size)
  BY <1>1, <1>2, <1>3, <1>4, SlideArg2
<1>13. QED
  BY <1>2, <1>11, <1>12, EvenFits

(* Slides from the previous register.                                      *)
LEMMA SlidepFits ==
    ASSUME NEW i, i.kind \in {"slidevp", "slidehp"}, Encodable(i),
           NEW o \in 0 .. NumOps(i) - 1,
           NEW e \in 0 .. Elts(SizeD(i)) - 1, NEW r \in 0 .. DestRegsPerOp(i) - 1
    PROVE  Fits(i, o, e, r)
<1>1. i.kind \in EvenKinds /\ i.kind \in Slides
  BY DEF EvenKinds, Moves, Slides
<1>2. PICK n, k : EvenInst(i, n, k)
  BY <1>1, EvenKind
<1>3. /\ n = Elts(i.size) /\ n \in Nat /\ n >= 4 /\ e \in 0 .. n - 1
      /\ NumOps(i) \in {1, 4}
  BY <1>2 DEF EvenInst
<1>4. r = 0
  BY <1>1, EvenFacts DEF Slides
<1>5. i.index \in 1 .. 4 /\ (i.kind = "slidehp" => NumOps(i) = 4)
  BY <1>1 DEF Encodable, NumOps
<1>6. o \in 0 .. 3 /\ o * n \in Int /\ (o - 1) * n \in Int
  BY <1>3
<1>7. PICK h \in BOOLEAN : h = (i.kind = "slidehp")
  OBVIOUS
<1>8. h => NumOps(i) = 4
  BY <1>5, <1>7, Zenon
<1>9. Arg1(i, o, e, r) = SlidepArg(h, i, o, e)
  <2>1. Arg1(i, o, e, r) = SlidepArg(i.kind = "slidehp", i, o, e)
    BY DEF Arg1, Binary
  <2>2. QED
    BY <1>7, <2>1, Zenon
<1>10. Within(i, SlidepArg(h, i, o, e), i.size)
  <2>1. CASE e >= i.index
    <3>1. SlidepArg(h, i, o, e) = At("vs2", o * n + e - i.index)
      <4>1. ~(e < i.index)
        BY <1>3, <1>5, <2>1
      <4>2. QED
        BY <1>3, <2>1, <4>1 DEF SlidepArg
    <3>2. PICK j \in 0 .. n - 1 : o * n + e - i.index = o * n + j
      <4>1. e - i.index \in 0 .. n - 1 /\ o * n + e - i.index = o * n + (e - i.index)
        BY <1>3, <1>5, <1>6, <2>1
      <4>2. QED
        BY <4>1, Zenon
    <3>3. QED
      BY <1>2, <3>1, <3>2, InGroup, Zenon
  <2>2. CASE ~(e >= i.index)
    <3>1. e < i.index /\ e - i.index + n \in 0 .. n - 1
      BY <1>3, <1>5, <2>2
    <3>2. CASE h /\ o = 0
      <4>1. SlidepArg(h, i, o, e) = At("vs1", 3 * n + e - i.index + n)
        <5>1. ~(o > 0)
          BY <3>2
        <5>2. QED
          BY <1>3, <2>2, <3>1, <3>2, <5>1 DEF SlidepArg
      <4>2. PICK q \in 0 .. NumOps(i) - 1 : q = 3
        <5>1. NumOps(i) = 4
          BY <1>8, <3>2
        <5>2. QED
          BY <5>1
      <4>3. PICK j \in 0 .. n - 1 : 3 * n + e - i.index + n = q * n + j
        <5>1. 3 * n + e - i.index + n = 3 * n + (e - i.index + n)
          BY <1>3, <1>5
        <5>2. QED
          BY <3>1, <4>2, <5>1
      <4>4. QED
        BY <1>2, <4>1, <4>3, InGroup, Zenon
    <3>3. CASE h /\ o > 0
      <4>1. SlidepArg(h, i, o, e) = At("vs2", (o - 1) * n + e - i.index + n)
        <5>1. o # 0
          BY <3>3
        <5>2. QED
          BY <1>3, <2>2, <3>1, <3>3, <5>1 DEF SlidepArg
      <4>2. PICK q \in 0 .. NumOps(i) - 1 : q = o - 1
        <5>1. NumOps(i) = 4
          BY <1>8, <3>3
        <5>2. QED
          BY <1>6, <3>3, <5>1
      <4>3. PICK j \in 0 .. n - 1 : (o - 1) * n + e - i.index + n = q * n + j
        <5>1. (o - 1) * n + e - i.index + n = (o - 1) * n + (e - i.index + n)
          BY <1>3, <1>5, <1>6
        <5>2. QED
          BY <3>1, <4>2, <5>1
      <4>4. QED
        BY <1>2, <4>1, <4>3, InGroup, Zenon
    <3>4. CASE ~h
      <4>1. SlidepArg(h, i, o, e) = At("vs1", o * n + e - i.index + n)
        BY <1>3, <2>2, <3>1, <3>4 DEF SlidepArg
      <4>2. PICK j \in 0 .. n - 1 : o * n + e - i.index + n = o * n + j
        <5>1. o * n + e - i.index + n = o * n + (e - i.index + n)
          BY <1>3, <1>5, <1>6
        <5>2. QED
          BY <3>1, <5>1, Zenon
      <4>3. QED
        BY <1>2, <4>1, <4>2, InGroup, Zenon
    <3>5. QED
      <4>1. o > 0 \/ o = 0
        BY <1>6
      <4>2. QED
        BY <3>2, <3>3, <3>4, <4>1, Zenon
  <2>3. QED
    BY <2>1, <2>2, Zenon
<1>11. Within(i, Arg1(i, o, e, r), i.size)
  BY <1>9, <1>10, Zenon
<1>12. Within(i, Arg2(i, o, e, r), i.size)
  BY <1>1, <1>2, <1>3, <1>4, SlideArg2
<1>13. QED
  BY <1>2, <1>11, <1>12, EvenFits

(* The even and odd elements of the concatenation of the sources.          *)
LEMMA EvnOddWithin ==
    ASSUME NEW i, NEW n, NEW k, EvenInst(i, n, k), NEW o \in 0 .. NumOps(i) - 1,
           NEW e \in 0 .. n - 1, NEW odd \in {0, 1}
    PROVE  Within(i, EvnOddArg(i, o, e, odd), i.size)
<1>1. PICK g : g = NumOps(i)
  OBVIOUS
<1>2. g \in Nat /\ n \in Nat /\ n > 0 /\ n = Elts(i.size) /\ o \in 0 .. g - 1
  BY <1>1 DEF EvenInst
<1>3. PICK first \in Int : first = o * n
  BY <1>2
<1>4. PICK total \in Int : total = n * g /\ total = g * n
  BY <1>2
<1>5. 0 <= first /\ first + n <= total
  <2>1. 0 <= o * n /\ (o + 1) * n <= g * n /\ (o + 1) * n = o * n + n
    BY <1>2
  <2>2. QED
    BY <1>3, <1>4, <2>1
<1>6. PICK index \in Int : index = first * 2 + e * 2 + odd
  BY <1>2
<1>7. 0 <= index /\ index < 2 * total
  BY <1>2, <1>5, <1>6
<1>8. EvnOddArg(i, o, e, odd) =
          IF index < total THEN At("vs1", index) ELSE At("vs2", index - total)
  BY <1>1, <1>2, <1>3, <1>4, <1>6 DEF EvnOddArg
<1>9. CASE index < total
  <2>1. index < NumOps(i) * n
    BY <1>1, <1>4, <1>9
  <2>2. Within(i, At("vs1", index), i.size)
    BY <1>7, <2>1, EvenWithin
  <2>3. QED
    BY <1>8, <1>9, <2>2
<1>10. CASE ~(index < total)
  <2>1. PICK rest \in Int : rest = index - total
    OBVIOUS
  <2>2. 0 <= rest /\ rest < total
    BY <1>7, <1>10, <2>1
  <2>3. rest < NumOps(i) * n
    BY <1>1, <1>4, <2>2
  <2>4. Within(i, At("vs2", rest), i.size)
    BY <2>2, <2>3, EvenWithin
  <2>5. QED
    BY <1>8, <1>10, <2>1, <2>4
<1>11. QED
  BY <1>9, <1>10, Zenon

(* The interleaved elements of the two sources.                            *)
LEMMA ZipWithin ==
    ASSUME NEW i, NEW n, NEW k, EvenInst(i, n, k), NEW o \in 0 .. NumOps(i) - 1,
           NEW e \in 0 .. n - 1, NEW r \in {0, 1}
    PROVE  Within(i, ZipArg(i, o, e, r), i.size)
<1>1. PICK g : g = NumOps(i)
  OBVIOUS
<1>2. /\ g \in Nat /\ n \in Nat /\ n = 2 * k /\ k \in Nat /\ k >= 2
      /\ n = Elts(i.size) /\ o \in 0 .. g - 1
  BY <1>1 DEF EvenInst
<1>3. n \div 2 = k /\ e \div 2 \in 0 .. k - 1
  BY <1>2
<1>4. o * k + e \div 2 \in Int /\ 0 <= o * k + e \div 2 /\ o * k + e \div 2 < g * k
  BY <1>2, <1>3, OpInside
<1>5. PICK total \in Nat : total = g * k
  BY <1>2
<1>6. g * n = 2 * total /\ r * k * g \in {0, total}
  <2>1. g * (2 * k) = 2 * (g * k) /\ k * g = g * k /\ 0 * k * g = 0 /\ 1 * k * g = g * k
    BY <1>2
  <2>2. QED
    BY <1>2, <1>5, <2>1
<1>7. PICK index : index = o * k + e \div 2 + r * k * g
  OBVIOUS
<1>8. index \in Int /\ 0 <= index /\ index < NumOps(i) * n
  BY <1>1, <1>4, <1>5, <1>6, <1>7
<1>9. ZipArg(i, o, e, r) = At(IF e % 2 = 1 THEN "vs2" ELSE "vs1", index)
  BY <1>1, <1>2, <1>3, <1>7 DEF ZipArg
<1>10. PICK operand \in {"vs1", "vs2"} : operand = IF e % 2 = 1 THEN "vs2" ELSE "vs1"
  OBVIOUS
<1>11. Within(i, At(operand, index), i.size)
  BY <1>8, EvenWithin
<1>12. QED
  BY <1>9, <1>10, <1>11, Zenon

(* Evenodd and zip.                                                        *)
LEMMA ShuffleFits ==
    ASSUME NEW i, i.kind \in Shuffles, Encodable(i),
           NEW o \in 0 .. NumOps(i) - 1,
           NEW e \in 0 .. Elts(SizeD(i)) - 1, NEW r \in 0 .. DestRegsPerOp(i) - 1
    PROVE  Fits(i, o, e, r)
<1>1. i.kind \in EvenKinds
  BY DEF EvenKinds, Moves
<1>2. PICK n, k : EvenInst(i, n, k)
  BY <1>1, EvenKind
<1>3. e \in 0 .. n - 1
  BY <1>2 DEF EvenInst
<1>4. r \in {0, 1}
  BY <1>1, EvenFacts
<1>5. Arg2(i, o, e, r) = Arg1(i, o, e, r)
  BY DEF Arg2, Shuffles
<1>6. CASE i.kind = "zip"
  <2>1. Arg1(i, o, e, r) = ZipArg(i, o, e, r)
    BY <1>6 DEF Arg1, Binary
  <2>2. QED
    BY <1>2, <1>3, <1>4, <1>5, <2>1, ZipWithin, EvenFits
<1>7. CASE i.kind # "zip"
  <2>1. PICK odd \in {0, 1} : Arg1(i, o, e, r) = EvnOddArg(i, o, e, odd)
    BY <1>4, <1>7 DEF Arg1, Binary, Shuffles
  <2>2. QED
    BY <1>2, <1>3, <1>5, <2>1, EvnOddWithin, EvenFits
<1>8. QED
  BY <1>6, <1>7

(* A register holds half as many elements of twice the size.               *)
WideInst(i, s, m, g) ==
    /\ s = i.size /\ s \in Nat \ {0} /\ g = NumOps(i) /\ g \in Nat
    /\ m \in Nat \ {0} /\ Elts(s) = 2 * m /\ Elts(2 * s) = m
    /\ GroupSize(i, "vs2") = g /\ Size2(i) = s

(* Every instruction that widens, packs or halves is one.                  *)
LEMMA WideKind ==
    ASSUME NEW i, i.kind \in {"widen", "acc", "packed", "srans2"}, Encodable(i)
    PROVE  \E s, m, g : WideInst(i, s, m, g)
<1>1. i.size \in {1, 2} /\ i.strip \in BOOLEAN
  BY DEF Encodable
<1>2. PICK t \in Nat \ {0} : Elts(1) = 16 * t /\ Elts(2) = 8 * t /\ Elts(4) = 4 * t
  BY EltsFacts
<1>3. NumOps(i) \in Nat /\ GroupSize(i, "vs2") = NumOps(i) /\ Size2(i) = i.size
  BY <1>1 DEF NumOps, GroupSize, Size2
<1>4. PICK m \in Nat \ {0} : Elts(i.size) = 2 * m /\ Elts(2 * i.size) = m
  <2>1. /\ 8 * t \in Nat \ {0} /\ 4 * t \in Nat \ {0}
        /\ 16 * t = 2 * (8 * t) /\ 8 * t = 2 * (4 * t) /\ 2 * 1 = 2 /\ 2 * 2 = 4
    OBVIOUS
  <2>2. QED
    BY <1>1, <1>2, <2>1, Zenon
<1>5. WideInst(i, i.size, m, NumOps(i))
  BY <1>1, <1>3, <1>4 DEF WideInst
<1>6. QED
  BY <1>5, Zenon

(* The elements of a register, taken two at a time.                        *)
LEMMA PairInside ==
    ASSUME NEW i, NEW s, NEW m, NEW g, WideInst(i, s, m, g), NEW o \in 0 .. g - 1,
           NEW e \in 0 .. m - 1, NEW r \in {0, 1}, NEW operand, GroupSize(i, operand) = g
    PROVE  Within(i, At(operand, o * Elts(s) + (e * (2 * s)) \div s + r), s)
<1>1. /\ s \in Nat \ {0} /\ g \in Nat /\ m \in Nat \ {0} /\ Elts(s) = 2 * m
  BY DEF WideInst
<1>2. (e * (2 * s)) \div s = 2 * e
  <2>1. e * (2 * s) = (2 * e) * s /\ 2 * e \in Int
    BY <1>1
  <2>2. ((2 * e) * s) \div s = 2 * e
    BY <1>1, <2>1, ExactQuotient
  <2>3. QED
    BY <2>1, <2>2
<1>3. PICK n \in Nat \ {0} : n = 2 * m
  BY <1>1
<1>4. PICK j \in Int : j = 2 * e + r
  BY <1>1
<1>5. 0 <= j /\ j < n
  BY <1>1, <1>3, <1>4
<1>6. o * n + j \in Int /\ 0 <= o * n + j /\ o * n + j < g * n
  BY <1>1, <1>3, <1>5, OpInside
<1>7. PICK index : index = o * n + j
  OBVIOUS
<1>8. o * Elts(s) + (e * (2 * s)) \div s + r = index
  BY <1>1, <1>2, <1>3, <1>4, <1>7
<1>9. Within(i, At(operand, index), s)
  BY <1>1, <1>3, <1>6, <1>7, WithinAt
<1>10. QED
  BY <1>8, <1>9

(* Widening: both sources are read two elements at a time.                 *)
LEMMA WidenFits ==
    ASSUME NEW i, i.kind = "widen", Encodable(i),
           NEW o \in 0 .. NumOps(i) - 1,
           NEW e \in 0 .. Elts(SizeD(i)) - 1, NEW r \in 0 .. DestRegsPerOp(i) - 1
    PROVE  Fits(i, o, e, r)
<1>1. PICK s, m, g : WideInst(i, s, m, g)
  BY WideKind
<1>2. /\ s = i.size /\ s \in Nat \ {0} /\ g = NumOps(i) /\ Elts(2 * s) = m /\ Size2(i) = s
      /\ GroupSize(i, "vs2") = g
  BY <1>1 DEF WideInst
<1>3. SizeD(i) = 2 * s /\ Size1(i) = s /\ GroupSize(i, "vs1") = g
  BY <1>1, <1>2 DEF SizeD, Size1, GroupSize, GetSrc1WidenFactor, WideInst
<1>4. o \in 0 .. g - 1 /\ e \in 0 .. m - 1
  BY <1>2, <1>3
<1>5. r \in {0, 1}
  BY DEF DestRegsPerOp
<1>6. /\ Arg1(i, o, e, r) = At("vs1", o * Elts(s) + (e * (2 * s)) \div s + r)
      /\ Arg2(i, o, e, r) = At("vs2", o * Elts(s) + (e * (2 * s)) \div s + r)
  <2>1. Arg1(i, o, e, r) = CommonArg1(i, o, e, r) /\ Arg2(i, o, e, r) = CommonArg2(i, o, e, r)
    BY DEF Arg1, Arg2, Binary, Shuffles
  <2>2. 2 * s # s
    BY <1>2
  <2>3. QED
    BY <1>2, <1>3, <2>1, <2>2, Zenon DEF CommonArg1, CommonArg2
<1>7. Within(i, Arg1(i, o, e, r), s) /\ Within(i, Arg2(i, o, e, r), s)
  <2>1. GroupSize(i, "vs1") = g /\ GroupSize(i, "vs2") = g
    BY <1>2, <1>3
  <2>2. QED
    BY <1>1, <1>4, <1>5, <1>6, <2>1, PairInside, Zenon
<1>8. QED
  BY <1>2, <1>3, <1>7, Zenon DEF Fits

(* Packing: both arguments come from the first source.                     *)
LEMMA PackedFits ==
    ASSUME NEW i, i.kind = "packed", Encodable(i),
           NEW o \in 0 .. NumOps(i) - 1,
           NEW e \in 0 .. Elts(SizeD(i)) - 1, NEW r \in 0 .. DestRegsPerOp(i) - 1
    PROVE  Fits(i, o, e, r)
<1>1. PICK s, m, g : WideInst(i, s, m, g)
  BY WideKind
<1>2. /\ s = i.size /\ g = NumOps(i) /\ Elts(2 * s) = m
  BY <1>1 DEF WideInst
<1>3. SizeD(i) = 2 * s /\ Size1(i) = s /\ GroupSize(i, "vs1") = g
  BY <1>1, <1>2 DEF SizeD, Size1, GroupSize, GetSrc1WidenFactor, WideInst
<1>4. o \in 0 .. g - 1 /\ e \in 0 .. m - 1
  BY <1>2, <1>3
<1>5. /\ Arg1(i, o, e, r) = At("vs1", o * Elts(s) + (e * (2 * s)) \div s + 0)
      /\ Arg2(i, o, e, r) = At("vs1", o * Elts(s) + (e * (2 * s)) \div s + 1)
  <2>1. Arg1(i, o, e, r) = PackedArg(i, o, e, 0) /\ Arg2(i, o, e, r) = PackedArg(i, o, e, 1)
    BY DEF Arg1, Arg2, Binary, Shuffles
  <2>2. QED
    BY <1>3, <2>1 DEF PackedArg
<1>6. Within(i, Arg1(i, o, e, r), s) /\ Within(i, Arg2(i, o, e, r), s)
  <2>1. 0 \in {0, 1} /\ 1 \in {0, 1}
    OBVIOUS
  <2>2. QED
    BY <1>1, <1>3, <1>4, <1>5, <2>1, PairInside, Zenon
<1>7. QED
  BY <1>3, <1>6, Zenon DEF Fits

(* Reading a source of several unwidened groups: element j of register o   *)
(* of group part.                                                          *)
LEMMA PartInside ==
    ASSUME NEW i, NEW g \in Nat, NEW f \in Nat, NEW m \in Nat \ {0}, NEW o \in 0 .. g - 1,
           NEW j \in 0 .. m - 1, NEW part \in 0 .. f - 1, NEW size, Elts(size) = m,
           GroupSize(i, "vs1") = g * f,
           NEW index, index = o * m + j + part * g * m
    PROVE  Within(i, At("vs1", index), size)
<1>1. PICK t \in Nat : t = g * m
  OBVIOUS
<1>2. PICK low : low = o * m + j
  OBVIOUS
<1>3. low \in Int /\ 0 <= low /\ low < t
  <2>1. m \in Nat /\ j \in Int /\ 0 <= j /\ j < m
    OBVIOUS
  <2>2. QED
    BY <1>1, <1>2, <2>1, OpInside
<1>4. part * t + low \in Int /\ 0 <= part * t + low /\ part * t + low < f * t
  BY <1>1, <1>3, OpInside
<1>5. index = part * t + low
  <2>1. part * g * m = part * (g * m)
    OBVIOUS
  <2>2. part * t \in Int
    BY <1>1
  <2>3. QED
    BY <1>1, <1>2, <1>3, <2>1, <2>2
<1>6. g * f \in Nat /\ f * t = (g * f) * m
  BY <1>1
<1>7. PICK h \in Nat : h = g * f
  BY <1>6
<1>8. index \in Int /\ 0 <= index /\ index < h * m /\ GroupSize(i, "vs1") = h
  BY <1>4, <1>5, <1>6, <1>7
<1>9. QED
  BY <1>8, WithinAt

(* Accumulation: the first source has as many registers as the             *)
(* destination.                                                            *)
LEMMA AccFits ==
    ASSUME NEW i, i.kind = "acc", Encodable(i),
           NEW o \in 0 .. NumOps(i) - 1,
           NEW e \in 0 .. Elts(SizeD(i)) - 1, NEW r \in 0 .. DestRegsPerOp(i) - 1
    PROVE  Fits(i, o, e, r)
<1>1. PICK s, m, g : WideInst(i, s, m, g)
  BY WideKind
<1>2. /\ s = i.size /\ s \in Nat \ {0} /\ g = NumOps(i) /\ Elts(2 * s) = m /\ Size2(i) = s
      /\ GroupSize(i, "vs2") = g /\ g \in Nat /\ m \in Nat \ {0}
  BY <1>1 DEF WideInst
<1>3. SizeD(i) = 2 * s /\ Size1(i) = 2 * s /\ GroupSize(i, "vs1") = g * 2
  BY <1>2 DEF SizeD, Size1, GroupSize, GetSrc1WidenFactor
<1>4. o \in 0 .. g - 1 /\ e \in 0 .. m - 1
  BY <1>2, <1>3
<1>5. r \in {0, 1}
  BY DEF DestRegsPerOp
<1>6. Arg2(i, o, e, r) = At("vs2", o * Elts(s) + (e * (2 * s)) \div s + r)
  <2>1. Arg2(i, o, e, r) = CommonArg2(i, o, e, r)
    BY DEF Arg2, Shuffles
  <2>2. QED
    BY <1>2, <1>3, <2>1, Zenon DEF CommonArg2
<1>7. Within(i, Arg2(i, o, e, r), s)
  <2>1. GroupSize(i, "vs2") = g
    BY <1>2
  <2>2. QED
    BY <1>1, <1>4, <1>5, <1>6, <2>1, PairInside, Zenon
<1>8. PICK index : index = o * m + e + r * g * m
  OBVIOUS
<1>9. Arg1(i, o, e, r) = At("vs1", index)
  <2>1. Arg1(i, o, e, r) = CommonArg1(i, o, e, r)
    BY DEF Arg1, Binary
  <2>2. (e * (2 * s)) \div (2 * s) = e
    BY <1>2, <1>4, ExactQuotient
  <2>3. CommonArg1(i, o, e, r) = At("vs1", o * m + e + g * m * r)
    BY <1>2, <1>3, <2>2, Zenon DEF CommonArg1
  <2>4. g * m * r = r * g * m
    BY <1>2, <1>5
  <2>5. QED
    BY <1>8, <2>1, <2>3, <2>4, Zenon
<1>10. Within(i, At("vs1", index), 2 * s)
  <2>1. r \in 0 .. 2 - 1
    BY <1>5
  <2>2. QED
    BY <1>2, <1>3, <1>4, <1>8, <2>1, PartInside
<1>11. QED
  BY <1>2, <1>3, <1>7, <1>9, <1>10, Zenon DEF Fits

(* The second argument of a narrowing shift, one element to a lane.        *)
LEMMA ShiftAmountInside ==
    ASSUME NEW i, i.kind \in {"srans2", "srans4"}, NEW s \in Nat \ {0}, s = i.size,
           NEW n \in Nat \ {0}, Elts(s) = n, NEW g \in Nat, g = NumOps(i),
           NEW o \in 0 .. g - 1, NEW e \in 0 .. n - 1
    PROVE  Within(i, Arg2(i, o, e, 0), s)
<1>1. SizeD(i) = s /\ Size2(i) = s /\ GroupSize(i, "vs2") = g
  BY DEF SizeD, Size2, GroupSize
<1>2. (e * s) \div s = e
  <2>1. e \in Int
    OBVIOUS
  <2>2. QED
    BY <2>1, ExactQuotient
<1>3. o * n + e \in Int /\ 0 <= o * n + e /\ o * n + e < g * n
  BY OpInside
<1>4. PICK index : index = o * n + e
  OBVIOUS
<1>5. index + 0 = index
  BY <1>3, <1>4
<1>6. Arg2(i, o, e, 0) = CommonArg2(i, o, e, 0)
  BY DEF Arg2, Shuffles
<1>7. CommonArg2(i, o, e, 0) = At("vs2", index)
  BY <1>1, <1>2, <1>4, <1>5 DEF CommonArg2
<1>8. Within(i, At("vs2", index), s)
  BY <1>1, <1>3, <1>4, WithinAt
<1>9. QED
  BY <1>6, <1>7, <1>8

(* Narrowing to a half: the halves of the first source in turn.            *)
LEMMA Srans2Fits ==
    ASSUME NEW i, i.kind = "srans2", Encodable(i),
           NEW o \in 0 .. NumOps(i) - 1,
           NEW e \in 0 .. Elts(SizeD(i)) - 1, NEW r \in 0 .. DestRegsPerOp(i) - 1
    PROVE  Fits(i, o, e, r)
<1>1. PICK s, m, g : WideInst(i, s, m, g)
  BY WideKind
<1>2. /\ s = i.size /\ s \in Nat \ {0} /\ g = NumOps(i) /\ Elts(2 * s) = m /\ Size2(i) = s
      /\ g \in Nat /\ m \in Nat \ {0} /\ Elts(s) = 2 * m
  BY <1>1 DEF WideInst
<1>3. SizeD(i) = s /\ Size1(i) = 2 * s /\ GroupSize(i, "vs1") = g * 2
  BY <1>2 DEF SizeD, Size1, GroupSize, GetSrc1WidenFactor
<1>4. PICK n \in Nat \ {0} : n = 2 * m
  BY <1>2
<1>5. o \in 0 .. g - 1 /\ e \in 0 .. n - 1 /\ Elts(s) = n
  BY <1>2, <1>3, <1>4
<1>6. r = 0
  BY <1>2, <1>3 DEF DestRegsPerOp
<1>7. Within(i, Arg2(i, o, e, r), s)
  BY <1>2, <1>5, <1>6, ShiftAmountInside
<1>8. PICK j \in 0 .. m - 1 : j = e \div 2
  BY <1>2, <1>4, <1>5
<1>9. PICK part \in 0 .. 2 - 1 : part = e % 2
  BY <1>5
<1>10. PICK index : index = o * m + j + part * g * m
  OBVIOUS
<1>11. Arg1(i, o, e, r) = At("vs1", index)
  <2>1. Arg1(i, o, e, r) = SransArg1(i, o, e)
    BY DEF Arg1, Binary
  <2>2. (2 * s) \div s = 2
    BY <1>2, ExactQuotient
  <2>3. QED
    BY <1>2, <1>3, <1>8, <1>9, <1>10, <2>1, <2>2, Zenon DEF SransArg1
<1>12. Within(i, At("vs1", index), 2 * s)
  BY <1>2, <1>3, <1>5, <1>10, PartInside
<1>13. QED
  BY <1>2, <1>3, <1>7, <1>11, <1>12, Zenon DEF Fits

(* Narrowing to a quarter: the quarters of the first source in turn.       *)
LEMMA Srans4Fits ==
    ASSUME NEW i, i.kind = "srans4", Encodable(i),
           NEW o \in 0 .. NumOps(i) - 1,
           NEW e \in 0 .. Elts(SizeD(i)) - 1, NEW r \in 0 .. DestRegsPerOp(i) - 1
    PROVE  Fits(i, o, e, r)
<1>1. i.size = 1 /\ i.strip \in BOOLEAN
  BY DEF Encodable
<1>2. PICK t \in Nat \ {0} : Elts(1) = 16 * t /\ Elts(2) = 8 * t /\ Elts(4) = 4 * t
  BY EltsFacts
<1>3. PICK g \in Nat : g = NumOps(i)
  BY <1>1 DEF NumOps
<1>4. SizeD(i) = 1 /\ Size1(i) = 4 /\ Size2(i) = 1 /\ GroupSize(i, "vs1") = g * 4
  BY <1>1, <1>3 DEF SizeD, Size1, Size2, GroupSize, GetSrc1WidenFactor
<1>5. PICK m \in Nat \ {0} : m = 4 * t
  BY <1>2
<1>6. PICK n \in Nat \ {0} : n = 4 * m
  BY <1>5
<1>7. Elts(1) = n /\ Elts(4) = m /\ o \in 0 .. g - 1 /\ e \in 0 .. n - 1
  BY <1>2, <1>3, <1>4, <1>5, <1>6
<1>8. r = 0
  BY <1>4 DEF DestRegsPerOp
<1>9. Within(i, Arg2(i, o, e, r), 1)
  BY <1>1, <1>3, <1>7, <1>8, ShiftAmountInside
<1>10. PICK j \in 0 .. m - 1 : j = e \div 4
  BY <1>6, <1>7
<1>11. PICK part \in 0 .. 4 - 1 : part = Interleave[(e % 4) + 1]
  <2>1. (e % 4) + 1 \in {1, 2, 3, 4}
    BY <1>7
  <2>2. QED
    BY <2>1 DEF Interleave
<1>12. PICK index : index = o * m + j + part * g * m
  OBVIOUS
<1>13. Arg1(i, o, e, r) = At("vs1", index)
  <2>1. Arg1(i, o, e, r) = SransArg1(i, o, e)
    BY DEF Arg1, Binary
  <2>2. 4 \div 1 = 4 /\ 4 # 2
    OBVIOUS
  <2>3. QED
    BY <1>3, <1>4, <1>7, <1>10, <1>11, <1>12, <2>1, <2>2, Zenon DEF SransArg1
<1>14. Within(i, At("vs1", index), 4)
  BY <1>4, <1>7, <1>12, PartInside
<1>15. QED
  BY <1>4, <1>9, <1>13, <1>14, Zenon DEF Fits

(* Every getter of every instruction that has an encoding.                 *)
LEMMA EveryKindFits ==
    ASSUME NEW i, i.kind \in Kinds, Encodable(i),
           NEW o \in 0 .. NumOps(i) - 1,
           NEW e \in 0 .. Elts(SizeD(i)) - 1, NEW r \in 0 .. DestRegsPerOp(i) - 1
    PROVE  Fits(i, o, e, r)
<1>1. \/ i.kind \in Binary \cup {"mvp"}
      \/ i.kind \in {"slidevn", "slidehn"}
      \/ i.kind \in {"slidevp", "slidehp"}
      \/ i.kind \in Shuffles
      \/ i.kind = "widen"
      \/ i.kind = "acc"
      \/ i.kind = "packed"
      \/ i.kind = "srans2"
      \/ i.kind = "srans4"
  BY Zenon DEF Kinds, Moves, Slides
<1>2. CASE i.kind \in Binary \cup {"mvp"}
  BY <1>2, CommonFits
<1>3. CASE i.kind \in {"slidevn", "slidehn"}
  BY <1>3, SlidenFits
<1>4. CASE i.kind \in {"slidevp", "slidehp"}
  BY <1>4, SlidepFits
<1>5. CASE i.kind \in Shuffles
  BY <1>5, ShuffleFits
<1>6. CASE i.kind = "widen"
  BY <1>6, WidenFits
<1>7. CASE i.kind = "acc"
  BY <1>7, AccFits
<1>8. CASE i.kind = "packed"
  BY <1>8, PackedFits
<1>9. CASE i.kind = "srans2"
  BY <1>9, Srans2Fits
<1>10. CASE i.kind = "srans4"
  BY <1>10, Srans4Fits
<1>11. QED
  BY <1>1, <1>2, <1>3, <1>4, <1>5, <1>6, <1>7, <1>8, <1>9, <1>10, Zenon

(* The registers an instruction writes are those of its vd operand.        *)
LEMMA DestinationFits ==
    ASSUME NEW i, i.kind \in Kinds, Encodable(i)
    PROVE  NumOps(i) * DestRegsPerOp(i) = GroupSize(i, "vd")
<1>1. i.size \in {1, 2, 4} /\ NumOps(i) \in {1, 4}
  BY DEF Encodable, NumOps
<1>2. CASE i.kind \in {"widen", "acc"}
  <2>1. SizeD(i) > Size2(i)
    BY <1>1, <1>2 DEF SizeD, Size2
  <2>2. QED
    BY <1>1, <1>2, <2>1 DEF DestRegsPerOp, GroupSize, IsWidenDestinationRegisterOp
<1>3. CASE i.kind = "packed"
  BY <1>1, <1>3 DEF DestRegsPerOp, GroupSize, IsWidenDestinationRegisterOp
<1>4. CASE i.kind \notin {"widen", "acc", "packed"}
  <2>1. ~(SizeD(i) > Size2(i))
    BY <1>1, <1>4 DEF SizeD, Size2
  <2>2. QED
    BY <1>1, <1>4, <2>1 DEF DestRegsPerOp, GroupSize, IsWidenDestinationRegisterOp
<1>5. QED
  BY <1>2, <1>3, <1>4

(* The op index of the loop stays below the number of ops.                 *)
OpInv ==
    /\ code \in Programs /\ at \in Nat \ {0} /\ op \in Nat
    /\ Running /\ Inst.kind \in Kinds => op < NumOps(Inst)

(* The instruction being executed has an encoding.                         *)
LEMMA FitsNow == OpInv => OperandsFit
<1>1. SUFFICES ASSUME OpInv, Running, Inst.kind \in Kinds
               PROVE  OperandsFit
  BY DEF OperandsFit
<1>2. PICK i : i = Inst
  OBVIOUS
<1>3. i.kind \in Kinds /\ Encodable(i)
  BY <1>1, <1>2, ProgramsAssumption DEF OpInv, Running, Inst
<1>4. op \in 0 .. NumOps(i) - 1
  <2>1. op \in Nat /\ op < NumOps(i) /\ NumOps(i) \in {1, 4}
    BY <1>1, <1>2 DEF OpInv, NumOps
  <2>2. QED
    BY <2>1
<1>5. NumOps(i) * DestRegsPerOp(i) = GroupSize(i, "vd")
  BY <1>3, DestinationFits
<1>6. ASSUME NEW e \in 0 .. Elts(SizeD(i)) - 1, NEW r \in 0 .. DestRegsPerOp(i) - 1
      PROVE  Fits(i, op, e, r)
  BY <1>3, <1>4, EveryKindFits
<1>7. QED
  BY <1>2, <1>5, <1>6, Zenon DEF OperandsFit, Fits, Within

(* Every instruction leaves its loop at the bound of its ops.              *)
LEMMA OpBounded == Spec => []OpInv
<1>1. Init => OpInv
  <2>1. SUFFICES ASSUME Init PROVE OpInv
    OBVIOUS
  <2>2. code \in Programs /\ at = 1 /\ op = 0
    BY <2>1 DEF Init, Reset
  <2>3. 0 < NumOps(Inst)
    BY DEF NumOps
  <2>4. QED
    BY <2>2, <2>3 DEF OpInv
<1>2. OpInv /\ [Next]_vars => OpInv'
  <2>1. SUFFICES ASSUME OpInv, [Next]_vars PROVE OpInv'
    OBVIOUS
  <2>2. CASE Advance
    <3>1. code' \in Programs /\ at' \in Nat \ {0} /\ op' = 0
      BY <2>1, <2>2 DEF OpInv, Advance
    <3>2. 0 < NumOps(Inst')
      BY DEF NumOps
    <3>3. QED
      BY <3>1, <3>2 DEF OpInv, NumOps
  <2>3. CASE op + 1 < NumOps(Inst) /\ op' = op + 1 /\ UNCHANGED <<at, code>>
    <3>1. Inst' = Inst /\ code' = code /\ at' = at /\ op' \in Nat /\ op' < NumOps(Inst)
      BY <2>1, <2>3 DEF OpInv, Inst
    <3>2. NumOps(Inst)' = NumOps(Inst)
      BY <3>1 DEF NumOps
    <3>3. QED
      BY <2>1, <3>1, <3>2 DEF OpInv, Running
  <2>4. CASE UNCHANGED vars
    <3>1. code' = code /\ at' = at /\ op' = op
      BY <2>4 DEF vars
    <3>2. QED
      BY <2>1, <3>1 DEF OpInv, Running, Inst, NumOps
  <2>5. Next => Advance \/ (op + 1 < NumOps(Inst) /\ op' = op + 1 /\ UNCHANGED <<at, code>>)
    BY Zenon DEF Next, LaneOp, VLd, VectorStoreHelper, VDup, GetVl, VcGet, AcSet, ADwInit,
       VConv, VConvTrap, VDwconv, Retire
  <2>6. QED
    BY <2>1, <2>2, <2>3, <2>4, <2>5
<1>3. QED
  BY <1>1, <1>2, PTL DEF Spec

(* No getter of a lane instruction reads outside of the register group     *)
(* that the decoder gave its operand, and no destination register lies     *)
(* outside of the group of vd: for every width of the registers and every  *)
(* program of instructions that have an encoding.                          *)
THEOREM OperandsAlwaysFit == Spec => []OperandsFit
<1>1. QED
  BY OpBounded, FitsNow, PTL

-----------------------------------------------------------------------------
(* What a lane instruction leaves in the registers.                        *)

(* A register group, element by element.                                   *)
LEMMA GroupAt ==
    ASSUME NEW regs, NEW first, NEW count, NEW size,
           NEW t \in Nat, t = count * Elts(size), NEW j \in 0 .. t - 1
    PROVE  Group(regs, first, count, size)[j + 1] = Element(regs, first, size, j)
<1>1. j + 1 \in 1 .. count * Elts(size) /\ (j + 1) - 1 = j
  OBVIOUS
<1>2. QED
  BY <1>1 DEF Group

(* Two sequences of the same length, one after the other.                  *)
LEMMA ConcatAt ==
    ASSUME NEW t \in Nat, NEW h \in 0 .. t - 1,
           NEW a, a = [k \in 1 .. t |-> a[k]], NEW b, b = [k \in 1 .. t |-> b[k]]
    PROVE  (a \o b)[h + 1] = a[h + 1] /\ (a \o b)[t + h + 1] = b[h + 1]
<1>1. PICK S1 : S1 = {a[k] : k \in 1 .. t} \cup {b[k] : k \in 1 .. t}
  OBVIOUS
<1>2. a \in [1 .. t -> S1] /\ b \in [1 .. t -> S1]
  BY <1>1
<1>3. a \in Seq(S1) /\ b \in Seq(S1) /\ Len(a) = t /\ Len(b) = t
  BY <1>2
<1>4. \A k \in 1 .. t + t : (a \o b)[k] = IF k <= t THEN a[k] ELSE b[k - t]
  BY <1>3
<1>5. /\ h + 1 \in 1 .. t + t /\ h + 1 <= t
      /\ t + h + 1 \in 1 .. t + t /\ ~(t + h + 1 <= t) /\ (t + h + 1) - t = h + 1
  OBVIOUS
<1>6. (a \o b)[t + h + 1] = b[(t + h + 1) - t]
  BY <1>4, <1>5, Zenon
<1>7. QED
  BY <1>4, <1>5, <1>6, Zenon

(* What a lane function does not read.                                     *)
LEMMA ResultIgnores ==
    ASSUME NEW i, NEW a, NEW b, NEW b2, NEW d, NEW d2
    PROVE  /\ i.kind # "ternary" => LaneResult(i, a, b, d) = LaneResult(i, a, b, d2)
           /\ i.kind = "unary" => LaneResult(i, a, b, d) = LaneResult(i, a, b2, d2)
           /\ i.kind \in Moves => LaneResult(i, a, b, d) = LaneResult(i, a, b2, d2)
<1>1. i.kind # "ternary" => LaneResult(i, a, b, d) = LaneResult(i, a, b, d2)
  BY DEF LaneResult
<1>2. i.kind = "unary" => LaneResult(i, a, b, d) = LaneResult(i, a, b2, d2)
  BY DEF LaneResult
<1>3. i.kind \in Moves => LaneResult(i, a, b, d) = LaneResult(i, a, b2, d2)
  BY DEF LaneResult
<1>4. QED
  BY <1>1, <1>2, <1>3

(* The lane computes its function of the elements p and q.                 *)
Refers(i, regs, k, p, q) ==
    \E d : LaneReference(i, regs, k) = LaneResult(i, p, q, d)

(* The groups an instruction reads.                                        *)
Sources(i, regs, a, b) ==
    /\ a = Group(regs, i.vs1, GroupSize(i, "vs1"), Size1(i))
    /\ b = Group(regs, i.vs2, NumOps(i), Size2(i))

(* One after the other.                                                    *)
Joined(a, b) == a \o b

(* The reference, instruction by instruction.                              *)
LEMMA ReferenceWide ==
    ASSUME NEW i, NEW regs, NEW k, NEW a, NEW b, Sources(i, regs, a, b),
           NEW m, m = NumOps(i) * Elts(SizeD(i))
    PROVE  /\ i.kind = "widen" /\ k < m => Refers(i, regs, k, a[2 * k + 1], b[2 * k + 1])
           /\ i.kind = "widen" /\ ~(k < m) =>
                Refers(i, regs, k, a[2 * (k - m) + 2], b[2 * (k - m) + 2])
           /\ i.kind = "acc" /\ k < m => Refers(i, regs, k, a[k + 1], b[2 * k + 1])
           /\ i.kind = "acc" /\ ~(k < m) =>
                Refers(i, regs, k, a[k + 1], b[2 * (k - m) + 2])
           /\ i.kind = "packed" => Refers(i, regs, k, a[2 * k + 1], a[2 * k + 2])
  BY Zenon DEF Refers, Sources, LaneReference, Binary

(* Narrowing.                                                              *)
LEMMA ReferenceNarrow ==
    ASSUME NEW i, NEW regs, NEW k, NEW a, NEW b, Sources(i, regs, a, b),
           NEW t, t = NumOps(i) * Elts(Size1(i))
    PROVE  /\ i.kind = "srans2" => Refers(i, regs, k, a[k \div 2 + 1 + (k % 2) * t], b[k + 1])
           /\ i.kind = "srans4" =>
                Refers(i, regs, k, a[k \div 4 + 1 + Interleave[(k % 4) + 1] * t], b[k + 1])
  BY Zenon DEF Refers, Sources, LaneReference, Binary

(* Slides: the element p that a lane receives.                             *)
SlideFrom(i, regs, k, a, b, m, n, p) ==
    /\ Refers(i, regs, k, p, p)
    /\ i.kind = "slidehn" => p = Joined(a, b)[k + 1 + i.index]
    /\ i.kind = "slidehp" => p = Joined(a, b)[k + 1 + m - i.index]
    /\ i.kind = "slidevn" /\ (k % n) + i.index < n => p = a[k + 1 + i.index]
    /\ i.kind = "slidevn" /\ ~((k % n) + i.index < n) => p = b[k + 1 + i.index - n]
    /\ i.kind = "slidevp" /\ k % n < i.index => p = a[k + 1 + n - i.index]
    /\ i.kind = "slidevp" /\ ~(k % n < i.index) => p = b[k + 1 - i.index]

(* There is one.                                                           *)
LEMMA ReferenceSlide ==
    ASSUME NEW i, NEW regs, NEW k, NEW a, NEW b, Sources(i, regs, a, b), i.kind \in Slides,
           NEW m, m = NumOps(i) * Elts(SizeD(i)), NEW n, n = Elts(i.size)
    PROVE  \E p : SlideFrom(i, regs, k, a, b, m, n, p)
  BY DEF SlideFrom, Refers, Sources, Joined, LaneReference, Binary, Slides

(* Shuffles and moves of pairs: the element p that a lane receives.        *)
ShuffleFrom(i, regs, k, a, b, m, p) ==
    /\ Refers(i, regs, k, p, p)
    /\ i.kind = "evn" => p = Joined(a, b)[2 * k + 1]
    /\ i.kind = "odd" => p = Joined(a, b)[2 * k + 2]
    /\ i.kind = "evnodd" /\ k < m => p = Joined(a, b)[2 * k + 1]
    /\ i.kind = "evnodd" /\ ~(k < m) => p = Joined(a, b)[2 * (k - m) + 2]
    /\ i.kind = "zip" /\ k % 2 = 0 => p = a[k \div 2 + 1]
    /\ i.kind = "zip" /\ k % 2 # 0 => p = b[k \div 2 + 1]
    /\ i.kind = "mvp" => p = Joined(a, b)[k + 1]

(* There is one.                                                           *)
LEMMA ReferenceShuffle ==
    ASSUME NEW i, NEW regs, NEW k, NEW a, NEW b, Sources(i, regs, a, b),
           i.kind \in Shuffles \cup {"mvp"}, NEW m, m = NumOps(i) * Elts(SizeD(i))
    PROVE  \E p : ShuffleFrom(i, regs, k, a, b, m, p)
  BY DEF ShuffleFrom, Refers, Sources, Joined, LaneReference, Binary, Shuffles

(* Elementwise operations.                                                 *)
LEMMA ReferenceBinary ==
    ASSUME NEW i, NEW regs, NEW k, NEW a, NEW b, Sources(i, regs, a, b),
           NEW m, m = NumOps(i) * Elts(SizeD(i))
    PROVE  /\ i.kind \in {"binary", "unary"} => Refers(i, regs, k, a[k + 1], b[k + 1])
           /\ i.kind = "scalar" =>
                Refers(i, regs, k, a[k + 1],
                       [j \in 1 .. NumOps(i) * Elts(i.size) |->
                           [q \in 1 .. i.size |-> ScalarByte(q)]][k + 1])
           /\ i.kind = "ternary" /\ k < m =>
                LaneReference(i, regs, k) =
                    LaneResult(i, a[k + 1], b[k + 1],
                               Group(regs, i.vd, NumOps(i), SizeD(i))[k + 1])
  BY Zenon DEF Refers, Sources, LaneReference, Binary

(* The kinds that may have vd on top of a source (see InPlaceOK).          *)
InPlace1 == Binary \cup
    {"packed", "slidehn", "slidehp", "slidevn", "slidevp", "evn", "odd", "acc"}
InPlace2 == {"binary", "ternary", "unary", "scalar", "slidevn", "slidevp", "packed", "srans2",
             "srans4"}

(* The registers of the destination group that the ops before o write.     *)
Written(i, o) ==
    {p[1] + NumOps(i) * p[2] : p \in (0 .. o - 1) \X (0 .. DestRegsPerOp(i) - 1)}

(* With vd on top of the source, op o does not read what they wrote.       *)
Ahead(i, o, a, size) ==
    /\ a.operand = "vs1" /\ i.kind \in InPlace1 => a.index \div Elts(size) \notin Written(i, o)
    /\ a.operand = "vs2" /\ i.kind \in InPlace2 => a.index \div Elts(size) \notin Written(i, o)

(* The lane of element e of the r-th destination register of op o.         *)
LaneAt(i, o, e, r) == (r * NumOps(i) + o) * Elts(SizeD(i)) + e

(* The op computes what the reference says, and its reads are ahead of the *)
(* writes.                                                                 *)
Right(i, regs, o, e, r) == LaneReference(i, regs, LaneAt(i, o, e, r)) = OpResult(regs, i, o, e, r)
Careful(i, o, e, r) ==
    /\ Ahead(i, o, Arg1(i, o, e, r), Size1(i))
    /\ Ahead(i, o, Arg2(i, o, e, r), IF i.kind = "packed" THEN Size1(i) ELSE Size2(i))

(* The elements of the arguments.                                          *)
LEMMA ValueAt ==
    ASSUME NEW regs, NEW i, NEW index, NEW size
    PROVE  /\ Value(regs, i, At("vs1", index), size) = Element(regs, i.vs1, size, index)
           /\ Value(regs, i, At("vs2", index), size) = Element(regs, i.vs2, size, index)
           /\ Value(regs, i, At("xs2", index), size) = [n \in 1 .. size |-> ScalarByte(n)]
  BY DEF Value, At

(* The reference refers to the arguments of the op.                        *)
LEMMA RightBy ==
    ASSUME NEW i, NEW regs, NEW o, NEW e, NEW r, NEW p, NEW q,
           Refers(i, regs, LaneAt(i, o, e, r), p, q),
           p = Value(regs, i, Arg1(i, o, e, r), Size1(i)),
           \/ i.kind \in Moves \cup {"unary"}
           \/ /\ i.kind # "ternary"
              /\ q = Value(regs, i, Arg2(i, o, e, r),
                           IF i.kind = "packed" THEN Size1(i) ELSE Size2(i))
    PROVE  Right(i, regs, o, e, r)
<1>1. PICK d : LaneReference(i, regs, LaneAt(i, o, e, r)) = LaneResult(i, p, q, d)
  BY DEF Refers
<1>2. PICK q2, d2 :
         /\ OpResult(regs, i, o, e, r) = LaneResult(i, p, q2, d2)
         /\ q2 = Value(regs, i, Arg2(i, o, e, r),
                       IF i.kind = "packed" THEN Size1(i) ELSE Size2(i))
  BY Zenon DEF OpResult
<1>3. CASE i.kind \in Moves
  <2>1. LaneResult(i, p, q, d) = LaneResult(i, p, q2, d2)
    BY <1>3, ResultIgnores
  <2>2. QED
    BY <1>1, <1>2, <2>1, Zenon DEF Right
<1>4. CASE i.kind = "unary"
  BY <1>1, <1>2, <1>4, ResultIgnores, Zenon DEF Right
<1>5. CASE i.kind # "ternary" /\ q = q2
  BY <1>1, <1>2, <1>5, ResultIgnores, Zenon DEF Right
<1>6. QED
  <2>1. i.kind \in Moves \/ i.kind = "unary" \/ (i.kind # "ternary" /\ q = q2)
    BY <1>2, Zenon
  <2>2. QED
    BY <1>3, <1>4, <1>5, <2>1, Zenon

(* An argument in a register that no earlier op writes.                    *)
LEMMA AheadAt ==
    ASSUME NEW i, DestRegsPerOp(i) = 1, NumOps(i) \in Nat, NEW o \in Nat, NEW operand, NEW size,
           NEW n \in Nat \ {0}, Elts(size) = n, NEW q \in Int, q >= o, NEW j \in 0 .. n - 1,
           NEW index, index = q * n + j
    PROVE  Ahead(i, o, At(operand, index), size)
<1>1. index \div n = q
  BY UniqueRemainder
<1>2. q \notin Written(i, o)
  <2>1. ASSUME q \in Written(i, o) PROVE FALSE
    <3>1. PICK p \in (0 .. o - 1) \X (0 .. 0) : q = p[1] + NumOps(i) * p[2]
      BY <2>1 DEF Written
    <3>2. p[1] \in 0 .. o - 1 /\ p[2] = 0
      BY <3>1
    <3>3. QED
      BY <3>1, <3>2
  <2>2. QED
    BY <2>1
<1>3. At(operand, index).index = index
  BY DEF At
<1>4. QED
  BY <1>1, <1>2, <1>3, Zenon DEF Ahead

(* Kinds that are not allowed on top of a source.                          *)
LEMMA AheadNever ==
    ASSUME NEW i, NEW o, NEW operand, NEW index, NEW size,
           operand = "vs1" => i.kind \notin InPlace1,
           operand = "vs2" => i.kind \notin InPlace2
    PROVE  Ahead(i, o, At(operand, index), size)
<1>1. At(operand, index).operand = operand
  BY DEF At
<1>2. QED
  BY <1>1, Zenon DEF Ahead

(* The elements of the sources of an instruction with elements of one      *)
(* size.                                                                   *)
LEMMA EvenSources ==
    ASSUME NEW i, NEW n, NEW k, EvenInst(i, n, k), NEW regs, NEW a, NEW b,
           Sources(i, regs, a, b), NEW t \in Nat, t = NumOps(i) * n, NEW j \in 0 .. t - 1
    PROVE  /\ a[j + 1] = Value(regs, i, At("vs1", j), i.size)
           /\ b[j + 1] = Value(regs, i, At("vs2", j), i.size)
           /\ Joined(a, b)[j + 1] = Value(regs, i, At("vs1", j), i.size)
           /\ Joined(a, b)[t + j + 1] = Value(regs, i, At("vs2", j), i.size)
<1>1. PICK g \in Nat : g = NumOps(i)
  BY DEF EvenInst
<1>2. /\ n \in Nat /\ Elts(i.size) = n
      /\ a = Group(regs, i.vs1, g, i.size) /\ b = Group(regs, i.vs2, g, i.size)
  BY <1>1 DEF EvenInst, Sources
<1>3. t = g * n /\ t = g * Elts(i.size)
  BY <1>1, <1>2
<1>4. /\ a[j + 1] = Element(regs, i.vs1, i.size, j)
      /\ b[j + 1] = Element(regs, i.vs2, i.size, j)
  BY <1>2, <1>3, GroupAt
<1>5. /\ Joined(a, b)[j + 1] = Element(regs, i.vs1, i.size, j)
      /\ Joined(a, b)[t + j + 1] = Element(regs, i.vs2, i.size, j)
  <2>1. a = [h \in 1 .. t |-> a[h]] /\ b = [h \in 1 .. t |-> b[h]]
    BY <1>2, <1>3 DEF Group
  <2>2. Joined(a, b)[j + 1] = a[j + 1] /\ Joined(a, b)[t + j + 1] = b[j + 1]
    BY <2>1, ConcatAt DEF Joined
  <2>3. QED
    BY <1>4, <2>2
<1>6. /\ Value(regs, i, At("vs1", j), i.size) = Element(regs, i.vs1, i.size, j)
      /\ Value(regs, i, At("vs2", j), i.size) = Element(regs, i.vs2, i.size, j)
  BY ValueAt
<1>7. QED
  BY <1>4, <1>5, <1>6, Zenon

(* The number of a lane of the first destination register of an op.        *)
LEMMA EvenPos ==
    ASSUME NEW i, NEW n, NEW k, EvenInst(i, n, k), NEW o \in 0 .. NumOps(i) - 1,
           NEW e \in 0 .. n - 1
    PROVE  \E t \in Nat, lane \in Nat :
              /\ t = NumOps(i) * n /\ t = NumOps(i) * Elts(SizeD(i))
              /\ lane = o * n + e /\ lane < t
              /\ LaneAt(i, o, e, 0) = lane /\ LaneAt(i, o, e, 1) = t + lane
              /\ o * n \in Nat /\ o * n + n <= t
<1>1. PICK g \in Nat : g = NumOps(i)
  BY DEF EvenInst
<1>2. n \in Nat /\ Elts(SizeD(i)) = n
  BY DEF EvenInst
<1>3. o \in 0 .. g - 1 /\ e \in Int /\ 0 <= e /\ e < n
  BY <1>1, <1>2
<1>4. o * n + e \in Int /\ 0 <= o * n + e /\ o * n + e < g * n
  BY <1>2, <1>3, OpInside
<1>5. PICK t \in Nat : t = g * n
  BY <1>2
<1>6. PICK lane \in Nat : lane = o * n + e
  BY <1>4
<1>7. o * n \in Nat /\ o * n + n <= t
  <2>1. (o + 1) * n <= g * n /\ (o + 1) * n = o * n + n /\ o * n \in Nat
    BY <1>2, <1>3
  <2>2. QED
    BY <1>5, <2>1
<1>8. (0 * g + o) * n + e = lane /\ (1 * g + o) * n + e = t + lane
  <2>1. (g + o) * n = g * n + o * n
    BY <1>2, <1>3
  <2>2. 0 * g + o = o /\ 1 * g + o = g + o
    BY <1>3
  <2>3. QED
    BY <1>2, <1>3, <1>5, <1>6, <1>7, <2>1, <2>2
<1>9. LaneAt(i, o, e, 0) = lane /\ LaneAt(i, o, e, 1) = t + lane
  BY <1>1, <1>2, <1>8 DEF LaneAt
<1>10. QED
  BY <1>1, <1>2, <1>4, <1>5, <1>6, <1>7, <1>9

(* The common getters of an instruction with elements of one size.         *)
LEMMA EvenCommon ==
    ASSUME NEW i, NEW n, NEW k, EvenInst(i, n, k), NEW o \in 0 .. NumOps(i) - 1,
           NEW e \in 0 .. n - 1, NEW lane \in Nat, lane = o * n + e
    PROVE  CommonArg1(i, o, e, 0) = At("vs1", lane) /\ CommonArg2(i, o, e, 0) = At("vs2", lane)
<1>1. /\ i.size \in Nat \ {0} /\ n \in Nat /\ Elts(i.size) = n
      /\ SizeD(i) = i.size /\ Size1(i) = i.size /\ Size2(i) = i.size
  BY DEF EvenInst
<1>2. (e * i.size) \div i.size = e
  <2>1. e \in Int
    BY <1>1
  <2>2. QED
    BY <1>1, <2>1, ExactQuotient
<1>3. ~(Size1(i) = 2 * Size2(i)) /\ lane + 0 = lane
  BY <1>1
<1>4. QED
  BY <1>1, <1>2, <1>3 DEF CommonArg1, CommonArg2

(* Arguments of such an instruction that are ahead of the writes.          *)
LEMMA EvenAhead ==
    ASSUME NEW i, NEW n, NEW k, EvenInst(i, n, k), DestRegsPerOp(i) = 1,
           NEW o \in 0 .. NumOps(i) - 1, NEW operand, NEW q \in Int, q >= o,
           NEW j \in 0 .. n - 1, NEW index, index = q * n + j
    PROVE  Ahead(i, o, At(operand, index), i.size)
<1>1. n \in Nat \ {0} /\ Elts(i.size) = n /\ NumOps(i) \in Nat /\ o \in Nat
  BY DEF EvenInst
<1>2. QED
  BY <1>1, AheadAt

(* Elementwise operations.                                                 *)
LEMMA BinaryExact ==
    ASSUME NEW i, i.kind \in Binary, Encodable(i), NEW regs, NEW o \in 0 .. NumOps(i) - 1,
           NEW e \in 0 .. Elts(SizeD(i)) - 1, NEW r \in 0 .. DestRegsPerOp(i) - 1
    PROVE  Right(i, regs, o, e, r) /\ Careful(i, o, e, r)
<1>1. i.kind \in EvenKinds /\ i.kind # "packed"
  BY DEF EvenKinds, Binary
<1>2. PICK n, k : EvenInst(i, n, k)
  BY <1>1, EvenKind
<1>3. /\ n = Elts(i.size) /\ n \in Nat /\ e \in 0 .. n - 1 /\ SizeD(i) = i.size
      /\ Size1(i) = i.size /\ Size2(i) = i.size /\ Elts(SizeD(i)) = n
  BY <1>2 DEF EvenInst
<1>4. DestRegsPerOp(i) = 1 /\ r = 0
  BY <1>1, EvenFacts DEF Binary
<1>5. PICK t \in Nat, lane \in Nat :
         /\ t = NumOps(i) * n /\ t = NumOps(i) * Elts(SizeD(i))
         /\ lane = o * n + e /\ lane < t
         /\ LaneAt(i, o, e, 0) = lane
  BY <1>2, <1>3, EvenPos
<1>6. PICK a, b : Sources(i, regs, a, b)
  BY DEF Sources
<1>7. /\ a[lane + 1] = Value(regs, i, At("vs1", lane), i.size)
      /\ b[lane + 1] = Value(regs, i, At("vs2", lane), i.size)
  <2>1. lane \in 0 .. t - 1
    BY <1>5
  <2>2. QED
    BY <1>2, <1>5, <1>6, <2>1, EvenSources
<1>8. Arg1(i, o, e, r) = At("vs1", lane) /\ CommonArg2(i, o, e, r) = At("vs2", lane)
  <2>1. CommonArg1(i, o, e, 0) = At("vs1", lane) /\ CommonArg2(i, o, e, 0) = At("vs2", lane)
    BY <1>2, <1>3, <1>5, EvenCommon
  <2>2. Arg1(i, o, e, r) = CommonArg1(i, o, e, r)
    BY DEF Arg1, Binary
  <2>3. QED
    BY <1>4, <2>1, <2>2
<1>9. /\ i.kind \in {"binary", "ternary"} => Arg2(i, o, e, r) = At("vs2", lane)
      /\ i.kind = "unary" => Arg2(i, o, e, r) = At("vs1", lane)
      /\ i.kind = "scalar" => Arg2(i, o, e, r) = At("xs2", 0)
  BY <1>8 DEF Arg2, Shuffles
<1>10. Careful(i, o, e, r)
  <2>1. o \in Int /\ o >= o
    BY <1>2 DEF EvenInst
  <2>2. Ahead(i, o, At("vs1", lane), i.size) /\ Ahead(i, o, At("vs2", lane), i.size)
    BY <1>2, <1>3, <1>4, <1>5, <2>1, EvenAhead
  <2>3. Ahead(i, o, At("xs2", 0), i.size)
    BY AheadNever
  <2>4. Ahead(i, o, Arg2(i, o, e, r), i.size)
    BY <1>9, <2>2, <2>3 DEF Binary
  <2>5. QED
    BY <1>1, <1>3, <1>8, <2>2, <2>4, Zenon DEF Careful
<1>11. CASE i.kind \in {"binary", "unary"}
  <2>1. Refers(i, regs, lane, a[lane + 1], b[lane + 1])
    BY <1>5, <1>6, <1>11, ReferenceBinary
  <2>2. QED
    BY <1>1, <1>3, <1>4, <1>5, <1>7, <1>8, <1>9, <1>10, <1>11, <2>1, RightBy
<1>12. CASE i.kind = "scalar"
  <2>1. Refers(i, regs, lane, a[lane + 1],
               [j \in 1 .. NumOps(i) * Elts(i.size) |->
                   [q \in 1 .. i.size |-> ScalarByte(q)]][lane + 1])
    BY <1>5, <1>6, <1>12, ReferenceBinary
  <2>2. lane + 1 \in 1 .. NumOps(i) * Elts(i.size)
    BY <1>3, <1>5
  <2>3. Refers(i, regs, lane, a[lane + 1], [q \in 1 .. i.size |-> ScalarByte(q)])
    BY <2>1, <2>2
  <2>4. Value(regs, i, Arg2(i, o, e, r), i.size) = [q \in 1 .. i.size |-> ScalarByte(q)]
    <3>1. Value(regs, i, At("xs2", 0), i.size) = [q \in 1 .. i.size |-> ScalarByte(q)]
      BY DEF Value, At
    <3>2. QED
      BY <1>9, <1>12, <3>1, Zenon
  <2>5. QED
    BY <1>1, <1>3, <1>4, <1>5, <1>7, <1>8, <1>10, <1>12, <2>3, <2>4, RightBy
<1>13. CASE i.kind = "ternary"
  <2>1. LaneReference(i, regs, lane) =
            LaneResult(i, a[lane + 1], b[lane + 1],
                       Group(regs, i.vd, NumOps(i), SizeD(i))[lane + 1])
    BY <1>5, <1>6, <1>13, ReferenceBinary
  <2>2. Group(regs, i.vd, NumOps(i), SizeD(i))[lane + 1]
            = Element(regs, i.vd, SizeD(i), lane)
    <3>1. lane \in 0 .. t - 1
      BY <1>5
    <3>2. QED
      BY <1>5, <3>1, GroupAt
  <2>3. OpResult(regs, i, o, e, r) =
            LaneResult(i, a[lane + 1], b[lane + 1], Element(regs, i.vd, SizeD(i), lane))
    <3>1. o * Elts(SizeD(i)) + e = lane
      BY <1>3, <1>5
    <3>2. /\ Value(regs, i, Arg1(i, o, e, r), Size1(i)) = a[lane + 1]
          /\ Value(regs, i, Arg2(i, o, e, r),
                   IF i.kind = "packed" THEN Size1(i) ELSE Size2(i)) = b[lane + 1]
      BY <1>1, <1>3, <1>7, <1>8, <1>9, <1>13
    <3>3. QED
      BY <3>1, <3>2, Zenon DEF OpResult
  <2>4. QED
    BY <1>4, <1>5, <1>10, <2>1, <2>2, <2>3, Zenon DEF Right
<1>14. QED
  BY <1>11, <1>12, <1>13 DEF Binary

(* A lane of the first destination register, and the sources.              *)
LaneSetup(i, regs, o, e, n, t, lane, a, b) ==
    /\ \E k : EvenInst(i, n, k)
    /\ n = Elts(i.size) /\ n \in Nat /\ n >= 4 /\ e \in 0 .. n - 1
    /\ SizeD(i) = i.size /\ Size1(i) = i.size /\ Size2(i) = i.size /\ i.kind # "packed"
    /\ NumOps(i) \in {1, 4} /\ o \in 0 .. NumOps(i) - 1 /\ o \in Nat
    /\ t \in Nat /\ t = NumOps(i) * n /\ t = NumOps(i) * Elts(SizeD(i))
    /\ o * n \in Nat /\ o * n + n <= t
    /\ lane \in Nat /\ lane = o * n + e /\ lane < t
    /\ LaneAt(i, o, e, 0) = lane /\ LaneAt(i, o, e, 1) = t + lane
    /\ Sources(i, regs, a, b)

(* Every lane has one.                                                     *)
LEMMA EvenSetup ==
    ASSUME NEW i, i.kind \in EvenKinds, Encodable(i), NEW regs, NEW o \in 0 .. NumOps(i) - 1,
           NEW e \in 0 .. Elts(SizeD(i)) - 1
    PROVE  \E n, t, lane, a, b : LaneSetup(i, regs, o, e, n, t, lane, a, b)
<1>1. PICK n, k : EvenInst(i, n, k)
  BY EvenKind
<1>2. /\ n = Elts(i.size) /\ n \in Nat /\ n >= 4 /\ e \in 0 .. n - 1 /\ SizeD(i) = i.size
      /\ Size1(i) = i.size /\ Size2(i) = i.size /\ i.kind # "packed"
      /\ NumOps(i) \in {1, 4} /\ o \in Nat
  BY <1>1 DEF EvenInst
<1>3. PICK t \in Nat, lane \in Nat :
         /\ t = NumOps(i) * n /\ t = NumOps(i) * Elts(SizeD(i))
         /\ lane = o * n + e /\ lane < t
         /\ LaneAt(i, o, e, 0) = lane /\ LaneAt(i, o, e, 1) = t + lane
         /\ o * n \in Nat /\ o * n + n <= t
  BY <1>1, <1>2, EvenPos
<1>4. PICK a, b : Sources(i, regs, a, b)
  BY DEF Sources
<1>5. LaneSetup(i, regs, o, e, n, t, lane, a, b)
  BY <1>1, <1>2, <1>3, <1>4, Zenon DEF LaneSetup
<1>6. QED
  BY <1>5, Zenon

(* The elements of its sources.                                            *)
LEMMA SetupSources ==
    ASSUME NEW i, NEW regs, NEW o, NEW e, NEW n, NEW t, NEW lane, NEW a, NEW b,
           LaneSetup(i, regs, o, e, n, t, lane, a, b), NEW j \in 0 .. t - 1
    PROVE  /\ a[j + 1] = Value(regs, i, At("vs1", j), i.size)
           /\ b[j + 1] = Value(regs, i, At("vs2", j), i.size)
           /\ Joined(a, b)[j + 1] = Value(regs, i, At("vs1", j), i.size)
           /\ Joined(a, b)[t + j + 1] = Value(regs, i, At("vs2", j), i.size)
<1>1. PICK k : EvenInst(i, n, k)
  BY DEF LaneSetup
<1>2. Sources(i, regs, a, b) /\ t \in Nat /\ t = NumOps(i) * n
  BY DEF LaneSetup
<1>3. /\ a[j + 1] = Value(regs, i, At("vs1", j), i.size)
      /\ b[j + 1] = Value(regs, i, At("vs2", j), i.size)
  BY <1>1, <1>2, EvenSources
<1>4. /\ Joined(a, b)[j + 1] = Value(regs, i, At("vs1", j), i.size)
      /\ Joined(a, b)[t + j + 1] = Value(regs, i, At("vs2", j), i.size)
  BY <1>1, <1>2, EvenSources
<1>5. QED
  BY <1>3, <1>4

(* A move to it from an element of a source.                               *)
LEMMA MoveRight ==
    ASSUME NEW i, NEW regs, NEW o, NEW e, NEW n, NEW t, NEW lane, NEW a, NEW b,
           LaneSetup(i, regs, o, e, n, t, lane, a, b), i.kind \in Moves, NEW r, NEW arg,
           Arg1(i, o, e, r) = arg,
           Refers(i, regs, LaneAt(i, o, e, r), Value(regs, i, arg, i.size),
                  Value(regs, i, arg, i.size))
    PROVE  Right(i, regs, o, e, r)
<1>1. Size1(i) = i.size
  BY DEF LaneSetup
<1>2. QED
  BY <1>1, RightBy

(* The getters of a slide are ahead of the writes.                         *)
LEMMA SlideCareful ==
    ASSUME NEW i, NEW regs, NEW o, NEW e, NEW n, NEW t, NEW lane, NEW a, NEW b,
           LaneSetup(i, regs, o, e, n, t, lane, a, b), i.kind \in Slides, Encodable(i),
           Ahead(i, o, Arg1(i, o, e, 0), i.size)
    PROVE  Careful(i, o, e, 0)
<1>1. PICK k : EvenInst(i, n, k)
  BY DEF LaneSetup
<1>2. /\ Size1(i) = i.size /\ Size2(i) = i.size /\ i.kind # "packed" /\ o \in 0 .. NumOps(i) - 1
      /\ e \in 0 .. n - 1 /\ lane \in Nat /\ lane = o * n + e /\ o \in Int /\ o >= o
  BY DEF LaneSetup
<1>3. DestRegsPerOp(i) = 1
  BY EvenFacts DEF EvenKinds, Moves, Slides
<1>4. Arg2(i, o, e, 0) = At("vs2", lane)
  <2>1. Arg2(i, o, e, 0) = CommonArg2(i, o, e, 0)
    BY DEF Arg2, Slides, Shuffles
  <2>2. QED
    BY <1>1, <1>2, <2>1, EvenCommon
<1>5. Ahead(i, o, At("vs2", lane), i.size)
  BY <1>1, <1>2, <1>3, EvenAhead
<1>6. QED
  BY <1>2, <1>4, <1>5, Zenon DEF Careful

(* Slides to the next register.                                            *)
LEMMA SlidenExact ==
    ASSUME NEW i, i.kind \in {"slidevn", "slidehn"}, Encodable(i), NEW regs,
           NEW o \in 0 .. NumOps(i) - 1,
           NEW e \in 0 .. Elts(SizeD(i)) - 1, NEW r \in 0 .. DestRegsPerOp(i) - 1
    PROVE  Right(i, regs, o, e, r) /\ Careful(i, o, e, r)
<1>1. i.kind \in EvenKinds /\ i.kind \in Slides /\ i.kind \in Moves
  BY DEF EvenKinds, Moves, Slides
<1>2. PICK n, t, lane, a, b : LaneSetup(i, regs, o, e, n, t, lane, a, b)
  BY <1>1, EvenSetup
<1>3. /\ n = Elts(i.size) /\ n \in Nat /\ n >= 4 /\ e \in 0 .. n - 1 /\ NumOps(i) \in {1, 4}
      /\ t \in Nat /\ t = NumOps(i) * n /\ t = NumOps(i) * Elts(SizeD(i)) /\ o * n \in Nat
      /\ o * n + n <= t /\ o \in Nat
      /\ lane \in Nat /\ lane = o * n + e /\ lane < t /\ LaneAt(i, o, e, 0) = lane
      /\ Sources(i, regs, a, b)
  BY <1>2 DEF LaneSetup
<1>4. PICK k : EvenInst(i, n, k)
  BY <1>2 DEF LaneSetup
<1>5. DestRegsPerOp(i) = 1 /\ r = 0
  BY <1>1, EvenFacts DEF Slides
<1>6. PICK d \in 1 .. 4 : d = i.index /\ (i.kind = "slidehn" => NumOps(i) = 4)
  BY <1>1 DEF Encodable, NumOps
<1>7. o \in 0 .. 3 /\ (i.kind = "slidehn" => t = 4 * n)
  BY <1>3, <1>6
<1>8. PICK first \in Nat : first = o * n
  BY <1>3
<1>9. /\ n \in Nat /\ n >= 4 /\ e \in 0 .. n - 1 /\ t \in Nat /\ first + n <= t /\ o \in Nat
       /\ lane \in Nat /\ lane = first + e /\ d \in 1 .. 4
  BY <1>3, <1>8
<1>10. PICK h \in BOOLEAN : h = (i.kind = "slidehn")
  OBVIOUS
<1>11. Arg1(i, o, e, r) = SlidenArg(h, i, o, e)
  <2>1. Arg1(i, o, e, r) = SlidenArg(i.kind = "slidehn", i, o, e)
    BY DEF Arg1, Binary
  <2>2. QED
    BY <1>10, <2>1, Zenon
<1>12. PICK p :
         /\ Refers(i, regs, lane, p, p)
         /\ i.kind = "slidehn" => p = Joined(a, b)[lane + 1 + d]
         /\ i.kind = "slidevn" /\ (lane % n) + d < n => p = a[lane + 1 + d]
         /\ i.kind = "slidevn" /\ ~((lane % n) + d < n) => p = b[lane + 1 + d - n]
  <2>1. n = Elts(i.size) /\ t = NumOps(i) * Elts(SizeD(i)) /\ Sources(i, regs, a, b)
    BY <1>3
  <2>2. PICK p : SlideFrom(i, regs, lane, a, b, t, n, p)
    BY <1>1, <2>1, ReferenceSlide
  <2>3. QED
    BY <1>6, <2>2, Zenon DEF SlideFrom
<1>13. lane % n = e
  <2>1. n \in Nat \ {0} /\ o \in Int /\ e \in 0 .. n - 1
    BY <1>3
  <2>2. (o * n + e) % n = e
    BY <2>1, UniqueRemainder
  <2>3. QED
    BY <1>3, <2>2
<1>14. ASSUME NEW operand, NEW q \in Int, q >= o, NEW j \in 0 .. n - 1,
              NEW index, index = q * n + j, Arg1(i, o, e, r) = At(operand, index),
              p = Value(regs, i, At(operand, index), i.size)
       PROVE  Right(i, regs, o, e, r) /\ Careful(i, o, e, r)
  <2>1. Ahead(i, o, At(operand, index), i.size)
    BY <1>4, <1>5, <1>14, EvenAhead
  <2>2. Careful(i, o, e, r)
    BY <1>1, <1>2, <1>5, <1>14, <2>1, SlideCareful
  <2>3. Refers(i, regs, LaneAt(i, o, e, r), p, p)
    BY <1>3, <1>5, <1>12
  <2>4. QED
    BY <1>1, <1>2, <1>14, <2>2, <2>3, MoveRight
<1>15. CASE e + d < n
  <2>1. PICK index \in 0 .. t - 1 : index = o * n + (e + d) /\ index = lane + d
    <3>1. lane + d \in 0 .. t - 1 /\ lane + d = first + (e + d)
      BY <1>15, <1>9
    <3>2. QED
      BY <1>8, <3>1
  <2>2. Arg1(i, o, e, r) = At("vs1", index)
    <3>1. o * n + e + i.index = index /\ e + i.index < n /\ ~(e + i.index >= n)
      BY <1>3, <1>6, <1>15, <2>1
    <3>2. QED
      BY <1>3, <1>11, <3>1 DEF SlidenArg
  <2>3. lane + 1 + d = index + 1
    BY <1>3, <2>1
  <2>4. p = Value(regs, i, At("vs1", index), i.size)
    <3>1. /\ a[index + 1] = Value(regs, i, At("vs1", index), i.size)
          /\ Joined(a, b)[index + 1] = Value(regs, i, At("vs1", index), i.size)
      BY <1>2, SetupSources
    <3>2. p = a[index + 1] \/ p = Joined(a, b)[index + 1]
      BY <1>12, <1>13, <1>15, <2>3
    <3>3. QED
      BY <3>1, <3>2
  <2>5. e + d \in 0 .. n - 1 /\ o \in Int /\ o >= o
    BY <1>15, <1>9
  <2>6. QED
    BY <1>14, <2>1, <2>2, <2>4, <2>5
<1>16. CASE ~(e + d < n) /\ ~h
  <2>1. PICK index \in 0 .. t - 1 : index = o * n + (e + d - n) /\ index = lane + d - n
    <3>1. lane + d - n \in 0 .. t - 1 /\ lane + d - n = first + (e + d - n)
      BY <1>16, <1>9
    <3>2. QED
      BY <1>8, <3>1
  <2>2. Arg1(i, o, e, r) = At("vs2", index)
    <3>1. o * n + e + i.index - n = index /\ ~(e + i.index < n)
      BY <1>3, <1>6, <1>16, <2>1
    <3>2. QED
      BY <1>3, <1>11, <1>16, <3>1 DEF SlidenArg
  <2>3. lane + 1 + d - n = index + 1
    BY <1>3, <2>1
  <2>4. p = Value(regs, i, At("vs2", index), i.size)
    <3>1. b[index + 1] = Value(regs, i, At("vs2", index), i.size)
      BY <1>2, SetupSources
    <3>2. i.kind = "slidevn"
      BY <1>10, <1>16, Zenon
    <3>3. QED
      BY <1>12, <1>13, <1>16, <2>3, <3>1, <3>2
  <2>5. e + d - n \in 0 .. n - 1 /\ o \in Int /\ o >= o
    BY <1>16, <1>9
  <2>6. QED
    BY <1>14, <2>1, <2>2, <2>4, <2>5
<1>17. CASE ~(e + d < n) /\ h /\ o < 3
  <2>1. i.kind = "slidehn"
    BY <1>10, <1>17, Zenon
  <2>2. o * n <= 2 * n
    BY <1>3, <1>7, <1>17
  <2>3. PICK index \in 0 .. t - 1 : index = (o + 1) * n + (e + d - n) /\ index = lane + d
    <3>1. (o + 1) * n = o * n + n
      BY <1>3
    <3>2. lane + d \in 0 .. t - 1 /\ lane + d = (o + 1) * n + (e + d - n)
      <4>1. t = 4 * n /\ first <= 2 * n
        BY <1>7, <1>8, <2>1, <2>2
      <4>2. lane + d \in 0 .. t - 1 /\ lane + d = first + n + (e + d - n)
        BY <1>17, <1>9, <4>1
      <4>3. QED
        BY <1>8, <3>1, <4>2
    <3>3. QED
      BY <3>2
  <2>4. Arg1(i, o, e, r) = At("vs1", index)
    <3>1. /\ (o + 1) * n + e + i.index - n = index /\ ~(e + i.index < n) /\ e + i.index >= n
          /\ o # 3 /\ o < 3
      <4>1. (o + 1) * n \in Int
        BY <1>3
      <4>2. QED
        BY <1>3, <1>6, <1>17, <2>3, <4>1
    <3>2. QED
      BY <1>3, <1>11, <1>17, <3>1 DEF SlidenArg
  <2>5. p = Value(regs, i, At("vs1", index), i.size)
    <3>1. Joined(a, b)[index + 1] = Value(regs, i, At("vs1", index), i.size)
      BY <1>2, SetupSources
    <3>2. lane + 1 + d = index + 1
      BY <1>3, <2>3
    <3>3. QED
      BY <1>12, <2>1, <3>1, <3>2
  <2>6. e + d - n \in 0 .. n - 1 /\ o + 1 \in Int /\ o + 1 >= o
    BY <1>17, <1>9
  <2>7. PICK q \in Int : q = o + 1 /\ q >= o
    BY <2>6
  <2>8. index = q * n + (e + d - n)
    BY <2>3, <2>7
  <2>9. QED
    BY <1>14, <2>4, <2>5, <2>6, <2>7, <2>8
<1>18. CASE ~(e + d < n) /\ h /\ o = 3
  <2>1. i.kind = "slidehn"
    BY <1>10, <1>18, Zenon
  <2>2. PICK index \in 0 .. t - 1 : index = e + d - n /\ t + index = lane + d
    <3>1. o * n = 3 * n
      BY <1>18
    <3>2. e + d - n \in 0 .. t - 1 /\ t + (e + d - n) = lane + d
      BY <1>3, <1>7, <1>18, <2>1, <3>1
    <3>3. QED
      BY <3>2
  <2>3. Arg1(i, o, e, r) = At("vs2", index)
    <3>1. e + i.index - n = index /\ ~(e + i.index < n) /\ e + i.index >= n /\ ~(o < 3)
      BY <1>3, <1>6, <1>18, <2>2
    <3>2. QED
      BY <1>3, <1>11, <1>18, <3>1 DEF SlidenArg
  <2>4. p = Value(regs, i, At("vs2", index), i.size)
    <3>1. Joined(a, b)[t + index + 1] = Value(regs, i, At("vs2", index), i.size)
      BY <1>2, SetupSources
    <3>2. lane + 1 + d = t + index + 1
      BY <1>3, <2>2
    <3>3. QED
      BY <1>12, <2>1, <3>1, <3>2
  <2>5. Ahead(i, o, At("vs2", index), i.size)
    BY <2>1, AheadNever DEF InPlace2
  <2>6. Careful(i, o, e, r)
    BY <1>1, <1>2, <1>5, <2>3, <2>5, SlideCareful
  <2>7. Refers(i, regs, LaneAt(i, o, e, r), p, p)
    BY <1>3, <1>5, <1>12
  <2>8. QED
    BY <1>1, <1>2, <2>3, <2>4, <2>6, <2>7, MoveRight
<1>19. QED
  <2>1. o < 3 \/ o = 3
    BY <1>7
  <2>2. QED
    BY <1>15, <1>16, <1>17, <1>18, <2>1, Zenon

(* Slides from the previous register.                                      *)
LEMMA SlidepExact ==
    ASSUME NEW i, i.kind \in {"slidevp", "slidehp"}, Encodable(i), NEW regs,
           NEW o \in 0 .. NumOps(i) - 1,
           NEW e \in 0 .. Elts(SizeD(i)) - 1, NEW r \in 0 .. DestRegsPerOp(i) - 1
    PROVE  Right(i, regs, o, e, r) /\ Careful(i, o, e, r)
<1>1. i.kind \in EvenKinds /\ i.kind \in Slides /\ i.kind \in Moves
  BY DEF EvenKinds, Moves, Slides
<1>2. PICK n, t, lane, a, b : LaneSetup(i, regs, o, e, n, t, lane, a, b)
  BY <1>1, EvenSetup
<1>3. /\ n = Elts(i.size) /\ n \in Nat /\ n >= 4 /\ e \in 0 .. n - 1 /\ NumOps(i) \in {1, 4}
      /\ t \in Nat /\ t = NumOps(i) * n /\ t = NumOps(i) * Elts(SizeD(i)) /\ o * n \in Nat
      /\ o * n + n <= t /\ o \in Nat
      /\ lane \in Nat /\ lane = o * n + e /\ lane < t /\ LaneAt(i, o, e, 0) = lane
      /\ Sources(i, regs, a, b)
  BY <1>2 DEF LaneSetup
<1>4. PICK k : EvenInst(i, n, k)
  BY <1>2 DEF LaneSetup
<1>5. DestRegsPerOp(i) = 1 /\ r = 0
  BY <1>1, EvenFacts DEF Slides
<1>6. PICK d \in 1 .. 4 : d = i.index /\ (i.kind = "slidehp" => NumOps(i) = 4)
  BY <1>1 DEF Encodable, NumOps
<1>7. o \in 0 .. 3 /\ (i.kind = "slidehp" => t = 4 * n)
  BY <1>3, <1>6
<1>8. PICK first \in Nat : first = o * n
  BY <1>3
<1>9. /\ n \in Nat /\ n >= 4 /\ e \in 0 .. n - 1 /\ t \in Nat /\ first + n <= t /\ o \in Nat
      /\ lane \in Nat /\ lane = first + e /\ d \in 1 .. 4
  BY <1>3, <1>8
<1>10. PICK h \in BOOLEAN : h = (i.kind = "slidehp")
  OBVIOUS
<1>11. Arg1(i, o, e, r) = SlidepArg(h, i, o, e)
  <2>1. Arg1(i, o, e, r) = SlidepArg(i.kind = "slidehp", i, o, e)
    BY DEF Arg1, Binary
  <2>2. QED
    BY <1>10, <2>1, Zenon
<1>12. PICK p :
         /\ Refers(i, regs, lane, p, p)
         /\ i.kind = "slidehp" => p = Joined(a, b)[lane + 1 + t - d]
         /\ i.kind = "slidevp" /\ lane % n < d => p = a[lane + 1 + n - d]
         /\ i.kind = "slidevp" /\ ~(lane % n < d) => p = b[lane + 1 - d]
  <2>1. n = Elts(i.size) /\ t = NumOps(i) * Elts(SizeD(i)) /\ Sources(i, regs, a, b)
    BY <1>3
  <2>2. PICK p : SlideFrom(i, regs, lane, a, b, t, n, p)
    BY <1>1, <2>1, ReferenceSlide
  <2>3. QED
    BY <1>6, <2>2, Zenon DEF SlideFrom
<1>13. lane % n = e
  <2>1. n \in Nat \ {0} /\ o \in Int /\ e \in 0 .. n - 1
    BY <1>3
  <2>2. (o * n + e) % n = e
    BY <2>1, UniqueRemainder
  <2>3. QED
    BY <1>3, <2>2
<1>14. ASSUME NEW operand, NEW index, Arg1(i, o, e, r) = At(operand, index),
              Ahead(i, o, At(operand, index), i.size),
              p = Value(regs, i, At(operand, index), i.size)
       PROVE  Right(i, regs, o, e, r) /\ Careful(i, o, e, r)
  <2>1. Careful(i, o, e, r)
    BY <1>1, <1>2, <1>5, <1>14, SlideCareful
  <2>2. Refers(i, regs, LaneAt(i, o, e, r), p, p)
    BY <1>3, <1>5, <1>12
  <2>3. QED
    BY <1>1, <1>2, <1>14, <2>1, <2>2, MoveRight
<1>15. ASSUME NEW operand, NEW q \in Int, q >= o, NEW j \in 0 .. n - 1,
              NEW index, index = q * n + j
       PROVE  Ahead(i, o, At(operand, index), i.size)
  BY <1>4, <1>5, <1>15, EvenAhead
<1>16. CASE e >= d
  <2>1. PICK index \in 0 .. t - 1 : index = o * n + (e - d) /\ index = lane - d
    <3>1. lane - d \in 0 .. t - 1 /\ lane - d = first + (e - d)
      BY <1>9, <1>16
    <3>2. QED
      BY <1>8, <3>1
  <2>2. Arg1(i, o, e, r) = At("vs2", index)
    <3>1. o * n + e - i.index = index /\ e >= i.index /\ ~(e < i.index)
      BY <1>3, <1>6, <1>16, <2>1
    <3>2. QED
      BY <1>3, <1>11, <3>1 DEF SlidepArg
  <2>3. p = Value(regs, i, At("vs2", index), i.size)
    <3>1. /\ b[index + 1] = Value(regs, i, At("vs2", index), i.size)
          /\ Joined(a, b)[t + index + 1] = Value(regs, i, At("vs2", index), i.size)
      BY <1>2, SetupSources
    <3>2. lane + 1 - d = index + 1 /\ lane + 1 + t - d = t + index + 1 /\ ~(e < d)
      BY <1>9, <1>16, <2>1
    <3>3. p = b[index + 1] \/ p = Joined(a, b)[t + index + 1]
      BY <1>12, <1>13, <3>2
    <3>4. QED
      BY <3>1, <3>3
  <2>4. Ahead(i, o, At("vs2", index), i.size)
    <3>1. e - d \in 0 .. n - 1 /\ o \in Int /\ o >= o
      BY <1>9, <1>16
    <3>2. QED
      BY <1>15, <2>1, <3>1
  <2>5. QED
    BY <1>14, <2>2, <2>3, <2>4
<1>17. CASE ~(e >= d) /\ ~h
  <2>1. PICK index \in 0 .. t - 1 : index = o * n + (e - d + n) /\ index = lane - d + n
    <3>1. lane - d + n \in 0 .. t - 1 /\ lane - d + n = first + (e - d + n)
      BY <1>9, <1>17
    <3>2. QED
      BY <1>8, <3>1
  <2>2. Arg1(i, o, e, r) = At("vs1", index)
    <3>1. o * n + e - i.index + n = index /\ ~(e >= i.index)
      BY <1>3, <1>6, <1>17, <2>1
    <3>2. QED
      BY <1>3, <1>11, <1>17, <3>1 DEF SlidepArg
  <2>3. p = Value(regs, i, At("vs1", index), i.size)
    <3>1. a[index + 1] = Value(regs, i, At("vs1", index), i.size)
      BY <1>2, SetupSources
    <3>2. lane + 1 + n - d = index + 1 /\ e < d
      BY <1>9, <1>17, <2>1
    <3>3. i.kind = "slidevp"
      BY <1>10, <1>17, Zenon
    <3>4. QED
      BY <1>12, <1>13, <3>1, <3>2, <3>3
  <2>4. Ahead(i, o, At("vs1", index), i.size)
    <3>1. e - d + n \in 0 .. n - 1 /\ o \in Int /\ o >= o
      BY <1>9, <1>17
    <3>2. QED
      BY <1>15, <2>1, <3>1
  <2>5. QED
    BY <1>14, <2>2, <2>3, <2>4
<1>18. CASE ~(e >= d) /\ h /\ o = 0
  <2>1. i.kind = "slidehp"
    BY <1>10, <1>18, Zenon
  <2>2. PICK index \in 0 .. t - 1 : index = 3 * n + (e - d + n) /\ index = lane + t - d
    <3>1. first = 0 /\ t = 4 * n
      BY <1>7, <1>8, <1>9, <1>18, <2>1
    <3>2. lane + t - d \in 0 .. t - 1 /\ lane + t - d = 3 * n + (e - d + n)
      BY <1>9, <1>18, <3>1
    <3>3. QED
      BY <3>2
  <2>3. Arg1(i, o, e, r) = At("vs1", index)
    <3>1. 3 * n + e - i.index + n = index /\ ~(e >= i.index) /\ e < i.index /\ ~(o > 0)
      BY <1>6, <1>9, <1>18, <2>2
    <3>2. QED
      BY <1>3, <1>11, <1>18, <3>1 DEF SlidepArg
  <2>4. p = Value(regs, i, At("vs1", index), i.size)
    <3>1. Joined(a, b)[index + 1] = Value(regs, i, At("vs1", index), i.size)
      BY <1>2, SetupSources
    <3>2. lane + 1 + t - d = index + 1
      BY <1>9, <2>2
    <3>3. QED
      BY <1>12, <2>1, <3>1, <3>2
  <2>5. Ahead(i, o, At("vs1", index), i.size)
    <3>1. e - d + n \in 0 .. n - 1
      BY <1>9, <1>18
    <3>2. PICK q \in Int : q = 3 /\ q >= o
      BY <1>18
    <3>3. index = q * n + (e - d + n)
      BY <2>2, <3>2
    <3>4. QED
      BY <1>15, <3>1, <3>2, <3>3
  <2>6. QED
    BY <1>14, <2>3, <2>4, <2>5
<1>19. CASE ~(e >= d) /\ h /\ o > 0
  <2>1. i.kind = "slidehp"
    BY <1>10, <1>19, Zenon
  <2>2. (o - 1) * n = first - n /\ first >= n
    <3>1. (o - 1) * n = o * n - n /\ 0 <= (o - 1) * n
      BY <1>3, <1>19
    <3>2. QED
      BY <1>8, <1>9, <3>1
  <2>3. PICK index \in 0 .. t - 1 : index = lane - d
    BY <1>9, <2>2
  <2>4. Arg1(i, o, e, r) = At("vs2", index)
    <3>1. (o - 1) * n + e - i.index + n = index
      BY <1>6, <1>9, <2>2, <2>3
    <3>2. ~(e >= i.index) /\ e < i.index /\ o # 0
      BY <1>6, <1>9, <1>19
    <3>3. QED
      BY <1>3, <1>11, <1>19, <3>1, <3>2 DEF SlidepArg
  <2>5. p = Value(regs, i, At("vs2", index), i.size)
    <3>1. Joined(a, b)[t + index + 1] = Value(regs, i, At("vs2", index), i.size)
      BY <1>2, SetupSources
    <3>2. lane + 1 + t - d = t + index + 1
      BY <1>9, <2>3
    <3>3. QED
      BY <1>12, <2>1, <3>1, <3>2
  <2>6. Ahead(i, o, At("vs2", index), i.size)
    BY <2>1, AheadNever DEF InPlace2
  <2>7. QED
    BY <1>14, <2>4, <2>5, <2>6
<1>20. QED
  <2>1. o > 0 \/ o = 0
    BY <1>7
  <2>2. QED
    BY <1>16, <1>17, <1>18, <1>19, <2>1, Zenon

(* An element of one of the groups, counted from the start of the first.   *)
LEMMA EvnOddAt ==
    ASSUME NEW i, NEW regs, NEW o, NEW e, NEW n, NEW t, NEW lane, NEW a, NEW b,
           LaneSetup(i, regs, o, e, n, t, lane, a, b), NEW odd \in {0, 1}
    PROVE  /\ Value(regs, i, EvnOddArg(i, o, e, odd), i.size) = Joined(a, b)[2 * lane + odd + 1]
           /\ \/ /\ EvnOddArg(i, o, e, odd) = At("vs1", 2 * lane + odd)
                 /\ 2 * lane + odd \in Nat /\ o * n <= 2 * lane + odd
              \/ \E index : EvnOddArg(i, o, e, odd) = At("vs2", index)
<1>1. /\ n = Elts(i.size) /\ n \in Nat /\ e \in 0 .. n - 1 /\ o * n \in Nat /\ o * n + n <= t
      /\ t \in Nat /\ t = NumOps(i) * n /\ lane \in Nat /\ lane = o * n + e /\ o \in Nat
      /\ NumOps(i) \in {1, 4}
  BY DEF LaneSetup
<1>2. PICK first \in Nat : first = o * n
  BY <1>1
<1>3. PICK index \in Nat : index = 2 * lane + odd
  <2>1. lane \in Nat
    BY <1>1
  <2>2. QED
    BY <2>1
<1>4. o * n * 2 + e * 2 + odd = index /\ first <= index /\ index < 2 * t
  <2>1. /\ n \in Nat /\ e \in 0 .. n - 1 /\ first + n <= t /\ t \in Nat /\ lane = first + e
    BY <1>1, <1>2
  <2>2. first * 2 + e * 2 + odd = index /\ first <= index /\ index < 2 * t
    BY <1>3, <2>1
  <2>3. QED
    BY <1>2, <2>2
<1>5. n * NumOps(i) = t
  BY <1>1
<1>6. CASE index < t
  <2>1. EvnOddArg(i, o, e, odd) = At("vs1", index)
    BY <1>1, <1>4, <1>5, <1>6 DEF EvnOddArg
  <2>2. index \in 0 .. t - 1
    BY <1>1, <1>6
  <2>3. Joined(a, b)[index + 1] = Value(regs, i, At("vs1", index), i.size)
    BY <2>2, SetupSources
  <2>4. QED
    BY <1>2, <1>3, <1>4, <2>1, <2>3
<1>7. CASE ~(index < t)
  <2>1. EvnOddArg(i, o, e, odd) = At("vs2", index - t)
    BY <1>1, <1>4, <1>5, <1>7 DEF EvnOddArg
  <2>2. PICK j \in 0 .. t - 1 : j = index - t /\ t + j = index
    <3>1. t \in Nat /\ index < 2 * t
      BY <1>1, <1>4
    <3>2. QED
      BY <1>7, <3>1
  <2>3. Joined(a, b)[t + j + 1] = Value(regs, i, At("vs2", j), i.size)
    BY SetupSources
  <2>4. QED
    BY <1>3, <2>1, <2>2, <2>3
<1>8. QED
  BY <1>6, <1>7

(* An index from that of register o on lies in such a register.            *)
LEMMA QuotientAhead ==
    ASSUME NEW n \in Nat \ {0}, NEW index \in Nat, NEW o \in Nat, o * n <= index
    PROVE  \E q \in Int, j \in 0 .. n - 1 : index = q * n + j /\ q >= o
<1>1. PICK q \in Int : q = index \div n
  OBVIOUS
<1>2. PICK u \in Int : u = q * n
  OBVIOUS
<1>3. u <= index /\ index < u + n
  BY <1>1, <1>2, IntDivision
<1>4. index - u \in 0 .. n - 1 /\ index = u + (index - u)
  BY <1>3
<1>5. q >= o
  <2>1. SUFFICES ASSUME q + 1 <= o PROVE FALSE
    OBVIOUS
  <2>2. (q + 1) * n <= o * n /\ (q + 1) * n = q * n + n /\ o * n \in Int
    BY <2>1
  <2>3. QED
    BY <1>2, <1>3, <2>2
<1>6. QED
  BY <1>2, <1>4, <1>5

(* The even and the odd elements.                                          *)
LEMMA EvnOddExact ==
    ASSUME NEW i, i.kind \in {"evn", "odd", "evnodd"}, Encodable(i), NEW regs,
           NEW o \in 0 .. NumOps(i) - 1,
           NEW e \in 0 .. Elts(SizeD(i)) - 1, NEW r \in 0 .. DestRegsPerOp(i) - 1
    PROVE  Right(i, regs, o, e, r) /\ Careful(i, o, e, r)
<1>1. i.kind \in EvenKinds /\ i.kind \in Shuffles /\ i.kind \in Moves /\ i.kind # "packed"
  BY DEF EvenKinds, Moves, Shuffles
<1>2. PICK n, t, lane, a, b : LaneSetup(i, regs, o, e, n, t, lane, a, b)
  BY <1>1, EvenSetup
<1>3. /\ n = Elts(i.size) /\ n \in Nat /\ n >= 4 /\ t \in Nat /\ lane \in Nat /\ lane < t
      /\ t = NumOps(i) * Elts(SizeD(i)) /\ Sources(i, regs, a, b) /\ o \in Nat
      /\ LaneAt(i, o, e, 0) = lane /\ LaneAt(i, o, e, 1) = t + lane
      /\ Size1(i) = i.size /\ Size2(i) = i.size
  BY <1>2 DEF LaneSetup
<1>4. PICK k : EvenInst(i, n, k)
  BY <1>2 DEF LaneSetup
<1>5. DestRegsPerOp(i) \in {1, 2} /\ (i.kind # "evnodd" => DestRegsPerOp(i) = 1) /\ r \in {0, 1}
  BY <1>1, EvenFacts
<1>6. PICK odd \in {0, 1} : /\ Arg1(i, o, e, r) = EvnOddArg(i, o, e, odd)
                            /\ i.kind = "evn" => odd = 0
                            /\ i.kind = "odd" => odd = 1
                            /\ i.kind = "evnodd" => odd = r
  BY <1>5 DEF Arg1, Binary
<1>7. PICK lane2 : lane2 = LaneAt(i, o, e, r)
  OBVIOUS
<1>8. lane2 \in {lane, t + lane} /\ (r = 0 => lane2 = lane) /\ (r = 1 => lane2 = t + lane)
  BY <1>3, <1>5, <1>7
<1>9. PICK p : ShuffleFrom(i, regs, lane2, a, b, t, p)
  BY <1>1, <1>3, ReferenceShuffle
<1>10. p = Joined(a, b)[2 * lane + odd + 1]
  <2>1. CASE i.kind = "evn"
    <3>1. r = 0
      BY <1>5, <2>1
    <3>2. p = Joined(a, b)[2 * lane2 + 1]
      BY <1>9, <2>1, Zenon DEF ShuffleFrom
    <3>3. 2 * lane2 + 1 = 2 * lane + odd + 1
      BY <1>3, <1>6, <1>8, <2>1, <3>1
    <3>4. QED
      BY <3>2, <3>3
  <2>2. CASE i.kind = "odd"
    <3>1. r = 0
      BY <1>5, <2>2
    <3>2. p = Joined(a, b)[2 * lane2 + 2]
      BY <1>9, <2>2, Zenon DEF ShuffleFrom
    <3>3. 2 * lane2 + 2 = 2 * lane + odd + 1
      BY <1>3, <1>6, <1>8, <2>2, <3>1
    <3>4. QED
      BY <3>2, <3>3
  <2>3. CASE i.kind = "evnodd" /\ r = 0
    <3>1. lane2 < t
      BY <1>3, <1>8, <2>3
    <3>2. p = Joined(a, b)[2 * lane2 + 1]
      BY <1>9, <2>3, <3>1, Zenon DEF ShuffleFrom
    <3>3. 2 * lane2 + 1 = 2 * lane + odd + 1
      BY <1>3, <1>6, <1>8, <2>3
    <3>4. QED
      BY <3>2, <3>3
  <2>4. CASE i.kind = "evnodd" /\ r = 1
    <3>1. ~(lane2 < t)
      BY <1>3, <1>8, <2>4
    <3>2. p = Joined(a, b)[2 * (lane2 - t) + 2]
      BY <1>9, <2>4, <3>1, Zenon DEF ShuffleFrom
    <3>3. 2 * (lane2 - t) + 2 = 2 * lane + odd + 1
      BY <1>3, <1>6, <1>8, <2>4
    <3>4. QED
      BY <3>2, <3>3
  <2>5. QED
    BY <1>5, <2>1, <2>2, <2>3, <2>4
<1>11. p = Value(regs, i, Arg1(i, o, e, r), i.size)
  BY <1>2, <1>6, <1>10, EvnOddAt
<1>12. Right(i, regs, o, e, r)
  <2>1. Refers(i, regs, LaneAt(i, o, e, r), p, p)
    BY <1>7, <1>9, Zenon DEF ShuffleFrom
  <2>2. QED
    BY <1>1, <1>2, <1>11, <2>1, MoveRight
<1>13. Ahead(i, o, Arg1(i, o, e, r), i.size)
  <2>1. CASE i.kind = "evnodd"
    BY <1>6, <2>1, Zenon DEF Ahead, InPlace1, InPlace2, Binary
  <2>2. CASE i.kind # "evnodd" /\ \E index : Arg1(i, o, e, r) = At("vs2", index)
    BY <1>1, <2>2, AheadNever DEF InPlace2
  <2>3. CASE /\ i.kind # "evnodd" /\ Arg1(i, o, e, r) = At("vs1", 2 * lane + odd)
             /\ 2 * lane + odd \in Nat /\ o * n <= 2 * lane + odd
    <3>1. PICK index \in Nat : index = 2 * lane + odd
      BY <2>3
    <3>2. n \in Nat \ {0} /\ o \in Nat /\ o * n <= index
      BY <1>3, <2>3, <3>1
    <3>3. PICK q \in Int, j \in 0 .. n - 1 : index = q * n + j /\ q >= o
      BY <3>2, QuotientAhead
    <3>4. Ahead(i, o, At("vs1", index), i.size)
      BY <1>4, <1>5, <2>3, <3>3, EvenAhead
    <3>5. QED
      BY <2>3, <3>1, <3>4
  <2>4. QED
    <3>1. \/ /\ Arg1(i, o, e, r) = At("vs1", 2 * lane + odd)
             /\ 2 * lane + odd \in Nat /\ o * n <= 2 * lane + odd
          \/ \E index : Arg1(i, o, e, r) = At("vs2", index)
      BY <1>2, <1>6, EvnOddAt
    <3>2. QED
      BY <2>1, <2>2, <2>3, <3>1, Zenon
<1>14. Careful(i, o, e, r)
  <2>1. Arg2(i, o, e, r) = Arg1(i, o, e, r)
    BY <1>1 DEF Arg2, Shuffles
  <2>2. QED
    BY <1>1, <1>3, <1>13, <2>1, Zenon DEF Careful
<1>15. QED
  BY <1>12, <1>14

(* Half of a number of pairs.                                              *)
LEMMA HalvedLane ==
    ASSUME NEW u \in Nat, NEW e \in Nat
    PROVE  (2 * u + e) % 2 = e % 2 /\ (2 * u + e) \div 2 = u + e \div 2
  OBVIOUS

(* The interleaved elements.                                               *)
LEMMA ZipExact ==
    ASSUME NEW i, i.kind = "zip", Encodable(i), NEW regs,
           NEW o \in 0 .. NumOps(i) - 1,
           NEW e \in 0 .. Elts(SizeD(i)) - 1, NEW r \in 0 .. DestRegsPerOp(i) - 1
    PROVE  Right(i, regs, o, e, r) /\ Careful(i, o, e, r)
<1>1. i.kind \in EvenKinds /\ i.kind \in Shuffles /\ i.kind \in Moves /\ i.kind # "packed"
  BY DEF EvenKinds, Moves, Shuffles
<1>2. PICK n, t, lane, a, b : LaneSetup(i, regs, o, e, n, t, lane, a, b)
  BY <1>1, EvenSetup
<1>3. /\ n = Elts(i.size) /\ n \in Nat /\ n >= 4 /\ t \in Nat /\ lane \in Nat /\ lane < t
      /\ t = NumOps(i) * Elts(SizeD(i)) /\ Sources(i, regs, a, b) /\ o \in Nat
      /\ LaneAt(i, o, e, 0) = lane /\ LaneAt(i, o, e, 1) = t + lane /\ lane = o * n + e
      /\ Size1(i) = i.size /\ Size2(i) = i.size /\ e \in 0 .. n - 1 /\ t = NumOps(i) * n
  BY <1>2 DEF LaneSetup
<1>4. PICK k : EvenInst(i, n, k)
  BY <1>2 DEF LaneSetup
<1>5. PICK g \in Nat : g = NumOps(i)
  BY <1>4 DEF EvenInst
<1>6. k \in Nat /\ n = 2 * k /\ n \div 2 = k
  BY <1>4 DEF EvenInst
<1>7. r \in {0, 1}
  BY <1>1, EvenFacts
<1>8. PICK half \in Nat : half = r * k * g + o * k
  BY <1>3, <1>5, <1>6, <1>7
<1>9. LaneAt(i, o, e, r) = 2 * half + e
  <2>1. PICK u, v \in Nat : u = o * k /\ v = g * k
    BY <1>3, <1>5, <1>6
  <2>2. lane = 2 * u + e /\ t = 2 * v
    <3>1. o * (2 * k) = 2 * (o * k) /\ g * (2 * k) = 2 * (g * k)
      BY <1>3, <1>5, <1>6
    <3>2. QED
      BY <1>3, <1>5, <1>6, <2>1, <3>1
  <2>3. r = 0 => half = u
    BY <1>3, <1>5, <1>6, <1>8, <2>1
  <2>4. r = 1 => half = v + u
    BY <1>3, <1>5, <1>6, <1>8, <2>1
  <2>5. e \in Nat
    BY <1>3
  <2>6. CASE r = 0
    BY <1>3, <2>1, <2>2, <2>3, <2>5, <2>6
  <2>7. CASE r = 1
    <3>1. t + lane = 2 * (v + u) + e
      BY <2>1, <2>2, <2>5
    <3>2. QED
      BY <1>3, <2>4, <2>7, <3>1
  <2>8. QED
    BY <1>7, <2>6, <2>7
<1>10. PICK lane2 : lane2 = LaneAt(i, o, e, r)
  OBVIOUS
<1>11. PICK p : ShuffleFrom(i, regs, lane2, a, b, t, p)
  BY <1>1, <1>3, ReferenceShuffle
<1>12. PICK index : index = half + e \div 2
  OBVIOUS
<1>13. lane2 % 2 = e % 2 /\ lane2 \div 2 = index
  <2>1. e \in Nat
    BY <1>3
  <2>2. QED
    BY <1>9, <1>10, <1>12, <2>1, HalvedLane
<1>14. index \in 0 .. t - 1
  <2>1. e \div 2 \in 0 .. k - 1
    BY <1>3, <1>6
  <2>2. o * k + e \div 2 \in Int /\ 0 <= o * k + e \div 2 /\ o * k + e \div 2 < g * k
    BY <1>3, <1>5, <1>6, <2>1, OpInside
  <2>3. PICK u, v \in Nat : u = o * k /\ v = g * k
    BY <1>3, <1>5, <1>6
  <2>4. t = 2 * v /\ half \in {u, v + u}
    <3>1. g * (2 * k) = 2 * (g * k)
      BY <1>3, <1>5, <1>6
    <3>2. (r = 0 => half = u) /\ (r = 1 => half = v + u)
      BY <1>3, <1>5, <1>6, <1>8, <2>3
    <3>3. QED
      BY <1>3, <1>5, <1>6, <1>7, <2>3, <3>1, <3>2
  <2>5. PICK f \in Nat : f = e \div 2
    BY <2>1
  <2>6. u + f < v /\ index = half + f
    BY <1>12, <2>2, <2>3, <2>5
  <2>7. QED
    BY <2>3, <2>4, <2>5, <2>6
<1>15. Arg1(i, o, e, r) = At(IF e % 2 = 1 THEN "vs2" ELSE "vs1", index)
  <2>1. Arg1(i, o, e, r) = ZipArg(i, o, e, r)
    BY DEF Arg1, Binary
  <2>2. o * k + e \div 2 + r * k * g = index
    <3>1. e \div 2 \in Int /\ o * k \in Int /\ r * k * g \in Int
      BY <1>3, <1>5, <1>6, <1>7
    <3>2. QED
      BY <1>8, <1>12, <3>1
  <2>3. QED
    BY <1>3, <1>5, <1>6, <2>1, <2>2 DEF ZipArg
<1>16. /\ a[index + 1] = Value(regs, i, At("vs1", index), i.size)
       /\ b[index + 1] = Value(regs, i, At("vs2", index), i.size)
  BY <1>2, <1>14, SetupSources
<1>17. p = Value(regs, i, Arg1(i, o, e, r), i.size)
  <2>1. e % 2 \in {0, 1}
    BY <1>3
  <2>2. CASE e % 2 = 0
    <3>1. Arg1(i, o, e, r) = At("vs1", index)
      BY <1>15, <2>2
    <3>2. p = a[index + 1]
      BY <1>11, <1>13, <2>2, Zenon DEF ShuffleFrom
    <3>3. QED
      BY <1>16, <3>1, <3>2
  <2>3. CASE e % 2 = 1
    <3>1. Arg1(i, o, e, r) = At("vs2", index)
      BY <1>15, <2>3
    <3>2. lane2 % 2 # 0
      BY <1>13, <2>3
    <3>3. p = b[index + 1]
      BY <1>11, <1>13, <3>2, Zenon DEF ShuffleFrom
    <3>4. QED
      BY <1>16, <3>1, <3>3
  <2>4. QED
    BY <2>1, <2>2, <2>3
<1>18. Right(i, regs, o, e, r)
  <2>1. Refers(i, regs, LaneAt(i, o, e, r), p, p)
    BY <1>10, <1>11, Zenon DEF ShuffleFrom
  <2>2. QED
    BY <1>1, <1>2, <1>17, <2>1, MoveRight
<1>19. Careful(i, o, e, r)
  BY Zenon DEF Careful, Ahead, InPlace1, InPlace2, Binary
<1>20. QED
  BY <1>18, <1>19

(* Moves of pairs.                                                         *)
LEMMA MvpExact ==
    ASSUME NEW i, i.kind = "mvp", Encodable(i), NEW regs,
           NEW o \in 0 .. NumOps(i) - 1,
           NEW e \in 0 .. Elts(SizeD(i)) - 1, NEW r \in 0 .. DestRegsPerOp(i) - 1
    PROVE  Right(i, regs, o, e, r) /\ Careful(i, o, e, r)
<1>1. i.kind \in EvenKinds /\ i.kind \in Moves
  BY DEF EvenKinds, Moves
<1>2. PICK n, t, lane, a, b : LaneSetup(i, regs, o, e, n, t, lane, a, b)
  BY <1>1, EvenSetup
<1>3. /\ t \in Nat /\ lane \in Nat /\ lane < t /\ e \in 0 .. n - 1 /\ lane = o * n + e
      /\ t = NumOps(i) * Elts(SizeD(i)) /\ Sources(i, regs, a, b)
      /\ LaneAt(i, o, e, 0) = lane /\ LaneAt(i, o, e, 1) = t + lane
  BY <1>2 DEF LaneSetup
<1>4. PICK k : EvenInst(i, n, k)
  BY <1>2 DEF LaneSetup
<1>5. r \in {0, 1}
  BY <1>1, EvenFacts
<1>6. /\ Joined(a, b)[lane + 1] = Value(regs, i, At("vs1", lane), i.size)
      /\ Joined(a, b)[t + lane + 1] = Value(regs, i, At("vs2", lane), i.size)
  <2>1. lane \in 0 .. t - 1
    BY <1>3
  <2>2. QED
    BY <1>2, <2>1, SetupSources
<1>7. CommonArg1(i, o, e, 0) = At("vs1", lane) /\ CommonArg2(i, o, e, 0) = At("vs2", lane)
  BY <1>3, <1>4, EvenCommon
<1>8. Arg1(i, o, e, r) = IF r = 0 THEN At("vs1", lane) ELSE At("vs2", lane)
  BY <1>5, <1>7 DEF Arg1, MvpArg, Binary
<1>9. PICK lane2 : lane2 = LaneAt(i, o, e, r)
  OBVIOUS
<1>10. PICK p : ShuffleFrom(i, regs, lane2, a, b, t, p)
  BY <1>3, ReferenceShuffle
<1>11. p = Joined(a, b)[lane2 + 1] /\ Refers(i, regs, LaneAt(i, o, e, r), p, p)
  BY <1>9, <1>10, Zenon DEF ShuffleFrom
<1>12. p = Value(regs, i, Arg1(i, o, e, r), i.size)
  <2>1. CASE r = 0
    BY <1>3, <1>6, <1>8, <1>9, <1>11, <2>1
  <2>2. CASE r = 1
    BY <1>3, <1>6, <1>8, <1>9, <1>11, <2>2
  <2>3. QED
    BY <1>5, <2>1, <2>2
<1>13. Right(i, regs, o, e, r)
  BY <1>1, <1>2, <1>11, <1>12, MoveRight
<1>14. Careful(i, o, e, r)
  BY Zenon DEF Careful, Ahead, InPlace1, InPlace2, Binary
<1>15. QED
  BY <1>13, <1>14

(* A lane of an instruction whose results are twice as wide as one of its  *)
(* sources, and the sources.                                               *)
WideSetup(i, regs, o, e, s, m, g, t, lane, a, b) ==
    /\ WideInst(i, s, m, g) /\ SizeD(i) = 2 * s /\ Elts(SizeD(i)) = m
    /\ o \in 0 .. g - 1 /\ o \in Nat /\ e \in 0 .. m - 1
    /\ t \in Nat /\ t = g * m /\ t = NumOps(i) * Elts(SizeD(i))
    /\ lane \in Nat /\ lane = o * m + e /\ lane < t
    /\ LaneAt(i, o, e, 0) = lane /\ LaneAt(i, o, e, 1) = t + lane
    /\ o * Elts(s) + (e * (2 * s)) \div s = 2 * lane
    /\ Sources(i, regs, a, b)

(* Every lane has one.                                                     *)
LEMMA WideLane ==
    ASSUME NEW i, i.kind \in {"widen", "acc", "packed"}, Encodable(i), NEW regs,
           NEW o \in 0 .. NumOps(i) - 1, NEW e \in 0 .. Elts(SizeD(i)) - 1
    PROVE  \E s, m, g, t, lane, a, b : WideSetup(i, regs, o, e, s, m, g, t, lane, a, b)
<1>1. PICK s, m, g : WideInst(i, s, m, g)
  BY WideKind
<1>2. /\ s = i.size /\ s \in Nat \ {0} /\ g = NumOps(i) /\ Elts(2 * s) = m /\ Elts(s) = 2 * m
      /\ g \in Nat /\ m \in Nat \ {0}
  BY <1>1 DEF WideInst
<1>3. SizeD(i) = 2 * s /\ Elts(SizeD(i)) = m
  BY <1>2 DEF SizeD
<1>4. o \in 0 .. g - 1 /\ o \in Nat /\ e \in 0 .. m - 1 /\ e \in Int /\ 0 <= e /\ e < m
  BY <1>2, <1>3
<1>5. o * m + e \in Int /\ 0 <= o * m + e /\ o * m + e < g * m
  BY <1>2, <1>4, OpInside
<1>6. PICK t \in Nat : t = g * m
  BY <1>2
<1>7. PICK lane \in Nat : lane = o * m + e
  BY <1>5
<1>8. (0 * g + o) * m + e = lane /\ (1 * g + o) * m + e = t + lane
  <2>1. (g + o) * m = g * m + o * m /\ o * m \in Int
    BY <1>2, <1>4
  <2>2. 0 * g + o = o /\ 1 * g + o = g + o
    BY <1>2, <1>4
  <2>3. QED
    BY <1>2, <1>4, <1>6, <1>7, <2>1, <2>2
<1>9. LaneAt(i, o, e, 0) = lane /\ LaneAt(i, o, e, 1) = t + lane
  BY <1>2, <1>3, <1>8 DEF LaneAt
<1>10. o * Elts(s) + (e * (2 * s)) \div s = 2 * lane
  <2>1. e * (2 * s) = (2 * e) * s /\ 2 * e \in Int
    BY <1>2, <1>4
  <2>2. ((2 * e) * s) \div s = 2 * e
    BY <1>2, <2>1, ExactQuotient
  <2>3. o * (2 * m) = 2 * (o * m) /\ o * m \in Int
    BY <1>2, <1>4
  <2>4. 2 * (o * m) + 2 * e = 2 * lane
    BY <1>4, <1>7, <2>3
  <2>5. QED
    BY <1>2, <2>1, <2>2, <2>3, <2>4, Zenon
<1>11. PICK a, b : Sources(i, regs, a, b)
  BY DEF Sources
<1>12. lane < t
  BY <1>5, <1>6, <1>7
<1>13. WideSetup(i, regs, o, e, s, m, g, t, lane, a, b)
  BY <1>1, <1>2, <1>3, <1>4, <1>6, <1>7, <1>9, <1>10, <1>11, <1>12, Zenon DEF WideSetup
<1>14. QED
  BY <1>13, Zenon

(* The narrow elements of a pair.                                          *)
LEMMA WidePair ==
    ASSUME NEW i, NEW regs, NEW o, NEW e, NEW s, NEW m, NEW g, NEW t, NEW lane, NEW a, NEW b,
           WideSetup(i, regs, o, e, s, m, g, t, lane, a, b), NEW r \in {0, 1},
           NEW index, index = o * Elts(s) + (e * (2 * s)) \div s + r
    PROVE  /\ index = 2 * lane + r
           /\ b[2 * lane + r + 1] = Value(regs, i, At("vs2", index), s)
           /\ Size1(i) = s /\ GroupSize(i, "vs1") = g =>
                a[2 * lane + r + 1] = Value(regs, i, At("vs1", index), s)
<1>1. /\ lane \in Nat /\ t \in Nat /\ lane < t /\ t = g * m /\ g \in Nat /\ m \in Nat
      /\ o * Elts(s) + (e * (2 * s)) \div s = 2 * lane
      /\ Elts(s) = 2 * m /\ g = NumOps(i) /\ Size2(i) = s
  BY DEF WideSetup, WideInst
<1>2. index = 2 * lane + r
  BY <1>1
<1>3. PICK u \in Nat : u = 2 * t /\ u = g * Elts(s)
  <2>1. g * (2 * m) = 2 * (g * m)
    BY <1>1
  <2>2. QED
    BY <1>1, <2>1
<1>4. index \in 0 .. u - 1 /\ 2 * lane + r + 1 = index + 1
  <2>1. lane \in Nat /\ t \in Nat /\ lane < t
    BY <1>1
  <2>2. QED
    BY <1>2, <1>3, <2>1
<1>5. \A first : Group(regs, first, g, s)[index + 1] = Element(regs, first, s, index)
  BY <1>3, <1>4, GroupAt
<1>6. /\ b = Group(regs, i.vs2, g, s)
      /\ Size1(i) = s /\ GroupSize(i, "vs1") = g => a = Group(regs, i.vs1, g, s)
  <2>1. Sources(i, regs, a, b)
    BY DEF WideSetup
  <2>2. QED
    BY <1>1, <2>1, Zenon DEF Sources
<1>7. /\ Value(regs, i, At("vs1", index), s) = Element(regs, i.vs1, s, index)
      /\ Value(regs, i, At("vs2", index), s) = Element(regs, i.vs2, s, index)
  BY ValueAt
<1>8. QED
  BY <1>2, <1>4, <1>5, <1>6, <1>7, Zenon

(* Widening.                                                               *)
LEMMA WidenExact ==
    ASSUME NEW i, i.kind = "widen", Encodable(i), NEW regs, NEW o \in 0 .. NumOps(i) - 1,
           NEW e \in 0 .. Elts(SizeD(i)) - 1, NEW r \in 0 .. DestRegsPerOp(i) - 1
    PROVE  Right(i, regs, o, e, r) /\ Careful(i, o, e, r)
<1>1. PICK s, m, g, t, lane, a, b : WideSetup(i, regs, o, e, s, m, g, t, lane, a, b)
  BY WideLane
<1>2. /\ s = i.size /\ s \in Nat \ {0} /\ g = NumOps(i) /\ g \in Nat /\ Size2(i) = s
      /\ SizeD(i) = 2 * s /\ Sources(i, regs, a, b) /\ t = NumOps(i) * Elts(SizeD(i))
      /\ LaneAt(i, o, e, 0) = lane /\ LaneAt(i, o, e, 1) = t + lane
      /\ lane \in Nat /\ t \in Nat /\ lane < t
  BY <1>1 DEF WideSetup, WideInst
<1>3. Size1(i) = s /\ GroupSize(i, "vs1") = g
  BY <1>2 DEF Size1, GroupSize, GetSrc1WidenFactor
<1>4. r \in {0, 1}
  BY DEF DestRegsPerOp
<1>5. PICK index : index = o * Elts(s) + (e * (2 * s)) \div s + r
  OBVIOUS
<1>6. Arg1(i, o, e, r) = At("vs1", index) /\ Arg2(i, o, e, r) = At("vs2", index)
  <2>1. Arg1(i, o, e, r) = CommonArg1(i, o, e, r) /\ Arg2(i, o, e, r) = CommonArg2(i, o, e, r)
    BY DEF Arg1, Arg2, Binary, Shuffles
  <2>2. 2 * s # s
    BY <1>2
  <2>3. QED
    BY <1>2, <1>3, <1>5, <2>1, <2>2, Zenon DEF CommonArg1, CommonArg2
<1>7. /\ a[2 * lane + r + 1] = Value(regs, i, Arg1(i, o, e, r), s)
      /\ b[2 * lane + r + 1] = Value(regs, i, Arg2(i, o, e, r), s)
  BY <1>1, <1>3, <1>4, <1>5, <1>6, WidePair
<1>8. Refers(i, regs, LaneAt(i, o, e, r), a[2 * lane + r + 1], b[2 * lane + r + 1])
  <2>1. CASE r = 0
    <3>1. Refers(i, regs, lane, a[2 * lane + 1], b[2 * lane + 1])
      BY <1>2, ReferenceWide
    <3>2. 2 * lane + r + 1 = 2 * lane + 1
      BY <1>2, <2>1
    <3>3. QED
      BY <1>2, <2>1, <3>1, <3>2
  <2>2. CASE r = 1
    <3>1. PICK far : far = t + lane
      OBVIOUS
    <3>2. ~(far < t) /\ 2 * (far - t) + 2 = 2 * lane + r + 1
      BY <1>2, <2>2, <3>1
    <3>3. Refers(i, regs, far, a[2 * (far - t) + 2], b[2 * (far - t) + 2])
      BY <1>2, <3>2, ReferenceWide
    <3>4. QED
      BY <1>2, <2>2, <3>1, <3>2, <3>3
  <2>3. QED
    BY <1>4, <2>1, <2>2
<1>9. Right(i, regs, o, e, r)
  BY <1>2, <1>3, <1>7, <1>8, RightBy
<1>10. Careful(i, o, e, r)
  BY Zenon DEF Careful, Ahead, InPlace1, InPlace2, Binary
<1>11. QED
  BY <1>9, <1>10

(* Accumulation: the first source is as wide as the destination.           *)
LEMMA AccExact ==
    ASSUME NEW i, i.kind = "acc", Encodable(i), NEW regs, NEW o \in 0 .. NumOps(i) - 1,
           NEW e \in 0 .. Elts(SizeD(i)) - 1, NEW r \in 0 .. DestRegsPerOp(i) - 1
    PROVE  Right(i, regs, o, e, r) /\ Careful(i, o, e, r)
<1>1. PICK s, m, g, t, lane, a, b : WideSetup(i, regs, o, e, s, m, g, t, lane, a, b)
  BY WideLane
<1>2. /\ s = i.size /\ s \in Nat \ {0} /\ g = NumOps(i) /\ g \in Nat /\ Size2(i) = s
      /\ SizeD(i) = 2 * s /\ Sources(i, regs, a, b) /\ t = NumOps(i) * Elts(SizeD(i))
      /\ LaneAt(i, o, e, 0) = lane /\ LaneAt(i, o, e, 1) = t + lane
      /\ lane \in Nat /\ t \in Nat /\ lane < t /\ t = g * m /\ lane = o * m + e
      /\ Elts(2 * s) = m /\ m \in Nat \ {0} /\ o \in 0 .. g - 1 /\ e \in 0 .. m - 1
  BY <1>1 DEF WideSetup, WideInst
<1>3. Size1(i) = 2 * s /\ GroupSize(i, "vs1") = g * 2
  BY <1>2 DEF Size1, GroupSize, GetSrc1WidenFactor
<1>4. r \in {0, 1}
  BY DEF DestRegsPerOp
<1>5. PICK index : index = o * Elts(s) + (e * (2 * s)) \div s + r
  OBVIOUS
<1>6. Arg2(i, o, e, r) = At("vs2", index)
  <2>1. Arg2(i, o, e, r) = CommonArg2(i, o, e, r)
    BY DEF Arg2, Shuffles
  <2>2. QED
    BY <1>2, <1>5, <2>1, Zenon DEF CommonArg2
<1>7. b[2 * lane + r + 1] = Value(regs, i, Arg2(i, o, e, r), s)
  BY <1>1, <1>4, <1>5, <1>6, WidePair
<1>8. PICK lane2 : lane2 = LaneAt(i, o, e, r)
  OBVIOUS
<1>9. lane2 \in Nat /\ lane2 = lane + r * t
  BY <1>2, <1>4, <1>8
<1>10. Arg1(i, o, e, r) = At("vs1", lane2)
  <2>1. Arg1(i, o, e, r) = CommonArg1(i, o, e, r)
    BY DEF Arg1, Binary
  <2>2. (e * (2 * s)) \div (2 * s) = e
    <3>1. e \in Int /\ 2 * s \in Nat \ {0}
      BY <1>2
    <3>2. QED
      BY <3>1, ExactQuotient
  <2>3. CommonArg1(i, o, e, r) = At("vs1", o * m + e + g * m * r)
    BY <1>2, <1>3, <2>2, Zenon DEF CommonArg1
  <2>4. g * m * r = r * t
    BY <1>2, <1>4
  <2>5. o * m + e + g * m * r = lane2
    BY <1>2, <1>9, <2>4, Zenon
  <2>6. QED
    BY <2>1, <2>3, <2>5, Zenon
<1>11. a[lane2 + 1] = Value(regs, i, Arg1(i, o, e, r), Size1(i))
  <2>1. PICK u \in Nat : u = 2 * t /\ u = (g * 2) * Elts(2 * s)
    <3>1. (g * 2) * m = 2 * (g * m)
      BY <1>2
    <3>2. QED
      BY <1>2, <3>1
  <2>2. lane2 \in 0 .. u - 1
    <3>1. lane \in Nat /\ t \in Nat /\ lane < t
      BY <1>2
    <3>2. QED
      BY <1>4, <1>9, <2>1, <3>1
  <2>3. Group(regs, i.vs1, g * 2, 2 * s)[lane2 + 1] = Element(regs, i.vs1, 2 * s, lane2)
    BY <2>1, <2>2, GroupAt
  <2>4. a = Group(regs, i.vs1, g * 2, 2 * s)
    BY <1>2, <1>3 DEF Sources
  <2>5. Value(regs, i, At("vs1", lane2), 2 * s) = Element(regs, i.vs1, 2 * s, lane2)
    BY ValueAt
  <2>6. QED
    BY <1>3, <1>10, <2>3, <2>4, <2>5, Zenon
<1>12. Refers(i, regs, lane2, a[lane2 + 1], b[2 * lane + r + 1])
  <2>1. CASE r = 0
    <3>1. Refers(i, regs, lane, a[lane + 1], b[2 * lane + 1])
      BY <1>2, ReferenceWide
    <3>2. 2 * lane + r + 1 = 2 * lane + 1 /\ lane2 = lane
      BY <1>2, <1>8, <2>1
    <3>3. QED
      BY <3>1, <3>2, Zenon
  <2>2. CASE r = 1
    <3>1. lane2 = t + lane
      BY <1>2, <1>8, <2>2
    <3>2. ~(lane2 < t) /\ 2 * (lane2 - t) + 2 = 2 * lane + r + 1
      BY <1>2, <2>2, <3>1
    <3>3. Refers(i, regs, lane2, a[lane2 + 1], b[2 * (lane2 - t) + 2])
      BY <1>2, <3>2, ReferenceWide
    <3>4. QED
      BY <3>2, <3>3, Zenon
  <2>3. QED
    BY <1>4, <2>1, <2>2
<1>13. Right(i, regs, o, e, r)
  BY <1>2, <1>7, <1>8, <1>11, <1>12, RightBy
<1>14. Ahead(i, o, At("vs2", index), s)
  BY AheadNever DEF InPlace2
<1>15. Ahead(i, o, At("vs1", lane2), 2 * s)
  <2>1. lane2 \div m = o + g * r
    <3>1. PICK q \in Int : q = o + g * r
      BY <1>2, <1>4
    <3>2. lane2 = q * m + e
      <4>1. (o + g * r) * m = o * m + r * (g * m)
        BY <1>2, <1>4
      <4>2. o * m \in Int /\ r * t \in Int /\ e \in Int
        BY <1>2, <1>4
      <4>3. QED
        BY <1>2, <1>9, <3>1, <4>1, <4>2
    <3>3. QED
      BY <1>2, <3>1, <3>2, UniqueRemainder
  <2>2. o + g * r \notin Written(i, o)
    <3>1. ASSUME o + g * r \in Written(i, o) PROVE FALSE
      <4>1. DestRegsPerOp(i) = 2
        BY <1>2 DEF DestRegsPerOp
      <4>2. PICK p \in (0 .. o - 1) \X (0 .. 1) : o + g * r = p[1] + g * p[2]
        BY <1>2, <3>1, <4>1 DEF Written
      <4>3. p[1] \in 0 .. o - 1 /\ p[2] \in {0, 1}
        BY <4>2
      <4>4. PICK c \in 0 .. o - 1, d \in {0, 1} : o + g * r = c + g * d
        BY <4>2, <4>3
      <4>5. o \in Nat /\ g \in Nat /\ o < g /\ c \in Nat /\ c < o
        BY <1>2, <4>4
      <4>6. QED
        BY <1>4, <4>4, <4>5
    <3>2. QED
      BY <3>1
  <2>3. At("vs1", lane2).index = lane2 /\ At("vs1", lane2).operand = "vs1"
    BY DEF At
  <2>4. QED
    BY <1>2, <2>1, <2>2, <2>3, Zenon DEF Ahead
<1>16. Careful(i, o, e, r)
  BY <1>2, <1>3, <1>6, <1>10, <1>14, <1>15, Zenon DEF Careful
<1>17. QED
  BY <1>13, <1>16

(* Packing: both arguments come from the first source.                     *)
LEMMA PackedExact ==
    ASSUME NEW i, i.kind = "packed", Encodable(i), NEW regs, NEW o \in 0 .. NumOps(i) - 1,
           NEW e \in 0 .. Elts(SizeD(i)) - 1, NEW r \in 0 .. DestRegsPerOp(i) - 1
    PROVE  Right(i, regs, o, e, r) /\ Careful(i, o, e, r)
<1>1. PICK s, m, g, t, lane, a, b : WideSetup(i, regs, o, e, s, m, g, t, lane, a, b)
  BY WideLane
<1>2. /\ s = i.size /\ s \in Nat \ {0} /\ g = NumOps(i) /\ g \in Nat /\ Size2(i) = s
      /\ SizeD(i) = 2 * s /\ Sources(i, regs, a, b) /\ t = NumOps(i) * Elts(SizeD(i))
      /\ LaneAt(i, o, e, 0) = lane /\ lane \in Nat /\ lane = o * m + e
      /\ Elts(s) = 2 * m /\ m \in Nat \ {0} /\ o \in 0 .. g - 1 /\ e \in 0 .. m - 1
  BY <1>1 DEF WideSetup, WideInst
<1>3. Size1(i) = s /\ GroupSize(i, "vs1") = g
  BY <1>2 DEF Size1, GroupSize, GetSrc1WidenFactor
<1>4. DestRegsPerOp(i) = 1 /\ r = 0
  BY DEF DestRegsPerOp
<1>5. PICK low, high : /\ low = o * Elts(s) + (e * (2 * s)) \div s + 0
                       /\ high = o * Elts(s) + (e * (2 * s)) \div s + 1
  OBVIOUS
<1>6. Arg1(i, o, e, r) = At("vs1", low) /\ Arg2(i, o, e, r) = At("vs1", high)
  <2>1. Arg1(i, o, e, r) = PackedArg(i, o, e, 0) /\ Arg2(i, o, e, r) = PackedArg(i, o, e, 1)
    BY DEF Arg1, Arg2, Binary, Shuffles
  <2>2. QED
    BY <1>2, <1>3, <1>5, <2>1 DEF PackedArg
<1>7. /\ a[2 * lane + 0 + 1] = Value(regs, i, At("vs1", low), s) /\ low = 2 * lane + 0
      /\ a[2 * lane + 1 + 1] = Value(regs, i, At("vs1", high), s) /\ high = 2 * lane + 1
  <2>1. 0 \in {0, 1} /\ 1 \in {0, 1}
    OBVIOUS
  <2>2. QED
    BY <1>1, <1>3, <1>5, <2>1, WidePair
<1>8. Refers(i, regs, LaneAt(i, o, e, r), a[2 * lane + 1], a[2 * lane + 2])
  <2>1. Refers(i, regs, lane, a[2 * lane + 1], a[2 * lane + 2])
    BY <1>2, ReferenceWide
  <2>2. QED
    BY <1>2, <1>4, <2>1
<1>9. Right(i, regs, o, e, r)
  <2>1. 2 * lane + 0 + 1 = 2 * lane + 1 /\ 2 * lane + 1 + 1 = 2 * lane + 2
    BY <1>2
  <2>2. QED
    BY <1>3, <1>6, <1>7, <1>8, <2>1, RightBy
<1>10. Ahead(i, o, At("vs1", low), s) /\ Ahead(i, o, At("vs1", high), s)
  <2>1. PICK n \in Nat \ {0} : n = 2 * m /\ Elts(s) = n
    BY <1>2
  <2>2. o * n = 2 * (o * m) /\ o * m \in Int
    BY <1>2, <2>1
  <2>3. low = o * n + 2 * e /\ high = o * n + (2 * e + 1)
    BY <1>2, <1>7, <2>2
  <2>4. 2 * e \in 0 .. n - 1 /\ 2 * e + 1 \in 0 .. n - 1
    BY <1>2, <2>1
  <2>5. o \in Int /\ o >= o /\ o \in Nat /\ NumOps(i) \in Nat
    BY <1>2
  <2>6. QED
    BY <1>4, <2>1, <2>3, <2>4, <2>5, AheadAt
<1>11. Careful(i, o, e, r)
  BY <1>3, <1>6, <1>10, Zenon DEF Careful
<1>12. QED
  BY <1>9, <1>11

(* A quarter of a number of fours.                                         *)
LEMMA QuarteredLane ==
    ASSUME NEW u \in Nat, NEW e \in Nat
    PROVE  (4 * u + e) % 4 = e % 4 /\ (4 * u + e) \div 4 = u + e \div 4
  OBVIOUS

(* A lane of a narrowing shift: m elements of a register of the source for *)
(* the f * m of one of the result, and the part of the source that it      *)
(* takes its element from.                                                 *)
NarrowLane(i, o, e, wide, n, m, f, g, part) ==
    /\ Size1(i) = wide /\ Elts(wide) = m /\ m \in Nat \ {0} /\ f \in {2, 4} /\ n = f * m
    /\ SizeD(i) = i.size /\ Size2(i) = i.size /\ i.size \in Nat \ {0} /\ Elts(i.size) = n
    /\ g \in Nat /\ g = NumOps(i) /\ GroupSize(i, "vs1") = g * f /\ DestRegsPerOp(i) = 1
    /\ o \in 0 .. g - 1 /\ e \in 0 .. n - 1 /\ part \in 0 .. f - 1
    /\ Arg1(i, o, e, 0) = At("vs1", o * m + e \div f + part * g * m)
    /\ i.kind = "srans2" => f = 2 /\ part = e % 2
    /\ i.kind = "srans4" => f = 4 /\ part = Interleave[(e % 4) + 1]

(* The second argument, one element to a lane.                             *)
LEMMA ShiftAmountAt ==
    ASSUME NEW i, i.kind \in {"srans2", "srans4"}, NEW n \in Nat, SizeD(i) = i.size,
           Size2(i) = i.size, i.size \in Nat \ {0}, Elts(i.size) = n, NEW o \in Nat, NEW e \in Nat,
           NEW lane, lane = o * n + e
    PROVE  Arg2(i, o, e, 0) = At("vs2", lane)
<1>1. (e * i.size) \div i.size = e
  <2>1. e \in Int
    OBVIOUS
  <2>2. QED
    BY <2>1, ExactQuotient
<1>2. o * n \in Nat
  OBVIOUS
<1>3. lane + 0 = lane
  BY <1>2
<1>4. Arg2(i, o, e, 0) = CommonArg2(i, o, e, 0)
  BY DEF Arg2, Shuffles
<1>5. QED
  BY <1>1, <1>3, <1>4 DEF CommonArg2

(* A lane and its element in the wide source, in their groups.             *)
NarrowSpot(lane, index, e, n, m, f, g, part) ==
    /\ lane \in 0 .. g * n - 1 /\ lane % f = e % f
    /\ index \in 0 .. (g * f) * m - 1
    /\ \E t \in Nat : t = g * m /\ index + 1 = lane \div f + 1 + part * t

(* The place of a lane, and of its element in the wide source.             *)
LEMMA NarrowPlace ==
    ASSUME NEW m \in Nat \ {0}, NEW f \in {2, 4}, NEW n, n = f * m, NEW g \in Nat,
           NEW o \in 0 .. g - 1, NEW e \in 0 .. n - 1, NEW part \in 0 .. f - 1,
           NEW lane, lane = o * n + e, NEW index, index = o * m + e \div f + part * g * m
    PROVE  NarrowSpot(lane, index, e, n, m, f, g, part)
<1>1. n \in Nat \ {0} /\ o \in Nat /\ e \in Nat /\ g \in Nat
  OBVIOUS
<1>2. o * n + e \in Int /\ 0 <= o * n + e /\ o * n + e < g * n
  BY <1>1, OpInside
<1>3. PICK u \in Nat : u = o * m
  BY <1>1
<1>4. lane = f * u + e
  <2>1. o * (f * m) = f * (o * m)
    BY <1>1
  <2>2. QED
    BY <1>3, <2>1
<1>5. lane % f = e % f /\ lane \div f = u + e \div f
  <2>1. CASE f = 2
    BY <1>1, <1>4, <2>1, HalvedLane
  <2>2. CASE f = 4
    BY <1>1, <1>4, <2>2, QuarteredLane
  <2>3. QED
    BY <2>1, <2>2
<1>6. PICK j \in 0 .. m - 1 : j = e \div f
  <2>1. CASE f = 2
    BY <2>1
  <2>2. CASE f = 4
    BY <2>2
  <2>3. QED
    BY <2>1, <2>2
<1>7. PICK t \in Nat : t = g * m
  OBVIOUS
<1>8. PICK v \in Nat : v = part * t
  BY <1>7
<1>9. part * g * m = v
  <2>1. part * g * m = part * (g * m)
    OBVIOUS
  <2>2. QED
    BY <1>7, <1>8, <2>1
<1>10. index = v + (u + j)
  BY <1>3, <1>6, <1>8, <1>9
<1>11. u + j \in Int /\ 0 <= u + j /\ u + j < t
  <2>1. j \in Int /\ 0 <= j /\ j < m /\ m \in Nat
    BY <1>6
  <2>2. o * m + j \in Int /\ 0 <= o * m + j /\ o * m + j < g * m
    BY <2>1, OpInside
  <2>3. QED
    BY <1>3, <1>7, <2>2
<1>12. part * t + (u + j) \in Int /\ 0 <= part * t + (u + j) /\ part * t + (u + j) < f * t
  BY <1>7, <1>11, OpInside
<1>13. index \in 0 .. (g * f) * m - 1
  <2>1. f * t = (g * f) * m /\ f * t \in Int
    BY <1>7
  <2>2. index = part * t + (u + j)
    BY <1>8, <1>10
  <2>3. QED
    BY <1>12, <2>1, <2>2
<1>14. index + 1 = lane \div f + 1 + part * t
  BY <1>3, <1>5, <1>6, <1>8, <1>10
<1>15. lane \in 0 .. g * n - 1
  BY <1>1, <1>2
<1>16. QED
  BY <1>5, <1>7, <1>13, <1>14, <1>15, Zenon DEF NarrowSpot

(* Narrowing shifts.                                                       *)
LEMMA NarrowExact ==
    ASSUME NEW i, i.kind \in {"srans2", "srans4"}, NEW regs, NEW o, NEW e, NEW wide, NEW n,
           NEW m, NEW f, NEW g, NEW part, NarrowLane(i, o, e, wide, n, m, f, g, part)
    PROVE  Right(i, regs, o, e, 0) /\ Careful(i, o, e, 0)
<1>1. /\ Size1(i) = wide /\ Elts(wide) = m /\ m \in Nat \ {0} /\ f \in {2, 4} /\ n = f * m
      /\ SizeD(i) = i.size /\ Size2(i) = i.size /\ i.size \in Nat \ {0} /\ Elts(i.size) = n
      /\ g \in Nat /\ g = NumOps(i) /\ GroupSize(i, "vs1") = g * f /\ DestRegsPerOp(i) = 1
      /\ o \in 0 .. g - 1 /\ e \in 0 .. n - 1 /\ part \in 0 .. f - 1
      /\ Arg1(i, o, e, 0) = At("vs1", o * m + e \div f + part * g * m)
  BY DEF NarrowLane
<1>2. PICK lane : lane = o * n + e
  OBVIOUS
<1>3. PICK index : index = o * m + e \div f + part * g * m
  OBVIOUS
<1>4. /\ lane \in 0 .. g * n - 1 /\ lane % f = e % f
      /\ index \in 0 .. (g * f) * m - 1
      /\ \E t \in Nat : t = g * m /\ index + 1 = lane \div f + 1 + part * t
  <2>1. /\ m \in Nat \ {0} /\ f \in {2, 4} /\ n = f * m /\ g \in Nat
        /\ o \in 0 .. g - 1 /\ e \in 0 .. n - 1 /\ part \in 0 .. f - 1
    BY <1>1
  <2>2. QED
    <3>1. NarrowSpot(lane, index, e, n, m, f, g, part)
      BY <1>2, <1>3, <2>1, NarrowPlace
    <3>2. QED
      BY <3>1, Zenon DEF NarrowSpot
<1>5. PICK t \in Nat : t = g * m /\ index + 1 = lane \div f + 1 + part * t
  BY <1>4
<1>6. PICK a, b : Sources(i, regs, a, b)
  BY DEF Sources
<1>7. n \in Nat \ {0} /\ o \in Nat /\ e \in Nat
  <2>1. f \in {2, 4} /\ m \in Nat \ {0} /\ n = f * m
    BY <1>1
  <2>2. n \in Nat \ {0}
    BY <2>1
  <2>3. g \in Nat /\ o \in 0 .. g - 1 /\ e \in 0 .. n - 1
    BY <1>1
  <2>4. QED
    BY <2>2, <2>3
<1>8. Arg1(i, o, e, 0) = At("vs1", index) /\ Arg2(i, o, e, 0) = At("vs2", lane)
  <2>1. Arg2(i, o, e, 0) = At("vs2", lane)
    <3>1. SizeD(i) = i.size /\ Size2(i) = i.size /\ i.size \in Nat \ {0} /\ Elts(i.size) = n
      BY <1>1
    <3>2. n \in Nat /\ o \in Nat /\ e \in Nat
      BY <1>7
    <3>3. QED
      BY <1>2, <3>1, <3>2, ShiftAmountAt
  <2>2. QED
    BY <1>1, <1>3, <2>1, Zenon
<1>9. b[lane + 1] = Value(regs, i, At("vs2", lane), i.size)
  <2>1. PICK u \in Nat : u = g * n
    BY <1>1, <1>7
  <2>2. lane \in 0 .. u - 1 /\ u = g * Elts(i.size)
    BY <1>1, <1>4, <2>1
  <2>3. Group(regs, i.vs2, g, i.size)[lane + 1] = Element(regs, i.vs2, i.size, lane)
    BY <2>1, <2>2, GroupAt
  <2>4. b = Group(regs, i.vs2, g, i.size)
    BY <1>1, <1>6, Zenon DEF Sources
  <2>5. Value(regs, i, At("vs2", lane), i.size) = Element(regs, i.vs2, i.size, lane)
    BY ValueAt
  <2>6. QED
    BY <2>3, <2>4, <2>5, Zenon
<1>10. a[index + 1] = Value(regs, i, At("vs1", index), wide)
  <2>1. PICK h \in Nat : h = g * f
    BY <1>1
  <2>2. PICK u \in Nat : u = h * m
    BY <1>1, <2>1
  <2>3. index \in 0 .. u - 1 /\ u = h * Elts(wide)
    BY <1>1, <1>4, <2>1, <2>2
  <2>4. Group(regs, i.vs1, h, wide)[index + 1] = Element(regs, i.vs1, wide, index)
    BY <2>2, <2>3, GroupAt
  <2>5. a = Group(regs, i.vs1, h, wide)
    BY <1>1, <1>6, <2>1, Zenon DEF Sources
  <2>6. Value(regs, i, At("vs1", index), wide) = Element(regs, i.vs1, wide, index)
    BY ValueAt
  <2>7. QED
    BY <2>4, <2>5, <2>6, Zenon
<1>11. Refers(i, regs, lane, a[index + 1], b[lane + 1])
  <2>1. t = NumOps(i) * Elts(Size1(i))
    BY <1>1, <1>5, Zenon
  <2>2. CASE i.kind = "srans2"
    <3>1. Refers(i, regs, lane, a[lane \div 2 + 1 + (lane % 2) * t], b[lane + 1])
      BY <1>6, <2>1, <2>2, ReferenceNarrow
    <3>2. f = 2 /\ part = lane % 2
      BY <1>4, <2>2, Zenon DEF NarrowLane
    <3>3. QED
      BY <1>5, <3>1, <3>2, Zenon
  <2>3. CASE i.kind = "srans4"
    <3>1. Refers(i, regs, lane, a[lane \div 4 + 1 + Interleave[(lane % 4) + 1] * t], b[lane + 1])
      BY <1>6, <2>1, <2>3, ReferenceNarrow
    <3>2. f = 4 /\ part = Interleave[(lane % 4) + 1]
      BY <1>4, <2>3, Zenon DEF NarrowLane
    <3>3. QED
      BY <1>5, <3>1, <3>2, Zenon
  <2>4. QED
    BY <2>2, <2>3
<1>12. LaneAt(i, o, e, 0) = lane
  <2>1. 0 * g + o = o
    BY <1>1, <1>7
  <2>2. QED
    BY <1>1, <1>2, <2>1 DEF LaneAt
<1>13. Right(i, regs, o, e, 0)
  BY <1>1, <1>8, <1>9, <1>10, <1>11, <1>12, RightBy
<1>14. Ahead(i, o, At("vs1", index), wide)
  BY AheadNever DEF InPlace1, Binary
<1>15. Ahead(i, o, At("vs2", lane), i.size)
  <2>1. o \in Int /\ o >= o
    BY <1>7
  <2>2. QED
    BY <1>1, <1>2, <1>7, <2>1, AheadAt
<1>16. Careful(i, o, e, 0)
  BY <1>1, <1>8, <1>14, <1>15, Zenon DEF Careful
<1>17. QED
  BY <1>13, <1>16

(* Narrowing to a half.                                                    *)
LEMMA Srans2Exact ==
    ASSUME NEW i, i.kind = "srans2", Encodable(i), NEW regs, NEW o \in 0 .. NumOps(i) - 1,
           NEW e \in 0 .. Elts(SizeD(i)) - 1, NEW r \in 0 .. DestRegsPerOp(i) - 1
    PROVE  Right(i, regs, o, e, r) /\ Careful(i, o, e, r)
<1>1. PICK s, m, g : WideInst(i, s, m, g)
  BY WideKind
<1>2. /\ s = i.size /\ s \in Nat \ {0} /\ g = NumOps(i) /\ Elts(2 * s) = m /\ Size2(i) = s
      /\ g \in Nat /\ m \in Nat \ {0} /\ Elts(s) = 2 * m
  BY <1>1 DEF WideInst
<1>3. SizeD(i) = s /\ Size1(i) = 2 * s /\ GroupSize(i, "vs1") = g * 2
  BY <1>2 DEF SizeD, Size1, GroupSize, GetSrc1WidenFactor
<1>4. PICK n \in Nat \ {0} : n = 2 * m
  BY <1>2
<1>5. o \in 0 .. g - 1 /\ e \in 0 .. n - 1 /\ Elts(s) = n
  BY <1>2, <1>3, <1>4
<1>6. DestRegsPerOp(i) = 1 /\ r = 0
  BY <1>2, <1>3 DEF DestRegsPerOp
<1>7. PICK part \in 0 .. 2 - 1 : part = e % 2
  BY <1>5
<1>8. Arg1(i, o, e, 0) = At("vs1", o * m + e \div 2 + part * g * m)
  <2>1. Arg1(i, o, e, 0) = SransArg1(i, o, e)
    BY DEF Arg1, Binary
  <2>2. (2 * s) \div s = 2
    BY <1>2, ExactQuotient
  <2>3. QED
    BY <1>2, <1>3, <1>7, <2>1, <2>2, Zenon DEF SransArg1
<1>9. NarrowLane(i, o, e, 2 * s, n, m, 2, g, part)
  BY <1>2, <1>3, <1>4, <1>5, <1>6, <1>7, <1>8 DEF NarrowLane
<1>10. QED
  BY <1>6, <1>9, NarrowExact

(* Narrowing to a quarter.                                                 *)
LEMMA Srans4Exact ==
    ASSUME NEW i, i.kind = "srans4", Encodable(i), NEW regs, NEW o \in 0 .. NumOps(i) - 1,
           NEW e \in 0 .. Elts(SizeD(i)) - 1, NEW r \in 0 .. DestRegsPerOp(i) - 1
    PROVE  Right(i, regs, o, e, r) /\ Careful(i, o, e, r)
<1>1. i.size = 1 /\ i.strip \in BOOLEAN
  BY DEF Encodable
<1>2. PICK t \in Nat \ {0} : Elts(1) = 16 * t /\ Elts(2) = 8 * t /\ Elts(4) = 4 * t
  BY EltsFacts
<1>3. PICK g \in Nat : g = NumOps(i)
  BY <1>1 DEF NumOps
<1>4. SizeD(i) = 1 /\ Size1(i) = 4 /\ Size2(i) = 1 /\ GroupSize(i, "vs1") = g * 4
  BY <1>1, <1>3 DEF SizeD, Size1, Size2, GroupSize, GetSrc1WidenFactor
<1>5. PICK m \in Nat \ {0} : m = 4 * t
  BY <1>2
<1>6. PICK n \in Nat \ {0} : n = 4 * m
  BY <1>5
<1>7. Elts(1) = n /\ Elts(4) = m /\ o \in 0 .. g - 1 /\ e \in 0 .. n - 1
  BY <1>2, <1>3, <1>4, <1>5, <1>6
<1>8. DestRegsPerOp(i) = 1 /\ r = 0
  BY <1>4 DEF DestRegsPerOp
<1>9. PICK part \in 0 .. 4 - 1 : part = Interleave[(e % 4) + 1]
  <2>1. (e % 4) + 1 \in {1, 2, 3, 4}
    BY <1>7
  <2>2. QED
    BY <2>1 DEF Interleave
<1>10. Arg1(i, o, e, 0) = At("vs1", o * m + e \div 4 + part * g * m)
  <2>1. Arg1(i, o, e, 0) = SransArg1(i, o, e)
    BY DEF Arg1, Binary
  <2>2. 4 \div 1 = 4 /\ 4 # 2
    OBVIOUS
  <2>3. QED
    BY <1>3, <1>4, <1>7, <1>9, <2>1, <2>2, Zenon DEF SransArg1
<1>11. NarrowLane(i, o, e, 4, n, m, 4, g, part)
  BY <1>1, <1>3, <1>4, <1>6, <1>7, <1>8, <1>9, <1>10 DEF NarrowLane
<1>12. QED
  BY <1>8, <1>11, NarrowExact

(* Every lane of every instruction that has an encoding.                   *)
LEMMA EveryKindExact ==
    ASSUME NEW i, i.kind \in Kinds, Encodable(i), NEW regs, NEW o \in 0 .. NumOps(i) - 1,
           NEW e \in 0 .. Elts(SizeD(i)) - 1, NEW r \in 0 .. DestRegsPerOp(i) - 1
    PROVE  Right(i, regs, o, e, r) /\ Careful(i, o, e, r)
<1>1. \/ i.kind \in Binary
      \/ i.kind = "mvp"
      \/ i.kind \in {"slidevn", "slidehn"}
      \/ i.kind \in {"slidevp", "slidehp"}
      \/ i.kind \in {"evn", "odd", "evnodd"}
      \/ i.kind = "zip"
      \/ i.kind = "widen"
      \/ i.kind = "acc"
      \/ i.kind = "packed"
      \/ i.kind = "srans2"
      \/ i.kind = "srans4"
  BY Zenon DEF Kinds, Moves, Slides, Shuffles
<1>2. CASE i.kind \in Binary
  BY <1>2, BinaryExact
<1>3. CASE i.kind = "mvp"
  BY <1>3, MvpExact
<1>4. CASE i.kind \in {"slidevn", "slidehn"}
  BY <1>4, SlidenExact
<1>5. CASE i.kind \in {"slidevp", "slidehp"}
  BY <1>5, SlidepExact
<1>6. CASE i.kind \in {"evn", "odd", "evnodd"}
  BY <1>6, EvnOddExact
<1>7. CASE i.kind = "zip"
  BY <1>7, ZipExact
<1>8. CASE i.kind = "widen"
  BY <1>8, WidenExact
<1>9. CASE i.kind = "acc"
  BY <1>9, AccExact
<1>10. CASE i.kind = "packed"
  BY <1>10, PackedExact
<1>11. CASE i.kind = "srans2"
  BY <1>11, Srans2Exact
<1>12. CASE i.kind = "srans4"
  BY <1>12, Srans4Exact
<1>13. QED
  BY <1>1, <1>2, <1>3, <1>4, <1>5, <1>6, <1>7, <1>8, <1>9, <1>10, <1>11, <1>12, Zenon

(* A getter reads one of the sources, or the scalar.                       *)
LEMMA ArgOperands ==
    ASSUME NEW i, i.kind \in Kinds, NEW o, NEW e, NEW r
    PROVE  /\ Arg1(i, o, e, r).operand \in {"vs1", "vs2"}
           /\ Arg2(i, o, e, r).operand \in {"vs1", "vs2", "xs2"}
<1>1. \A operand, index : At(operand, index).operand = operand
  BY DEF At
<1>2. /\ CommonArg1(i, o, e, r).operand = "vs1" /\ CommonArg2(i, o, e, r).operand = "vs2"
      /\ CommonArg1(i, o, e, 0).operand = "vs1" /\ CommonArg2(i, o, e, 0).operand = "vs2"
      /\ PackedArg(i, o, e, 0).operand = "vs1" /\ PackedArg(i, o, e, 1).operand = "vs1"
      /\ SransArg1(i, o, e).operand = "vs1"
  BY <1>1, Zenon DEF CommonArg1, CommonArg2, PackedArg, SransArg1
<1>3. MvpArg(i, o, e, r).operand \in {"vs1", "vs2"}
  BY <1>2, Zenon DEF MvpArg
<1>4. \A h : /\ SlidenArg(h, i, o, e).operand \in {"vs1", "vs2"}
             /\ SlidepArg(h, i, o, e).operand \in {"vs1", "vs2"}
  BY <1>1 DEF SlidenArg, SlidepArg
<1>5. \A h : EvnOddArg(i, o, e, h).operand \in {"vs1", "vs2"}
  BY <1>1, Zenon DEF EvnOddArg
<1>6. ZipArg(i, o, e, r).operand \in {"vs1", "vs2"}
  BY <1>1 DEF ZipArg
<1>7. Arg1(i, o, e, r).operand \in {"vs1", "vs2"}
  BY <1>2, <1>3, <1>4, <1>5, <1>6 DEF Arg1, Kinds, Binary, Moves, Slides, Shuffles
<1>8. Arg2(i, o, e, r).operand \in {"vs1", "vs2", "xs2"}
  BY <1>1, <1>2, <1>7 DEF Arg2, Shuffles
<1>9. QED
  BY <1>7, <1>8

(* The register that op o computes for its r-th destination.               *)
OpRegister(regs, i, o, r) ==
    [n \in 0 .. RegBytes - 1 |-> OpResult(regs, i, o, n \div SizeD(i), r)[(n % SizeD(i)) + 1]]

(* The registers an op writes, and what it writes there.                   *)
LEMMA OpWrites ==
    ASSUME NEW regs, NEW i, NumOps(i) \in {1, 4}, DestRegsPerOp(i) \in {1, 2}, i.vd \in Nat,
           NEW o \in 0 .. NumOps(i) - 1, NEW v \in DOMAIN regs, v \in Nat
    PROVE  /\ \A r \in 0 .. DestRegsPerOp(i) - 1 :
                 v = i.vd + o + NumOps(i) * r =>
                    CoralNPUBinaryVectorOp(regs, i, o)[v] = OpRegister(regs, i, o, r)
           /\ (\A r \in 0 .. DestRegsPerOp(i) - 1 : v # i.vd + o + NumOps(i) * r) =>
                 CoralNPUBinaryVectorOp(regs, i, o)[v] = regs[v]
<1>1. PICK g \in {1, 4} : g = NumOps(i)
  OBVIOUS
<1>2. PICK f \in {1, 2} : f = DestRegsPerOp(i)
  OBVIOUS
<1>3. PICK b \in Nat : b = i.vd
  OBVIOUS
<1>4. o \in Nat
  BY <1>1
<1>5. CoralNPUBinaryVectorOp(regs, i, o)[v] =
        IF v >= b + o /\ (v - b - o) % g = 0 /\ (v - b - o) \div g < f
        THEN OpRegister(regs, i, o, (v - b - o) \div g) ELSE regs[v]
  BY <1>1, <1>2, <1>3, Zenon DEF CoralNPUBinaryVectorOp, OpRegister
<1>6. ASSUME NEW r \in 0 .. f - 1, v = b + o + g * r
      PROVE  v >= b + o /\ (v - b - o) % g = 0 /\ (v - b - o) \div g < f
             /\ (v - b - o) \div g = r
  <2>1. r \in Nat /\ r < f
    OBVIOUS
  <2>2. CASE g = 1
    BY <1>4, <1>6, <2>1, <2>2
  <2>3. CASE g = 4
    BY <1>4, <1>6, <2>1, <2>3
  <2>4. QED
    BY <2>2, <2>3
<1>7. ASSUME v >= b + o, (v - b - o) % g = 0, (v - b - o) \div g < f
      PROVE  \E r \in 0 .. f - 1 : v = b + o + g * r
  <2>1. PICK u \in Nat : u = v - b - o
    BY <1>4, <1>7
  <2>2. PICK r \in Nat : r = u \div g
    BY <2>1
  <2>3. u = g * r
    BY <1>7, <2>1, <2>2
  <2>4. r \in 0 .. f - 1
    BY <1>7, <2>1, <2>2
  <2>5. v = b + o + u
    BY <1>4, <2>1
  <2>6. QED
    BY <2>3, <2>4, <2>5, Zenon
<1>8. ASSUME NEW r \in 0 .. f - 1, v = b + o + g * r
      PROVE  CoralNPUBinaryVectorOp(regs, i, o)[v] = OpRegister(regs, i, o, r)
  BY <1>5, <1>6, <1>8, Zenon
<1>9. ASSUME \A r \in 0 .. f - 1 : v # b + o + g * r
      PROVE  CoralNPUBinaryVectorOp(regs, i, o)[v] = regs[v]
  BY <1>5, <1>7, <1>9, Zenon
<1>10. QED
  BY <1>1, <1>2, <1>3, <1>8, <1>9, Zenon

(* The numbers of the registers that the ops before o have written.        *)
LEMMA WrittenAt ==
    ASSUME NEW i, NEW o, NEW d \in Written(i, o)
    PROVE  \E c \in 0 .. o - 1, r \in 0 .. DestRegsPerOp(i) - 1 : d = c + NumOps(i) * r
<1>1. PICK p \in (0 .. o - 1) \X (0 .. DestRegsPerOp(i) - 1) : d = p[1] + NumOps(i) * p[2]
  BY DEF Written
<1>2. p[1] \in 0 .. o - 1 /\ p[2] \in 0 .. DestRegsPerOp(i) - 1
  BY <1>1
<1>3. QED
  BY <1>1, <1>2, Zenon

(* Each is among them.                                                     *)
LEMMA AtWritten ==
    ASSUME NEW i, NEW o, NEW c \in 0 .. o - 1, NEW r \in 0 .. DestRegsPerOp(i) - 1
    PROVE  c + NumOps(i) * r \in Written(i, o)
<1>1. /\ <<c, r>> \in (0 .. o - 1) \X (0 .. DestRegsPerOp(i) - 1)
      /\ <<c, r>>[1] = c /\ <<c, r>>[2] = r
  OBVIOUS
<1>2. PICK p \in (0 .. o - 1) \X (0 .. DestRegsPerOp(i) - 1) : p[1] = c /\ p[2] = r
  BY <1>1
<1>3. QED
  BY <1>2, Zenon DEF Written

(* They are registers of the destination, and op o's own is not yet among  *)
(* them.                                                                   *)
LEMMA WrittenInside ==
    ASSUME NEW i, NumOps(i) \in {1, 4}, DestRegsPerOp(i) \in {1, 2}, NEW o \in 0 .. NumOps(i),
           NEW d \in Written(i, o)
    PROVE  /\ d \in 0 .. NumOps(i) * DestRegsPerOp(i) - 1
           /\ o < NumOps(i) => d # o
           /\ o # 0
<1>1. PICK g \in {1, 4} : g = NumOps(i)
  OBVIOUS
<1>2. PICK f \in {1, 2} : f = DestRegsPerOp(i)
  OBVIOUS
<1>3. PICK c \in 0 .. o - 1, r \in 0 .. f - 1 : d = c + g * r
  BY <1>1, <1>2, WrittenAt
<1>4. o \in Nat /\ o <= g /\ c \in Nat /\ c < o /\ r \in {0, 1} /\ r < f
  BY <1>1, <1>3
<1>5. d \in 0 .. g * f - 1 /\ (o < g => d # o) /\ o # 0
  <2>1. CASE g = 1
    BY <1>3, <1>4, <2>1
  <2>2. CASE g = 4
    BY <1>3, <1>4, <2>2
  <2>3. QED
    BY <2>1, <2>2
<1>6. QED
  BY <1>1, <1>2, <1>5, Zenon

(* A lane instruction of a program.                                        *)
LaneInst(i) == i.kind \in Kinds /\ Encodable(i) /\ Placed(i)

(* Its destination, and the bytes of its elements.                         *)
LEMMA LaneInstFacts ==
    ASSUME NEW i, LaneInst(i)
    PROVE  /\ NumOps(i) \in {1, 4} /\ DestRegsPerOp(i) \in {1, 2}
           /\ i.strip \/ NumOps(i) = 1
           /\ GroupSize(i, "vd") = NumOps(i) * DestRegsPerOp(i)
           /\ NumRegs \in Nat /\ i.vd \in Nat /\ i.vd + GroupSize(i, "vd") <= NumRegs
           /\ SizeD(i) \in {1, 2, 4} /\ Elts(SizeD(i)) \in Nat \ {0}
           /\ RegBytes = Elts(SizeD(i)) * SizeD(i)
<1>1. i.kind \in Kinds /\ Encodable(i) /\ Placed(i)
  BY DEF LaneInst
<1>2. i.size \in {1, 2, 4} /\ (i.kind \in {"widen", "acc", "packed"} => i.size # 4)
  BY <1>1 DEF Encodable
<1>3. SizeD(i) \in {1, 2, 4}
  BY <1>2 DEF SizeD
<1>4. Elts(SizeD(i)) \in Nat \ {0} /\ RegBytes = Elts(SizeD(i)) * SizeD(i)
  <2>1. /\ RegBytes \div 1 \in Nat \ {0} /\ RegBytes = (RegBytes \div 1) * 1
        /\ RegBytes \div 2 \in Nat \ {0} /\ RegBytes = (RegBytes \div 2) * 2
        /\ RegBytes \div 4 \in Nat \ {0} /\ RegBytes = (RegBytes \div 4) * 4
    BY RegBytesAssumption
  <2>2. QED
    BY <1>3, <2>1, Zenon DEF Elts
<1>5. NumOps(i) \in {1, 4} /\ (i.strip \/ NumOps(i) = 1) /\ DestRegsPerOp(i) \in {1, 2}
  BY DEF NumOps, DestRegsPerOp
<1>6. GroupSize(i, "vd") = NumOps(i) * DestRegsPerOp(i)
  BY <1>1, DestinationFits
<1>7. NumRegs \in Nat /\ i.vd \in Nat /\ i.vd + GroupSize(i, "vd") <= NumRegs
  BY <1>1, ProgramsAssumption DEF Placed
<1>8. QED
  BY <1>3, <1>4, <1>5, <1>6, <1>7

(* Its sources.                                                            *)
LEMMA SourcesPlaced ==
    ASSUME NEW i, LaneInst(i)
    PROVE  /\ GroupSize(i, "vs1") \in Nat /\ i.vs1 \in Nat
           /\ i.vs1 + GroupSize(i, "vs1") <= NumRegs
           /\ GroupSize(i, "vs2") \in Nat /\ i.vs2 \in Nat
           /\ i.vs2 + GroupSize(i, "vs2") <= NumRegs
<1>1. Placed(i) /\ NumOps(i) \in {1, 4}
  BY DEF LaneInst, NumOps
<1>2. GroupSize(i, "vs1") \in Nat /\ GroupSize(i, "vs2") \in Nat
  BY <1>1 DEF GroupSize, GetSrc1WidenFactor
<1>3. QED
  BY <1>1, <1>2 DEF Placed

(* The ops before o have changed no register but their own.                *)
Untouched(i, o, regs, old) ==
    \A v \in Regs : (\A d \in Written(i, o) : v # i.vd + d) => regs[v] = old[v]

(* An element depends on its own register.                                 *)
LEMMA SameElement ==
    ASSUME NEW regs, NEW old, NEW first, NEW size, NEW index,
           regs[first + index \div Elts(size)] = old[first + index \div Elts(size)]
    PROVE  Element(regs, first, size, index) = Element(old, first, size, index)
  BY Zenon DEF Element

(* What InPlaceOK says of a register of the destination that is one of a   *)
(* source.                                                                 *)
LEMMA OverSource ==
    ASSUME NEW i, InPlaceOK(i), i.strip, NEW d \in 0 .. GroupSize(i, "vd") - 1
    PROVE  /\ \A q \in 0 .. GroupSize(i, "vs1") - 1 :
                 i.vd + d = i.vs1 + q => i.vd = i.vs1 /\ i.kind \in InPlace1
           /\ \A q \in 0 .. GroupSize(i, "vs2") - 1 :
                 i.vd + d = i.vs2 + q => i.vd = i.vs2 /\ i.kind \in InPlace2
  BY Zenon DEF InPlaceOK, InPlace1, InPlace2

(* An argument that the ops before o have not changed.                     *)
LEMMA SourceIntact ==
    ASSUME NEW i, LaneInst(i), InPlaceOK(i), NEW o \in 0 .. NumOps(i) - 1, NEW arg, NEW size,
           arg.operand \in {"vs1", "vs2", "xs2"}, Within(i, arg, size), Ahead(i, o, arg, size),
           NEW regs, NEW old, Untouched(i, o, regs, old)
    PROVE  Value(regs, i, arg, size) = Value(old, i, arg, size)
<1>1. /\ NumOps(i) \in {1, 4} /\ DestRegsPerOp(i) \in {1, 2} /\ (i.strip \/ NumOps(i) = 1)
      /\ GroupSize(i, "vd") = NumOps(i) * DestRegsPerOp(i) /\ NumRegs \in Nat /\ i.vd \in Nat
  BY LaneInstFacts
<1>2. /\ GroupSize(i, "vs1") \in Nat /\ i.vs1 \in Nat /\ i.vs1 + GroupSize(i, "vs1") <= NumRegs
      /\ GroupSize(i, "vs2") \in Nat /\ i.vs2 \in Nat /\ i.vs2 + GroupSize(i, "vs2") <= NumRegs
  BY SourcesPlaced
<1>3. o \in 0 .. NumOps(i)
  BY <1>1
<1>4. ASSUME NEW d \in Written(i, o)
      PROVE  d \in 0 .. GroupSize(i, "vd") - 1 /\ i.strip
  <2>1. d \in 0 .. NumOps(i) * DestRegsPerOp(i) - 1 /\ o # 0
    BY <1>1, <1>3, WrittenInside
  <2>2. NumOps(i) # 1
    BY <2>1
  <2>3. QED
    BY <1>1, <2>1, <2>2
<1>5. PICK q : q = arg.index \div Elts(size)
  OBVIOUS
<1>6. CASE arg.operand = "xs2"
  BY <1>6 DEF Value
<1>7. CASE arg.operand = "vs1"
  <2>1. q \in 0 .. GroupSize(i, "vs1") - 1 /\ (i.kind \in InPlace1 => q \notin Written(i, o))
    BY <1>5, <1>7 DEF Within, Ahead
  <2>2. i.vs1 + q \in Regs
    BY <1>1, <1>2, <2>1 DEF Regs
  <2>3. ASSUME NEW d \in Written(i, o), i.vs1 + q = i.vd + d PROVE FALSE
    <3>1. d \in 0 .. GroupSize(i, "vd") - 1 /\ i.strip
      BY <1>4
    <3>2. i.vd = i.vs1 /\ i.kind \in InPlace1
      BY <2>1, <2>3, <3>1, OverSource
    <3>3. q = d
      BY <1>1, <1>2, <2>1, <2>3, <3>1, <3>2
    <3>4. QED
      BY <2>1, <3>2, <3>3
  <2>4. regs[i.vs1 + q] = old[i.vs1 + q]
    BY <2>2, <2>3, Zenon DEF Untouched
  <2>5. Element(regs, i.vs1, size, arg.index) = Element(old, i.vs1, size, arg.index)
    BY <1>5, <2>4, SameElement
  <2>6. QED
    BY <1>7, <2>5 DEF Value
<1>8. CASE arg.operand = "vs2"
  <2>1. q \in 0 .. GroupSize(i, "vs2") - 1 /\ (i.kind \in InPlace2 => q \notin Written(i, o))
    BY <1>5, <1>8 DEF Within, Ahead
  <2>2. i.vs2 + q \in Regs
    BY <1>1, <1>2, <2>1 DEF Regs
  <2>3. ASSUME NEW d \in Written(i, o), i.vs2 + q = i.vd + d PROVE FALSE
    <3>1. d \in 0 .. GroupSize(i, "vd") - 1 /\ i.strip
      BY <1>4
    <3>2. i.vd = i.vs2 /\ i.kind \in InPlace2
      BY <2>1, <2>3, <3>1, OverSource
    <3>3. q = d
      BY <1>1, <1>2, <2>1, <2>3, <3>1, <3>2
    <3>4. QED
      BY <2>1, <3>2, <3>3
  <2>4. regs[i.vs2 + q] = old[i.vs2 + q]
    BY <2>2, <2>3, Zenon DEF Untouched
  <2>5. Element(regs, i.vs2, size, arg.index) = Element(old, i.vs2, size, arg.index)
    BY <1>5, <2>4, SameElement
  <2>6. QED
    BY <1>8, <2>5 DEF Value
<1>9. QED
  BY <1>6, <1>7, <1>8, Zenon

(* In place too, op o computes what it would have computed first.          *)
LEMMA ResultIntact ==
    ASSUME NEW i, LaneInst(i), InPlaceOK(i), NEW o \in 0 .. NumOps(i) - 1,
           NEW e \in 0 .. Elts(SizeD(i)) - 1, NEW r \in 0 .. DestRegsPerOp(i) - 1,
           NEW regs, NEW old, Untouched(i, o, regs, old)
    PROVE  OpResult(regs, i, o, e, r) = OpResult(old, i, o, e, r)
<1>1. i.kind \in Kinds /\ Encodable(i)
  BY DEF LaneInst
<1>2. Fits(i, o, e, r)
  BY <1>1, EveryKindFits
<1>3. Careful(i, o, e, r)
  BY <1>1, EveryKindExact
<1>4. PICK size2 : size2 = IF i.kind = "packed" THEN Size1(i) ELSE Size2(i)
  OBVIOUS
<1>5. /\ Arg1(i, o, e, r).operand \in {"vs1", "vs2", "xs2"}
      /\ Arg2(i, o, e, r).operand \in {"vs1", "vs2", "xs2"}
  BY <1>1, ArgOperands
<1>6. /\ Within(i, Arg1(i, o, e, r), Size1(i)) /\ Ahead(i, o, Arg1(i, o, e, r), Size1(i))
      /\ Within(i, Arg2(i, o, e, r), size2) /\ Ahead(i, o, Arg2(i, o, e, r), size2)
  BY <1>2, <1>3, <1>4, Zenon DEF Fits, Careful
<1>7. /\ Value(regs, i, Arg1(i, o, e, r), Size1(i)) = Value(old, i, Arg1(i, o, e, r), Size1(i))
      /\ Value(regs, i, Arg2(i, o, e, r), size2) = Value(old, i, Arg2(i, o, e, r), size2)
  BY <1>5, <1>6, SourceIntact
<1>8. /\ NumOps(i) \in {1, 4} /\ DestRegsPerOp(i) \in {1, 2} /\ Elts(SizeD(i)) \in Nat \ {0}
      /\ GroupSize(i, "vd") = NumOps(i) * DestRegsPerOp(i) /\ NumRegs \in Nat /\ i.vd \in Nat
      /\ i.vd + GroupSize(i, "vd") <= NumRegs
  BY LaneInstFacts
<1>9. PICK index : index = o * Elts(SizeD(i)) + e
  OBVIOUS
<1>10. index \div Elts(SizeD(i)) = o
  <2>1. PICK n \in Nat \ {0} : n = Elts(SizeD(i))
    BY <1>8
  <2>2. o \in Int /\ e \in 0 .. n - 1
    BY <1>8, <2>1
  <2>3. (o * n + e) \div n = o
    BY <2>2, UniqueRemainder
  <2>4. QED
    BY <1>9, <2>1, <2>3, Zenon
<1>11. regs[i.vd + o] = old[i.vd + o]
  <2>1. i.vd + o \in Regs
    BY <1>8 DEF Regs
  <2>2. ASSUME NEW d \in Written(i, o), i.vd + o = i.vd + d PROVE FALSE
    <3>1. o \in 0 .. NumOps(i) /\ o < NumOps(i) /\ o \in Nat
      BY <1>8
    <3>2. d \in 0 .. NumOps(i) * DestRegsPerOp(i) - 1 /\ d # o
      BY <1>8, <3>1, WrittenInside
    <3>3. d \in Int
      BY <1>8, <3>2
    <3>4. QED
      BY <1>8, <2>2, <3>1, <3>2, <3>3
  <2>3. QED
    BY <2>1, <2>2, Zenon DEF Untouched
<1>12. Element(regs, i.vd, SizeD(i), index) = Element(old, i.vd, SizeD(i), index)
  BY <1>10, <1>11, SameElement
<1>13. QED
  BY <1>4, <1>7, <1>9, <1>12, Zenon DEF OpResult

(* The ops before o have written what the instruction says, and nothing    *)
(* else.                                                                   *)
Partial(i, o, regs, old) ==
    /\ Untouched(i, o, regs, old)
    /\ InPlaceOK(i) =>
         \A c \in 0 .. o - 1, r \in 0 .. DestRegsPerOp(i) - 1 :
            regs[i.vd + c + NumOps(i) * r] = OpRegister(old, i, c, r)

(* At first there are none.                                                *)
LEMMA PartialFirst ==
    ASSUME NEW i, NEW regs
    PROVE  Partial(i, 0, regs, regs)
<1>1. \A c \in 0 .. 0 - 1 : FALSE
  OBVIOUS
<1>2. QED
  BY <1>1, Zenon DEF Partial, Untouched

(* Two ops write different registers.                                      *)
LEMMA OpsApart ==
    ASSUME NEW g \in {1, 4}, NEW f \in {1, 2}, NEW b \in Nat, NEW o \in 0 .. g - 1,
           NEW c \in 0 .. o - 1, NEW r \in 0 .. f - 1, NEW q \in 0 .. f - 1
    PROVE  b + c + g * r # b + o + g * q
<1>1. o \in Nat /\ c \in Nat /\ o < g /\ c < o /\ r \in {0, 1} /\ q \in {0, 1}
  OBVIOUS
<1>2. CASE g = 1
  BY <1>1, <1>2
<1>3. CASE g = 4
  BY <1>1, <1>3
<1>4. QED
  BY <1>2, <1>3

(* The registers of an op are registers.                                   *)
LEMMA OpInRegs ==
    ASSUME NEW i, LaneInst(i), NEW o \in 0 .. NumOps(i) - 1, NEW r \in 0 .. DestRegsPerOp(i) - 1
    PROVE  i.vd + o + NumOps(i) * r \in Regs /\ i.vd + o + NumOps(i) * r \in Nat
<1>1. /\ NumOps(i) \in {1, 4} /\ DestRegsPerOp(i) \in {1, 2}
      /\ GroupSize(i, "vd") = NumOps(i) * DestRegsPerOp(i) /\ NumRegs \in Nat /\ i.vd \in Nat
      /\ i.vd + GroupSize(i, "vd") <= NumRegs
  BY LaneInstFacts
<1>2. PICK g \in {1, 4} : g = NumOps(i)
  BY <1>1
<1>3. PICK f \in {1, 2} : f = DestRegsPerOp(i)
  BY <1>1
<1>4. PICK b \in Nat : b = i.vd
  BY <1>1
<1>5. o \in 0 .. g - 1 /\ r \in 0 .. f - 1 /\ b + g * f <= NumRegs
  BY <1>1, <1>2, <1>3, <1>4
<1>6. b + o + g * r \in Nat /\ b + o + g * r <= NumRegs - 1
  <2>1. CASE g = 1
    BY <1>1, <1>5, <2>1
  <2>2. CASE g = 4
    BY <1>1, <1>5, <2>2
  <2>3. QED
    BY <2>1, <2>2
<1>7. b + o + g * r \in Regs
  BY <1>1, <1>6 DEF Regs
<1>8. QED
  BY <1>2, <1>4, <1>6, <1>7, Zenon

(* One more op.                                                            *)
LEMMA PartialStep ==
    ASSUME NEW i, LaneInst(i), NEW o \in 0 .. NumOps(i) - 1, NEW regs, NEW old,
           DOMAIN regs = Regs, Partial(i, o, regs, old)
    PROVE  Partial(i, o + 1, CoralNPUBinaryVectorOp(regs, i, o), old)
<1>1. /\ NumOps(i) \in {1, 4} /\ DestRegsPerOp(i) \in {1, 2} /\ NumRegs \in Nat /\ i.vd \in Nat
      /\ SizeD(i) \in {1, 2, 4} /\ Elts(SizeD(i)) \in Nat \ {0}
      /\ RegBytes = Elts(SizeD(i)) * SizeD(i)
  BY LaneInstFacts
<1>2. PICK new : new = CoralNPUBinaryVectorOp(regs, i, o)
  OBVIOUS
<1>3. \A v \in Regs : v \in Nat
  BY <1>1 DEF Regs
<1>4. ASSUME NEW v \in Regs
      PROVE  /\ \A r \in 0 .. DestRegsPerOp(i) - 1 :
                  v = i.vd + o + NumOps(i) * r => new[v] = OpRegister(regs, i, o, r)
             /\ (\A r \in 0 .. DestRegsPerOp(i) - 1 : v # i.vd + o + NumOps(i) * r) =>
                  new[v] = regs[v]
  BY <1>1, <1>2, <1>3, OpWrites
<1>5. o \in Nat /\ (o + 1) - 1 = o
  BY <1>1
<1>6. Untouched(i, o + 1, new, old)
  <2>1. SUFFICES ASSUME NEW v \in Regs, \A d \in Written(i, o + 1) : v # i.vd + d
                 PROVE  new[v] = old[v]
    BY DEF Untouched
  <2>2. ASSUME NEW d \in Written(i, o) PROVE v # i.vd + d
    <3>1. PICK c \in 0 .. o - 1, r \in 0 .. DestRegsPerOp(i) - 1 : d = c + NumOps(i) * r
      BY WrittenAt
    <3>2. c \in 0 .. (o + 1) - 1
      BY <1>5, <3>1
    <3>3. c + NumOps(i) * r \in Written(i, o + 1)
      BY <3>1, <3>2, AtWritten
    <3>4. QED
      BY <2>1, <3>1, <3>3
  <2>3. regs[v] = old[v]
    BY <2>2 DEF Partial, Untouched
  <2>4. ASSUME NEW r \in 0 .. DestRegsPerOp(i) - 1 PROVE v # i.vd + o + NumOps(i) * r
    <3>1. o \in 0 .. (o + 1) - 1
      BY <1>5
    <3>2. o + NumOps(i) * r \in Written(i, o + 1)
      BY <3>1, AtWritten
    <3>3. i.vd + (o + NumOps(i) * r) = i.vd + o + NumOps(i) * r
      <4>1. PICK u \in Int : u = NumOps(i) * r
        BY <1>1
      <4>2. QED
        BY <1>1, <1>5, <4>1
    <3>4. QED
      BY <2>1, <3>2, <3>3
  <2>5. QED
    BY <1>4, <2>3, <2>4, Zenon
<1>7. ASSUME InPlaceOK(i), NEW c \in 0 .. (o + 1) - 1, NEW r \in 0 .. DestRegsPerOp(i) - 1
      PROVE  new[i.vd + c + NumOps(i) * r] = OpRegister(old, i, c, r)
  <2>1. c \in Int /\ 0 <= c /\ c <= o
    BY <1>5
  <2>2. c \in 0 .. NumOps(i) - 1
    BY <1>1, <2>1
  <2>3. PICK v : v = i.vd + c + NumOps(i) * r
    OBVIOUS
  <2>4. v \in Regs
    BY <2>2, <2>3, OpInRegs
  <2>5. CASE c < o
    <3>1. c \in 0 .. o - 1
      BY <1>5, <2>1, <2>5
    <3>2. \A q \in 0 .. DestRegsPerOp(i) - 1 : v # i.vd + o + NumOps(i) * q
      BY <1>1, <2>3, <3>1, OpsApart
    <3>3. new[v] = regs[v]
      BY <1>4, <2>4, <3>2, Zenon
    <3>4. regs[i.vd + c + NumOps(i) * r] = OpRegister(old, i, c, r)
      BY <1>7, <3>1, Zenon DEF Partial
    <3>5. QED
      BY <2>3, <3>3, <3>4, Zenon
  <2>6. CASE c = o
    <3>1. new[v] = OpRegister(regs, i, o, r)
      BY <1>4, <2>3, <2>4, <2>6, Zenon
    <3>2. Untouched(i, o, regs, old)
      BY DEF Partial
    <3>3. ASSUME NEW n \in 0 .. RegBytes - 1
          PROVE  OpResult(regs, i, o, n \div SizeD(i), r) = OpResult(old, i, o, n \div SizeD(i), r)
      <4>1. n \div SizeD(i) \in 0 .. Elts(SizeD(i)) - 1
        <5>1. PICK s \in Nat \ {0} : s = SizeD(i)
          BY <1>1
        <5>2. PICK h \in Nat : h = Elts(SizeD(i))
          BY <1>1
        <5>3. n \in Int /\ 0 <= n /\ n < h * s
          BY <1>1, <5>1, <5>2
        <5>4. n \div s \in 0 .. h - 1
          BY <5>3, IndexInside
        <5>5. QED
          BY <5>1, <5>2, <5>4, Zenon
      <4>2. QED
        BY <1>7, <3>2, <4>1, ResultIntact
    <3>4. OpRegister(regs, i, o, r) = OpRegister(old, i, o, r)
      BY <3>3, Zenon DEF OpRegister
    <3>5. QED
      BY <2>3, <2>6, <3>1, <3>4, Zenon
  <2>7. QED
    <3>1. c < o \/ c = o
      BY <1>5, <2>1
    <3>2. QED
      BY <2>5, <2>6, <3>1, Zenon
<1>8. QED
  BY <1>2, <1>6, <1>7, Zenon DEF Partial

(* A lane of the destination group is one of an op.                        *)
HasOp(g, f, n, k) ==
    \E o \in 0 .. g - 1, r \in 0 .. f - 1, e \in 0 .. n - 1 :
        k = (r * g + o) * n + e /\ k \div n = o + g * r /\ k % n = e

(* Each of them.                                                           *)
LEMMA LaneOfOp ==
    ASSUME NEW g \in {1, 4}, NEW f \in {1, 2}, NEW n \in Nat \ {0},
           NEW k \in 0 .. (g * f) * n - 1
    PROVE  HasOp(g, f, n, k)
<1>1. g * f \in Nat /\ k \in Int /\ 0 <= k /\ k < (g * f) * n
  <2>1. g * f \in Nat
    OBVIOUS
  <2>2. (g * f) * n \in Nat
    BY <2>1
  <2>3. QED
    BY <2>1, <2>2
<1>2. PICK q \in 0 .. g * f - 1 : q = k \div n
  BY <1>1, IndexInside
<1>3. PICK e \in 0 .. n - 1 : e = k % n /\ k = q * n + e
  BY <1>1, <1>2, Remainder
<1>4. PICK o \in 0 .. g - 1, r \in 0 .. f - 1 : q = r * g + o /\ q = o + g * r
  <2>1. CASE g = 1
    BY <1>2, <2>1
  <2>2. CASE g = 4
    <3>1. q \in Nat /\ (f = 1 => q <= 3) /\ (f = 2 => q <= 7)
      BY <1>2, <2>2
    <3>2. PICK r \in Int : r = q \div 4
      BY <3>1
    <3>3. PICK o \in 0 .. 3 : o = q % 4
      BY <3>1
    <3>4. q = r * 4 + o
      BY <3>1, <3>2, <3>3
    <3>5. r \in 0 .. f - 1
      BY <3>1, <3>3, <3>4
    <3>6. r * 4 + o = o + 4 * r /\ o \in 0 .. g - 1
      BY <2>2, <3>2, <3>3
    <3>7. QED
      BY <2>2, <3>4, <3>5, <3>6, Zenon
  <2>3. QED
    BY <2>1, <2>2
<1>5. QED
  BY <1>2, <1>3, <1>4, Zenon DEF HasOp

(* An element of a register that an op computed is the result of its lane. *)
LEMMA ElementOfOp ==
    ASSUME NEW i, LaneInst(i), NEW regs, NEW old, NEW o, NEW r, NEW k, NEW v,
           NEW e \in 0 .. Elts(SizeD(i)) - 1, k % Elts(SizeD(i)) = e,
           v = i.vd + k \div Elts(SizeD(i)), regs[v] = OpRegister(old, i, o, r)
    PROVE  Element(regs, i.vd, SizeD(i), k) = OpResult(old, i, o, e, r)
<1>1. PICK s \in Nat \ {0} : s = SizeD(i)
  BY LaneInstFacts
<1>2. PICK h \in Nat \ {0} : h = Elts(SizeD(i))
  BY LaneInstFacts
<1>3. RegBytes = h * s
  BY <1>1, <1>2, LaneInstFacts
<1>4. PICK res : res = OpResult(old, i, o, e, r)
  OBVIOUS
<1>5. res = [n \in 1 .. s |-> res[n]]
  BY <1>1, <1>4 DEF OpResult, LaneResult
<1>6. ASSUME NEW n \in 1 .. s
      PROVE  regs[v][e * s + n - 1] = res[n]
  <2>1. PICK j \in 0 .. s - 1 : j = n - 1
    OBVIOUS
  <2>2. PICK x2 : x2 = e * s + j
    OBVIOUS
  <2>3. x2 = e * s + n - 1
    <3>1. e * s \in Int
      BY <1>2
    <3>2. QED
      BY <2>1, <2>2, <3>1
  <2>4. x2 % s = j /\ x2 \div s = e
    <3>1. e \in Int
      BY <1>2
    <3>2. QED
      BY <2>2, <3>1, UniqueRemainder
  <2>5. x2 \in 0 .. RegBytes - 1
    <3>1. j \in Int /\ 0 <= j /\ j < s /\ e \in 0 .. h - 1 /\ s \in Nat /\ h \in Nat
      BY <1>2, <2>1
    <3>2. e * s + j \in Int /\ 0 <= e * s + j /\ e * s + j < h * s
      BY <3>1, OpInside
    <3>3. QED
      BY <1>3, <2>2, <3>2
  <2>6. OpRegister(old, i, o, r)[x2] = OpResult(old, i, o, x2 \div s, r)[(x2 % s) + 1]
    BY <1>1, <2>5, Zenon DEF OpRegister
  <2>7. j + 1 = n
    BY <2>1
  <2>8. QED
    BY <1>4, <2>3, <2>4, <2>6, <2>7, Zenon
<1>7. Element(regs, i.vd, SizeD(i), k) = [n \in 1 .. s |-> regs[v][e * s + n - 1]]
  BY <1>1, Zenon DEF Element
<1>8. QED
  BY <1>4, <1>5, <1>6, <1>7, Zenon

(* What LanesRight says of an instruction that has run.                    *)
Ran(i, regs, old) ==
    /\ \A v \in Regs \ (i.vd .. i.vd + GroupSize(i, "vd") - 1) : regs[v] = old[v]
    /\ InPlaceOK(i) =>
         \A k \in 0 .. GroupSize(i, "vd") * Elts(SizeD(i)) - 1 :
            Element(regs, i.vd, SizeD(i), k) = LaneReference(i, old, k)

(* After the last op.                                                      *)
LEMMA PartialLast ==
    ASSUME NEW i, LaneInst(i), NEW regs, NEW old, Partial(i, NumOps(i), regs, old)
    PROVE  Ran(i, regs, old)
<1>1. /\ NumOps(i) \in {1, 4} /\ DestRegsPerOp(i) \in {1, 2} /\ NumRegs \in Nat /\ i.vd \in Nat
      /\ GroupSize(i, "vd") = NumOps(i) * DestRegsPerOp(i)
      /\ Elts(SizeD(i)) \in Nat \ {0} /\ NumOps(i) \in 0 .. NumOps(i)
  BY LaneInstFacts
<1>2. ASSUME NEW v \in Regs, v \notin i.vd .. i.vd + GroupSize(i, "vd") - 1
      PROVE  regs[v] = old[v]
  <2>1. ASSUME NEW d \in Written(i, NumOps(i)) PROVE v # i.vd + d
    <3>1. d \in 0 .. NumOps(i) * DestRegsPerOp(i) - 1
      BY <1>1, WrittenInside
    <3>2. PICK last \in Int : last = GroupSize(i, "vd")
      BY <1>1
    <3>3. d \in 0 .. last - 1
      BY <1>1, <3>1, <3>2
    <3>4. i.vd + d \in i.vd .. i.vd + last - 1
      BY <1>1, <3>2, <3>3
    <3>5. QED
      BY <1>2, <3>2, <3>4
  <2>2. QED
    BY <2>1 DEF Partial, Untouched
<1>3. ASSUME InPlaceOK(i), NEW k \in 0 .. GroupSize(i, "vd") * Elts(SizeD(i)) - 1
      PROVE  Element(regs, i.vd, SizeD(i), k) = LaneReference(i, old, k)
  <2>1. PICK n \in Nat \ {0} : n = Elts(SizeD(i))
    BY <1>1
  <2>2. k \in 0 .. (NumOps(i) * DestRegsPerOp(i)) * n - 1
    BY <1>1, <2>1
  <2>3. PICK o \in 0 .. NumOps(i) - 1, r \in 0 .. DestRegsPerOp(i) - 1, e \in 0 .. n - 1 :
           k = (r * NumOps(i) + o) * n + e /\ k \div n = o + NumOps(i) * r /\ k % n = e
    <3>1. PICK g \in {1, 4} : g = NumOps(i)
      BY <1>1
    <3>2. PICK f \in {1, 2} : f = DestRegsPerOp(i)
      BY <1>1
    <3>3. k \in 0 .. (g * f) * n - 1
      BY <2>2, <3>1, <3>2
    <3>4. HasOp(g, f, n, k)
      BY <3>3, LaneOfOp
    <3>5. QED
      BY <3>1, <3>2, <3>4, Zenon DEF HasOp
  <2>4. PICK v : v = i.vd + o + NumOps(i) * r
    OBVIOUS
  <2>5. regs[v] = OpRegister(old, i, o, r)
    BY <1>3, <2>3, <2>4, Zenon DEF Partial
  <2>6. v = i.vd + k \div n
    <3>1. PICK u \in Int : u = NumOps(i) * r
      BY <1>1
    <3>2. i.vd + o + u = i.vd + (o + u)
      BY <1>1, <3>1
    <3>3. QED
      BY <2>3, <2>4, <3>1, <3>2, Zenon
  <2>7. e \in 0 .. Elts(SizeD(i)) - 1
    BY <2>1, <2>3
  <2>8. Element(regs, i.vd, SizeD(i), k) = OpResult(old, i, o, e, r)
    BY <2>1, <2>3, <2>5, <2>6, <2>7, ElementOfOp
  <2>9. Right(i, old, o, e, r)
    BY <2>7, EveryKindExact DEF LaneInst
  <2>10. k = LaneAt(i, o, e, r)
    BY <2>1, <2>3, Zenon DEF LaneAt
  <2>11. QED
    BY <2>8, <2>9, <2>10, Zenon DEF Right
<1>4. QED
  BY <1>2, <1>3, Zenon DEF Ran

(* The op loop of a lane instruction, and the instruction that ended.      *)
LanesInv ==
    /\ OpInv
    /\ DOMAIN vreg = Regs /\ DOMAIN before = Regs
    /\ Running /\ Inst.kind \in Kinds /\ op > 0 => Partial(Inst, op, vreg, before)
    /\ LanesRight

(* At the start nothing has run.                                           *)
LEMMA LanesInit == Init => LanesInv
<1>1. SUFFICES ASSUME Init PROVE LanesInv
  OBVIOUS
<1>2. /\ vreg = Initial /\ before = Initial /\ at = 1 /\ op = 0 /\ code \in Programs
  BY <1>1 DEF Init, Reset
<1>3. DOMAIN vreg = Regs /\ DOMAIN before = Regs
  BY <1>2 DEF Initial
<1>4. OpInv
  BY <1>2 DEF OpInv, NumOps
<1>5. LanesRight
  BY <1>2 DEF LanesRight
<1>6. ~(op > 0)
  BY <1>2
<1>7. QED
  BY <1>3, <1>4, <1>5, <1>6, Zenon DEF LanesInv

(* An op.                                                                  *)
LEMMA LanesOp == LanesInv /\ OpInv' /\ LaneOp => LanesInv'
<1>1. SUFFICES ASSUME LanesInv, OpInv', LaneOp PROVE LanesInv'
  OBVIOUS
<1>2. PICK i : i = Inst
  OBVIOUS
<1>3. /\ Running /\ i.kind \in Kinds /\ vreg' = CoralNPUBinaryVectorOp(vreg, i, op)
      /\ before' = IF op = 0 THEN vreg ELSE before
  BY <1>1, <1>2 DEF LaneOp
<1>4. /\ OpInv /\ DOMAIN vreg = Regs /\ DOMAIN before = Regs
      /\ op > 0 => Partial(i, op, vreg, before)
  BY <1>1, <1>2, <1>3 DEF LanesInv
<1>5. LaneInst(i)
  BY <1>2, <1>3, <1>4, ProgramsAssumption DEF OpInv, Running, Inst, LaneInst
<1>6. op \in Nat /\ NumOps(i) \in {1, 4} /\ op \in 0 .. NumOps(i) - 1
  <2>1. op \in Nat /\ op < NumOps(i) /\ NumOps(i) \in {1, 4}
    BY <1>2, <1>3, <1>4 DEF OpInv, NumOps
  <2>2. QED
    BY <2>1
<1>7. Partial(i, op, vreg, before')
  <2>1. CASE op = 0
    BY <1>3, <2>1, PartialFirst, Zenon
  <2>2. CASE op > 0
    <3>1. op # 0
      BY <1>6, <2>2
    <3>2. QED
      BY <1>3, <1>4, <2>2, <3>1, Zenon
  <2>3. QED
    BY <1>6, <2>1, <2>2
<1>8. Partial(i, op + 1, vreg', before')
  BY <1>3, <1>4, <1>5, <1>6, <1>7, PartialStep
<1>9. DOMAIN vreg' = Regs /\ DOMAIN before' = Regs
  <2>1. DOMAIN CoralNPUBinaryVectorOp(vreg, i, op) = DOMAIN vreg
    BY Zenon DEF CoralNPUBinaryVectorOp
  <2>2. QED
    BY <1>3, <1>4, <2>1
<1>10. CASE op + 1 < NumOps(i) /\ op' = op + 1 /\ UNCHANGED <<at, code>>
  <2>1. Inst' = i /\ Running' /\ ~(op' = 0)
    BY <1>2, <1>3, <1>6, <1>10 DEF Inst, Running
  <2>2. LanesRight'
    BY <2>1 DEF LanesRight
  <2>3. Partial(Inst, op, vreg, before)'
    BY <1>8, <1>10, <2>1 DEF Partial, Untouched
  <2>4. QED
    BY <1>1, <1>9, <2>2, <2>3 DEF LanesInv, Regs
<1>11. CASE ~(op + 1 < NumOps(i)) /\ Advance
  <2>1. at' = at + 1 /\ op' = 0 /\ code' = code /\ at \in Nat \ {0}
    BY <1>4, <1>11 DEF Advance, OpInv
  <2>2. at' - 1 = at
    BY <2>1
  <2>3. code'[at' - 1] = i
    BY <1>2, <2>1, <2>2 DEF Inst
  <2>4. op + 1 = NumOps(i)
    BY <1>6, <1>11
  <2>5. Ran(i, vreg', before')
    BY <1>5, <1>8, <2>4, PartialLast
  <2>6. LanesRight'
    BY <2>3, <2>5, Zenon DEF LanesRight, Ran, Regs
  <2>7. ~(op' > 0)
    BY <2>1
  <2>8. QED
    BY <1>1, <1>9, <2>6, <2>7 DEF LanesInv, Regs
<1>12. QED
  BY <1>1, <1>2, <1>10, <1>11 DEF LaneOp

(* Other instructions are not lane instructions, and keep the registers.   *)
OtherOp ==
    /\ Running /\ Inst.kind \notin Kinds /\ Advance
    /\ DOMAIN vreg = Regs => DOMAIN vreg' = Regs
    /\ before' = vreg

(* Each of them.                                                           *)
LEMMA OthersOther == Next => LaneOp \/ OtherOp
<1>1. \A k \in {"vld", "vst", "vdup", "getvl", "vcget", "acset", "actr", "adwinit", "aconv",
                "dwconv"} : k \notin Kinds
  BY DEF Kinds, Binary, Moves, Slides, Shuffles
<1>2. VLd => OtherOp
  BY <1>1 DEF VLd, OtherOp, Retire
<1>3. VectorStoreHelper => OtherOp
  BY <1>1 DEF VectorStoreHelper, OtherOp, Retire
<1>4. VDup => OtherOp
  BY <1>1 DEF VDup, OtherOp, Retire
<1>5. GetVl => OtherOp
  BY <1>1 DEF GetVl, OtherOp, Retire
<1>6. VcGet => OtherOp
  BY <1>1 DEF VcGet, OtherOp, Retire
<1>7. AcSet => OtherOp
  BY <1>1 DEF AcSet, OtherOp, Retire
<1>8. ADwInit => OtherOp
  BY <1>1 DEF ADwInit, OtherOp, Retire
<1>9. VConv => OtherOp
  BY <1>1 DEF VConv, OtherOp, Retire
<1>10. VConvTrap => OtherOp
  BY <1>1 DEF VConvTrap, OtherOp, Retire
<1>11. VDwconv => OtherOp
  BY <1>1 DEF VDwconv, OtherOp, Retire
<1>12. QED
  BY <1>2, <1>3, <1>4, <1>5, <1>6, <1>7, <1>8, <1>9, <1>10, <1>11, Zenon DEF Next

(* One of them leaves nothing to show.                                     *)
LEMMA LanesOther == LanesInv /\ OpInv' /\ OtherOp => LanesInv'
<1>1. SUFFICES ASSUME LanesInv, OpInv', OtherOp PROVE LanesInv'
  OBVIOUS
<1>2. at' = at + 1 /\ op' = 0 /\ code' = code /\ at \in Nat \ {0}
  BY <1>1 DEF OtherOp, Advance, LanesInv, OpInv
<1>3. at' - 1 = at /\ ~(op' > 0)
  BY <1>2
<1>4. code'[at' - 1].kind \notin Kinds
  BY <1>1, <1>2, <1>3 DEF OtherOp, Inst
<1>5. LanesRight'
  BY <1>4, Zenon DEF LanesRight
<1>6. DOMAIN vreg' = Regs /\ DOMAIN before' = Regs
  BY <1>1 DEF OtherOp, LanesInv
<1>7. QED
  BY <1>1, <1>3, <1>5, <1>6 DEF LanesInv, Regs

(* LanesInv is inductive.                                                  *)
LEMMA LanesHold == Spec => []LanesInv
<1>1. LanesInv /\ OpInv' /\ [Next]_vars => LanesInv'
  <2>1. SUFFICES ASSUME LanesInv, OpInv', [Next]_vars PROVE LanesInv'
    OBVIOUS
  <2>2. CASE UNCHANGED vars
    <3>1. /\ vreg' = vreg /\ before' = before /\ code' = code /\ at' = at /\ op' = op
      BY <2>2 DEF vars
    <3>2. LanesRight' = LanesRight
      BY <3>1 DEF LanesRight, Regs
    <3>3. Partial(Inst, op, vreg, before)' = Partial(Inst, op, vreg, before)
      BY <3>1 DEF Partial, Untouched, Inst, Regs
    <3>4. QED
      BY <2>1, <3>1, <3>2, <3>3 DEF LanesInv, Running, Inst, Regs
  <2>3. QED
    BY <2>1, <2>2, LanesOp, LanesOther, OthersOther
<1>2. QED
  BY <1>1, LanesInit, OpBounded, PTL DEF Spec

(* Every element that a lane instruction writes is the lane function of    *)
(* the elements that it names, as they were before it began, although its  *)
(* ops are submitted one after the other and may overwrite its sources;    *)
(* every other register keeps its value: for every width and number of the *)
(* registers and every program of encodable instructions.                  *)
THEOREM LanesAreRight == Spec => []LanesRight
<1>1. LanesInv => LanesRight
  BY DEF LanesInv
<1>2. QED
  BY <1>1, LanesHold, PTL
=============================================================================
