--------------------------- MODULE V2AccessProofs ---------------------------
(***************************************************************************)
(* The checks in front of the V2, M3 and M4 memory instructions cover what *)
(* the instructions touch, for every address space, list of regions, set   *)
(* of instructions, number of elements and stride.                         *)
(***************************************************************************)
EXTENDS V2Access, WellFoundedInduction, TLAPS

-----------------------------------------------------------------------------
(* Addresses that wrap.                                                    *)

(* A number is a multiple of n and a remainder.                            *)
LEMMA Remainder ==
    ASSUME NEW a \in Int, NEW n \in Nat \ {0}
    PROVE  a % n \in 0 .. n - 1 /\ \E q \in Int : a = q * n + (a % n)
<1>1. a % n \in 0 .. n - 1
  OBVIOUS
<1>2. a \div n \in Int
  OBVIOUS
<1>3. a = (a \div n) * n + (a % n)
  OBVIOUS
<1>4. QED
  BY <1>1, <1>2, <1>3

(* There is only one such remainder.                                       *)
LEMMA OnlyRemainder ==
    ASSUME NEW q \in Int, NEW n \in Nat \ {0}, NEW r \in 0 .. n - 1
    PROVE  (q * n + r) % n = r
  OBVIOUS

(* Products with a common factor.                                          *)
LEMMA Factor ==
    ASSUME NEW q \in Int, NEW s \in Int, NEW n \in Int
    PROVE  q * n + s * n = (q + s) * n
  OBVIOUS

(* Multiples are in the order of what is multiplied.                       *)
LEMMA Between ==
    ASSUME NEW k \in Nat, NEW m \in Nat, k <= m, NEW s \in Int
    PROVE  /\ k * s \in Int /\ m * s \in Int
           /\ s >= 0 => 0 <= k * s /\ k * s <= m * s
           /\ s < 0 => m * s <= k * s /\ k * s <= 0
  OBVIOUS

(* Where an address is wrapped before something is added does not matter.  *)
LEMMA Wrapped ==
    ASSUME NEW a \in Int, NEW b \in Int
    PROVE  /\ Wrap(a) \in Address
           /\ a \in Address => Wrap(a) = a
           /\ Wrap(Wrap(a) + b) = Wrap(a + b)
<1>1. Space \in Nat \ {0}
  BY SpaceIsPositive
<1>2. PICK q \in Int : a = q * Space + (a % Space)
  BY <1>1, Remainder, Zenon
<1>3. a % Space \in 0 .. Space - 1
  BY <1>1, Remainder, Zenon
<1> DEFINE r == a % Space
           c == r + b
<1>4. c \in Int
  BY <1>1, <1>3
<1>5. c % Space \in 0 .. Space - 1 /\ \E s \in Int : c = s * Space + (c % Space)
  <2> HIDE DEF c
  <2>1. QED
    BY <1>1, <1>4, Remainder, Zenon
<1> DEFINE t == c % Space
<1>6. PICK s \in Int : c = s * Space + t
  BY <1>5, Zenon
<1>7. a + b = (q + s) * Space + t
  <2>1. r \in Int /\ t \in Int /\ a = q * Space + r /\ r + b = s * Space + t
    BY <1>1, <1>2, <1>3, <1>5, <1>6
  <2> HIDE DEF r, c, t
  <2>2. q * Space \in Int /\ s * Space \in Int
    BY <1>1
  <2>3. a + b = (q * Space + s * Space) + t
    BY <2>1, <2>2
  <2>4. q * Space + s * Space = (q + s) * Space
    BY <1>1, Factor
  <2>5. QED
    BY <2>3, <2>4
<1>8. (a + b) % Space = t
  <2>1. q + s \in Int /\ t \in 0 .. Space - 1
    BY <1>5
  <2> HIDE DEF r, c, t
  <2> DEFINE k == q + s
  <2>2. k \in Int
    BY <2>1
  <2> HIDE DEF k
  <2>3. (k * Space + t) % Space = t
    BY <1>1, <2>1, <2>2, OnlyRemainder, Zenon
  <2>4. QED
    BY <1>7, <2>3 DEF k
<1>9. a \in Address => a % Space = a
  <2>1. ASSUME a \in 0 .. Space - 1 PROVE a % Space = a
    BY <1>1, <2>1
  <2>2. QED
    BY <2>1 DEF Address
<1>10. QED
  BY <1>3, <1>8, <1>9 DEF Wrap, Address

-----------------------------------------------------------------------------
(* The regions.  Two things that AddMemoryRegion does not check.  None     *)
(* reaches over the end of the address space: no region of the repository  *)
(* does, not even the one over all of memory of the hardware simulator.    *)
(* No two overlap: so it is with the default regions, while the segments   *)
(* that CoralNPUSimulator adds for a program may lie inside one of those.  *)
RegionsFit ==
    \A i \in DOMAIN Regions : Regions[i].start + Regions[i].length <= Space

RegionsApart ==
    \A i, j \in DOMAIN Regions :
        i = j \/ Regions[i].start + Regions[i].length <= Regions[j].start
              \/ Regions[j].start + Regions[j].length <= Regions[i].start

(* Some region with permission p, not necessarily the first, contains all  *)
(* of n bytes.                                                             *)
Inside(a, n, p) ==
    \E i \in DOMAIN Regions : Contains(Regions[i], a, n) /\ p \in Regions[i].perm

(* A region has an address, a length and permissions.                      *)
LEMMA RegionType ==
    ASSUME NEW i \in DOMAIN Regions
    PROVE  Regions[i].start \in Nat /\ Regions[i].length \in Nat
<1>1. Regions[i] \in Region
  BY V2Constants
<1>2. Space \in Nat
  BY SpaceIsPositive
<1>3. QED
  BY <1>1, <1>2 DEF Region, Address

(* An access that is allowed lies in a region that permits it.             *)
LEMMA AllowedInside ==
    ASSUME NEW a, NEW n, NEW p, HasPermission(Regions, a, n, {p})
    PROVE  Inside(a, n, p)
  BY DEF HasPermission, Decides, Inside

(* If regions do not overlap the one that contains it decides.             *)
LEMMA InsideAllowed ==
    ASSUME RegionsApart, NEW a \in Nat, NEW n \in Nat \ {0}, NEW p, Inside(a, n, p)
    PROVE  HasPermission(Regions, a, n, {p})
<1>1. PICK i \in DOMAIN Regions : Contains(Regions[i], a, n) /\ p \in Regions[i].perm
  BY DEF Inside
<1>2. ASSUME NEW j \in DOMAIN Regions, j < i, Contains(Regions[j], a, n) PROVE FALSE
  <2>1. i \in Int /\ j \in Int
    BY V2Constants
  <2>2. i # j
    BY <2>1, <1>2
  <2>3. /\ Regions[i].start \in Nat /\ Regions[i].length \in Nat
        /\ Regions[j].start \in Nat /\ Regions[j].length \in Nat
    BY RegionType
  <2>4. QED
    BY <1>1, <1>2, <2>2, <2>3 DEF Contains, RegionsApart
<1>3. Decides(Regions, i, a, n)
  BY <1>1, <1>2 DEF Decides
<1>4. QED
  BY <1>1, <1>3 DEF HasPermission

(* The parts of an access that lies in a region do.                        *)
LEMMA InsideParts ==
    ASSUME NEW a \in Nat, NEW n \in Nat, NEW p, Inside(a, n, p),
           NEW b \in Nat, NEW m \in Nat, a <= b, b + m <= a + n
    PROVE  Inside(b, m, p)
<1>1. PICK i \in DOMAIN Regions : Contains(Regions[i], a, n) /\ p \in Regions[i].perm
  BY DEF Inside
<1>2. Regions[i].start \in Nat /\ Regions[i].length \in Nat
  BY RegionType
<1>3. Contains(Regions[i], b, m)
  BY <1>1, <1>2 DEF Contains
<1>4. QED
  BY <1>1, <1>3 DEF Inside

(* If no region reaches over the end of the address space, the bytes that  *)
(* an access touches are those of its range.                               *)
LEMMA InsideBytes ==
    ASSUME RegionsFit, NEW a \in Int, NEW n \in Nat, NEW p,
           Inside(Wrap(a), n, p), NEW m \in Nat, m <= n, NEW b \in Bytes(a, m)
    PROVE  b \in Nat /\ Inside(b, 1, p)
<1>1. PICK k \in 0 .. m - 1 : b = Wrap(a + k)
  BY DEF Bytes
<1> DEFINE w == Wrap(a)
           c == w + k
<1>2. w \in Address /\ b = Wrap(c)
  <2>1. k \in Int
    BY <1>1
  <2>2. QED
    BY <1>1, <2>1, Wrapped
<1>3. Space \in Nat \ {0} /\ w \in Nat /\ k \in Nat /\ c \in Nat
  BY <1>1, <1>2, SpaceIsPositive DEF Address
<1>4. PICK i \in DOMAIN Regions : Contains(Regions[i], w, n) /\ p \in Regions[i].perm
  BY DEF Inside
<1>5. Regions[i].start \in Nat /\ Regions[i].length \in Nat
  BY RegionType
<1>6. Regions[i].start + Regions[i].length <= Space
  BY DEF RegionsFit
<1> HIDE DEF w
<1>7. c + 1 <= Space
  BY <1>1, <1>3, <1>4, <1>5, <1>6 DEF Contains
<1>8. c \in Address
  BY <1>3, <1>7 DEF Address
<1>9. b = c
  BY <1>2, <1>3, <1>8, Wrapped
<1>10. Inside(w, n, p)
  BY <1>4 DEF Inside
<1>11. w <= c /\ c + 1 <= w + n
  BY <1>1, <1>3
<1> HIDE DEF c
<1>12. Inside(c, 1, p)
  BY <1>3, <1>10, <1>11, InsideParts
<1>13. QED
  BY <1>3, <1>9, <1>12

-----------------------------------------------------------------------------
(* The fast path.                                                          *)

(* A sum that stays within one address space of where it began and is not  *)
(* on the wrong side of it has not wrapped.                                *)
LEMMA NotWrapped ==
    ASSUME NEW base \in Address, NEW span \in Int,
           -(Space - 1) <= span, span <= Space - 1,
           ~(span > 0 /\ Wrap(base + span) < base),
           ~(span < 0 /\ base < Wrap(base + span))
    PROVE  base + span \in Address /\ Wrap(base + span) = base + span
<1>1. Space \in Nat \ {0} /\ base \in 0 .. Space - 1
  BY SpaceIsPositive DEF Address
<1> DEFINE a == base + span
<1>2. a \in Int
  BY <1>1
<1>3. Wrap(a) \in 0 .. Space - 1 /\ \E q \in Int : a = q * Space + Wrap(a)
  <2> HIDE DEF a
  <2>1. QED
    BY <1>1, <1>2, Remainder, Zenon DEF Wrap
<1>4. PICK q \in Int : a = q * Space + Wrap(a)
  BY <1>3
<1> DEFINE w == Wrap(a)
<1>5. a - w = q * Space /\ w \in 0 .. Space - 1
  <2>1. w \in Int /\ q * Space \in Int /\ a = q * Space + w
    BY <1>1, <1>3, <1>4
  <2> HIDE DEF a, w
  <2>2. QED
    BY <1>2, <1>3, <2>1 DEF w
<1>6. CASE q >= 1
  <2>1. q * Space >= Space
    BY <1>1, <1>6
  <2>2. q * Space \in Int
    BY <1>1
  <2>3. w < base /\ span > 0
    <3> HIDE DEF w
    <3>1. QED
      BY <1>1, <1>5, <2>1, <2>2
  <2>4. QED
    BY <2>3
<1>7. CASE q <= -1
  <2>1. q * Space <= -Space
    BY <1>1, <1>7
  <2>2. q * Space \in Int
    BY <1>1
  <2>3. base < w /\ span < 0
    <3> HIDE DEF w
    <3>1. QED
      BY <1>1, <1>5, <2>1, <2>2
  <2>4. QED
    BY <2>3
<1>8. CASE q = 0
  <2>1. w = a
    <3>1. w \in Int
      BY <1>1, <1>5
    <3> HIDE DEF w, a
    <3>2. QED
      BY <1>2, <1>4, <1>8, <3>1, <1>1 DEF w
  <2>2. QED
    BY <1>5, <2>1 DEF Address
<1>9. QED
  BY <1>6, <1>7, <1>8

(* If the whole range is permitted, and is not the whole address space,    *)
(* every element lies in the region that permits it and none wraps.        *)
LEMMA RangeInside ==
    ASSUME NEW base \in Address, NEW stride \in Int, NEW count \in Nat \ {0},
           NEW size \in Nat \ {0}, NEW p,
           HasRangePermission(base, stride, count, size, p),
           {base, Wrap(base + (count - 1) * stride)} # {0, Space - size},
           NEW k \in 0 .. count - 1
    PROVE  /\ Inside(Wrap(base + k * stride), size, p)
           /\ Wrap(base + k * stride) + size <= Space
<1> DEFINE span == (count - 1) * stride
           step == k * stride
           end  == Wrap(base + span)
           lo   == IF span >= 0 THEN base ELSE end
           hi   == IF span >= 0 THEN end ELSE base
           len  == (hi + size) - lo
<1>1. Space \in Nat \ {0} /\ base \in 0 .. Space - 1
  BY SpaceIsPositive DEF Address
<1>2. /\ step \in Int /\ span \in Int
      /\ (0 <= step /\ step <= span) \/ (span <= step /\ step <= 0 /\ (span < 0 \/ span = step))
  <2> DEFINE m == count - 1
  <2>1. k \in Nat /\ m \in Nat /\ k <= m
    OBVIOUS
  <2> HIDE DEF m
  <2>2. /\ k * stride \in Int /\ m * stride \in Int
        /\ stride >= 0 => 0 <= k * stride /\ k * stride <= m * stride
        /\ stride < 0 => m * stride <= k * stride /\ k * stride <= 0
    BY <2>1, Between, Zenon
  <2>3. span = m * stride
    BY DEF m
  <2> HIDE DEF span, step
  <2>4. QED
    BY <2>2, <2>3 DEF step
<1>3. /\ -(Space - 1) <= span /\ span <= Space - 1
      /\ ~(span > 0 /\ end < base)
      /\ ~(span < 0 /\ base < end)
      /\ hi + size <= Space
      /\ HasPermission(Regions, lo, Wrap(len), {p})
  <2>1. ~(count <= 0)
    OBVIOUS
  <2>2. QED
    BY <2>1, Zenon DEF HasRangePermission
<1>4. base + span \in Address /\ end = base + span
  <2> HIDE DEF span
  <2>1. QED
    BY <1>2, <1>3, NotWrapped, Zenon
<1>5. /\ lo \in 0 .. Space - 1 /\ hi \in 0 .. Space - 1
      /\ lo <= base + step /\ base + step <= hi
      /\ {lo, hi} = {base, end}
  <2> HIDE DEF span, step, end
  <2>1. end \in 0 .. Space - 1
    BY <1>4 DEF Address
  <2>2. QED
    BY <1>1, <1>2, <1>4, <2>1
<1>6. {base, end} # {0, Space - size}
  OBVIOUS
<1> HIDE DEF span, step, end, lo, hi
<1>7. len \in 0 .. Space - 1
  <2>1. lo <= hi
    BY <1>1, <1>2, <1>5
  <2>2. len \in Nat /\ len <= Space
    BY <1>1, <1>3, <1>5, <2>1
  <2>3. ASSUME len = Space PROVE FALSE
    <3>1. lo = 0 /\ hi = Space - size
      BY <1>1, <1>3, <1>5, <2>3
    <3>2. QED
      BY <1>5, <1>6, <3>1
  <2>4. QED
    BY <1>1, <2>2, <2>3
<1>8. Wrap(len) = len
  <2>1. len \in Int /\ len \in Address
    BY <1>7 DEF Address
  <2> HIDE DEF len
  <2>2. QED
    BY <2>1, Wrapped
<1>9. Inside(lo, len, p)
  BY <1>3, <1>8, AllowedInside
<1> DEFINE a == base + step
<1>10. a \in Nat /\ lo <= a /\ a + size <= lo + len /\ a + size <= Space
  BY <1>1, <1>2, <1>3, <1>5
<1>11. Wrap(a) = a
  <2>1. a \in Int /\ a \in Address
    BY <1>1, <1>10 DEF Address
  <2> HIDE DEF a
  <2>2. QED
    BY <2>1, Wrapped
<1>12. Inside(a, size, p)
  <2>1. lo \in Nat /\ len \in Nat
    BY <1>1, <1>5, <1>7
  <2> HIDE DEF a, len
  <2>2. QED
    BY <1>9, <1>10, <2>1, InsideParts
<1>13. QED
  BY <1>10, <1>11, <1>12 DEF a, step

-----------------------------------------------------------------------------
(* The visit of the elements.                                              *)

(* A set of numbers that is not empty has a least element, and Min is it.  *)
LEMMA Least ==
    ASSUME NEW T \in SUBSET Nat, T # {}
    PROVE  Min(T) \in T /\ \A y \in T : Min(T) <= y
<1> DEFINE R == OpToRel(<, Nat)
<1>1. IsWellFoundedOn(R, Nat)
  BY NatLessThanWellFounded
<1>2. \A y \in Nat, z \in Nat : y < z => <<y, z>> \in R
  BY DEF OpToRel
<1> HIDE DEF R
<1>3. PICK x \in T : \A y \in T : ~(<<y, x>> \in R)
  BY <1>1, WFMin
<1>4. ASSUME NEW y \in T PROVE x <= y
  <2>1. x \in Nat /\ y \in Nat /\ ~(y < x)
    BY <1>2, <1>3
  <2>2. QED
    BY <2>1
<1>5. QED
  BY <1>4 DEF Min

(* What the rest of the proof uses of a plan: its elements and fields are  *)
(* numbered, its checks are about bytes of addresses, and where there is a *)
(* fast path the checks of an element lie in the size it is asked about.   *)
Checked(plan, i, f) == i \in Visited(plan) /\ f \in DOMAIN plan.checks[i]

Shape(plan, perm) ==
    /\ plan.base \in Address /\ plan.start \in Nat /\ plan.count \in Nat
    /\ plan.perm = perm
    /\ plan.fast \in BOOLEAN
    /\ plan.fast => plan.stride \in Int /\ plan.size \in Nat \ {0}
    /\ \A i, f : Checked(plan, i, f) =>
          /\ f \in Nat
          /\ plan.checks[i][f].a \in Address
          /\ plan.checks[i][f].n \in Nat \ {0}
          /\ plan.checks[i][f].p = {perm}
          /\ plan.fast => \E d \in Nat :
                /\ plan.checks[i][f].a = Wrap(Wrap(plan.base + i * plan.stride) + d)
                /\ d + plan.checks[i][f].n <= plan.size

(* If ValidateVectorAccess finds nothing all checks that it makes hold,    *)
(* and what it finds is the first, in element and field order, that does   *)
(* not.                                                                    *)
LEMMA VisitFinds ==
    ASSUME NEW plan, NEW perm, Shape(plan, perm)
    PROVE  \/ /\ FirstFault(plan) = NoFault
              /\ \A i, f : Checked(plan, i, f) => Allowed(plan.checks[i][f])
           \/ /\ FirstFault(plan) # NoFault
              /\ \E i, f :
                    /\ Checked(plan, i, f) /\ ~Allowed(plan.checks[i][f])
                    /\ FirstFault(plan) = plan.checks[i][f].a
                    /\ \A j, g : Checked(plan, j, g) /\ ~Allowed(plan.checks[j][g])
                          => i < j \/ (i = j /\ f <= g)
<1> DEFINE faulty == {i \in Visited(plan) : Failing(plan, i) # {}}
<1>1. CASE faulty = {}
  <2>1. FirstFault(plan) = NoFault
    BY <1>1 DEF FirstFault
  <2>2. ASSUME NEW i, NEW f, Checked(plan, i, f), ~Allowed(plan.checks[i][f]) PROVE FALSE
    BY <1>1, <2>2, Zenon DEF Checked, Failing
  <2>3. QED
    BY <2>1, <2>2
<1>2. CASE faulty # {}
  <2>1. faulty \in SUBSET Nat
    BY DEF Shape, Visited
  <2> DEFINE i == Min(faulty)
  <2>2. i \in faulty /\ \A j \in faulty : i <= j
    <3> HIDE DEF faulty
    <3>1. QED
      BY <1>2, <2>1, Least, Zenon
  <2>3. i \in Visited(plan) /\ Failing(plan, i) # {}
    BY <2>2
  <2> DEFINE bad == Failing(plan, i)
             f   == Min(bad)
  <2>4. bad \in SUBSET Nat
    BY <2>3 DEF Failing, Shape, Checked
  <2>5. f \in bad /\ \A g \in bad : f <= g
    <3> HIDE DEF bad
    <3>1. bad # {}
      BY <2>3 DEF bad
    <3>2. QED
      BY <2>4, <3>1, Least, Zenon
  <2>6. Checked(plan, i, f) /\ ~Allowed(plan.checks[i][f])
    <3> HIDE DEF i, f
    <3>1. QED
      BY <2>3, <2>5 DEF Failing, Checked
  <2>7. FirstFault(plan) = plan.checks[i][f].a
    BY <1>2, Zenon DEF FirstFault
  <2>8. FirstFault(plan) # NoFault
    <3>1. plan.checks[i][f].a \in Address
      <4> HIDE DEF i, f
      <4>1. QED
        BY <2>6, Zenon DEF Shape
    <3> HIDE DEF i, f
    <3>2. Space \in Nat
      BY SpaceIsPositive
    <3>3. QED
      BY <2>7, <3>1, <3>2 DEF Address, NoFault
  <2>9. ASSUME NEW j, NEW g, Checked(plan, j, g), ~Allowed(plan.checks[j][g])
        PROVE  i < j \/ (i = j /\ f <= g)
    <3>1. j \in faulty
      BY <2>9, Zenon DEF Checked, Failing
    <3>2. i <= j /\ i \in Nat /\ j \in Nat
      BY <2>1, <2>2, <3>1
    <3>3. i = j => f <= g
      <4>1. ASSUME i = j PROVE g \in bad
        BY <2>9, <4>1, Zenon DEF Checked, Failing
      <4>2. QED
        BY <2>5, <4>1, Zenon
    <3> HIDE DEF i, f
    <3>4. QED
      BY <3>2, <3>3
  <2> HIDE DEF i, f
  <2>10. QED
    BY <2>6, <2>7, <2>8, <2>9, Zenon
<1>3. QED
  BY <1>1, <1>2

(* What the fast path lets through is inside one region with permission,   *)
(* every check of it that the visit would have made.                       *)
LEMMA FastInside ==
    ASSUME NEW plan, NEW perm, Shape(plan, perm), FastPath(plan),
           {Wrap(plan.base + plan.start * plan.stride),
            Wrap(plan.base + (plan.count - 1) * plan.stride)} # {0, Space - plan.size},
           NEW i, NEW f, Checked(plan, i, f)
    PROVE  Inside(plan.checks[i][f].a, plan.checks[i][f].n, perm)
<1> DEFINE base   == plan.base
           stride == plan.stride
           start  == plan.start
           size   == plan.size
           first  == Wrap(base + start * stride)
           count  == plan.count - start
           k      == i - start
           c      == plan.checks[i][f]
<1>1. /\ base \in Address /\ stride \in Int /\ start \in Nat /\ size \in Nat \ {0}
      /\ plan.count \in Nat /\ start < plan.count /\ plan.perm = perm
  BY DEF Shape, FastPath
<1>2. HasRangePermission(first, stride, count, size, perm)
  BY <1>1, Zenon DEF FastPath
<1>3. i \in Int /\ start <= i /\ i <= plan.count - 1
  BY <1>1 DEF Checked, Visited
<1>4. PICK d \in Nat : c.a = Wrap(Wrap(base + i * stride) + d) /\ d + c.n <= size
  BY <1>1, Zenon DEF Shape, FastPath
<1>5. c.n \in Nat \ {0}
  BY DEF Shape
<1>6. {first, Wrap(base + (plan.count - 1) * stride)} # {0, Space - size}
  OBVIOUS
<1> DEFINE total == plan.count
           n     == c.n
           a     == c.a
<1>7. total \in Nat
  BY <1>1
<1> HIDE DEF base, stride, start, size, total, c, n
<1>8. Space \in Nat \ {0} /\ base \in Nat
  BY <1>1, SpaceIsPositive DEF Address
<1>9. count \in Nat \ {0} /\ k \in 0 .. count - 1
  BY <1>1, <1>3, <1>7 DEF total
<1>10. ASSUME NEW j \in Int PROVE Wrap(first + (j - start) * stride) = Wrap(base + j * stride)
  <2> DEFINE s == base + start * stride
             t == (j - start) * stride
  <2>1. start * stride \in Int /\ j * stride \in Int /\ t \in Int
    BY <1>1
  <2>2. start * stride + t = j * stride
    <3> DEFINE h == j - start
    <3>1. h \in Int /\ start + h = j
      BY <1>1
    <3> HIDE DEF h
    <3>2. start * stride + h * stride = (start + h) * stride
      BY <1>1, <3>1, Factor
    <3>3. QED
      BY <3>1, <3>2 DEF h
  <2>3. s \in Int
    BY <1>8, <2>1
  <2>4. s + t = base + j * stride
    <3> DEFINE u == start * stride
               v == j * stride
    <3> HIDE DEF u, v, t
    <3>1. u \in Int /\ v \in Int /\ u + t = v
      BY <2>1, <2>2 DEF u, v
    <3>2. QED
      BY <1>8, <2>1, <3>1 DEF s, u, v
  <2>5. Wrap(Wrap(s) + t) = Wrap(s + t)
    <3> HIDE DEF s, t
    <3>1. QED
      BY <2>1, <2>3, Wrapped
  <2>6. QED
    BY <2>4, <2>5
<1>11. Wrap(first + (count - 1) * stride) = Wrap(base + (total - 1) * stride)
  <2>1. total - 1 \in Int /\ (total - 1) - start = count - 1
    BY <1>1, <1>7 DEF total
  <2>2. QED
    BY <1>10, <2>1
<1>12. first \in Address
  <2>1. base + start * stride \in Int
    BY <1>1, <1>8, start * stride \in Int
  <2>2. QED
    BY <2>1, Wrapped
<1>13. {first, Wrap(first + (count - 1) * stride)} # {0, Space - size}
  BY <1>6, <1>11 DEF total
<1> DEFINE e == Wrap(first + k * stride)
<1>14. Inside(e, size, perm) /\ e + size <= Space
  <2> HIDE DEF first, count, k
  <2>1. QED
    BY <1>1, <1>2, <1>9, <1>12, <1>13, RangeInside
<1>15. e = Wrap(base + i * stride) /\ e \in Address
  <2>1. e = Wrap(base + i * stride)
    BY <1>3, <1>10
  <2>2. base + i * stride \in Int
    BY <1>1, <1>3, <1>8, i * stride \in Int
  <2>3. QED
    BY <2>1, <2>2, Wrapped
<1> HIDE DEF e, first, count, k
<1>16. a = Wrap(e + d) /\ d + n <= size /\ n \in Nat \ {0}
  BY <1>4, <1>5, <1>15 DEF n
<1>17. e \in Nat /\ e + d \in Address
  BY <1>1, <1>8, <1>14, <1>15, <1>16 DEF Address
<1>18. a = e + d
  <2> DEFINE g == e + d
  <2>1. g \in Int /\ g \in Address
    BY <1>17
  <2> HIDE DEF g
  <2>2. Wrap(g) = g
    BY <2>1, Wrapped
  <2>3. QED
    BY <1>16, <2>2 DEF g
<1>19. a \in Nat /\ e <= a /\ a + n <= e + size
  BY <1>1, <1>16, <1>17, <1>18
<1> HIDE DEF a
<1>20. Inside(a, n, perm)
  BY <1>1, <1>14, <1>16, <1>17, <1>19, InsideParts
<1>21. QED
  BY <1>20 DEF a, n, c

-----------------------------------------------------------------------------
(* The plans.  What a completed instruction touches, and what the          *)
(* instruction set asks for, in terms of the checks of a plan.             *)
Covers(plan, bytes) ==
    \A b \in bytes : \E i, f :
        /\ Checked(plan, i, f)
        /\ \E a \in Int : /\ plan.checks[i][f].a = Wrap(a)
                          /\ b \in Bytes(a, plan.checks[i][f].n)

Matches(plan, units) ==
    /\ \A u \in DOMAIN units :
          Checked(plan, u[1], u[2]) /\ units[u] = plan.checks[u[1]][u[2]]
    /\ \A i, f : Checked(plan, i, f) =>
          <<i, f>> \in DOMAIN units /\ units[<<i, f>>] = plan.checks[i][f]

(* A check asks about an address of the space.                             *)
LEMMA CheckType ==
    ASSUME NEW a \in Int, NEW n, NEW p
    PROVE  /\ Check(a, n, p).a = Wrap(a) /\ Check(a, n, p).a \in Address
           /\ Check(a, n, p).n = n /\ Check(a, n, p).p = {p}
  BY Wrapped DEF Check

(* The parts of a plan that do not depend on its checks.                   *)
Frame(plan, x, count) ==
    /\ plan.base = x.base /\ x.base \in Address
    /\ plan.start \in Nat /\ plan.count = count /\ count \in Nat
    /\ plan.perm = x.perm

(* A plan with one check for each element.                                 *)
LEMMA RowPlan ==
    ASSUME NEW plan, NEW x, NEW count, Frame(plan, x, count), plan.fast = TRUE,
           plan.stride \in Int, plan.size \in Nat \ {0},
           plan.checks = OneEach(x, count, plan.stride, plan.size)
    PROVE  /\ Shape(plan, x.perm)
           /\ \A i, f : Checked(plan, i, f) <=> i \in Visited(plan) /\ f = 1
           /\ \A i \in Visited(plan) :
                 plan.checks[i][1] = Check(x.base + i * plan.stride, plan.size, x.perm)
<1> DEFINE stride == plan.stride
           size   == plan.size
           At(i)  == x.base + i * stride
<1>1. x.base \in Nat /\ count \in Nat /\ plan.start \in Nat /\ plan.count = count
  BY SpaceIsPositive DEF Frame, Address
<1>2. ASSUME NEW i \in Visited(plan)
      PROVE  i \in 0 .. count - 1 /\ plan.checks[i] = <<Check(At(i), size, x.perm)>>
  <2>1. i \in 0 .. count - 1
    BY <1>1 DEF Visited
  <2>2. QED
    BY <2>1 DEF OneEach
<1>3. \A i, f : Checked(plan, i, f) <=> i \in Visited(plan) /\ f = 1
  <2>1. ASSUME NEW i \in Visited(plan) PROVE DOMAIN plan.checks[i] = {1}
    BY <1>2, <2>1
  <2>2. QED
    BY <2>1 DEF Checked
<1>4. \A i \in Visited(plan) : plan.checks[i][1] = Check(At(i), size, x.perm)
  BY <1>2
<1>5. ASSUME NEW i \in Visited(plan)
      PROVE  /\ plan.checks[i][1].a \in Address
             /\ plan.checks[i][1].a = Wrap(Wrap(At(i)) + 0)
             /\ plan.checks[i][1].n = size
             /\ plan.checks[i][1].p = {x.perm}
  <2>1. At(i) \in Int
    <3>1. i \in Int
      BY <1>1, <1>2
    <3>2. QED
      BY <1>1, <3>1, i * stride \in Int
  <2> HIDE DEF At
  <2>2. Wrap(Wrap(At(i)) + 0) = Wrap(At(i))
    <3>1. At(i) + 0 = At(i) /\ 0 \in Int
      BY <2>1
    <3>2. Wrap(Wrap(At(i)) + 0) = Wrap(At(i) + 0)
      BY <2>1, <3>1, Wrapped, Zenon
    <3>3. QED
      BY <3>1, <3>2
  <2>3. QED
    BY <1>4, <2>1, <2>2, CheckType
<1>6. Shape(plan, x.perm)
  <2>1. ASSUME NEW i, NEW f, Checked(plan, i, f)
        PROVE  /\ f \in Nat
               /\ plan.checks[i][f].a \in Address
               /\ plan.checks[i][f].n \in Nat \ {0}
               /\ plan.checks[i][f].p = {x.perm}
               /\ \E d \in Nat :
                     /\ plan.checks[i][f].a = Wrap(Wrap(plan.base + i * plan.stride) + d)
                     /\ d + plan.checks[i][f].n <= plan.size
    <3>1. f = 1 /\ i \in Visited(plan)
      BY <1>3, <2>1
    <3>2. 0 \in Nat /\ 0 + size <= size
      OBVIOUS
    <3>3. QED
      BY <1>5, <3>1, <3>2 DEF Frame
  <2>2. QED
    BY <2>1 DEF Shape, Frame
<1>7. QED
  BY <1>3, <1>4, <1>6

(* A plan with one check for each field of each element, whose address is  *)
(* at[i], and the checks that it makes.                                    *)
ByFields(plan, x, count, at) ==
    /\ Frame(plan, x, count) /\ plan.fast \in BOOLEAN
    /\ x.size \in Nat \ {0} /\ x.fields \in Nat \ {0}
    /\ at \in [0 .. count - 1 -> Int]
    /\ \A i \in 0 .. count - 1 : plan.checks[i] = FieldChecks(x, Wrap(at[i]))
    /\ plan.fast => /\ plan.stride \in Int /\ plan.size = x.fields * x.size
                    /\ \A i \in 0 .. count - 1 : at[i] = x.base + i * plan.stride

IsFields(plan, x, at) ==
    /\ \A i, f : Checked(plan, i, f) <=> i \in Visited(plan) /\ f \in 1 .. x.fields
    /\ \A i \in Visited(plan), f \in 1 .. x.fields :
          plan.checks[i][f] = Check(at[i] + (f - 1) * x.size, x.size, x.perm)

(* Such a plan has the shape that the visit needs.                         *)
LEMMA FieldPlan ==
    ASSUME NEW plan, NEW x, NEW count, NEW at, ByFields(plan, x, count, at)
    PROVE  Shape(plan, x.perm) /\ IsFields(plan, x, at)
<1> SUFFICES ASSUME Frame(plan, x, count), plan.fast \in BOOLEAN,
                    x.size \in Nat \ {0}, x.fields \in Nat \ {0},
                    at \in [0 .. count - 1 -> Int],
                    \A i \in 0 .. count - 1 : plan.checks[i] = FieldChecks(x, Wrap(at[i])),
                    plan.fast => /\ plan.stride \in Int /\ plan.size = x.fields * x.size
                                 /\ \A i \in 0 .. count - 1 : at[i] = x.base + i * plan.stride
             PROVE  Shape(plan, x.perm) /\ IsFields(plan, x, at)
  BY DEF ByFields
<1> DEFINE size   == x.size
           fields == x.fields
<1>1. count \in Nat /\ plan.start \in Nat /\ plan.count = count
  BY DEF Frame
<1>2. Visited(plan) \subseteq 0 .. count - 1
  BY <1>1 DEF Visited
<1>3. \A i, f : Checked(plan, i, f) <=> i \in Visited(plan) /\ f \in 1 .. fields
  BY <1>2 DEF Checked, FieldChecks
<1>4. ASSUME NEW f \in 1 .. fields
      PROVE  /\ (f - 1) * size \in Nat
             /\ (f - 1) * size + size <= fields * size
  <2> DEFINE m == f - 1
  <2>1. m \in Nat /\ m + 1 <= fields
    OBVIOUS
  <2> HIDE DEF m, size, fields
  <2>2. size \in Nat /\ fields \in Nat
    BY DEF size, fields
  <2>3. (m + 1) * size <= fields * size /\ (m + 1) * size = m * size + size
    BY <2>1, <2>2
  <2>4. m * size \in Nat
    BY <2>1, <2>2
  <2>5. QED
    BY <2>3, <2>4 DEF m
<1>5. ASSUME NEW i \in Visited(plan), NEW f \in 1 .. fields
      PROVE  /\ plan.checks[i][f] = Check(Wrap(at[i]) + (f - 1) * size, size, x.perm)
             /\ plan.checks[i][f] = Check(at[i] + (f - 1) * size, size, x.perm)
             /\ plan.checks[i][f].a \in Address
             /\ plan.checks[i][f].a = Wrap(Wrap(at[i]) + (f - 1) * size)
             /\ plan.checks[i][f].n = size
             /\ plan.checks[i][f].p = {x.perm}
  <2> DEFINE d == (f - 1) * size
             a == Wrap(at[i])
             e == a + d
  <2>1. at[i] \in Int /\ d \in Int /\ i \in 0 .. count - 1
    BY <1>2, <1>4
  <2>2. plan.checks[i][f] = Check(e, size, x.perm)
    BY <2>1 DEF FieldChecks
  <2> HIDE DEF d
  <2>3. a \in Address /\ Wrap(e) = Wrap(at[i] + d)
    BY <2>1, Wrapped
  <2>4. e \in Int /\ at[i] + d \in Int
    <3> HIDE DEF a
    <3>1. Space \in Nat
      BY SpaceIsPositive
    <3>2. QED
      BY <2>1, <2>3, <3>1 DEF Address
  <2> HIDE DEF e
  <2>5. Check(e, size, x.perm) = Check(at[i] + d, size, x.perm)
    BY <2>3 DEF Check
  <2>6. /\ plan.checks[i][f].a \in Address /\ plan.checks[i][f].a = Wrap(e)
        /\ plan.checks[i][f].n = size /\ plan.checks[i][f].p = {x.perm}
    BY <2>2, <2>4, CheckType
  <2>7. QED
    BY <2>2, <2>5, <2>6 DEF d, e
<1>6. Shape(plan, x.perm)
  <2>1. ASSUME NEW i, NEW f, Checked(plan, i, f)
        PROVE  /\ f \in Nat
               /\ plan.checks[i][f].a \in Address
               /\ plan.checks[i][f].n \in Nat \ {0}
               /\ plan.checks[i][f].p = {x.perm}
               /\ plan.fast => \E d \in Nat :
                     /\ plan.checks[i][f].a = Wrap(Wrap(plan.base + i * plan.stride) + d)
                     /\ d + plan.checks[i][f].n <= plan.size
    <3>1. f \in 1 .. fields /\ i \in Visited(plan) /\ i \in 0 .. count - 1
      BY <1>2, <1>3, <2>1
    <3>2. ASSUME plan.fast
          PROVE  \E d \in Nat :
                     /\ plan.checks[i][f].a = Wrap(Wrap(plan.base + i * plan.stride) + d)
                     /\ d + plan.checks[i][f].n <= plan.size
      <4> DEFINE d == (f - 1) * size
      <4>1. d \in Nat /\ d + size <= plan.size
        BY <1>4, <3>1, <3>2
      <4>2. plan.checks[i][f].n = size /\ plan.checks[i][f].a = Wrap(Wrap(at[i]) + d)
        BY <1>5, <3>1
      <4>3. at[i] = plan.base + i * plan.stride
        BY <3>1, <3>2 DEF Frame
      <4> HIDE DEF d
      <4>4. QED
        BY <4>1, <4>2, <4>3, Zenon
    <3>3. /\ plan.checks[i][f].a \in Address
          /\ plan.checks[i][f].n = size
          /\ plan.checks[i][f].p = {x.perm}
      BY <1>5, <3>1
    <3>4. f \in Nat /\ size \in Nat \ {0}
      BY <3>1
    <3>5. QED
      BY <3>2, <3>3, <3>4, Zenon
  <2>2. plan.fast => plan.stride \in Int /\ plan.size \in Nat \ {0}
    <3>1. fields * size \in Nat \ {0}
      OBVIOUS
    <3>2. QED
      BY <3>1
  <2>3. QED
    BY <2>1, <2>2 DEF Shape, Frame
<1>7. QED
  BY <1>3, <1>5, <1>6 DEF IsFields

(* Bytes in a row are the bytes of its pieces.                             *)
LEMMA Pieces ==
    ASSUME NEW a \in Int, NEW n \in Nat, NEW w \in Nat \ {0}, NEW b \in Bytes(a, n * w)
    PROVE  \E i \in 0 .. n - 1 : b \in Bytes(a + i * w, w)
<1>1. PICK k \in 0 .. (n * w) - 1 : b = Wrap(a + k)
  BY DEF Bytes
<1>2. n * w \in Nat
  OBVIOUS
<1>3. k \in Nat /\ k < n * w
  BY <1>1, <1>2
<1>4. k % w \in 0 .. w - 1 /\ \E q \in Int : k = q * w + (k % w)
  <2>1. k \in Int
    BY <1>3
  <2>2. QED
    BY <2>1, Remainder, Zenon
<1>5. PICK i \in Int : k = i * w + (k % w)
  BY <1>4
<1> DEFINE r == k % w
<1>6. r \in 0 .. w - 1 /\ i * w \in Int /\ k = i * w + r
  BY <1>4, <1>5
<1> HIDE DEF r
<1>7. i \in 0 .. n - 1
  <2>1. ASSUME i <= -1 PROVE FALSE
    <3>1. i * w <= -w
      BY <2>1
    <3>2. QED
      BY <1>3, <1>6, <3>1
  <2>2. ASSUME n <= i PROVE FALSE
    <3>1. n * w <= i * w
      BY <2>2
    <3>2. QED
      BY <1>2, <1>3, <1>6, <3>1
  <2>3. QED
    BY <2>1, <2>2
<1>8. a + k = (a + i * w) + r
  BY <1>3, <1>6
<1>9. b \in Bytes(a + i * w, w)
  BY <1>1, <1>6, <1>8 DEF Bytes
<1>10. QED
  BY <1>7, <1>9

(* The two kinds of plans cover what their elements touch.                 *)
IsRow(plan, x) ==
    /\ \A i, f : Checked(plan, i, f) <=> i \in Visited(plan) /\ f = 1
    /\ \A i \in Visited(plan) :
          plan.checks[i][1] = Check(x.base + i * plan.stride, plan.size, x.perm)

(* ... one check for each element,                                         *)
LEMMA RowCovers ==
    ASSUME NEW plan, NEW x, IsRow(plan, x), x.base \in Int, plan.stride \in Int,
           Visited(plan) \subseteq Int, NEW bytes,
           \A b \in bytes : \E i \in Visited(plan) :
               b \in Bytes(x.base + i * plan.stride, plan.size)
    PROVE  Covers(plan, bytes)
<1> SUFFICES ASSUME NEW b \in bytes
             PROVE  \E i, f :
                        /\ Checked(plan, i, f)
                        /\ \E a \in Int : /\ plan.checks[i][f].a = Wrap(a)
                                          /\ b \in Bytes(a, plan.checks[i][f].n)
  BY DEF Covers
<1>1. PICK i \in Visited(plan) : b \in Bytes(x.base + i * plan.stride, plan.size)
  OBVIOUS
<1> DEFINE a == x.base + i * plan.stride
<1>2. a \in Int
  <2>1. i \in Int
    OBVIOUS
  <2>2. QED
    BY <2>1, i * plan.stride \in Int
<1>3. Checked(plan, i, 1) /\ plan.checks[i][1] = Check(a, plan.size, x.perm)
  BY DEF IsRow
<1>4. b \in Bytes(a, plan.size)
  BY <1>1
<1> HIDE DEF a
<1>5. plan.checks[i][1].a = Wrap(a) /\ plan.checks[i][1].n = plan.size
  BY <1>2, <1>3, CheckType
<1>6. QED
  BY <1>2, <1>3, <1>4, <1>5

(* ... or one for each field.                                              *)
LEMMA FieldsCover ==
    ASSUME NEW plan, NEW x, NEW at, IsFields(plan, x, at),
           x.size \in Nat \ {0}, x.fields \in Nat \ {0},
           \A i \in Visited(plan) : at[i] \in Int, NEW bytes,
           \A b \in bytes : \E i \in Visited(plan) : b \in Bytes(at[i], x.fields * x.size)
    PROVE  Covers(plan, bytes)
<1> SUFFICES ASSUME NEW b \in bytes
             PROVE  \E i, f :
                        /\ Checked(plan, i, f)
                        /\ \E a \in Int : /\ plan.checks[i][f].a = Wrap(a)
                                          /\ b \in Bytes(a, plan.checks[i][f].n)
  BY DEF Covers
<1>1. PICK i \in Visited(plan) : b \in Bytes(at[i], x.fields * x.size)
  OBVIOUS
<1>2. x.fields \in Nat /\ at[i] \in Int
  OBVIOUS
<1>3. PICK k \in 0 .. x.fields - 1 : b \in Bytes(at[i] + k * x.size, x.size)
  BY <1>1, <1>2, Pieces
<1> DEFINE f == k + 1
           a == at[i] + k * x.size
<1>4. f \in 1 .. x.fields /\ f - 1 = k
  OBVIOUS
<1>5. a \in Int
  BY <1>2, k * x.size \in Int
<1>6. Checked(plan, i, f) /\ plan.checks[i][f] = Check(a, x.size, x.perm)
  BY <1>4 DEF IsFields
<1>7. b \in Bytes(a, x.size)
  BY <1>3
<1> HIDE DEF a, f
<1>8. plan.checks[i][f].a = Wrap(a) /\ plan.checks[i][f].n = x.size
  BY <1>5, <1>6, CheckType
<1>9. QED
  BY <1>5, <1>6, <1>7, <1>8

(* They match the accesses that the instruction set asks for.              *)
LEMMA RowMatches ==
    ASSUME NEW plan, NEW x, IsRow(plan, x), NEW units,
           units = [u \in Visited(plan) \X {1} |->
                       Check(x.base + u[1] * plan.stride, plan.size, x.perm)]
    PROVE  Matches(plan, units)
<1>1. DOMAIN units = Visited(plan) \X {1}
  OBVIOUS
<1>2. ASSUME NEW u \in DOMAIN units
      PROVE  Checked(plan, u[1], u[2]) /\ units[u] = plan.checks[u[1]][u[2]]
  <2>1. u[1] \in Visited(plan) /\ u[2] = 1
    BY <1>1
  <2>2. units[u] = Check(x.base + u[1] * plan.stride, plan.size, x.perm)
    BY <1>1
  <2>3. QED
    BY <2>1, <2>2 DEF IsRow
<1>3. ASSUME NEW i, NEW f, Checked(plan, i, f)
      PROVE  <<i, f>> \in DOMAIN units /\ units[<<i, f>>] = plan.checks[i][f]
  <2>1. i \in Visited(plan) /\ f = 1
    BY <1>3 DEF IsRow
  <2>2. <<i, f>> \in DOMAIN units /\ <<i, f>>[1] = i
    BY <1>1, <2>1
  <2>3. QED
    BY <1>2, <2>1, <2>2
<1>4. QED
  BY <1>2, <1>3 DEF Matches

(* ... and so do those of fields.                                          *)
LEMMA FieldsMatch ==
    ASSUME NEW plan, NEW x, NEW at, IsFields(plan, x, at), NEW units,
           units = [u \in Visited(plan) \X (1 .. x.fields) |->
                       Check(at[u[1]] + (u[2] - 1) * x.size, x.size, x.perm)]
    PROVE  Matches(plan, units)
<1>1. DOMAIN units = Visited(plan) \X (1 .. x.fields)
  OBVIOUS
<1>2. ASSUME NEW u \in DOMAIN units
      PROVE  Checked(plan, u[1], u[2]) /\ units[u] = plan.checks[u[1]][u[2]]
  <2>1. u[1] \in Visited(plan) /\ u[2] \in 1 .. x.fields
    BY <1>1
  <2>2. units[u] = Check(at[u[1]] + (u[2] - 1) * x.size, x.size, x.perm)
    BY <1>1
  <2>3. QED
    BY <2>1, <2>2 DEF IsFields
<1>3. ASSUME NEW i, NEW f, Checked(plan, i, f)
      PROVE  <<i, f>> \in DOMAIN units /\ units[<<i, f>>] = plan.checks[i][f]
  <2>1. i \in Visited(plan) /\ f \in 1 .. x.fields
    BY <1>3 DEF IsFields
  <2>2. <<i, f>> \in DOMAIN units /\ <<i, f>>[1] = i /\ <<i, f>>[2] = f
    BY <1>1, <2>1
  <2>3. QED
    BY <1>2, <2>1, <2>2
<1>4. QED
  BY <1>2, <1>3 DEF Matches

(* The plan of every vector instruction has this shape, covers what the    *)
(* instruction touches and matches what the instruction set asks for.      *)
Sound(x) ==
    LET plan == Plan(x)
    IN  Shape(plan, x.perm) /\ Covers(plan, Touches(x)) /\ Matches(plan, Units(x))

(* vlse, vsse and their unit-stride forms: one check for each element.     *)
LEMMA StridedSound ==
    ASSUME NEW x \in Instructions, x.op = "strided"
    PROVE  Sound(x)
<1> DEFINE plan == StridedAccess(x)
<1>1. /\ x.base \in Address /\ x.size \in Nat \ {0} /\ x.vl \in Nat /\ x.vstart \in Nat
      /\ x.stride \in Int
  BY V2Constants DEF WellTyped, VectorOps, ScalarOps, Positive
<1>2. Plan(x) = plan
  BY DEF Plan
<1>3. Frame(plan, x, x.vl) /\ plan.fast = TRUE /\ plan.start = x.vstart
  BY <1>1 DEF StridedAccess, StridedPlan, Frame
<1>4. /\ plan.stride = x.stride /\ plan.size = x.size
      /\ plan.checks = OneEach(x, x.vl, x.stride, x.size)
  BY DEF StridedAccess, StridedPlan
<1>5. Visited(plan) = Active(x)
  BY DEF StridedAccess, StridedPlan, Visited, Active, CheckVectorMask
<1> HIDE DEF plan
<1>6. Shape(plan, x.perm) /\ IsRow(plan, x)
  BY <1>1, <1>3, <1>4, RowPlan DEF IsRow
<1>7. Touches(x) = UNION {Bytes(x.base + i * x.stride, x.size) : i \in Active(x)}
  BY DEF Touches
<1>8. Units(x) = [u \in Active(x) \X {1} |-> Check(x.base + u[1] * x.stride, x.size, x.perm)]
  BY DEF Units
<1>9. x.base \in Int /\ Visited(plan) \subseteq Int
  BY <1>1, <1>5, SpaceIsPositive DEF Address, Active
<1>10. Covers(plan, Touches(x))
  <2>1. \A b \in Touches(x) : \E i \in Visited(plan) :
            b \in Bytes(x.base + i * plan.stride, plan.size)
    BY <1>4, <1>5, <1>7
  <2>2. plan.stride \in Int
    BY <1>1, <1>4
  <2>3. QED
    BY <1>6, <1>9, <2>1, <2>2, RowCovers
<1>11. Matches(plan, Units(x))
  <2>1. Units(x) = [u \in Visited(plan) \X {1} |->
                     Check(x.base + u[1] * plan.stride, plan.size, x.perm)]
    BY <1>4, <1>5, <1>8
  <2>2. QED
    BY <1>6, <2>1, RowMatches, Zenon
<1>12. QED
  BY <1>2, <1>6, <1>10, <1>11 DEF Sound

(* vlseg and vsseg: one check for each segment.                            *)
LEMMA SegmentSound ==
    ASSUME NEW x \in Instructions, x.op = "segment"
    PROVE  Sound(x)
<1> DEFINE plan == SegmentAccess(x)
           seg  == x.fields * x.size
<1>1. /\ x.base \in Address /\ x.size \in Nat \ {0} /\ x.vl \in Nat /\ x.vstart \in Nat
      /\ x.fields \in Nat \ {0}
  BY V2Constants DEF WellTyped, VectorOps, ScalarOps, Positive
<1>2. Plan(x) = plan
  BY DEF Plan
<1>3. seg \in Nat \ {0}
  BY <1>1
<1>4. Frame(plan, x, x.vl) /\ plan.fast = TRUE /\ plan.start = x.vstart
  BY <1>1 DEF SegmentAccess, StridedPlan, Frame
<1>5. plan.stride = seg /\ plan.size = seg /\ plan.checks = OneEach(x, x.vl, seg, seg)
  BY DEF SegmentAccess, StridedPlan
<1>6. Visited(plan) = Active(x)
  BY DEF SegmentAccess, StridedPlan, Visited, Active, CheckVectorMask
<1> HIDE DEF plan
<1>7. Shape(plan, x.perm) /\ IsRow(plan, x)
  <2> HIDE DEF seg
  <2>1. plan.stride \in Int /\ plan.size \in Nat \ {0}
    BY <1>3, <1>5
  <2>2. QED
    BY <1>4, <1>5, <2>1, RowPlan DEF IsRow
<1>8. x.base \in Int /\ Visited(plan) \subseteq Int
  BY <1>1, <1>6, SpaceIsPositive DEF Address, Active
<1>9. Touches(x) = UNION {Bytes(x.base + i * x.fields * x.size, seg) : i \in Active(x)}
  BY DEF Touches
<1>10. ASSUME NEW i \in Active(x) PROVE i * x.fields * x.size = i * seg
  <2>1. i \in Int
    BY <1>6, <1>8
  <2>2. QED
    BY <1>1, <2>1
<1>11. Units(x) = [u \in Active(x) \X {1} |-> Check(x.base + u[1] * seg, seg, x.perm)]
  BY DEF Units
<1> HIDE DEF seg
<1>12. Covers(plan, Touches(x))
  <2>1. \A b \in Touches(x) : \E i \in Visited(plan) :
            b \in Bytes(x.base + i * plan.stride, plan.size)
    BY <1>5, <1>6, <1>9, <1>10
  <2>2. plan.stride \in Int
    BY <1>3, <1>5
  <2>3. QED
    BY <1>7, <1>8, <2>1, <2>2, RowCovers
<1>13. Matches(plan, Units(x))
  <2>1. Units(x) = [u \in Visited(plan) \X {1} |->
                     Check(x.base + u[1] * plan.stride, plan.size, x.perm)]
    BY <1>5, <1>6, <1>11
  <2>2. QED
    BY <1>7, <2>1, RowMatches, Zenon
<1>14. QED
  BY <1>2, <1>7, <1>12, <1>13 DEF Sound

(* Whole elements in a row from the base, each w bytes, and all visited:   *)
(* vlm, vsm, vl<n>r and vs<n>r.                                            *)
IsWhole(plan, x, n, w) ==
    /\ Frame(plan, x, n) /\ plan.fast = TRUE /\ plan.start = 0 /\ plan.masked = FALSE
    /\ plan.stride = w /\ plan.size = w /\ plan.checks = OneEach(x, n, w, w)

WholeUnits(x, n, w) ==
    [u \in (0 .. n - 1) \X {1} |-> Check(x.base + u[1] * w, w, x.perm)]

(* Such a plan covers the bytes of its elements and matches them.          *)
LEMMA WholeRow ==
    ASSUME NEW x, NEW plan, NEW n \in Nat, NEW w \in Nat \ {0}, IsWhole(plan, x, n, w)
    PROVE  /\ Shape(plan, x.perm)
           /\ Covers(plan, Bytes(x.base, n * w))
           /\ Matches(plan, WholeUnits(x, n, w))
<1> USE DEF IsWhole
<1> DEFINE units == WholeUnits(x, n, w)
<1>1. w \in Int /\ x.base \in Int
  BY SpaceIsPositive DEF Frame, Address
<1>2. Shape(plan, x.perm) /\ IsRow(plan, x)
  BY <1>1, RowPlan DEF IsRow
<1>3. Visited(plan) = 0 .. n - 1
  BY DEF Visited, Frame
<1>4. Covers(plan, Bytes(x.base, n * w))
  <2>1. ASSUME NEW b \in Bytes(x.base, n * w)
        PROVE  \E i \in Visited(plan) : b \in Bytes(x.base + i * plan.stride, plan.size)
    BY <1>1, <1>3, <2>1, Pieces
  <2>2. Visited(plan) \subseteq Int
    BY <1>3
  <2>3. plan.stride \in Int
    BY <1>1
  <2>4. QED
    BY <1>1, <1>2, <2>1, <2>2, <2>3, RowCovers
<1>5. Matches(plan, units)
  <2>1. units = [u \in Visited(plan) \X {1} |->
                     Check(x.base + u[1] * plan.stride, plan.size, x.perm)]
    BY <1>3 DEF WholeUnits
  <2>2. QED
    BY <1>2, <2>1, RowMatches, Zenon
<1>6. QED
  BY <1>2, <1>4, <1>5

(* A number is made of one quotient and one remainder.                     *)
LEMMA Quotient ==
    ASSUME NEW q \in Nat, NEW n \in Nat \ {0}, NEW r \in 0 .. n - 1
    PROVE  (q * n + r) \div n = q
  OBVIOUS

(* What divides a register divides a group of registers.                   *)
LEMMA Divides ==
    ASSUME NEW m \in Nat, NEW w \in Nat \ {0}, m % w = 0
    PROVE  /\ m \div w \in Nat /\ m = (m \div w) * w
           /\ \A r \in Nat : (m * r) \div w \in Nat /\ ((m * r) \div w) * w = m * r
<1>1. m \in Int
  OBVIOUS
<1>2. PICK q \in Int : m = q * w + (m % w)
  BY <1>1, Remainder, Zenon
<1>3. m = q * w
  BY <1>2, q * w \in Int
<1>4. q \in Nat
  <2>1. ASSUME q <= -1 PROVE FALSE
    <3>1. q * w <= -w
      BY <2>1
    <3>2. QED
      BY <1>3, <3>1
  <2>2. QED
    BY <2>1
<1>5. ASSUME NEW k \in Nat PROVE (k * w) \div w = k
  <2>1. 0 \in 0 .. w - 1 /\ k * w \in Int
    OBVIOUS
  <2>2. (k * w + 0) \div w = k
    BY <2>1, Quotient, Zenon
  <2>3. k * w + 0 = k * w
    BY <2>1
  <2>4. QED
    BY <2>2, <2>3
<1>6. m \div w = q
  BY <1>3, <1>4, <1>5
<1>7. ASSUME NEW r \in Nat
      PROVE  (m * r) \div w \in Nat /\ ((m * r) \div w) * w = m * r
  <2> DEFINE k == q * r
  <2>1. k \in Nat
    BY <1>4
  <2>2. m * r = k * w
    BY <1>3
  <2> HIDE DEF k
  <2>3. (k * w) \div w = k
    BY <1>5, <2>1
  <2>4. QED
    BY <2>1, <2>2, <2>3
<1>8. QED
  BY <1>3, <1>4, <1>6, <1>7

(* vlm and vsm: the bytes of a mask, from the base.                        *)
LEMMA MaskSound ==
    ASSUME NEW x \in Instructions, x.op = "mask"
    PROVE  Sound(x)
<1> DEFINE plan == MaskAccess(x)
           n    == (x.vl + 7) \div 8
<1>1. x.base \in Address /\ x.vl \in Nat
  BY V2Constants DEF WellTyped, VectorOps
<1>2. n \in Nat
  BY <1>1
<1>3. Plan(x) = plan
  BY DEF Plan
<1>4. IsWhole(plan, x, n, 1)
  BY <1>1, <1>2 DEF MaskAccess, StridedPlan, Frame, IsWhole
<1>5. Touches(x) = Bytes(x.base, n)
  BY DEF Touches
<1>6. Units(x) = [u \in (0 .. n - 1) \X {1} |-> Check(x.base + u[1], 1, x.perm)]
  BY DEF Units
<1> HIDE DEF n, plan
<1>7. Units(x) = WholeUnits(x, n, 1)
  BY <1>6 DEF WholeUnits
<1>8. n * 1 = n /\ 1 \in Nat \ {0}
  BY <1>2
<1>9. Shape(plan, x.perm) /\ Covers(plan, Bytes(x.base, n * 1)) /\ Matches(plan, Units(x))
  BY <1>2, <1>4, <1>7, <1>8, WholeRow, Zenon
<1>10. QED
  BY <1>3, <1>5, <1>8, <1>9 DEF Sound

(* vl<n>r and vs<n>r: whole registers, from the base; a store asks about   *)
(* eight bytes at a time.                                                  *)
LEMMA RegisterSound ==
    ASSUME NEW x \in Instructions, x.op = "register"
    PROVE  Sound(x)
<1> DEFINE plan == RegisterAccess(x)
           w    == IF x.perm = "write" THEN 8 ELSE x.size
           n    == (RegBytes * x.regs) \div w
<1>1. /\ x.base \in Address /\ x.size \in Nat \ {0} /\ x.regs \in Nat
      /\ RegBytes \in Nat \ {0} /\ RegBytes % 8 = 0 /\ RegBytes % x.size = 0
  BY V2Constants DEF WellTyped, VectorOps, ScalarOps, Positive
<1>2. w \in Nat \ {0} /\ RegBytes \in Nat /\ RegBytes % w = 0
  BY <1>1
<1>3. n \in Nat /\ n * w = RegBytes * x.regs
  <2> HIDE DEF w
  <2>1. \A r \in Nat : (RegBytes * r) \div w \in Nat /\ ((RegBytes * r) \div w) * w = RegBytes * r
    BY <1>2, Divides, Zenon
  <2>2. QED
    BY <1>1, <2>1, Zenon
<1>4. Plan(x) = plan
  BY DEF Plan
<1>5. IsWhole(plan, x, n, w)
  <2> HIDE DEF w
  <2>1. plan = StridedPlan(x, n, TRUE, FALSE, w, w, OneEach(x, n, w, w))
    BY DEF RegisterAccess, w
  <2> HIDE DEF plan, n
  <2>2. QED
    BY <1>1, <1>3, <2>1 DEF StridedPlan, Frame, IsWhole
<1>6. Touches(x) = Bytes(x.base, RegBytes * x.regs)
  BY DEF Touches
<1>7. Units(x) = WholeUnits(x, n, w)
  BY Zenon DEF Units, WholeUnits
<1> HIDE DEF n, plan, w
<1>8. Shape(plan, x.perm) /\ Covers(plan, Bytes(x.base, n * w)) /\ Matches(plan, Units(x))
  BY <1>2, <1>3, <1>5, <1>7, WholeRow, Zenon
<1>9. QED
  BY <1>3, <1>4, <1>6, <1>8 DEF Sound

(* vlsseg and vssseg: field by field at multiples of the stride.           *)
LEMMA SegmentStridedSound ==
    ASSUME NEW x \in Instructions, x.op = "segment_strided"
    PROVE  Sound(x)
<1> DEFINE plan == SegmentStridedAccess(x)
           at   == [i \in 0 .. x.vl - 1 |-> x.base + i * x.stride]
<1>1. /\ x.base \in Address /\ x.size \in Nat \ {0} /\ x.vl \in Nat /\ x.vstart \in Nat
      /\ x.stride \in Int /\ x.fields \in Nat \ {0}
  BY V2Constants DEF WellTyped, VectorOps, ScalarOps, Positive
<1>2. Plan(x) = plan
  BY DEF Plan
<1>3. Frame(plan, x, x.vl) /\ plan.fast = TRUE
  BY <1>1 DEF SegmentStridedAccess, StridedPlan, Frame
<1>4. /\ plan.stride = x.stride /\ plan.size = x.fields * x.size
      /\ \A i \in 0 .. x.vl - 1 : plan.checks[i] = FieldChecks(x, Wrap(x.base + i * x.stride))
  BY DEF SegmentStridedAccess, StridedPlan
<1>5. Visited(plan) = Active(x)
  BY DEF SegmentStridedAccess, StridedPlan, Visited, Active, CheckVectorMask
<1>6. at \in [0 .. x.vl - 1 -> Int]
  <2>1. x.base \in Int
    BY <1>1, SpaceIsPositive DEF Address
  <2>2. ASSUME NEW i \in 0 .. x.vl - 1 PROVE x.base + i * x.stride \in Int
    BY <1>1, <2>1, i * x.stride \in Int
  <2>3. QED
    BY <2>2
<1>7. \A i \in 0 .. x.vl - 1 : at[i] = x.base + i * x.stride
  OBVIOUS
<1>8. Active(x) \subseteq 0 .. x.vl - 1
  BY <1>1 DEF Active
<1>9. Touches(x) = UNION {Bytes(x.base + i * x.stride, x.fields * x.size) : i \in Active(x)}
  BY DEF Touches
<1>10. Units(x) = [u \in Active(x) \X (1 .. x.fields) |->
                     Check(x.base + u[1] * x.stride + (u[2] - 1) * x.size, x.size, x.perm)]
  BY DEF Units
<1> HIDE DEF plan, at
<1>11. Shape(plan, x.perm) /\ IsFields(plan, x, at)
  <2>1. \A i \in 0 .. x.vl - 1 : plan.checks[i] = FieldChecks(x, Wrap(at[i]))
    BY <1>4, <1>7, Zenon
  <2>2. /\ plan.stride \in Int /\ plan.size = x.fields * x.size
        /\ \A i \in 0 .. x.vl - 1 : at[i] = x.base + i * plan.stride
    BY <1>1, <1>4, <1>7, Zenon
  <2>3. plan.fast \in BOOLEAN
    BY <1>3
  <2>4. ByFields(plan, x, x.vl, at)
    BY <1>1, <1>3, <1>6, <2>1, <2>2, <2>3, Zenon DEF ByFields
  <2>5. QED
    BY <2>4, FieldPlan, Zenon
<1>12. Covers(plan, Touches(x))
  <2>1. \A b \in Touches(x) : \E i \in Visited(plan) : b \in Bytes(at[i], x.fields * x.size)
    BY <1>5, <1>7, <1>8, <1>9
  <2>2. \A i \in Visited(plan) : at[i] \in Int
    BY <1>5, <1>6, <1>8
  <2>3. QED
    BY <1>1, <1>11, <2>1, <2>2, FieldsCover
<1>13. Matches(plan, Units(x))
  <2>1. Units(x) = [u \in Visited(plan) \X (1 .. x.fields) |->
                     Check(at[u[1]] + (u[2] - 1) * x.size, x.size, x.perm)]
    BY <1>5, <1>7, <1>8, <1>10
  <2>2. QED
    BY <1>11, <2>1, FieldsMatch, Zenon
<1>14. QED
  BY <1>2, <1>11, <1>12, <1>13 DEF Sound

(* Item i of items of w bytes, P in a register: the register that its byte *)
(* b is in, and where.                                                     *)
LEMMA ByteOfItem ==
    ASSUME NEW P \in Nat \ {0}, NEW w \in Nat \ {0}, NEW i \in Nat, NEW b \in 0 .. w - 1
    PROVE  /\ (i * w + b) \div (P * w) = i \div P
           /\ (i * w + b) % (P * w) = (i % P) * w + b
<1> DEFINE q == i \div P
           r == i % P
           n == P * w
           c == r * w + b
<1>1. q \in Nat /\ r \in 0 .. P - 1 /\ i = q * P + r
  OBVIOUS
<1> HIDE DEF q, r
<1>2. n \in Nat \ {0}
  OBVIOUS
<1>3. r \in Nat /\ r + 1 <= P
  BY <1>1
<1>4. r * w \in Nat /\ r * w + w <= n
  <2>1. (r + 1) * w <= P * w /\ (r + 1) * w = r * w + w
    BY <1>3
  <2>2. QED
    BY <1>3, <2>1
<1>5. c \in 0 .. n - 1
  <2> DEFINE d == r * w
  <2> HIDE DEF d, n
  <2>1. d \in Nat /\ d + w <= n /\ n \in Nat
    BY <1>2, <1>4 DEF d
  <2>2. d + b \in 0 .. n - 1
    BY <2>1
  <2>3. QED
    BY <2>2 DEF d
<1>6. i * w + b = q * n + c
  <2>1. i * w = (q * P) * w + r * w
    BY <1>1, <1>3
  <2>2. (q * P) * w = q * n
    BY <1>1
  <2> DEFINE d == r * w
             e == q * n
             g == i * w
  <2>3. d \in Nat /\ e \in Nat /\ g \in Nat
    BY <1>1, <1>2, <1>4
  <2>4. g = e + d
    BY <2>1, <2>2
  <2> HIDE DEF d, e, g
  <2>5. g + b = e + (d + b)
    BY <2>3, <2>4
  <2>6. QED
    BY <2>5 DEF d, e, g
<1> HIDE DEF n, c
<1>7. (q * n + c) \div n = q /\ (q * n + c) % n = c
  <2>1. q \in Int
    BY <1>1
  <2>2. QED
    BY <1>1, <1>2, <1>5, <2>1, Quotient, OnlyRemainder, Zenon
<1>8. QED
  BY <1>6, <1>7 DEF n, c, q, r

(* GetIndexValue gathers the bytes of the index that the array of all      *)
(* index registers has there.                                              *)
LEMMA IndexGathered ==
    ASSUME NEW x, x.indexWidth \in Nat \ {0}, RegBytes \in Nat \ {0},
           RegBytes % x.indexWidth = 0, NEW i \in Nat
    PROVE  GetIndexValue(x, i) = IndexAt(x, i)
<1> DEFINE w == x.indexWidth
           P == RegBytes \div w
<1>1. P \in Nat /\ RegBytes = P * w
  <2>1. RegBytes \in Nat
    OBVIOUS
  <2>2. QED
    BY <2>1, Divides, Zenon
<1>2. P \in Nat \ {0}
  <2> HIDE DEF P
  <2>1. P # 0
    BY <1>1
  <2>2. QED
    BY <1>1, <2>1
<1>3. ASSUME NEW b \in 0 .. w - 1
      PROVE  IndexByte(x, i * w + b) = x.index[i \div P][(i % P) * w + b]
  <2> HIDE DEF P, w
  <2>1. w \in Nat \ {0}
    BY DEF w
  <2>2. /\ (i * w + b) \div (P * w) = i \div P
        /\ (i * w + b) % (P * w) = (i % P) * w + b
    <3>1. \A j \in Nat, c \in 0 .. w - 1 :
              /\ (j * w + c) \div (P * w) = j \div P
              /\ (j * w + c) % (P * w) = (j % P) * w + c
      BY <1>2, <2>1, ByteOfItem, Zenon
    <3>2. QED
      BY <3>1, Zenon
  <2>3. QED
    BY <1>1, <2>2, Zenon DEF IndexByte
<1>4. [b \in 0 .. w - 1 |-> IndexByte(x, i * w + b)]
        = [b \in 0 .. w - 1 |-> x.index[i \div P][(i % P) * w + b]]
  <2> HIDE DEF P, w
  <2>1. QED
    BY <1>3, Zenon
<1>5. QED
  BY <1>4, Zenon DEF GetIndexValue, IndexAt

(* vlxei, vsxei and their segment forms: field by field at the base plus   *)
(* an index.                                                               *)
LEMMA IndexedSound ==
    ASSUME NEW x \in Instructions, x.op = "indexed"
    PROVE  Sound(x)
<1> DEFINE plan == IndexedAccess(x)
           at   == [i \in 0 .. x.vl - 1 |-> x.base + IndexAt(x, i)]
<1>1. /\ x.base \in Address /\ x.size \in Nat \ {0} /\ x.vl \in Nat /\ x.vstart \in Nat
      /\ x.fields \in Nat \ {0} /\ x.indexWidth \in Nat \ {0}
      /\ RegBytes % x.indexWidth = 0 /\ RegBytes \in Nat \ {0}
      /\ \A i \in 0 .. x.vl - 1 : IndexAt(x, i) \in Nat
  BY V2Constants DEF WellTyped, VectorOps, ScalarOps, Positive
<1>2. Plan(x) = plan
  BY DEF Plan
<1>3. Frame(plan, x, x.vl) /\ plan.fast = FALSE
  BY <1>1 DEF IndexedAccess, StridedPlan, Frame
<1>4. \A i \in 0 .. x.vl - 1 :
          plan.checks[i] = FieldChecks(x, Wrap(x.base + Wrap(GetIndexValue(x, i))))
  BY DEF IndexedAccess, StridedPlan
<1>5. Visited(plan) = Active(x)
  BY DEF IndexedAccess, StridedPlan, Visited, Active, CheckVectorMask
<1>6. x.base \in Int
  BY <1>1, SpaceIsPositive DEF Address
<1>7. at \in [0 .. x.vl - 1 -> Int]
  BY <1>1, <1>6
<1>8. \A i \in 0 .. x.vl - 1 : at[i] = x.base + IndexAt(x, i)
  OBVIOUS
<1>9. Active(x) \subseteq 0 .. x.vl - 1
  BY <1>1 DEF Active
<1>10. Touches(x) = UNION {Bytes(x.base + IndexAt(x, i), x.fields * x.size) : i \in Active(x)}
  BY DEF Touches
<1>11. Units(x) = [u \in Active(x) \X (1 .. x.fields) |->
                     Check(x.base + IndexAt(x, u[1]) + (u[2] - 1) * x.size, x.size, x.perm)]
  BY DEF Units
<1> HIDE DEF plan, at
<1>12. ASSUME NEW i \in 0 .. x.vl - 1
       PROVE  plan.checks[i] = FieldChecks(x, Wrap(at[i]))
  <2> DEFINE v == IndexAt(x, i)
             w == Wrap(v)
             base == x.base
  <2>1. i \in Nat
    BY <1>1
  <2>2. GetIndexValue(x, i) = v
    BY <1>1, <2>1, IndexGathered, Zenon
  <2>3. v \in Int /\ base \in Int
    BY <1>1, <1>6
  <2> HIDE DEF v, base
  <2>4. w \in Address /\ Wrap(w + base) = Wrap(v + base)
    BY <2>3, Wrapped, Zenon
  <2>5. Space \in Nat
    BY SpaceIsPositive
  <2> HIDE DEF w
  <2>6. w \in Int
    BY <2>4, <2>5 DEF Address
  <2>7. w + base = base + w /\ v + base = base + v
    BY <2>3, <2>6
  <2>8. Wrap(base + w) = Wrap(base + v)
    BY <2>4, <2>7
  <2>9. plan.checks[i] = FieldChecks(x, Wrap(base + w))
    BY <1>4, <2>2, Zenon DEF w, base
  <2>10. QED
    BY <1>8, <2>8, <2>9, Zenon DEF v, base
<1>13. Shape(plan, x.perm) /\ IsFields(plan, x, at)
  <2>1. \A i \in 0 .. x.vl - 1 : plan.checks[i] = FieldChecks(x, Wrap(at[i]))
    BY <1>12
  <2>2. ~plan.fast /\ plan.fast \in BOOLEAN
    BY <1>3
  <2>3. ByFields(plan, x, x.vl, at)
    BY <1>1, <1>3, <1>7, <2>1, <2>2, Zenon DEF ByFields
  <2>4. QED
    BY <2>3, FieldPlan, Zenon
<1>14. Covers(plan, Touches(x))
  <2>1. \A b \in Touches(x) : \E i \in Visited(plan) : b \in Bytes(at[i], x.fields * x.size)
    BY <1>5, <1>8, <1>9, <1>10
  <2>2. \A i \in Visited(plan) : at[i] \in Int
    BY <1>5, <1>7, <1>9
  <2>3. QED
    BY <1>1, <1>13, <2>1, <2>2, FieldsCover
<1>15. Matches(plan, Units(x))
  <2>1. Units(x) = [u \in Visited(plan) \X (1 .. x.fields) |->
                     Check(at[u[1]] + (u[2] - 1) * x.size, x.size, x.perm)]
    BY <1>5, <1>8, <1>9, <1>11
  <2>2. QED
    BY <1>13, <2>1, FieldsMatch, Zenon
<1>16. QED
  BY <1>2, <1>13, <1>14, <1>15 DEF Sound

(* So for all of them.                                                     *)
LEMMA PlanSound ==
    ASSUME NEW x \in Instructions, x.op \in VectorOps
    PROVE  Sound(x)
  BY StridedSound, SegmentSound, MaskSound, RegisterSound, SegmentStridedSound,
     IndexedSound DEF VectorOps

-----------------------------------------------------------------------------
(* What an instruction that is let through was asked, and that it covers   *)
(* what the instruction touches.                                           *)
Passed(x) ==
    /\ x.op \in {"load", "store", "fsw"} => Allowed(AccessCheck(x))
    /\ x.op \in {"flh", "fsh"} => Allowed(ZfhAccessCheck(x))
    /\ x.op \in {"jal", "jalr"} => Allowed(IsJumpAllowed(x))
    /\ x.op = "tile" => Allowed(TileCheck(x))
    /\ x.op \in VectorOps => Validate(Plan(x)) = NoFault

(* One check of n bytes covers the first m of them.                        *)
LEMMA OneCheck ==
    ASSUME RegionsFit, NEW a \in Int, NEW n \in Nat, NEW p, Allowed(Check(a, n, p)),
           NEW m \in Nat, m <= n, NEW b \in Bytes(a, m)
    PROVE  b \in Nat /\ Inside(b, 1, p)
<1>1. HasPermission(Regions, Wrap(a), n, {p})
  <2>1. Check(a, n, p).a = Wrap(a) /\ Check(a, n, p).n = n /\ Check(a, n, p).p = {p}
    BY DEF Check
  <2>2. QED
    BY <2>1, Zenon DEF Allowed
<1>2. Inside(Wrap(a), n, p)
  BY <1>1, AllowedInside
<1>3. QED
  BY <1>2, InsideBytes

(* The scalar instructions and the tile instructions: one check.           *)
LEMMA ScalarCovered ==
    ASSUME RegionsFit, NEW x \in Instructions, x.op \in ScalarOps \cup {"tile"}, Passed(x),
           NEW b \in Touches(x)
    PROVE  b \in Nat /\ Inside(b, 1, x.perm)
<1>1. x.base \in Int /\ x.size \in Nat
  BY V2Constants, SpaceIsPositive DEF WellTyped, ScalarOps, Positive, Address
<1>2. x.op \in ScalarOps => x.base + x.offset \in Int
  BY <1>1, V2Constants DEF WellTyped
<1>3. CASE x.op \in {"load", "store", "fsw"}
  <2> DEFINE n == IF x.op = "fsw" THEN 8 ELSE x.size
             a == x.base + x.offset
  <2>1. Allowed(Check(a, n, x.perm))
    BY <1>3 DEF Passed, AccessCheck
  <2>2. b \in Bytes(a, x.size)
    BY <1>3 DEF Touches
  <2>3. n \in Nat /\ x.size <= n
    BY <1>1, V2Constants DEF WellTyped
  <2>4. a \in Int
    BY <1>2, <1>3 DEF ScalarOps
  <2> HIDE DEF a, n
  <2>5. QED
    BY <1>1, <2>1, <2>2, <2>3, <2>4, OneCheck
<1>4. CASE x.op \in {"flh", "fsh"}
  <2> DEFINE a == (x.base + x.offset) % MemMask
  <2>1. Allowed(Check(a, x.size, x.perm))
    BY <1>4 DEF Passed, ZfhAccessCheck
  <2>2. b \in Bytes(a, x.size)
    BY <1>4 DEF Touches
  <2>3. a \in Int
    <3> DEFINE e == x.base + x.offset
    <3>1. e \in Int /\ MemMask \in Nat \ {0}
      BY <1>2, <1>4, V2Constants DEF ScalarOps, Positive
    <3> HIDE DEF e
    <3>2. e % MemMask \in Int
      BY <3>1
    <3>3. QED
      BY <3>2 DEF e
  <2> HIDE DEF a
  <2>4. QED
    BY <1>1, <2>1, <2>2, <2>3, OneCheck, x.size <= x.size
<1>5. CASE x.op \in {"jal", "jalr"}
  <2> DEFINE a == x.base + x.offset
  <2>1. x.perm = "execute" /\ a \in Int
    BY <1>2, <1>5, V2Constants DEF WellTyped, ScalarOps
  <2>2. Allowed(Check(a, x.size, "execute"))
    BY <1>5 DEF Passed, IsJumpAllowed
  <2>3. b \in Bytes(a, x.size)
    BY <1>5 DEF Touches
  <2> HIDE DEF a
  <2>4. QED
    BY <1>1, <2>1, <2>2, <2>3, OneCheck, x.size <= x.size
<1>6. CASE x.op = "tile"
  <2> DEFINE n == TileSubsetCount(x)
             m == n * x.size
  <2>1. n \in Nat
    <3> DEFINE t == IF x.size < 8 THEN TileElements ELSE TileElements \div 2
               T == {x.vl, t}
    <3>1. x.vl \in Nat /\ TileElements \in Nat
      BY <1>6, V2Constants DEF WellTyped
    <3>2. t \in Nat
      BY <3>1
    <3>3. T \in SUBSET Nat /\ T # {}
      BY <3>1, <3>2
    <3> HIDE DEF T
    <3>4. Min(T) \in Nat
      BY <3>3, Least
    <3>5. QED
      BY <3>4 DEF T, TileSubsetCount
  <2>2. m \in Nat /\ m <= m
    <3> HIDE DEF n
    <3>1. QED
      BY <1>1, <2>1
  <2>3. Allowed(Check(x.base, m, x.perm))
    BY <1>6 DEF Passed, TileCheck
  <2>4. b \in Bytes(x.base, m)
    BY <1>6 DEF Touches
  <2> HIDE DEF m
  <2>5. QED
    BY <1>1, <2>2, <2>3, <2>4, OneCheck
<1>7. QED
  BY <1>3, <1>4, <1>5, <1>6 DEF ScalarOps

(* If the validator of a vector instruction finds nothing, every check     *)
(* that it made, or would have made without the fast path, is inside a     *)
(* region with the permission.                                             *)
LEMMA ValidatedInside ==
    ASSUME NEW x \in Instructions, x.op \in VectorOps, Validate(Plan(x)) = NoFault,
           ~WholeSpace(x), NEW i, NEW f, Checked(Plan(x), i, f)
    PROVE  Inside(Plan(x).checks[i][f].a, Plan(x).checks[i][f].n, x.perm)
<1> DEFINE plan == Plan(x)
<1>1. Shape(plan, x.perm)
  BY PlanSound DEF Sound
<1>2. CASE FastPath(plan)
  <2>1. {Wrap(plan.base + plan.start * plan.stride),
         Wrap(plan.base + (plan.count - 1) * plan.stride)} # {0, Space - plan.size}
    BY <1>2, Zenon DEF WholeSpace, FastPath
  <2> HIDE DEF plan
  <2>2. Checked(plan, i, f)
    BY DEF plan
  <2>3. Inside(plan.checks[i][f].a, plan.checks[i][f].n, x.perm)
    BY <1>1, <1>2, <2>1, <2>2, FastInside, Zenon
  <2>4. QED
    BY <2>3 DEF plan
<1>3. CASE ~FastPath(plan)
  <2>1. FirstFault(plan) = NoFault
    BY <1>3 DEF Validate
  <2> HIDE DEF plan
  <2>2. Checked(plan, i, f)
    BY DEF plan
  <2>3. Allowed(plan.checks[i][f])
    BY <1>1, <2>1, <2>2, VisitFinds, Zenon
  <2>4. plan.checks[i][f].p = {x.perm}
    BY <1>1, <2>2, Zenon DEF Shape
  <2>5. HasPermission(Regions, plan.checks[i][f].a, plan.checks[i][f].n, {x.perm})
    BY <2>3, <2>4, Zenon DEF Allowed
  <2>6. Inside(plan.checks[i][f].a, plan.checks[i][f].n, x.perm)
    BY <2>5, AllowedInside, Zenon
  <2>7. QED
    BY <2>6 DEF plan
<1>4. QED
  BY <1>2, <1>3

(* So the bytes that it touches are.                                       *)
LEMMA VectorCovered ==
    ASSUME RegionsFit, NEW x \in Instructions, x.op \in VectorOps, Passed(x),
           ~WholeSpace(x), NEW b \in Touches(x)
    PROVE  b \in Nat /\ Inside(b, 1, x.perm)
<1>1. Shape(Plan(x), x.perm) /\ Covers(Plan(x), Touches(x))
  BY PlanSound DEF Sound
<1>2. PICK i, f : /\ Checked(Plan(x), i, f)
                  /\ \E a \in Int : /\ Plan(x).checks[i][f].a = Wrap(a)
                                    /\ b \in Bytes(a, Plan(x).checks[i][f].n)
  BY <1>1, Zenon DEF Covers
<1> DEFINE c == Plan(x).checks[i][f]
           n == c.n
<1>3. PICK a \in Int : c.a = Wrap(a) /\ b \in Bytes(a, n)
  BY <1>2, Zenon
<1>4. Validate(Plan(x)) = NoFault
  BY DEF Passed
<1>5. Inside(c.a, n, x.perm)
  BY <1>2, <1>4, ValidatedInside, Zenon
<1>6. n \in Nat \ {0}
  BY <1>1, <1>2, Zenon DEF Shape
<1>7. Inside(Wrap(a), n, x.perm)
  BY <1>3, <1>5, Zenon
<1> HIDE DEF n, c
<1>8. n \in Nat /\ n <= n
  BY <1>6
<1>9. QED
  BY <1>3, <1>7, <1>8, InsideBytes

-----------------------------------------------------------------------------
(* The theorems.                                                           *)

(* What holds of an execution: before an instruction is done nothing is    *)
(* touched; one that is done was let through by its check and touched what *)
(* the instruction set says; a vector instruction that trapped for want of *)
(* a permission reports what its validator found.                          *)
Judged ==
    /\ instr \in Instructions
    /\ phase \in {"ready", "done", "trap"}
    /\ phase # "done" => touched = {}
    /\ phase = "done" => touched = Touches(instr) /\ Passed(instr)
    /\ phase = "trap" /\ instr.op \in VectorOps /\ cause # "illegal" =>
          tval = Validate(Plan(instr)) /\ tval # NoFault

(* Every step keeps it.                                                    *)
LEMMA JudgedHolds == AccessSpec => []Judged
<1>1. AccessInit => Judged
  BY DEF AccessInit, AccessStart, Judged
<1>2. Judged /\ [AccessNext]_avars => Judged'
  <2> SUFFICES ASSUME Judged, [AccessNext]_avars PROVE Judged'
    OBVIOUS
  <2> USE DEF Judged
  <2>1. CASE UNCHANGED avars
    BY <2>1 DEF avars
  <2>2. ASSUME Perform, Passed(instr) PROVE Judged'
    BY <2>2 DEF Perform
  <2>3. ASSUME NEW why, NEW address, Raise(why, address), phase = "ready",
               instr.op \in VectorOps /\ why # "illegal" =>
                   address = Validate(Plan(instr)) /\ address # NoFault
        PROVE  Judged'
    BY <2>3 DEF Raise
  <2>4. CASE phase = "ready" /\ LoadStore
    <3>1. CASE Allowed(AccessCheck(instr)) /\ Perform
      <4>1. Passed(instr)
        BY <2>4, <3>1 DEF LoadStore, Passed, VectorOps
      <4>2. QED
        BY <2>2, <3>1, <4>1
    <3>2. CASE Raise(instr.perm, AccessCheck(instr).a)
      BY <2>3, <2>4, <3>2 DEF LoadStore, VectorOps
    <3>3. QED
      BY <2>4, <3>1, <3>2 DEF LoadStore, GuardedBy
  <2>5. CASE phase = "ready" /\ HalfLoadStore
    <3>1. CASE Allowed(ZfhAccessCheck(instr)) /\ Perform
      <4>1. Passed(instr)
        BY <2>5, <3>1 DEF HalfLoadStore, Passed, VectorOps
      <4>2. QED
        BY <2>2, <3>1, <4>1
    <3>2. CASE Raise(instr.perm, ZfhAccessCheck(instr).a)
      BY <2>3, <2>5, <3>2 DEF HalfLoadStore, VectorOps
    <3>3. CASE Raise("illegal", 0)
      BY <2>3, <2>5, <3>3
    <3>4. QED
      BY <2>5, <3>1, <3>2, <3>3 DEF HalfLoadStore, GuardedBy
  <2>6. CASE phase = "ready" /\ Jump
    <3>1. CASE Allowed(IsJumpAllowed(instr)) /\ Perform
      <4>1. Passed(instr)
        BY <2>6, <3>1 DEF Jump, Passed, VectorOps
      <4>2. QED
        BY <2>2, <3>1, <4>1
    <3>2. CASE Raise("execute", IsJumpAllowed(instr).a)
      BY <2>3, <2>6, <3>2 DEF Jump, VectorOps
    <3>3. QED
      BY <2>6, <3>1, <3>2 DEF Jump, GuardedBy
  <2>7. CASE phase = "ready" /\ Tile
    <3>1. CASE Allowed(TileCheck(instr)) /\ Perform
      <4>1. Passed(instr)
        BY <2>7, <3>1 DEF Tile, Passed, VectorOps
      <4>2. QED
        BY <2>2, <3>1, <4>1
    <3>2. CASE Raise(instr.perm, TileCheck(instr).a)
      BY <2>3, <2>7, <3>2 DEF Tile, VectorOps
    <3>3. QED
      BY <2>7, <3>1, <3>2 DEF Tile, GuardedBy
  <2>8. CASE phase = "ready" /\ VectorAccess
    <3>1. CASE Validate(Plan(instr)) = NoFault /\ Perform
      <4>1. Passed(instr)
        BY <2>8, <3>1 DEF VectorAccess, Passed, VectorOps
      <4>2. QED
        BY <2>2, <3>1, <4>1
    <3>2. CASE Validate(Plan(instr)) # NoFault /\ Raise(instr.perm, Validate(Plan(instr)))
      BY <2>3, <2>8, <3>2, Zenon
    <3>3. CASE Raise("illegal", 0)
      BY <2>3, <2>8, <3>3
    <3>4. QED
      BY <2>8, <3>1, <3>2, <3>3, Zenon DEF VectorAccess
  <2>9. QED
    BY <2>1, <2>4, <2>5, <2>6, <2>7, <2>8 DEF AccessNext
<1>3. QED
  BY <1>1, <1>2, PTL DEF AccessSpec

(* Whatever path let it through - one check, the visit of the elements or  *)
(* the range check of the fast path - each byte that a completed           *)
(* instruction touched lies in a region that has its permission, as long   *)
(* as no region reaches over the end of the address space.  Overlapping    *)
(* regions do not matter here.                                             *)
TouchedInside ==
    phase = "done" /\ ~WholeSpace(instr) =>
        \A b \in touched : b \in Nat /\ Inside(b, 1, instr.perm)

(* It follows from what holds of an execution.                             *)
LEMMA JudgedInside == RegionsFit /\ Judged => TouchedInside
<1> SUFFICES ASSUME RegionsFit, Judged, phase = "done", ~WholeSpace(instr), NEW b \in touched
             PROVE  b \in Nat /\ Inside(b, 1, instr.perm)
  BY DEF TouchedInside
<1>1. instr \in Instructions /\ b \in Touches(instr) /\ Passed(instr)
  BY DEF Judged
<1>2. WellTyped(instr)
  BY <1>1, V2Constants
<1>3. CASE instr.op \in ScalarOps \cup {"tile"}
  BY <1>1, <1>3, ScalarCovered
<1>4. CASE instr.op \in VectorOps
  BY <1>1, <1>4, VectorCovered
<1>5. QED
  BY <1>2, <1>3, <1>4 DEF WellTyped

(* Each byte that a completed instruction touched lies in a region that    *)
(* has its permission: the range check of HasRangePermission and the check *)
(* for each element of ValidateVectorAccess ask about all that the         *)
(* instruction moves.                                                      *)
THEOREM TouchedIsInside == ASSUME RegionsFit PROVE AccessSpec => []TouchedInside
<1>1. Judged => TouchedInside
  BY JudgedInside
<1>2. QED
  BY <1>1, JudgedHolds, PTL

(* If moreover no two regions overlap, so that the first region that       *)
(* contains a byte is the only one, HasPermission says yes of each byte.   *)
THEOREM NothingIsUnchecked ==
    ASSUME RegionsFit, RegionsApart PROVE AccessSpec => []NothingUnchecked
<1>1. Judged => NothingUnchecked
  <2> SUFFICES ASSUME Judged, phase = "done", ~WholeSpace(instr), NEW b \in touched
               PROVE  HasPermission(Regions, b, 1, {instr.perm})
    BY DEF NothingUnchecked
  <2>1. b \in Nat /\ Inside(b, 1, instr.perm)
    BY JudgedInside DEF TouchedInside
  <2>2. 1 \in Nat \ {0}
    OBVIOUS
  <2>3. QED
    BY <2>1, <2>2, InsideAllowed, Zenon
<1>2. QED
  BY <1>1, JudgedHolds, PTL

(* A vector instruction that traps for want of a permission has touched    *)
(* nothing and reports the first access, in element and field order, that  *)
(* is not permitted; one that completes had no such access, also when the  *)
(* fast path asked about the whole range only (ValidateStridedVectorAccess *)
(* and ValidateIndexedVectorAccess).                                       *)
THEOREM FaultsArePrecise == ASSUME RegionsApart PROVE AccessSpec => []FaultsPrecise
<1>1. Judged => FaultsPrecise
  <2> DEFINE units == Units(instr)
             bad   == {u \in DOMAIN units : ~Allowed(units[u])}
             plan  == Plan(instr)
  <2> SUFFICES ASSUME Judged, instr.op \in VectorOps, phase # "ready", cause # "illegal",
                      ~WholeSpace(instr)
               PROVE  IF phase = "done" THEN bad = {}
                      ELSE touched = {} /\ \E u \in bad :
                               tval = units[u].a /\ \A v \in bad : UpTo(u, v)
    BY DEF FaultsPrecise
  <2>1. instr \in Instructions
    BY DEF Judged
  <2>2. Shape(plan, instr.perm) /\ Matches(plan, units)
    BY <2>1, PlanSound DEF Sound
  <2>3. CASE phase = "done"
    <3>1. Validate(plan) = NoFault
      BY <2>3 DEF Judged, Passed
    <3>2. ASSUME NEW u \in DOMAIN units PROVE Allowed(units[u])
      <4>1. Checked(plan, u[1], u[2]) /\ units[u] = plan.checks[u[1]][u[2]]
        BY <2>2, <3>2, Zenon DEF Matches
      <4> DEFINE c == plan.checks[u[1]][u[2]]
      <4>2. Inside(c.a, c.n, instr.perm)
        BY <2>1, <3>1, <4>1, ValidatedInside, Zenon
      <4>3. c.a \in Address /\ c.n \in Nat \ {0} /\ c.p = {instr.perm}
        BY <2>2, <4>1, Zenon DEF Shape
      <4>4. c.a \in Nat
        <5> HIDE DEF c
        <5>1. Space \in Nat
          BY SpaceIsPositive
        <5>2. QED
          BY <4>3, <5>1 DEF Address
      <4>5. HasPermission(Regions, c.a, c.n, {instr.perm})
        <5> HIDE DEF c
        <5>1. QED
          BY <4>2, <4>3, <4>4, InsideAllowed, Zenon
      <4>6. Allowed(c)
        <5> HIDE DEF c
        <5>1. QED
          BY <4>3, <4>5, Zenon DEF Allowed
      <4>7. QED
        BY <4>1, <4>6, Zenon
    <3>3. bad = {}
      BY <3>2, Zenon
    <3>4. QED
      BY <2>3, <3>3, Zenon
  <2>4. CASE phase # "done"
    <3>1. touched = {} /\ tval = Validate(plan) /\ tval # NoFault
      BY <2>4 DEF Judged
    <3>2. tval = FirstFault(plan) /\ FirstFault(plan) # NoFault
      BY <3>1, Zenon DEF Validate
    <3>3. PICK i, f :
              /\ Checked(plan, i, f) /\ ~Allowed(plan.checks[i][f])
              /\ FirstFault(plan) = plan.checks[i][f].a
              /\ \A j, g : Checked(plan, j, g) /\ ~Allowed(plan.checks[j][g])
                    => i < j \/ (i = j /\ f <= g)
      <4> HIDE DEF plan
      <4>1. QED
        BY <2>2, <3>2, VisitFinds, Zenon
    <3> DEFINE u == <<i, f>>
    <3>4. u \in DOMAIN units /\ units[u] = plan.checks[i][f] /\ u[1] = i /\ u[2] = f
      <4>1. u \in DOMAIN units /\ units[u] = plan.checks[i][f]
        BY <2>2, <3>3, Zenon DEF Matches
      <4>2. u[1] = i /\ u[2] = f
        OBVIOUS
      <4>3. QED
        BY <4>1, <4>2
    <3> HIDE DEF u, plan, units
    <3>5. u \in bad /\ tval = units[u].a
      BY <3>2, <3>3, <3>4, Zenon
    <3>6. ASSUME NEW v \in bad PROVE UpTo(u, v)
      <4>1. v \in DOMAIN units /\ ~Allowed(units[v])
        BY <3>6, Zenon
      <4>2. Checked(plan, v[1], v[2]) /\ units[v] = plan.checks[v[1]][v[2]]
        BY <2>2, <4>1, Zenon DEF Matches
      <4>3. i < v[1] \/ (i = v[1] /\ f <= v[2])
        BY <3>3, <4>1, <4>2, Zenon
      <4>4. QED
        BY <3>4, <4>3, Zenon DEF UpTo
    <3> HIDE DEF bad
    <3>7. QED
      BY <2>4, <3>1, <3>5, <3>6, Zenon
  <2>5. QED
    BY <2>3, <2>4, Zenon
<1>2. QED
  BY <1>1, JudgedHolds, PTL
=============================================================================
