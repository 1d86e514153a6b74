------------------------------ MODULE V2Access ------------------------------
(***************************************************************************)
(* How the V2, M3 and M4 memory instructions guard memory.  An instruction *)
(* first asks whether all of the access is permitted                       *)
(* (sim/coralnpu_v2_instructions.cc, coralnpu_m3_zfhmin_instructions.cc    *)
(* and coralnpu_m4_instructions.cc), traps if it is not, and otherwise     *)
(* calls the instruction of mpact-riscv, which moves the data and asks no  *)
(* more.  So what is checked and what is touched are computed by different *)
(* code, and the vector checks have a fast path over the whole range.      *)
(*                                                                         *)
(* Addresses wrap at Space (2^32).  A byte has ByteValues values, which    *)
(* only the index registers use.                                           *)
(***************************************************************************)
EXTENDS MemoryRegions, FiniteSetsExt

CONSTANTS
    Regions,        \* the memory regions, a sequence as AddMemoryRegion made it
    Instructions,   \* the instructions to try: records with field op
    ByteValues,     \* 256
    RegBytes,       \* vector_register_byte_length()
    TileElements,   \* RiscVZvtMatrixState::tile_elements()
    MemMask         \* kMemMask + 1: the addresses the memory really has

VARIABLES
    instr,          \* the instruction
    phase,          \* "ready", "done" or "trap"
    touched,        \* the bytes that were read or written
    cause,          \* of the trap
    tval,           \* the trap value
    link            \* rd of a jump was written

avars == <<instr, phase, touched, cause, tval, link>>

NoFault == -1
Wrap(a) == a % Space
Bytes(a, n) == {Wrap(a + k) : k \in 0 .. n - 1}

\* A check is [a, n, p]: n bytes from a with permission p.
Check(a, n, p) == [a |-> Wrap(a), n |-> n, p |-> {p}]
Allowed(c) == HasPermission(Regions, c.a, c.n, c.p)

-----------------------------------------------------------------------------
(* Scalar loads, stores and jumps: one check.                               *)

\* AccessCheck<Register, ValueType>: the size asked about is that of ValueType,
\* which for fsw is the 64-bit register.
AccessCheck(x) ==
    Check(x.base + x.offset, IF x.op = "fsw" THEN 8 ELSE x.size, x.perm)

\* The same helper of coralnpu_m3_zfhmin_instructions.cc masks the address.
ZfhAccessCheck(x) == Check((x.base + x.offset) % MemMask, x.size, x.perm)

\* IsJumpAllowed.
IsJumpAllowed(x) == Check(x.base + x.offset, x.size, "execute")

\* TileSubsetCount and the check of vtle and vtse.
TileSubsetCount(x) ==
    Min({x.vl, IF x.size < 8 THEN TileElements ELSE TileElements \div 2})

TileCheck(x) == Check(x.base, TileSubsetCount(x) * x.size, x.perm)

-----------------------------------------------------------------------------
(* Vector accesses.  A plan says which elements there are, which are masked *)
(* off, the checks of each element in order and, where the code has a fast  *)
(* path, the stride and the size that it is asked about.                    *)

\* Faulty variant: a masked-off element is checked like the others.
CheckVectorMask_Ignored(mask, i) == TRUE

CheckVectorMask(mask, i) == i \in mask

\* Faulty variant: the range ends where the last element begins.
HasRangePermission_LastElementShort(base, stride, count, size, perm) ==
    LET span == (count - 1) * stride
        endAddr == Wrap(base + span)
        minAddr == IF span >= 0 THEN base ELSE endAddr
        maxAddr == IF span >= 0 THEN endAddr ELSE base
    IN  \/ count <= 0
        \/ /\ -(Space - 1) <= span /\ span <= Space - 1
           /\ ~(span > 0 /\ endAddr < base)
           /\ ~(span < 0 /\ base < endAddr)
           /\ HasPermission(Regions, minAddr, Wrap(maxAddr + 1 - minAddr), {perm})

\* HasRangePermission: one question about the smallest range that holds every
\* element, not asked when the addresses wrap.  Its size is cast to 32 bits.
HasRangePermission(base, stride, count, size, perm) ==
    LET span == (count - 1) * stride
        endAddr == Wrap(base + span)
        minAddr == IF span >= 0 THEN base ELSE endAddr
        maxAddr == IF span >= 0 THEN endAddr ELSE base
        rangeEnd == maxAddr + size
    IN  \/ count <= 0
        \/ /\ -(Space - 1) <= span /\ span <= Space - 1
           /\ ~(span > 0 /\ endAddr < base)
           /\ ~(span < 0 /\ base < endAddr)
           /\ rangeEnd <= Space
           /\ HasPermission(Regions, minAddr, Wrap(rangeEnd - minAddr), {perm})

\* The elements that ValidateVectorAccess visits.
Visited(plan) ==
    {i \in plan.start .. plan.count - 1 : plan.masked => CheckVectorMask(plan.mask, i)}

FastPath(plan) ==
    /\ plan.fast
    /\ plan.start < plan.count
    /\ HasRangePermission(Wrap(plan.base + plan.start * plan.stride), plan.stride,
                          plan.count - plan.start, plan.size, plan.perm)

\* The checks of element i that the validator would find failing, and the one
\* at which ValidateVectorAccess stops: elements in order, then fields in order.
Failing(plan, i) == {f \in DOMAIN plan.checks[i] : ~Allowed(plan.checks[i][f])}

FirstFault(plan) ==
    LET faulty == {i \in Visited(plan) : Failing(plan, i) # {}}
        first  == Min(faulty)
    IN  IF faulty = {} THEN NoFault ELSE plan.checks[first][Min(Failing(plan, first))].a

\* ValidateStridedVectorAccess and ValidateIndexedVectorAccess: the faulting
\* address, or NoFault.
Validate(plan) == IF FastPath(plan) THEN NoFault ELSE FirstFault(plan)

\* What every plan has; mask_source_index -1 is an unmasked access and
\* ignore_vstart starts it at 0.
StridedPlan(x, count, ignoreVstart, masked, stride, size, checks) ==
    [fast |-> TRUE, count |-> count, start |-> IF ignoreVstart THEN 0 ELSE x.vstart,
     masked |-> masked, mask |-> x.mask, base |-> x.base, stride |-> stride,
     size |-> size, perm |-> x.perm, checks |-> checks]

OneEach(x, count, stride, size) ==
    [i \in 0 .. count - 1 |-> <<Check(x.base + i * stride, size, x.perm)>>]

\* CoralNPUV2VlStrided and VsStrided.
StridedAccess(x) ==
    StridedPlan(x, x.vl, FALSE, x.vm = 0, x.stride, x.size, OneEach(x, x.vl, x.stride, x.size))

\* Vlm and Vsm: the bytes of a mask of vl bits.
MaskAccess(x) ==
    LET n == (x.vl + 7) \div 8
    IN  StridedPlan(x, n, TRUE, FALSE, 1, 1, OneEach(x, n, 1, 1))

\* VlRegister and VsRegister: whole registers; the store checks 8 bytes at a time.
RegisterAccess(x) ==
    LET width == IF x.perm = "write" THEN 8 ELSE x.size
        n == (RegBytes * x.regs) \div width
    IN  StridedPlan(x, n, TRUE, FALSE, width, width, OneEach(x, n, width, width))

\* VlSegment and VsSegment check a segment as one access.
SegmentAccess(x) ==
    LET seg == x.fields * x.size
    IN  StridedPlan(x, x.vl, FALSE, x.vm = 0, seg, seg, OneEach(x, x.vl, seg, seg))

FieldChecks(x, a) == [f \in 1 .. x.fields |-> Check(a + (f - 1) * x.size, x.size, x.perm)]

\* VlSegmentStrided and VsSegmentStrided check field by field.
SegmentStridedAccess(x) ==
    StridedPlan(x, x.vl, FALSE, x.vm = 0, x.stride, x.fields * x.size,
                [i \in 0 .. x.vl - 1 |-> FieldChecks(x, Wrap(x.base + i * x.stride))])

LittleEndian(bytes) ==
    FoldSet(LAMBDA b, acc : acc + bytes[b] * ByteValues^b, 0, DOMAIN bytes)

\* GetIndexValue: index i of a group of index registers.
GetIndexValue(x, i) ==
    LET perReg == RegBytes \div x.indexWidth
        reg    == x.index[i \div perReg]
        offset == (i % perReg) * x.indexWidth
    IN  LittleEndian([b \in 0 .. x.indexWidth - 1 |-> reg[offset + b]])

\* VlIndexed, VsIndexed (one field) and VlSegmentIndexed, VsSegmentIndexed: no
\* fast path.
IndexedAccess(x) ==
    [StridedPlan(x, x.vl, FALSE, x.vm = 0, 0, x.size,
                 [i \in 0 .. x.vl - 1 |-> FieldChecks(x, Wrap(x.base + Wrap(GetIndexValue(x, i))))])
     EXCEPT !.fast = FALSE]

\* The element group of vle and vse must exist.
EmulIllegal(x) ==
    LET emul == (x.size * x.lmul8) \div x.sew
    IN  emul > 64 \/ emul = 0

-----------------------------------------------------------------------------
(* What the instruction of mpact-riscv touches once it is let through       *)
(* (external): the active elements, at the addresses of the instruction set *)
(* manual.                                                                  *)

Active(x) == {i \in x.vstart .. x.vl - 1 : x.vm = 0 => i \in x.mask}

\* The bytes of the index registers as one array.
IndexByte(x, k) == x.index[k \div RegBytes][k % RegBytes]
IndexAt(x, i) ==
    LittleEndian([b \in 0 .. x.indexWidth - 1 |-> IndexByte(x, i * x.indexWidth + b)])

Touches(x) ==
    CASE x.op \in {"load", "store", "fsw"} -> Bytes(x.base + x.offset, x.size)
      [] x.op \in {"flh", "fsh"}    -> Bytes((x.base + x.offset) % MemMask, x.size)
      [] x.op \in {"jal", "jalr"}   -> Bytes(x.base + x.offset, x.size)
      [] x.op = "tile"              -> Bytes(x.base, TileSubsetCount(x) * x.size)
      [] x.op = "strided"           -> UNION {Bytes(x.base + i * x.stride, x.size) : i \in Active(x)}
      [] x.op = "mask"              -> Bytes(x.base, (x.vl + 7) \div 8)
      [] x.op = "register"          -> Bytes(x.base, RegBytes * x.regs)
      [] x.op = "segment"           -> UNION {Bytes(x.base + i * x.fields * x.size, x.fields * x.size)
                                                : i \in Active(x)}
      [] x.op = "segment_strided"   -> UNION {Bytes(x.base + i * x.stride, x.fields * x.size)
                                                : i \in Active(x)}
      [] x.op = "indexed"           -> UNION {Bytes(x.base + IndexAt(x, i), x.fields * x.size)
                                                : i \in Active(x)}

-----------------------------------------------------------------------------
(* Execution                                                                *)

Perform ==
    /\ phase' = "done"
    /\ touched' = Touches(instr)
    /\ link' = (instr.op \in {"jal", "jalr"})
    /\ UNCHANGED <<instr, cause, tval>>

\* A jalr that may not jump still writes rd (the comment in the code says so).
Raise(why, address) ==
    /\ phase' = "trap"
    /\ cause' = why
    /\ tval' = address
    /\ link' = (instr.op = "jalr")
    /\ UNCHANGED <<instr, touched>>

GuardedBy(check, why) ==
    \/ Allowed(check) /\ Perform
    \/ ~Allowed(check) /\ Raise(why, check.a)

\* Lw, Lh, Lhu, Lb, Lbu, Sw, Sh, Sb and Fsw.
LoadStore ==
    /\ instr.op \in {"load", "store", "fsw"}
    /\ GuardedBy(AccessCheck(instr), instr.perm)

\* CoralNPUM3ZfhminFlh and Fsh: the floating-point unit must be on.
HalfLoadStore ==
    /\ instr.op \in {"flh", "fsh"}
    /\ \/ instr.fs = 0 /\ Raise("illegal", 0)
       \/ instr.fs # 0 /\ GuardedBy(ZfhAccessCheck(instr), instr.perm)

\* CoralNPUV2Jal and Jalr.
Jump ==
    /\ instr.op \in {"jal", "jalr"}
    /\ GuardedBy(IsJumpAllowed(instr), "execute")

\* CoralNPUM4Vtle and Vtse.
Tile ==
    /\ instr.op = "tile"
    /\ GuardedBy(TileCheck(instr), instr.perm)

Plan(x) ==
    CASE x.op = "strided"         -> StridedAccess(x)
      [] x.op = "mask"            -> MaskAccess(x)
      [] x.op = "register"        -> RegisterAccess(x)
      [] x.op = "segment"         -> SegmentAccess(x)
      [] x.op = "segment_strided" -> SegmentStridedAccess(x)
      [] x.op = "indexed"         -> IndexedAccess(x)

VectorOps == {"strided", "mask", "register", "segment", "segment_strided", "indexed"}

VectorAccess ==
    /\ instr.op \in VectorOps
    /\ \/ instr.op = "strided" /\ EmulIllegal(instr) /\ Raise("illegal", 0)
       \/ /\ ~(instr.op = "strided" /\ EmulIllegal(instr))
          /\ LET fault == Validate(Plan(instr))
             IN  \/ fault = NoFault /\ Perform
                 \/ fault # NoFault /\ Raise(instr.perm, fault)

AccessStart ==
    /\ phase = "ready" /\ touched = {} /\ cause = "none" /\ tval = NoFault /\ link = FALSE

AccessInit == instr \in Instructions /\ AccessStart

AccessNext == phase = "ready" /\ (LoadStore \/ HalfLoadStore \/ Jump \/ Tile \/ VectorAccess)

AccessSpec == AccessInit /\ [][AccessNext]_avars

-----------------------------------------------------------------------------
(* The constants: regions of 32-bit addresses, and instructions with the    *)
(* operands that their encodings give them.  A number put together from     *)
(* bytes is a number.                                                       *)

Positive  == Nat \ {0}
ScalarOps == {"load", "store", "fsw", "flh", "fsh", "jal", "jalr"}

WellTyped(x) ==
    /\ x.op \in ScalarOps \cup {"tile"} \cup VectorOps
    /\ x.base \in Address
    /\ x.op \notin {"mask"} => x.size \in Positive
    /\ x.op \in ScalarOps => x.offset \in Int
    /\ x.op = "fsw" => x.size <= 8
    /\ x.op \in {"jal", "jalr"} => x.perm = "execute"
    /\ x.op \in {"tile"} \cup VectorOps => x.vl \in Nat
    /\ x.op \in VectorOps => x.vstart \in Nat
    /\ x.op \in {"strided", "segment_strided"} => x.stride \in Int
    /\ x.op \in {"segment", "segment_strided", "indexed"} => x.fields \in Positive
    /\ x.op = "register" => x.regs \in Nat /\ RegBytes % x.size = 0
    /\ x.op = "indexed" => /\ x.indexWidth \in Positive /\ RegBytes % x.indexWidth = 0
                          /\ \A i \in 0 .. x.vl - 1 : IndexAt(x, i) \in Nat

ASSUME V2Constants ==
    /\ Regions \in Seq(Region)
    /\ RegBytes \in Positive /\ RegBytes % 8 = 0
    /\ TileElements \in Nat /\ MemMask \in Positive
    /\ \A x \in Instructions : WellTyped(x)

-----------------------------------------------------------------------------
(* Properties                                                               *)

\* The accesses the instruction set asks for: the elements of a plain access,
\* the segments of a unit-stride segment access, the fields of the other
\* segment accesses, each named by its element and its field.
Units(x) ==
    LET width == IF x.perm = "write" THEN 8 ELSE x.size
    IN  CASE x.op = "strided" ->
               [u \in Active(x) \X {1} |-> Check(x.base + u[1] * x.stride, x.size, x.perm)]
          [] x.op = "segment" ->
               [u \in Active(x) \X {1} |->
                   Check(x.base + u[1] * (x.fields * x.size), x.fields * x.size, x.perm)]
          [] x.op = "segment_strided" ->
               [u \in Active(x) \X (1 .. x.fields) |->
                   Check(x.base + u[1] * x.stride + (u[2] - 1) * x.size, x.size, x.perm)]
          [] x.op = "indexed" ->
               [u \in Active(x) \X (1 .. x.fields) |->
                   Check(x.base + IndexAt(x, u[1]) + (u[2] - 1) * x.size, x.size, x.perm)]
          [] x.op = "mask" ->
               [u \in (0 .. ((x.vl + 7) \div 8) - 1) \X {1} |->
                   Check(x.base + u[1], 1, x.perm)]
          [] x.op = "register" ->
               [u \in (0 .. ((RegBytes * x.regs) \div width) - 1) \X {1} |->
                   Check(x.base + u[1] * width, width, x.perm)]

\* Element order, and in an element field order.
UpTo(u, v) == u[1] < v[1] \/ (u[1] = v[1] /\ u[2] <= v[2])

\* The elements begin at address 0 and end with the last one, or the other way
\* round.  The size of this range, 2^32, is 0 in 32 bits, and HasRangePermission
\* then asks about no byte at all.
WholeSpace(x) ==
    /\ x.op \in VectorOps
    /\ LET plan  == Plan(x)
           first == Wrap(plan.base + plan.start * plan.stride)
           last  == Wrap(plan.base + (plan.count - 1) * plan.stride)
       IN  /\ plan.fast /\ plan.start < plan.count
           /\ {first, last} = {0, Space - plan.size}

\* Whatever path let it through - the range check of the fast path, the check
\* per element, index values gathered from several registers, addresses that
\* wrapped - a completed instruction touched no byte that its permission does
\* not cover (ValidateStridedVectorAccess, ValidateIndexedVectorAccess,
\* AccessCheck, TileCheck).
NothingUnchecked ==
    phase = "done" /\ ~WholeSpace(instr) =>
        \A a \in touched : HasPermission(Regions, a, 1, {instr.perm})

\* A vector instruction that faults has moved nothing, was right to fault, and
\* reports the first element in element order that is neither masked off nor
\* before vstart and is not permitted; one whose elements are all permitted
\* completes, whether or not a masked-off element would have faulted.
FaultsPrecise ==
    (instr.op \in VectorOps /\ phase # "ready" /\ cause # "illegal" /\ ~WholeSpace(instr)) =>
        LET units == Units(instr)
            bad   == {u \in DOMAIN units : ~Allowed(units[u])}
        IN  IF phase = "done" THEN bad = {}
            ELSE touched = {} /\ \E u \in bad :
                     tval = units[u].a /\ \A v \in bad : UpTo(u, v)
=============================================================================
