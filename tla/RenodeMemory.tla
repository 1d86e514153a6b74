---------------------------- MODULE RenodeMemory ----------------------------
(***************************************************************************)
(* CoralNPURenodeMemory (sim/renode/coralnpu_renode_memory.cc): the memory *)
(* of the simulator when it runs inside Renode.  The bytes live in blocks  *)
(* that Renode allocates and shares; an access is cut at the boundaries of *)
(* the blocks, one copy a step.  The addressable unit is one byte and the  *)
(* base address 0, as in every use of the class.                           *)
(*                                                                         *)
(* A scalar access is one of a single element as long as the data buffer.  *)
(* Renode's other bus masters write to the blocks between the accesses of  *)
(* the core.                                                               *)
(***************************************************************************)
EXTENDS Integers, Sequences

CONSTANTS
    BlockSize,   \* block_size_bytes
    MemorySize,  \* memory_size_bytes
    AddressSpace,\* 2^64, the modulus of an address
    Requests,    \* the accesses: kind, addresses, mask, el_size, latency, inst
    MaxIssued    \* bound: accesses, and writes by other bus masters

ASSUME MemoryAssumption ==
    /\ BlockSize \in Nat \ {0} /\ MemorySize \in Nat \ {0}
    /\ AddressSpace \in Nat /\ MemorySize < AddressSpace
    /\ MaxIssued \in Nat
    /\ \A r \in Requests :
         /\ r.kind \in {"load", "store"} /\ r.el_size \in Nat \ {0}
         /\ r.mask \in Seq(BOOLEAN) /\ r.mask # <<>>
         /\ r.addresses \in Seq(0 .. AddressSpace - 1)
         /\ Len(r.addresses) \in {1, Len(r.mask)}
         /\ r.latency \in Nat /\ r.inst \in BOOLEAN
         \* An int, and a memory that the host can allocate.
         /\ MemorySize + r.el_size <= AddressSpace

VARIABLES
    block_map,   \* block_map_: the blocks
    call,        \* the access in progress, or Idle
    line,        \* the function delay line: results and the cycles left
    answers,     \* what the instructions, or a caller without one, received
    issued,      \* the number of accesses and of writes by others
    aborted      \* an ABSL_HARDENING_ASSERT has failed

vars == <<block_map, call, line, answers, issued, aborted>>

max_address == MemorySize
num_block   == (max_address + BlockSize - 1) \div BlockSize
Idle        == [state |-> "idle"]
Byte(n, k)  == <<n, k>>

Init ==
    /\ block_map = [b \in 0 .. num_block - 1 |-> [o \in 0 .. BlockSize - 1 |->
                                                    Byte(0, b * BlockSize + o)]]
    /\ call = Idle /\ line = {} /\ answers = {}
    /\ issued = 0 /\ aborted = FALSE

Alive == ~aborted

(* Load or Store is called with a data buffer.                             *)
Issue(r) ==
    /\ Alive /\ call = Idle /\ issued < MaxIssued
    /\ issued' = issued + 1
    /\ call' = [state |-> "busy", request |-> r, index |-> 0,
                address |-> 0, byte_ptr |-> 0, size_in_units |-> 0,
                data |-> [k \in 0 .. Len(r.mask) * r.el_size - 1 |->
                            Byte(issued + 1, k)]]
    /\ UNCHANGED <<block_map, line, answers, aborted>>

-----------------------------------------------------------------------------
(* The loop over the elements.                                             *)

InLoop == Alive /\ call # Idle /\ call.size_in_units = 0
More   == call.index < Len(call.request.mask)
On     == call.request.mask[call.index + 1]

(* One address: unit stride; several: gather or scatter.                   *)
ElementAddress(r, i) ==
    IF Len(r.addresses) > 1 THEN r.addresses[i + 1]
    ELSE (r.addresses[1] + i * r.el_size) % AddressSpace

IsValidAddress(address, high_address) ==
    address >= 0 /\ high_address <= max_address

(* The sum wraps around at 2^64; LoadStoreHelper then asserts that the     *)
(* address itself is inside.                                               *)
Admitted(r, i) ==
    LET address == ElementAddress(r, i)
    IN  /\ IsValidAddress(address, (address + r.el_size) % AddressSpace)
        /\ address < max_address

MaskedOff ==
    /\ InLoop /\ More /\ ~On
    /\ call' = [call EXCEPT !.index = @ + 1]
    /\ UNCHANGED <<block_map, line, answers, issued, aborted>>

StartElement ==
    /\ InLoop /\ More /\ On
    /\ Admitted(call.request, call.index)
    /\ call' = [call EXCEPT !.address = ElementAddress(call.request, call.index),
                            !.byte_ptr = call.index * call.request.el_size,
                            !.size_in_units = call.request.el_size,
                            !.index = @ + 1]
    /\ UNCHANGED <<block_map, line, answers, issued, aborted>>

AssertFails ==
    /\ InLoop /\ More /\ On
    /\ ~Admitted(call.request, call.index)
    /\ aborted' = TRUE
    /\ UNCHANGED <<block_map, call, line, answers, issued>>

-----------------------------------------------------------------------------
(* LoadStoreHelper: one turn of its loop copies what lies in one block.    *)

LesserOf(a, b) == IF a < b THEN a ELSE b

BlockUnitOffset(address) == address - (address \div BlockSize) * BlockSize

(* Faulty variant: a copy may run off the end of its block.                *)
StoreSize_OffsetForgotten(address, size) == LesserOf(size, BlockSize)

(* Faulty variant: the last byte of a block is out of reach.               *)
StoreSize_LastByteLost(address, size) ==
    LesserOf(size, BlockSize - 1 - BlockUnitOffset(address))

StoreSize(address, size) == LesserOf(size, BlockSize - BlockUnitOffset(address))

LoadStoreHelper ==
    LET b == call.address \div BlockSize
        o == BlockUnitOffset(call.address)
        n == StoreSize(call.address, call.size_in_units)
        p == call.byte_ptr
        InBlock(q) == q \in o .. o + n - 1
        InData(k)  == k \in p .. p + n - 1
    IN  /\ Alive /\ call # Idle /\ call.size_in_units > 0
        /\ block_map' =
             IF call.request.kind = "load" THEN block_map
             ELSE [block_map EXCEPT ![b] = [q \in DOMAIN @ |->
                      IF InBlock(q) THEN call.data[p + q - o] ELSE @[q]]]
        /\ call' = [call EXCEPT
                      !.size_in_units = @ - n, !.byte_ptr = @ + n, !.address = @ + n,
                      !.data = IF call.request.kind = "store" THEN @
                               ELSE [k \in DOMAIN @ |->
                                       IF InData(k) /\ o + k - p < BlockSize
                                       THEN block_map[b][o + k - p] ELSE @[k]]]
        /\ UNCHANGED <<line, answers, issued, aborted>>

-----------------------------------------------------------------------------
(* The end of an access: an instruction with a latency goes to the delay   *)
(* line, with its data buffer already filled; any other is executed now.   *)

Finish ==
    LET r      == call.request
        answer == [id |-> issued, data |-> call.data]
    IN  /\ InLoop /\ ~More
        /\ call' = Idle
        /\ \/ /\ r.kind = "store"
              /\ UNCHANGED <<line, answers>>
           \/ /\ r.kind = "load" /\ r.inst /\ r.latency > 0
              /\ line' = line \cup {[result |-> answer, due |-> r.latency]}
              /\ UNCHANGED answers
           \/ /\ r.kind = "load" /\ (~r.inst \/ r.latency = 0)
              /\ answers' = answers \cup {answer}
              /\ UNCHANGED line
        /\ UNCHANGED <<block_map, issued, aborted>>

(* FunctionDelayLine::Advance: one cycle passes; entries whose time has    *)
(* come are executed.                                                      *)
Advance ==
    /\ Alive /\ call = Idle /\ line # {}
    /\ answers' = answers \cup {e.result : e \in {d \in line : d.due = 1}}
    /\ line' = {[e EXCEPT !.due = @ - 1] : e \in {d \in line : d.due > 1}}
    /\ UNCHANGED <<block_map, call, issued, aborted>>

(* A write by another bus master, straight to the shared block.            *)
RenodeWrites(a) ==
    /\ Alive /\ call = Idle /\ issued < MaxIssued
    /\ issued' = issued + 1
    /\ block_map' = [block_map EXCEPT ![a \div BlockSize][BlockUnitOffset(a)] =
                       Byte(issued + 1, 0)]
    /\ UNCHANGED <<call, line, answers, aborted>>

Working == MaskedOff \/ StartElement \/ AssertFails \/ LoadStoreHelper \/ Finish

Next ==
    \/ \E r \in Requests : Issue(r)
    \/ Working
    \/ Advance
    \/ \E a \in 0 .. max_address - 1 : RenodeWrites(a)

(* A call that has begun runs to its end, and the clock goes on.           *)
Fairness == WF_vars(Working) /\ WF_vars(Advance)

Spec == Init /\ [][Next]_vars /\ Fairness

-----------------------------------------------------------------------------
(* The flat memory that the blocks implement: an element whose copies have *)
(* begun counts as copied.                                                 *)

Copying(a) == call # Idle /\ a \in call.address .. call.address + call.size_in_units - 1

FlatByte(a) ==
    IF Copying(a) /\ call.request.kind = "store"
    THEN call.data[call.byte_ptr + a - call.address]
    ELSE block_map[a \div BlockSize][BlockUnitOffset(a)]

FlatAccess ==
    IF call = Idle THEN Idle
    ELSE [state |-> "busy", request |-> call.request, index |-> call.index,
          data |-> [k \in DOMAIN call.data |->
                      LET a == call.address + k - call.byte_ptr
                      IN  IF Copying(a) /\ call.request.kind = "load"
                          THEN FlatByte(a) ELSE call.data[k]]]

Flat == INSTANCE FlatMemory WITH
            bytes   <- [a \in 0 .. max_address - 1 |-> FlatByte(a)],
            access  <- FlatAccess,
            waiting <- {e.result : e \in line}

(* Memory cut into blocks is flat memory: accesses that cross any number   *)
(* of blocks, start or end on a boundary, or reach into the last, partly   *)
(* used block read and write the bytes they name and no others; elements   *)
(* of a scatter to the same place are stored in order; a delayed load      *)
(* gives what memory held when it was issued; and the two assertions       *)
(* together stop every access that is not inside the memory, also those    *)
(* whose end wraps around the address space.                               *)
ImplementsFlat == Flat!Spec

(* Every load that begins is answered, whatever it crosses and whatever    *)
(* its latency, unless an assertion ends the process: the copying loop and *)
(* the delay line come to an end.                                          *)
LoadsAnswered ==
    \A n \in 1 .. MaxIssued :
        (call # Idle /\ call.request.kind = "load" /\ issued = n)
            ~> (aborted \/ \E x \in answers : x.id = n)
=============================================================================
