----------------------------- MODULE MemoryRegions -----------------------------
(***************************************************************************)
(* The memory regions of CoralNPUV2State and the question every fetch,     *)
(* load and store asks of them, HasPermission (coralnpu_v2_state.cc).      *)
(*                                                                         *)
(* MemoryPermission is a bit mask; here it is the set of its bits, so      *)
(* (have & want) == want is want \subseteq have.                           *)
(***************************************************************************)
EXTENDS Integers, Sequences

CONSTANT Space     (* the number of addresses, 2^32 in the code            *)

ASSUME SpaceIsPositive == Space \in Nat \ {0}

Address    == 0 .. Space - 1
Permission == SUBSET {"read", "write", "execute"}
Region     == [start : Address, length : Address, perm : Permission]

ReadWrite        == {"read", "write"}
ReadExecute      == {"read", "execute"}
ReadWriteExecute == {"read", "write", "execute"}

(* Faulty variant: the ends are computed in 32 bits.                       *)
ContainsWrapping(r, address, size) ==
    /\ address >= r.start
    /\ (address + size) % Space <= (r.start + r.length) % Space

(* The ends are 64-bit sums of 32-bit values: nothing wraps.               *)
Contains(r, address, size) ==
    /\ address >= r.start
    /\ address + size <= r.start + r.length

(* Region i is the one that decides about the access: the first, in the    *)
(* order they were added, that contains all of it.                         *)
Decides(regions, i, address, size) ==
    /\ i \in DOMAIN regions
    /\ Contains(regions[i], address, size)
    /\ \A j \in DOMAIN regions : j < i => ~Contains(regions[j], address, size)

HasPermission(regions, address, size, perm) ==
    \E i \in DOMAIN regions :
        Decides(regions, i, address, size) /\ perm \subseteq regions[i].perm

(* Faulty variant: the newest region comes first.                          *)
AddFirst(regions, start, length, perm) ==
    <<[start |-> start, length |-> length, perm |-> perm]>> \o regions

AddMemoryRegion(regions, start, length, perm) ==
    Append(regions, [start |-> start, length |-> length, perm |-> perm])
================================================================================
