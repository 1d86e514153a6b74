--------------------------- MODULE ActionPointMemory ---------------------------
(***************************************************************************)
(* The instruction memory as the debugger sees it: program words, the      *)
(* ebreaks that the action point memory interface plants over them, the    *)
(* words it has saved, and the decode cache in front of the memory         *)
(* (coralnpu_action_point_memory_interface.cc).                            *)
(*                                                                         *)
(* The operations are functions from one memory to the next, because one   *)
(* debugger call performs several of them; CoralNPUTop holds the memory in *)
(* a variable.  An address stands for one 32-bit instruction word, as      *)
(* GetInstructionSize returns 4 for every word.                            *)
(***************************************************************************)
EXTENDS Naturals

CONSTANT N    (* the number of instruction words the core can address      *)

ASSUME NIsPositive == N \in Nat \ {0}

Addr == 0 .. N - 1

(* What a word does, as far as the run control can tell: fall through, go  *)
(* to the start of the program, pause, trap (illegal instruction, load or  *)
(* store access fault), exit by a semihosting call, or break.              *)
Word   == {"nop", "jump", "mpause", "trap", "exit", "ebreak"}
NoWord == "absent"

Code == [mem   : [Addr -> Word],                   (* FlatDemandMemory     *)
         saved : [Addr -> Word \cup {NoWord}],     (* instruction_map_     *)
         cache : [Addr -> Word \cup {NoWord}]]     (* DecodeCache          *)

FreshCode(program) ==
    [mem   |-> program,
     saved |-> [a \in Addr |-> NoWord],
     cache |-> [a \in Addr |-> NoWord]]

(* DecodeCache::GetDecodedInstruction: an entry, once decoded, is used     *)
(* until it is invalidated.  Evictions only forget, so they are left out.  *)
Decode(c, a) ==
    IF c.cache[a] = NoWord THEN [c EXCEPT !.cache[a] = c.mem[a]] ELSE c

(* A store of one word, through the memory interface alone.                *)
Store(c, a, w) == [c EXCEPT !.mem[a] = w]

Invalidate(c, a) == [c EXCEPT !.cache[a] = NoWord]

(* Faulty variant: the stale decoding stays in the cache.                  *)
WriteOriginalKeepingCache(c, a) ==
    IF c.saved[a] = NoWord THEN c ELSE Store(c, a, c.saved[a])

(* NotFound, and no change, for an address that was never an action point. *)
WriteOriginalInstruction(c, a) ==
    IF c.saved[a] = NoWord THEN c
    ELSE Invalidate(Store(c, a, c.saved[a]), a)

(* Faulty variant: whatever is in memory is saved, a planted ebreak too.   *)
SaveAlways(c, a) == [c EXCEPT !.saved[a] = c.mem[a]]

(* The word is saved the first time only; entries are never erased.        *)
SaveInstruction(c, a) ==
    IF c.saved[a] = NoWord THEN [c EXCEPT !.saved[a] = c.mem[a]] ELSE c

WriteBreakpointInstruction(c, a) ==
    Invalidate(Store(SaveInstruction(c, a), a, "ebreak"), a)
================================================================================
