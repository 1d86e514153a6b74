---------------------------- MODULE MCExecution ----------------------------
(* The two instruction families that are modelled step by step and share no *)
(* state: the guarded memory accesses of V2Access and the bfloat16          *)
(* conversions of Zfbfmin.  Each behaviour executes instructions of one     *)
(* family; the other one's state stays as it started.                       *)
EXTENDS MCV2Access, MCZfbfmin

VARIABLE family

(* What the family that does not execute holds.                            *)
IdleVector == [NoVector EXCEPT !.vl = 0]
IdleBfloat16 ==
    Start([src |-> BoxWord(0), rm |-> RNE, frm |-> RNE, fflags |-> {}, fs |-> 1, vs |-> 1,
           v |-> <<>>, vt |-> IdleVector, insn |-> NoInsn])
IdleAccess == AccessStart /\ instr = [op |-> "load"]

InitAll ==
    \/ family = "access" /\ AccessInit /\ IdleBfloat16
    \/ family = "bfloat16" /\ Init /\ IdleAccess

NextAll ==
    \/ family = "access" /\ AccessNext /\ UNCHANGED <<family, fpvars>>
    \/ family = "bfloat16" /\ Next /\ UNCHANGED <<family, avars>>

SpecAll == InitAll /\ [][NextAll]_<<family, avars, fpvars>>
=============================================================================
