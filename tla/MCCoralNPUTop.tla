---------------------------- MODULE MCCoralNPUTop ----------------------------
(* Small programs on which TLC checks CoralNPUTop.                         *)
EXTENDS CoralNPUTop

(* A program that halts, and one that loops for ever and is followed by    *)
(* one that halts.                                                         *)
PauseProgram == <<"nop", "nop", "mpause">>
TwoPrograms  == <<"jump", "nop", "mpause">>

MCTwo   == [a \in Addr |-> TwoPrograms[a + 1]]
MCPause == [a \in Addr |-> PauseProgram[a + 1]]
==============================================================================
