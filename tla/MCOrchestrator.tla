----------------------------- MODULE MCOrchestrator -----------------------------
(* A preamble of two words and room for seven more: checks of one, two and   *)
(* two words fit behind a short payload, and fill the room behind others.  *)
(* A behaviour is that of the evolution loop or of one simulation of a     *)
(* program of three random words between the preamble (a jump over the     *)
(* trap handler) and the final mpause.                                     *)
EXTENDS Orchestrator, RandomSim

MCPayloads  == {<<"op">>, <<"op", "nop">>, <<"op", "op", "op", "op", "op">>}
MCCheckEnds == <<1, 3, 5>>

MCNoVset == [vl |-> -1, group |-> -1]

Reg(file, n) == [file |-> file, n |-> n, obj |-> TRUE, hi |-> "zero", class |-> "other"]
Fp(n, hi, class) == [Reg("f", n) EXCEPT !.hi = hi, !.class = class]
Csr(file) == [Reg(file, 0) EXCEPT !.obj = FALSE]

MCInsn(op, kind, next, a, src, dst) ==
    [op |-> op, kind |-> kind, known |-> TRUE, next |-> next, epc |-> a,
     src |-> src, dst |-> dst, vset |-> MCNoVset]

(* The instructions that may stand at address a.                           *)
MCWords(a) ==
    LET on == {a + 1}
    IN  {MCInsn("add", "plain", on, a, <<Reg("x", 1), Reg("x", 2)>>, <<Reg("x", 1)>>),
         MCInsn("vadd", "plain", on, a, <<Reg("v", 1), Reg("v", 2)>>, <<Reg("v", 0)>>),
         [MCInsn("vset", "plain", on, a, <<>>, <<Reg("x", 2)>>) EXCEPT !.vset = [vl |-> 4, group |-> 2]],
         [MCInsn("vset", "plain", on, a, <<>>, <<Reg("x", 2)>>) EXCEPT !.vset = [vl |-> 0, group |-> 1]],
         MCInsn("fadd", "plain", on, a, <<Fp(1, "ones", "snan"), Fp(2, "other", "denormal")>>,
                <<Reg("f", 1), Csr("fflags")>>),
         MCInsn("csrw", "plain", on, a, <<Reg("x", 1)>>, <<Csr("mtvec")>>),
         MCInsn("csrw", "plain", on, a, <<Reg("vstart", 0)>>, <<Reg("vstart", 0)>>),
         MCInsn("csrr", "plain", on, a, <<[Csr("fflags") EXCEPT !.class = "denormal"]>>, <<Reg("x", 1)>>),
         MCInsn("bne", "plain", {2, a + 1}, a, <<Reg("x", 1)>>, <<>>),
         MCInsn("lw", "trap", {}, a, <<Reg("x", 2)>>, <<Reg("x", 1)>>),
         [MCInsn("unknown", "trap", {}, a, <<>>, <<>>) EXCEPT !.known = FALSE],
         MCInsn("jalr", "fault", {}, a, <<>>, <<>>),
         MCInsn("ebreak", "ebreak", {}, a, <<>>, <<>>),
         MCInsn("mpause", "mpause", {}, a, <<>>, <<>>)}

MCText(x, y, z) ==
    [a \in 0 .. 5 |->
        CASE a = 0 -> MCInsn("jal", "plain", {2}, 0, <<>>, <<Reg("x", 1)>>)
          [] a = 1 -> MCInsn("sw", "plain", {5}, 1, <<>>, <<>>)
          [] a = 2 -> x
          [] a = 3 -> y
          [] a = 4 -> z
          [] a = 5 -> MCInsn("mpause", "mpause", {}, 5, <<>>, <<>>)]

MCSimPrograms == {MCText(x, y, z) : x \in MCWords(2), y \in MCWords(3), z \in MCWords(4)}

(* The machine that a behaviour is not about keeps still.                  *)
SimIdle ==
    /\ text = << >> /\ simpc = 0 /\ vector = [vl |-> 1, group |-> 1] /\ mtvec = Handler
    /\ executed = 0 /\ captured = 0 /\ reason = "none" /\ ok = TRUE
    /\ tracker = NewTracker /\ verdict = "idle" /\ ran = <<>> /\ shown = <<>>

MCInit == Init /\ (SimIdle \/ SimInit)

SimOver == verdict \in {"success", "failure"} /\ UNCHANGED <<vars, simvars>>

MCNext ==
    \/ verdict = "idle" /\ Next /\ UNCHANGED simvars
    \/ verdict # "idle" /\ SimNext /\ UNCHANGED vars
    \/ SimOver

MCSpec == MCInit /\ [][MCNext]_<<vars, simvars>>
================================================================================
