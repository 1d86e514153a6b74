------------------------------ MODULE RandomSim ------------------------------
(***************************************************************************)
(* One simulation of a random sequence (RunRandomSimulation of             *)
(* sim/random_simulator.cc) and the detector that watches it               *)
(* (sim/execution_tracker.cc, fed by isg/coverage_event_router.h).  The    *)
(* loop shows each instruction to the tracker, steps the core by one and   *)
(* ends at the first trap, halt or error, or at the step limit; what ended *)
(* it decides whether the sequence counts as a success.                    *)
(*                                                                         *)
(* A program is a function from word addresses to instructions:            *)
(*   op         the opcode                                                 *)
(*   kind       what its execution does: "plain", "trap", "mpause",        *)
(*              "ebreak", "fault" (Step returns an error)                  *)
(*   known      GetInstruction finds it                                    *)
(*   next, epc  where a plain one may go on; the epc of a trap             *)
(*   src, dst   operands [file, n, obj, hi, class]: a register, whether it *)
(*              has an underlying object and, for the tests of floating    *)
(*              point values, the upper 32 bits ("ones", "zero", "other")  *)
(*              and the class of the number in the format that they imply  *)
(*   vset       the [vl, group] that it sets, or NoVset                    *)
(***************************************************************************)
EXTENDS Integers, FiniteSets, SequencesExt

CONSTANTS
    SimPrograms,  \* the programs
    StepLimit,    \* step_limit
    NumVectors,   \* 32
    Handler,      \* the trap handler of the preamble
    NoVset

\* The operands of an instruction, and the vector states that one can set.
Operands ==
    [file : STRING, n : Nat, obj : BOOLEAN,
     hi : {"ones", "zero", "other"}, class : {"snan", "denormal", "other"}]

VectorStates == [vl : Nat, group : {1, 2, 4, 8} \cap 1 .. NumVectors]

ASSUME SimAssumption ==
    /\ StepLimit \in Nat \ {0} /\ NumVectors \in Nat \ {0} /\ Handler \in Nat \ {0}
    /\ \A p \in SimPrograms :
         /\ DOMAIN p \subseteq Nat /\ {0, Handler - 1, Handler} \subseteq DOMAIN p
         /\ p[0].kind = "plain"                   \* the preamble
         /\ p[Handler].kind = "plain" /\ p[Handler - 1].kind = "plain"
         /\ \A a \in DOMAIN p :
              /\ p[a].kind \in {"plain", "trap", "mpause", "ebreak", "fault"}
              /\ p[a].next \subseteq DOMAIN p
              /\ a # 0 => p[a].epc # 0
              /\ p[a].src \in Seq(Operands) /\ p[a].dst \in Seq(Operands)
              /\ p[a].vset \in VectorStates \cup {NoVset}

VARIABLES
    text,      \* the program
    simpc,     \* the pc register
    vector,    \* the vector state: [vl, group]
    mtvec,
    executed,
    captured,  \* captured_trap_pc; 0 if there was no trap
    reason,    \* the last halt reason: "none" or "user"
    ok,        \* run_status.ok()
    tracker,   \* the ExecutionTracker
    verdict,   \* "running", then "success" or "failure"
    ran,       \* history: what was executed, with the vector state then
    shown      \* history: the part of it that the tracker was shown

simvars == <<text, simpc, vector, mtvec, executed, captured, reason, ok, tracker, verdict, ran, shown>>

-----------------------------------------------------------------------------
(* ExecutionTracker                                                         *)

Opcodes == UNION {{p[a].op : a \in DOMAIN p} : p \in SimPrograms}

CountedCsrs == {"fflags", "vstart"}

PoisonPills == {"boxed", "snan", "denormal"}

\* coverage_summary_ by the kinds of its keys; a key that is not in it counts 0.
\* last is last_written_cycle_, a map that knows the registers written so far.
NewTracker ==
    [count     |-> 0,
     last      |-> << >>,
     opcodes   |-> [op \in Opcodes |-> 0],
     hazards   |-> [d \in 1 .. 3 |-> 0],      \* RAW_HAZARD_d
     csrs      |-> [c \in CountedCsrs |-> 0],
     pills     |-> [p \in PoisonPills |-> 0],
     corrupted |-> FALSE]                      \* Trap Handler Corrupted

\* The registers of an operand: a vector register stands for its group under the
\* current vtype.  While vl is 0 whatever begins with a v stands for none.
GroupSize(o, vs) ==
    CASE ~o.obj                                        -> 0
      [] o.obj /\ o.file \in {"v", "vstart"} /\ vs.vl = 0 -> 0
      [] o.obj /\ o.file = "v" /\ vs.vl # 0             -> vs.group
      [] OTHER                                         -> 1

ExpandVectorReg(o, i) ==
    <<o.file, IF o.file = "v" THEN (o.n + i) % NumVectors ELSE o.n>>

\* The operands of a list, register by register: <<operand, register>>.
Registers(operands, vs) ==
    {p \in (DOMAIN operands) \X (0 .. NumVectors - 1) : p[2] < GroupSize(operands[p[1]], vs)}

Written(inst, vs) ==
    {ExpandVectorReg(inst.dst[p[1]], p[2]) : p \in Registers(inst.dst, vs)}

LogOpcode(t, inst) ==
    [t EXCEPT !.count = @ + 1, !.opcodes[inst.op] = @ + 1]

\* fflags and vstart are counted as often as they are named; naming mtvec, be it
\* only as a source, sets a mark.
CheckCsr(t, operands) ==
    [t EXCEPT
       !.csrs = [c \in CountedCsrs |->
                    t.csrs[c] + Cardinality({k \in DOMAIN operands : operands[k].file = c})],
       !.corrupted = @ \/ \E k \in DOMAIN operands : operands[k].file = "mtvec"]

\* The registers of the sources that were written d instructions ago.
WrittenBefore(t, last, inst, vs, d) ==
    {p \in Registers(inst.src, vs) :
        LET r == ExpandVectorReg(inst.src[p[1]], p[2])
        IN  r \in DOMAIN last /\ t.count - last[r] = d}

RecordWrites(t, inst, vs) ==
    [r \in DOMAIN t.last \cup Written(inst, vs) |->
        IF r \in Written(inst, vs) THEN t.count ELSE t.last[r]]

\* Faulty variant: the destinations are recorded before the sources are read.
CalculateHazardDistance_WritesFirst(t, inst, vs) ==
    [CheckCsr(t, inst.src \o inst.dst) EXCEPT
       !.hazards = [d \in 1 .. 3 |-> t.hazards[d]
                      + Cardinality(WrittenBefore(t, RecordWrites(t, inst, vs), inst, vs, d))],
       !.last = RecordWrites(t, inst, vs)]

\* A source that was written one to three instructions ago is a hazard; the
\* destinations are recorded behind it.
CalculateHazardDistance(t, inst, vs) ==
    [CheckCsr(t, inst.src \o inst.dst) EXCEPT
       !.hazards = [d \in 1 .. 3 |-> t.hazards[d]
                      + Cardinality(WrittenBefore(t, t.last, inst, vs, d))],
       !.last = RecordWrites(t, inst, vs)]

\* Every source whose name begins with f is looked at as a number, fflags too.
Pills(operand) ==
    {p \in PoisonPills :
        /\ operand.file \in {"f", "fflags"}
        /\ p = "boxed" => operand.hi = "ones"
        /\ p # "boxed" => operand.class = p}

VerifyFpPoisonPills(t, inst) ==
    [t EXCEPT !.pills = [p \in PoisonPills |->
        t.pills[p] + Cardinality({k \in DOMAIN inst.src : p \in Pills(inst.src[k])})]]

OnInstruction(t, inst, vs) ==
    VerifyFpPoisonPills(CalculateHazardDistance(LogOpcode(t, inst), inst, vs), inst)

-----------------------------------------------------------------------------
(* RunRandomSimulation                                                      *)

SimInit ==
    /\ text \in SimPrograms
    /\ simpc = 0 /\ vector = [vl |-> 1, group |-> 1] /\ mtvec = Handler
    /\ executed = 0 /\ captured = 0
    /\ reason = "none" /\ ok = TRUE
    /\ tracker = NewTracker /\ verdict = "running"
    /\ ran = <<>> /\ shown = <<>>

\* The callback given to set_on_trap: the first trap is kept, and 0 means none.
CaptureTrap(epc) == IF captured = 0 THEN epc ELSE captured

\* Step(1) of the core (external), with the handlers of AddCustomHandlers:
\* mpause and ebreak request a halt, which leaves the pc on the instruction or
\* behind it; a trap goes to mtvec.
StepOne(inst) ==
    \/ /\ inst.kind = "plain"
       /\ simpc' \in inst.next
       /\ UNCHANGED <<captured, reason, ok>>
    \/ /\ inst.kind = "trap"
       /\ captured' = CaptureTrap(inst.epc)
       /\ simpc' = mtvec
       /\ UNCHANGED <<reason, ok>>
    \/ /\ inst.kind \in {"mpause", "ebreak"}
       /\ reason' = "user"
       /\ simpc' \in {simpc, simpc + 1}
       /\ UNCHANGED <<captured, ok>>
    \/ /\ inst.kind = "fault"
       /\ ok' = FALSE
       /\ UNCHANGED <<simpc, captured, reason>>

LoopGoesOn ==
    executed < StepLimit /\ captured = 0 /\ ok /\ reason = "none"

\* One turn of the loop.
SimStep ==
    LET inst == text[simpc]
    IN  /\ verdict = "running" /\ LoopGoesOn
        /\ tracker' = IF inst.known THEN OnInstruction(tracker, inst, vector) ELSE tracker
        /\ StepOne(inst)
        /\ executed' = executed + 1
        /\ vector' = IF inst.vset = NoVset THEN vector ELSE inst.vset
        /\ IF inst.kind = "plain" /\ \E k \in DOMAIN inst.dst : inst.dst[k].file = "mtvec"
           THEN mtvec' \in DOMAIN text ELSE UNCHANGED mtvec
        /\ ran' = Append(ran, [inst |-> inst, vs |-> vector])
        /\ shown' = IF inst.known THEN Append(shown, [inst |-> inst, vs |-> vector]) ELSE shown
        /\ UNCHANGED <<text, verdict>>

\* Faulty variant: the limit counts whatever ended the last step.
TimedOut_LimitOnly == executed >= StepLimit

TimedOut == executed >= StepLimit /\ reason = "none"

\* The final pc, or the word in front of it, decodes to an mpause.
FoundMpause ==
    \E a \in {simpc, simpc - 1} \cap DOMAIN text : text[a].kind = "mpause"

\* The loop is left, the terminal state recorded and the result returned.
SimReturn ==
    /\ verdict = "running" /\ ~LoopGoesOn
    /\ verdict' = IF ok /\ ~TimedOut /\ FoundMpause THEN "success" ELSE "failure"
    /\ UNCHANGED <<text, simpc, vector, mtvec, executed, captured, reason, ok, tracker, ran, shown>>

SimNext == SimStep \/ SimReturn

SimSpec == SimInit /\ [][SimNext]_simvars

-----------------------------------------------------------------------------
(* Properties                                                               *)

\* The vector registers n, n + 1, ... of the group at n.
InGroup(r, n, group) == \E i \in 0 .. group - 1 : r = (n + i) % NumVectors

\* Entry e of the trace writes register r of a file.
Writes(e, file, r) ==
    \E k \in DOMAIN e.inst.dst :
        LET o == e.inst.dst[k]
        IN  /\ o.obj /\ o.file = file
            /\ file \in {"v", "vstart"} => e.vs.vl # 0
            /\ IF file = "v" THEN InGroup(r, o.n, e.vs.group) ELSE o.n = r

\* Instruction j of the trace reads, as register i of its source k, a register
\* whose last writer is d instructions back.
ReadBehind(j, k, i, d) ==
    LET e == shown[j]
        o == e.inst.src[k]
        r == IF o.file = "v" THEN (o.n + i) % NumVectors ELSE o.n
    IN  /\ o.obj
        /\ o.file \in {"v", "vstart"} => e.vs.vl # 0
        /\ IF o.file = "v" THEN i < e.vs.group ELSE i = 0
        /\ Writes(shown[j - d], o.file, r)
        /\ \A x \in j - d + 1 .. j - 1 : ~Writes(shown[x], o.file, r)

ReadsBehind(d) ==
    UNION {{p \in {j} \X (DOMAIN shown[j].inst.src) \X (0 .. NumVectors - 1) :
              ReadBehind(j, p[2], p[3], d)} : j \in d + 1 .. Len(shown)}

\* The tracker's running counts are those of the whole trace: RAW_HAZARD_d is
\* the number of register reads whose last writer is exactly d instructions
\* back, an instruction that reads and writes a register counts the earlier
\* writer, groups are those of the vtype in force when each instruction ran
\* (none under vl = 0), a rewritten register hides the older writer, and every
\* opcode is counted as often as it was shown (CalculateHazardDistance,
\* LogOpcode).
HazardsExact ==
    /\ tracker.count = Len(shown)
    /\ \A d \in 1 .. 3 : tracker.hazards[d] = Cardinality(ReadsBehind(d))
    /\ \A op \in Opcodes :
          tracker.opcodes[op] = Cardinality({j \in DOMAIN shown : shown[j].inst.op = op})

\* The run ends with the first instruction that traps, halts or fails, and none
\* is stepped behind it; one that ends in its mpause is a success, also when it
\* has used up the step limit exactly; one that ran out of steps, ended in an
\* error, or ended anywhere but beside an mpause is not, and neither is one that
\* trapped, unless it had replaced the trap handler (the break conditions of
\* RunRandomSimulation and its verdict).
RunJudged ==
    /\ \A k \in 1 .. Len(ran) - 1 : ran[k].inst.kind = "plain"
    /\ verdict \in {"success", "failure"} =>
         LET last == Last(ran).inst.kind
         IN  /\ last = "mpause" => verdict = "success"
             /\ last \in {"plain", "fault"} => verdict = "failure"
             /\ last = "trap" /\ (executed = StepLimit \/ mtvec = Handler) => verdict = "failure"
             /\ verdict = "success" =>
                   \E a \in {simpc, simpc - 1} \cap DOMAIN text : text[a].kind = "mpause"
=============================================================================
