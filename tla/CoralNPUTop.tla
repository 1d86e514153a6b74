------------------------------ MODULE CoralNPUTop ------------------------------
(***************************************************************************)
(* The run control of CoralNPUTop (coralnpu_top.cc): a debugger thread     *)
(* that calls the CoreDebugInterface methods, the detached thread that     *)
(* each Run() starts, and a second caller of Halt() (the control-C handler *)
(* of coralnpu_sim.cc).  They share the atomics run_status_, halt_reason_, *)
(* halted_ and need_to_step_over_, the pointer run_halted_, and, without   *)
(* any lock, the pc register, the instruction memory and the decode cache. *)
(*                                                                         *)
(* A step of a thread ends at each access to an atomic; what a thread does *)
(* to the registers and the memory between two such accesses is one step.  *)
(* Calls that return an error change nothing and are not steps.            *)
(***************************************************************************)
EXTENDS ActionPointMemory, FiniteSets

CONSTANTS
    Program,     (* the word at each address when the debugger attaches    *)
    MaxRuns,     (* bound: the number of calls of Run()                    *)
    MaxSteps,    (* bound: the largest argument of Step()                  *)
    MaxCalls,    (* bound: the number of debugger calls that change state  *)
    MaxHalts,    (* bound: the number of Halt() calls of the second caller *)
    Breakable,   (* the addresses at which the debugger sets breakpoints   *)
    Patches,     (* the words WriteMemory stores                           *)
    ApiReasons,  (* the reasons given to Halt(reason)                      *)
    Risky        (* the hazardous call patterns the clients use            *)

(* The call patterns for which the code gives less than it seems to. A     *)
(* client that uses none of them is called careful.                        *)
RiskyPatterns ==
    {"stepFromBreakpoint",   (* Step() when stopped at a breakpoint        *)
     "clearAtStop",          (* clear the breakpoint the core stopped at   *)
     "movePcAtStop",         (* write the pc when stopped at a breakpoint  *)
     "breakOnPause",         (* a breakpoint on a word that itself halts   *)
     "patchDecoded",         (* overwrite a word already decoded or saved  *)
     "runBeforeWait",        (* Run() again without Wait() for the last    *)
     "concurrentHalt"}       (* Halt() on a thread of its own              *)

Reason == {"none", "userRequest", "softwareBreakpoint", "actionPoint",
           "haltAbort", "semihostHaltRequest"}

ASSUME ConstantsAreTyped ==
    /\ Program \in [Addr -> Word]
    /\ {MaxRuns, MaxSteps, MaxCalls, MaxHalts} \subseteq Nat
    /\ Breakable \subseteq Addr
    /\ Patches \subseteq Word \ {"exit"}
    /\ ApiReasons \subseteq Reason
    /\ Risky \subseteq RiskyPatterns

--------------------------------------------------------------------------------
User   == 0
Runs   == 1 .. MaxRuns
Halter == MaxRuns + 1
Procs  == 0 .. MaxRuns + 1

VARIABLES
    runStatus,       (* run_status_                                        *)
    haltReason,      (* halt_reason_                                       *)
    halted,          (* halted_                                            *)
    needToStepOver,  (* need_to_step_over_                                 *)
    runHalted,       (* run_halted_: the run it belongs to, 0 for nullptr  *)
    notif,           (* each run's Notification                            *)
    pcReg,           (* the pc register                                    *)
    code,            (* memory, saved words and decode cache               *)
    bps,             (* the active breakpoints of bp_manager_              *)
    at,              (* where each thread is                               *)
    ctx,             (* why it executes: the loop, or StepPastBreakpoint   *)
    lpc, lnext,      (* the locals pc and next_pc of Step() and of Run()   *)
    sp,              (* the local pc of StepPastBreakpoint                 *)
    pend,            (* the argument of the RequestHalt a thread is in     *)
    count, num,      (* the local count and the argument of Step()         *)
    calls, halts,    (* how much of MaxCalls and MaxHalts is used          *)
    program,         (* history: the words the client has put in memory    *)
    arch,            (* history: the address of the next instruction the   *)
                     (* program is to execute                              *)
    paused           (* history: the program halted itself in this resume  *)

atomics == <<runStatus, haltReason, halted, needToStepOver>>
locals  == <<lpc, lnext, sp, pend, ctx>>
stepArg == <<count, num>>
bounds  == <<calls, halts>>
note    == <<runHalted, notif>>
store   == <<pcReg, code, bps>>
history == <<program, arch, paused>>
vars    == <<atomics, locals, stepArg, bounds, note, store, history, at>>

Undef == N     (* an uninitialized uint64_t pc                             *)

Goto(p, label) == at' = [at EXCEPT ![p] = label]
Move(p, from, to) == at[p] = from /\ Goto(p, to)

--------------------------------------------------------------------------------
(* Executing one instruction.                                              *)

(* Faulty variant: the pc runs off the end of the memory.                  *)
SuccessorUnwrapped(a, w) == IF w = "jump" THEN 0 ELSE a + 1

Successor(a, w) == IF w = "jump" THEN 0 ELSE (a + 1) % N

(* The first RequestHalt that executing word w at address a leads to: the  *)
(* ebreak handler (a semihosting call, an action point, or a fault), the   *)
(* mpause handler and the trap callback.  A breakpoint over a semihosting  *)
(* ebreak stores the same word, so the call is still recognised.           *)
HaltRequest(c, a, w) ==
    CASE w = "exit" \/ (w = "ebreak" /\ c.saved[a] = "exit")
                                    -> "semihostHaltRequest"
      [] w = "ebreak" /\ c.saved[a] # "exit"
                                    -> IF a \in bps THEN "actionPoint"
                                                    ELSE "haltAbort"
      [] w \in {"mpause", "trap"}   -> "userRequest"
      [] OTHER                      -> "none"

(* A word counts as executed by the program unless it is an ebreak that    *)
(* the debugger put there.                                                 *)
Retires(a, w, r) ==
    r # "actionPoint" /\ (w = "ebreak" => program[a] \in {"ebreak", "exit"})

(* Decode and execute the word at address a of memory c, then go on at     *)
(* label done, by way of RequestHalt if the word asks for a halt.          *)
ExecuteInstruction(p, c, a, done) ==
    LET d == Decode(c, a)
        w == d.cache[a]
        r == HaltRequest(d, a, w)
    IN  /\ code'   = d
        /\ pcReg'  = Successor(a, w)
        /\ pend'   = [pend EXCEPT ![p] = r]
        /\ arch'   = IF Retires(a, w, r) THEN Successor(a, w) ELSE arch
        /\ paused' = (paused \/ (Retires(a, w, r) /\ r # "none"))
        /\ Goto(p, IF r = "none" THEN done ELSE "reason")

(* RequestHalt, a step for each access to an atomic: the reason, the flag, *)
(* and the reason again to decide about need_to_step_over_.  An action     *)
(* point handler goes on to the breakpoint callback, which is the second   *)
(* RequestHalt.  Halt() makes the first two of these steps.                *)
RequestReason(p) ==
    /\ Move(p, "reason", "flag")
    /\ haltReason' = pend[p]
    /\ UNCHANGED <<runStatus, halted, needToStepOver, locals, stepArg, bounds,
                   note, store, history>>

(* Faulty variant: the reason is set and the flag forgotten.               *)
RequestFlagForgotten(p) ==
    /\ Move(p, "flag", IF ctx[p] = "halt" THEN "idle" ELSE "over")
    /\ UNCHANGED <<atomics, locals, stepArg, bounds, note, store, history>>

RequestFlag(p) ==
    /\ Move(p, "flag", IF ctx[p] = "halt" THEN "idle" ELSE "over")
    /\ halted' = TRUE
    /\ UNCHANGED <<runStatus, haltReason, needToStepOver, locals, stepArg,
                   bounds, note, store, history>>

RequestOver(p) ==
    LET callback == pend[p] = "actionPoint" /\ p # Halter
    IN  /\ Move(p, "over", IF callback THEN "reason"
                           ELSE CASE p = Halter       -> "idle"
                                  [] ctx[p] = "loop"  -> "check"
                                  [] OTHER            -> "rearm")
        /\ pend' = [pend EXCEPT ![p] =
                        IF callback THEN "softwareBreakpoint" ELSE "none"]
        /\ needToStepOver' =
              (needToStepOver \/ haltReason \in {"softwareBreakpoint", "actionPoint"})
        /\ UNCHANGED <<runStatus, haltReason, halted, lpc, lnext, sp, ctx,
                       stepArg, bounds, note, store, history>>

--------------------------------------------------------------------------------
(* StepPastBreakpoint: put the saved word back, execute it, and plant the  *)
(* ebreak again, whatever the two writes return.                           *)

StepPastBreakpoint(p) ==
    /\ at[p] = "stepPast"
    /\ sp' = [sp EXCEPT ![p] = pcReg]
    /\ ExecuteInstruction(p, WriteOriginalInstruction(code, pcReg), pcReg, "rearm")
    /\ UNCHANGED <<atomics, lpc, lnext, ctx, stepArg, bounds, note, bps, program>>

(* Faulty variant: the breakpoint is not planted again.                    *)
RearmForgotten(p) ==
    /\ Move(p, "rearm", CASE ctx[p] = "run"  -> "publish"
                          [] ctx[p] = "step" -> "enter"
                          [] OTHER           -> "resume")
    /\ count' = IF ctx[p] = "step" THEN count + 1 ELSE count
    /\ UNCHANGED <<atomics, locals, num, bounds, note, store, history>>

Rearm(p) ==
    /\ Move(p, "rearm", CASE ctx[p] = "run"  -> "publish"
                          [] ctx[p] = "step" -> "enter"
                          [] OTHER           -> "resume")
    /\ code' = WriteBreakpointInstruction(code, sp[p])
    /\ count' = IF ctx[p] = "step" THEN count + 1 ELSE count
    /\ UNCHANGED <<atomics, locals, num, bounds, note, pcReg, bps, history>>

--------------------------------------------------------------------------------
(* The loop of Step(), run by the debugger thread, and the loop of the     *)
(* thread that Run() starts.                                               *)

(* Faulty variant: the new thread clears halted_, not its starter.         *)
EnterUnhalting(p) ==
    /\ Move(p, "enter", "loop")
    /\ halted' = FALSE
    /\ lnext' = [lnext EXCEPT ![p] = pcReg]
    /\ lpc'   = [lpc EXCEPT ![p] = Undef]
    /\ ctx'   = [ctx EXCEPT ![p] = "loop"]
    /\ UNCHANGED <<runStatus, haltReason, needToStepOver, sp, pend, stepArg,
                   bounds, note, store, history>>

Enter(p) ==
    /\ Move(p, "enter", "loop")
    /\ lnext' = [lnext EXCEPT ![p] = pcReg]
    /\ lpc'   = [lpc EXCEPT ![p] = Undef]
    /\ ctx'   = [ctx EXCEPT ![p] = "loop"]
    /\ UNCHANGED <<atomics, sp, pend, stepArg, bounds, note, store, history>>

LoopEnds(p) == halted \/ (p = User /\ count >= num)

ExecuteNext(p) ==
    /\ at[p] = "loop" /\ ~LoopEnds(p)
    /\ lpc' = [lpc EXCEPT ![p] = lnext[p]]
    /\ ExecuteInstruction(p, code, lnext[p], "check")
    /\ UNCHANGED <<atomics, lnext, sp, ctx, stepArg, bounds, note, bps, program>>

LeaveLoop(p) ==
    /\ LoopEnds(p) /\ Move(p, "loop", "settle")
    /\ UNCHANGED <<atomics, locals, stepArg, bounds, note, store, history>>

(* Update next_pc from the pc register and look at the halt flag.          *)
Check(p) ==
    /\ Move(p, "check", IF halted THEN "triage" ELSE "loop")
    /\ lnext' = [lnext EXCEPT ![p] = pcReg]
    /\ count' = IF p = User THEN count + 1 ELSE count
    /\ UNCHANGED <<atomics, lpc, sp, pend, ctx, num, bounds, note, store, history>>

(* An action point is stepped over and the loop goes on; else it is left.  *)
Triage(p) ==
    /\ at[p] = "triage"
    /\ \/ /\ haltReason = "actionPoint"
          /\ Goto(p, "stepPast")
          /\ ctx' = [ctx EXCEPT ![p] = "actionPoint"]
       \/ /\ haltReason # "actionPoint"
          /\ Goto(p, "settle")
          /\ UNCHANGED ctx
    /\ UNCHANGED <<atomics, lpc, lnext, sp, pend, stepArg, bounds, note, store,
                   history>>

(* next_pc is not read again after the action point was stepped over.      *)
Resume(p) ==
    /\ Move(p, "resume", "forget")
    /\ halted' = FALSE
    /\ ctx' = [ctx EXCEPT ![p] = "loop"]
    /\ UNCHANGED <<runStatus, haltReason, needToStepOver, lpc, lnext, sp, pend,
                   stepArg, bounds, note, store, history>>

Forget(p) ==
    /\ Move(p, "forget", IF p = User THEN "overDone" ELSE "loop")
    /\ haltReason' = "none"
    /\ UNCHANGED <<runStatus, halted, needToStepOver, locals, stepArg, bounds,
                   note, store, history>>

(* Step() also drops the step-over that the action point left pending; the *)
(* loop of Run() does not.                                                 *)
OverDone ==
    /\ Move(User, "overDone", "loop")
    /\ needToStepOver' = FALSE
    /\ UNCHANGED <<runStatus, haltReason, halted, locals, stepArg, bounds, note,
                   store, history>>

(* Faulty variant: the pc always goes to the next instruction.             *)
SetFinalPcNext(p) ==
    /\ Move(p, "settle", IF p = User THEN "stepReason" ELSE "publishHalt")
    /\ pcReg' = lnext[p]
    /\ UNCHANGED <<atomics, locals, stepArg, bounds, note, code, bps, history>>

(* Leave the pc at the breakpoint, or at the next instruction. An          *)
(* uninitialized pc can hold any value.                                    *)
SetFinalPc(p) ==
    /\ Move(p, "settle", IF p = User THEN "stepReason" ELSE "publishHalt")
    /\ IF haltReason # "softwareBreakpoint" THEN pcReg' = lnext[p]
       ELSE IF lpc[p] = Undef THEN pcReg' \in Addr
       ELSE pcReg' = lpc[p]
    /\ UNCHANGED <<atomics, locals, stepArg, bounds, note, code, bps, history>>

(* Step() without a halt has no halt reason: a read of halted_ and then a  *)
(* write of halt_reason_.                                                  *)
StepReason ==
    /\ Move(User, "stepReason", IF halted THEN "publishHalt" ELSE "stepForget")
    /\ UNCHANGED <<atomics, locals, stepArg, bounds, note, store, history>>

StepForget ==
    /\ Move(User, "stepForget", "publishHalt")
    /\ haltReason' = "none"
    /\ UNCHANGED <<runStatus, halted, needToStepOver, locals, stepArg, bounds,
                   note, store, history>>

PublishHalt(p) ==
    /\ Move(p, "publishHalt", IF p = User THEN "idle" ELSE "notify")
    /\ runStatus' = "halted"
    /\ UNCHANGED <<haltReason, halted, needToStepOver, locals, stepArg, bounds,
                   note, store, history>>

(* run_halted_->Notify() notifies whatever run_halted_ points to now.      *)
Notify(p) ==
    /\ Move(p, "notify", "done")
    /\ runHalted # 0 /\ notif[runHalted] = "pending"
    /\ notif' = [notif EXCEPT ![runHalted] = "notified"]
    /\ UNCHANGED <<atomics, locals, stepArg, bounds, runHalted, store, history>>

(* A null pointer, or a second Notify() of one object, ends the process.   *)
NotifyFatally(p) ==
    /\ at[p] = "notify"
    /\ runHalted # 0 => notif[runHalted] # "pending"
    /\ at' = [q \in Procs |-> "dead"]
    /\ UNCHANGED <<atomics, locals, stepArg, bounds, note, store, history>>

--------------------------------------------------------------------------------
(* The calls of the debugger thread. Each needs the core to be halted,     *)
(* except Run(), which only refuses a running one, Wait() and the          *)
(* destructor.                                                             *)

(* A careful client's control-C handler runs on the debugger's own thread. *)
HaltsElsewhere == "concurrentHalt" \in Risky \/ at[Halter] = "idle"

UserFree == at[User] = "idle" /\ HaltsElsewhere

NewCall == calls < MaxCalls /\ calls' = calls + 1

Begin(p, label, why) == Goto(p, label) /\ ctx' = [ctx EXCEPT ![p] = why]

(* Faulty variant: a running core is run again.                            *)
RunUnchecked ==
    /\ UserFree
    /\ \E r \in Runs : notif[r] = "unused"
    /\ "runBeforeWait" \in Risky \/ runHalted = 0
    /\ paused' = FALSE
    /\ Begin(User, IF needToStepOver THEN "stepPast" ELSE "publish", "run")
    /\ needToStepOver' = FALSE
    /\ UNCHANGED <<runStatus, haltReason, halted, lpc, lnext, sp, pend, stepArg,
                   bounds, note, store, program, arch>>

Run ==
    /\ UserFree /\ runStatus # "running"
    /\ \E r \in Runs : notif[r] = "unused"
    /\ "runBeforeWait" \in Risky \/ runHalted = 0
    /\ paused' = FALSE
    /\ Begin(User, IF needToStepOver THEN "stepPast" ELSE "publish", "run")
    /\ needToStepOver' = FALSE
    /\ UNCHANGED <<runStatus, haltReason, halted, lpc, lnext, sp, pend, stepArg,
                   bounds, note, store, program, arch>>

RunPublish ==
    /\ Move(User, "publish", "unhalt")
    /\ runStatus' = "running"
    /\ UNCHANGED <<haltReason, halted, needToStepOver, locals, stepArg, bounds,
                   note, store, history>>

RunUnhalt ==
    /\ Move(User, "unhalt", "spawn")
    /\ halted' = FALSE
    /\ UNCHANGED <<runStatus, haltReason, needToStepOver, locals, stepArg,
                   bounds, note, store, history>>

(* A new Notification, and the thread that is to notify it.                *)
RunSpawn ==
    /\ at[User] = "spawn"
    /\ \E r \in Runs :
          /\ notif[r] = "unused" /\ \A q \in Runs : q < r => notif[q] # "unused"
          /\ notif' = [notif EXCEPT ![r] = "pending"]
          /\ runHalted' = r
          /\ at' = [at EXCEPT ![User] = "idle", ![r] = "enter"]
    /\ UNCHANGED <<atomics, locals, stepArg, bounds, store, history>>

Step(n) ==
    /\ UserFree /\ runStatus = "halted" /\ NewCall
    /\ "stepFromBreakpoint" \in Risky \/ haltReason # "softwareBreakpoint"
    /\ runStatus' = "singleStep"
    /\ count' = 0 /\ num' = n
    /\ paused' = FALSE
    /\ Begin(User, "stepUnhalt", "step")
    /\ UNCHANGED <<haltReason, halted, needToStepOver, lpc, lnext, sp, pend,
                   halts, note, store, program, arch>>

StepUnhalt ==
    /\ Move(User, "stepUnhalt", "stepOver")
    /\ halted' = FALSE
    /\ UNCHANGED <<runStatus, haltReason, needToStepOver, locals, stepArg,
                   bounds, note, store, history>>

StepOver ==
    /\ Move(User, "stepOver", IF needToStepOver THEN "stepPast" ELSE "enter")
    /\ needToStepOver' = FALSE
    /\ UNCHANGED <<runStatus, haltReason, halted, locals, stepArg, bounds, note,
                   store, history>>

Wait ==
    /\ UserFree /\ runHalted # 0
    /\ Goto(User, "wait")
    /\ UNCHANGED <<atomics, locals, stepArg, bounds, note, store, history>>

(* The Notification is deleted once it has been notified.                  *)
FreeNotification ==
    /\ notif[runHalted] = "notified"
    /\ notif' = [notif EXCEPT ![runHalted] = "deleted"]
    /\ runHalted' = 0

WaitReturn ==
    /\ HaltsElsewhere /\ Move(User, "wait", "idle")
    /\ FreeNotification
    /\ UNCHANGED <<atomics, locals, stepArg, bounds, store, history>>

(* Faulty variant: the destructor trusts run_status_.                      *)
DestroyWhenHalted ==
    /\ UserFree
    /\ Goto(User, IF runStatus = "halted" THEN "destroyed" ELSE "destroyFlag")
    /\ UNCHANGED <<atomics, locals, stepArg, bounds, note, store, history>>

(* ~CoralNPUTop: halted_ is set, without a reason, and the run awaited.    *)
Destroy ==
    /\ UserFree
    /\ Goto(User, IF runHalted = 0 THEN "destroyed" ELSE "destroyFlag")
    /\ UNCHANGED <<atomics, locals, stepArg, bounds, note, store, history>>

(* Faulty variant: the destructor waits without a halt request.            *)
DestroyUnflagged ==
    /\ Move(User, "destroyFlag", "destroyWait")
    /\ UNCHANGED <<atomics, locals, stepArg, bounds, note, store, history>>

DestroyFlag ==
    /\ Move(User, "destroyFlag", "destroyWait")
    /\ halted' = TRUE
    /\ UNCHANGED <<runStatus, haltReason, needToStepOver, locals, stepArg,
                   bounds, note, store, history>>

DestroyReturn ==
    /\ Move(User, "destroyWait", "destroyed")
    /\ FreeNotification
    /\ UNCHANGED <<atomics, locals, stepArg, bounds, store, history>>

--------------------------------------------------------------------------------
(* Breakpoints, registers, memory and disassembly, while halted.           *)

(* Stopped at address a with the step over its breakpoint still to come.   *)
StoppedAt(a) == needToStepOver /\ a = pcReg

ClearAddresses(c, S) ==
    [c EXCEPT !.mem   = [a \in Addr |-> IF a \in S /\ c.saved[a] # NoWord
                                        THEN c.saved[a] ELSE c.mem[a]],
              !.cache = [a \in Addr |-> IF a \in S /\ c.saved[a] # NoWord
                                        THEN NoWord ELSE c.cache[a]]]

SetSwBreakpoint(a) ==
    /\ UserFree /\ runStatus = "halted" /\ NewCall
    /\ a \notin bps
    /\ "breakOnPause" \in Risky \/ program[a] \in {"nop", "jump"}
    /\ code' = WriteBreakpointInstruction(code, a)
    /\ bps' = bps \cup {a}
    /\ UNCHANGED <<atomics, locals, stepArg, halts, note, pcReg, history, at>>

ClearSwBreakpoint(a) ==
    /\ UserFree /\ runStatus = "halted" /\ NewCall
    /\ a \in bps
    /\ "clearAtStop" \in Risky \/ ~StoppedAt(a)
    /\ code' = WriteOriginalInstruction(code, a)
    /\ bps' = bps \ {a}
    /\ UNCHANGED <<atomics, locals, stepArg, halts, note, pcReg, history, at>>

ClearAllSwBreakpoints ==
    /\ UserFree /\ runStatus = "halted" /\ NewCall
    /\ "clearAtStop" \in Risky \/ \A a \in bps : ~StoppedAt(a)
    /\ code' = ClearAddresses(code, bps)
    /\ bps' = {}
    /\ UNCHANGED <<atomics, locals, stepArg, halts, note, pcReg, history, at>>

(* WriteRegister("pc", a): the halt reason is forgotten, the pending step  *)
(* over the breakpoint is not.                                             *)
WriteRegister(a) ==
    /\ UserFree /\ runStatus = "halted" /\ NewCall
    /\ "movePcAtStop" \in Risky \/ ~needToStepOver
    /\ pcReg' = a
    /\ arch' = a
    /\ haltReason' = IF haltReason = "softwareBreakpoint" THEN "none"
                                                          ELSE haltReason
    /\ UNCHANGED <<runStatus, halted, needToStepOver, locals, stepArg, halts,
                   note, code, bps, program, paused, at>>

(* WriteMemory stores past the action point interface and the cache.       *)
WriteMemory(a, w) ==
    /\ UserFree /\ runStatus = "halted" /\ NewCall
    /\ "patchDecoded" \in Risky \/ (code.cache[a] = NoWord /\ code.saved[a] = NoWord)
    /\ code' = Store(code, a, w)
    /\ program' = [program EXCEPT ![a] = w]
    /\ UNCHANGED <<atomics, locals, stepArg, halts, note, pcReg, bps, arch,
                   paused, at>>

(* GetDisassembly shows the saved word of an active action point.          *)
GetDisassembly(a) ==
    /\ UserFree /\ runStatus = "halted"
    /\ code' = IF a \in bps
               THEN WriteBreakpointInstruction(
                        Decode(WriteOriginalInstruction(code, a), a), a)
               ELSE Decode(code, a)
    /\ UNCHANGED <<atomics, locals, stepArg, bounds, note, pcReg, bps, history, at>>

(* GetInstruction does not ask whether the core is halted.                 *)
GetInstruction(a) ==
    /\ UserFree
    /\ code' = Decode(code, a)
    /\ UNCHANGED <<atomics, locals, stepArg, bounds, note, pcReg, bps, history, at>>

--------------------------------------------------------------------------------
(* The second caller: Halt(), which wants a running core, and Halt(reason),*)
(* which does not ask. Both go on with the steps of RequestHalt.           *)

HalterFree ==
    /\ at[Halter] = "idle" /\ at[User] # "destroyed"
    /\ "concurrentHalt" \in Risky \/ at[User] \in {"idle", "wait"}
    /\ halts < MaxHalts /\ halts' = halts + 1

Halt ==
    /\ HalterFree /\ runStatus = "running"
    /\ pend' = [pend EXCEPT ![Halter] = "userRequest"]
    /\ Begin(Halter, "reason", "halt")
    /\ UNCHANGED <<atomics, lpc, lnext, sp, stepArg, calls, note, store, history>>

HaltWithReason(r) ==
    /\ HalterFree
    /\ pend' = [pend EXCEPT ![Halter] = r]
    /\ Begin(Halter, "reason", "api")
    /\ UNCHANGED <<atomics, lpc, lnext, sp, stepArg, calls, note, store, history>>

--------------------------------------------------------------------------------
Init ==
    /\ runStatus = "halted" /\ haltReason = "none"
    /\ halted = FALSE /\ needToStepOver = FALSE
    /\ runHalted = 0 /\ notif = [r \in Runs |-> "unused"]
    /\ pcReg = 0 /\ code = FreshCode(Program) /\ bps = {}
    /\ at   = [p \in Procs |-> IF p \in Runs THEN "unborn" ELSE "idle"]
    /\ ctx  = [p \in Procs |-> "loop"]
    /\ pend = [p \in Procs |-> "none"]
    /\ lpc  = [p \in Procs |-> Undef] /\ lnext = [p \in Procs |-> 0]
    /\ sp   = [p \in Procs |-> 0]
    /\ count = 0 /\ num = 0 /\ calls = 0 /\ halts = 0
    /\ program = Program /\ arch = 0 /\ paused = FALSE

RequestHalt(p) == RequestReason(p) \/ RequestFlag(p) \/ RequestOver(p)

(* What the debugger thread and the threads of Run() do alike.             *)
Advance(p) ==
    \/ StepPastBreakpoint(p) \/ Rearm(p) \/ Enter(p) \/ ExecuteNext(p)
    \/ LeaveLoop(p) \/ Check(p) \/ Triage(p) \/ Resume(p) \/ Forget(p)
    \/ SetFinalPc(p) \/ PublishHalt(p) \/ RequestHalt(p)

SimThread(r) == Advance(r) \/ Notify(r) \/ NotifyFatally(r)

(* The debugger thread, inside a call.                                     *)
UserStep ==
    \/ Advance(User) \/ OverDone \/ StepReason \/ StepForget
    \/ RunPublish \/ RunUnhalt \/ RunSpawn \/ StepUnhalt \/ StepOver
    \/ WaitReturn \/ DestroyFlag \/ DestroyReturn

(* The debugger thread, starting a call or making a short one.             *)
UserCall ==
    \/ Run \/ Wait \/ Destroy \/ \E n \in 1 .. MaxSteps : Step(n)
    \/ \E a \in Breakable : SetSwBreakpoint(a) \/ ClearSwBreakpoint(a)
    \/ ClearAllSwBreakpoints
    \/ \E a \in Addr : \/ WriteRegister(a) \/ GetDisassembly(a) \/ GetInstruction(a)
                       \/ \E w \in Patches : WriteMemory(a, w)

HalterStep == RequestHalt(Halter)
HalterCall == Halt \/ \E r \in ApiReasons : HaltWithReason(r)

(* The process ends with the destructor, or with a fatal Notify().         *)
Terminated == at[User] \in {"destroyed", "dead"} /\ UNCHANGED vars

Next ==
    \/ UserStep \/ UserCall \/ HalterStep \/ HalterCall
    \/ \E r \in Runs : SimThread(r)
    \/ Terminated

Spec == Init /\ [][Next]_vars

(* A thread that was started, and a call that was begun, go on; nobody is  *)
(* obliged to make a call.                                                 *)
Fairness == /\ WF_vars(UserStep)
            /\ WF_vars(HalterStep)
            /\ \A r \in Runs : WF_vars(SimThread(r))

FairSpec == Spec /\ Fairness

--------------------------------------------------------------------------------
(* Properties.                                                             *)

CoreLabels ==
    {"stepPast", "rearm", "enter", "loop", "check", "triage", "resume", "forget",
     "overDone", "settle", "stepReason", "stepForget", "publishHalt",
     "reason", "flag", "over"}
CallLabels ==
    {"publish", "unhalt", "spawn", "stepUnhalt", "stepOver", "wait",
     "destroyFlag", "destroyWait", "destroyed"}
Label == CoreLabels \cup CallLabels \cup {"idle", "notify", "done", "unborn", "dead"}

(* The one type invariant: every variable of the run control keeps its     *)
(* type, so the pc register always holds an address and every atomic one   *)
(* of its enumerators.                                                     *)
TypeOK ==
    /\ runStatus \in {"halted", "running", "singleStep"}
    /\ haltReason \in Reason
    /\ halted \in BOOLEAN /\ needToStepOver \in BOOLEAN
    /\ runHalted \in 0 .. MaxRuns
    /\ notif \in [Runs -> {"unused", "pending", "notified", "deleted"}]
    /\ pcReg \in Addr /\ code \in Code /\ bps \subseteq Addr
    /\ at \in [Procs -> Label]
    /\ ctx \in [Procs -> {"loop", "run", "step", "actionPoint", "halt", "api"}]
    /\ lpc \in [Procs -> Addr \cup {Undef}]
    /\ lnext \in [Procs -> Addr] /\ sp \in [Procs -> Addr]
    /\ pend \in [Procs -> Reason]
    /\ count \in Nat /\ num \in Nat /\ calls \in Nat /\ halts \in Nat
    /\ program \in [Addr -> Word] /\ arch \in Addr /\ paused \in BOOLEAN

(* p is using the registers, the memory and the decode cache.              *)
InCore(p) == at[p] \in CoreLabels

(* "The registers aren't protected by a mutex, so let's not read them      *)
(* while the simulator is running": no two threads execute instructions at *)
(* once, and whenever run_status_ lets a debugger call through, no thread  *)
(* of Run() touches the core. This is all the locking the core has.        *)
CoreExclusive ==
    /\ \A p, q \in Procs \ {Halter} : InCore(p) /\ InCore(q) => p = q
    /\ runStatus = "halted" => \A r \in Runs : ~InCore(r)

(* Where the debugger thread is when it leaves the core to a thread of     *)
(* Run(): between calls, or waiting for that thread.                       *)
Outside == {"idle", "wait", "destroyFlag", "destroyWait", "destroyed", "dead"}

(* The strengthening that makes CoreExclusive inductive: run_status_ is    *)
(* kRunning from before a thread is started until it has left the core,    *)
(* and the debugger thread keeps outside for that long. Run() and Step()   *)
(* go ahead only on another status, so they find the core free.            *)
ExclusionInv ==
    /\ \A r \in Runs : InCore(r) => runStatus = "running" /\ at[User] \in Outside
    /\ \A r, q \in Runs : InCore(r) /\ InCore(q) => r = q
    /\ at[User] \in {"unhalt", "spawn"} => runStatus = "running"
    /\ at[User] \notin Outside \cup {"unhalt", "spawn"} => runStatus # "running"

Quiet == runStatus = "halted" /\ at[User] \in {"idle", "wait"}

(* Debugging is transparent to the program: whenever the core is halted,   *)
(* the pc register holds the address of the one instruction the program is *)
(* to execute next. None is skipped and none is executed twice, through    *)
(* breakpoints, steps and resumes (SetPc after the loops of Step and Run). *)
PcIsArch == Quiet => pcReg = arch

(* Somebody is between the two writes of StepPastBreakpoint.               *)
SteppingPast(a) ==
    \E p \in Procs \ {Halter} :
        /\ sp[p] = a /\ ctx[p] # "loop"
        /\ at[p] \in {"reason", "flag", "over", "rearm"}

(* The ebreaks in memory are the active breakpoints, and every other word  *)
(* is the program's, but for the breakpoint that is being stepped past:    *)
(* the debugger leaves nothing behind that the program can run into.       *)
PlantedExactly ==
    \A a \in Addr : ~SteppingPast(a) =>
        code.mem[a] = IF a \in bps THEN "ebreak" ELSE program[a]

(* The program can always be restored: a saved word is the program's own,  *)
(* never an ebreak that was planted over it, and a word that was replaced  *)
(* was saved (instruction_map_).                                           *)
OriginalsSafe ==
    \A a \in Addr :
        /\ code.saved[a] \in {NoWord, program[a]}
        /\ code.mem[a] \in {program[a], "ebreak"}
        /\ code.mem[a] # program[a] => code.saved[a] = program[a]

(* A decoded instruction is the one in memory: every store that plants or  *)
(* lifts an ebreak invalidates the decode cache entry.                     *)
CacheCoherent == \A a \in Addr : code.cache[a] \in {NoWord, code.mem[a]}

(* What GetLastHaltReason tells the debugger is so: stopped by a software  *)
(* breakpoint means stopped at an active one, not yet executed, with the   *)
(* step over it pending.                                                   *)
StopIsAtBreakpoint ==
    (Quiet /\ haltReason = "softwareBreakpoint") => pcReg \in bps /\ needToStepOver

(* "Halting flag. This is set to true when execution must halt": a thread  *)
(* that comes back to the head of the loop after the program has paused,   *)
(* trapped or exited finds the flag set and executes nothing more.         *)
PauseHonored ==
    \A p \in Procs \ {Halter} : (paused /\ at[p] = "loop") => halted

(* Notification objects "are single used only": no thread notifies one     *)
(* twice, nor a pointer that Wait() has reset.                             *)
NotifySingleUse == at[User] # "dead"

(* The destructor waits "until the simulator finishes": once it is through *)
(* no thread of Run() is left that could use what it deletes.              *)
DestroyedQuiet ==
    at[User] = "destroyed" => \A r \in Runs : at[r] \in {"unborn", "done"}

(* Stops are true both ways: a breakpoint that is reported is one, and a   *)
(* program that asked to stop has stopped.                                 *)
StopsTruthful == StopIsAtBreakpoint /\ PauseHonored

(* Threads and their notifications end together: each object is notified   *)
(* once, and nothing of a run outlives the destructor.                     *)
EndsQuietly == NotifySingleUse /\ DestroyedQuiet

(* The program, left alone, halts: it has asked for it in this resume, or  *)
(* some word on its way does.                                              *)
HaltsByItself ==
    LET way[k \in 0 .. N] == IF k = 0 THEN arch
                             ELSE Successor(way[k - 1], program[way[k - 1]])
    IN  paused \/ \E k \in 0 .. N : program[way[k]] \notin {"nop", "jump"}

(* A call of Wait() returns if the program halts by itself, whatever       *)
(* breakpoints are on its way and however the last run ended, as long as   *)
(* no Halt() of another thread came before it.                             *)
WaitReturns ==
    (at[User] = "wait" /\ HaltsByItself /\ halts = 0) ~> (at[User] # "wait")

(* The destructor returns even if the program never halts by itself.       *)
DestroyReturns == (at[User] = "destroyFlag") ~> (at[User] = "destroyed")

(* Whatever blocks until a run has ended comes back: Wait() for a program  *)
(* that halts, the destructor for any program.                             *)
CallsReturn == WaitReturns /\ DestroyReturns

(* "Control-c handler to interrupt any running simulation": a Halt() that  *)
(* found the core running leads to a core that is halted.                  *)
HaltStops == (at[Halter] = "reason" /\ ctx[Halter] = "halt")
                ~> (runStatus = "halted")
================================================================================
