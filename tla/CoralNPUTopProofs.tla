--------------------------- MODULE CoralNPUTopProofs ---------------------------
(***************************************************************************)
(* Proofs about CoralNPUTop, for every program, every number of runs,      *)
(* calls and halts, and every set of risky call patterns.                  *)
(***************************************************************************)
EXTENDS CoralNPUTop, TLAPS

(* The operations of the action point interface and of the decode cache    *)
(* yield a well-formed memory.                                             *)
LEMMA CodeType ==
    ASSUME NEW c \in Code, NEW a \in Addr, NEW w \in Word
    PROVE  /\ Decode(c, a) \in Code
           /\ Decode(c, a).cache[a] \in Word
           /\ Store(c, a, w) \in Code
           /\ WriteOriginalInstruction(c, a) \in Code
           /\ WriteBreakpointInstruction(c, a) \in Code
<1>1. Decode(c, a) \in Code /\ Decode(c, a).cache[a] \in Word
  BY DEF Code, Decode, Word, NoWord
<1>2. ASSUME NEW d \in Code, NEW v \in Word
      PROVE  Store(d, a, v) \in Code /\ Invalidate(d, a) \in Code
  BY DEF Code, Store, Invalidate, NoWord
<1>3. WriteOriginalInstruction(c, a) \in Code
  <2>1. CASE c.saved[a] = NoWord
    BY <2>1 DEF WriteOriginalInstruction
  <2>2. CASE c.saved[a] # NoWord
    <3>1. c.saved[a] \in Word
      BY <2>2 DEF Code
    <3>2. Store(c, a, c.saved[a]) \in Code
      BY <1>2, <3>1
    <3>3. QED
      BY <1>2, <2>2, <3>1, <3>2 DEF WriteOriginalInstruction
  <2>3. QED
    BY <2>1, <2>2
<1>4. WriteBreakpointInstruction(c, a) \in Code
  <2>1. SaveInstruction(c, a) \in Code
    BY DEF SaveInstruction, Code
  <2>2. "ebreak" \in Word
    BY DEF Word
  <2>3. Store(SaveInstruction(c, a), a, "ebreak") \in Code
    BY <1>2, <2>1, <2>2
  <2>4. QED
    BY <1>2, <2>2, <2>3 DEF WriteBreakpointInstruction
<1>5. QED
  BY <1>1, <1>2, <1>3, <1>4

(* Execution never leaves the address range.                               *)
LEMMA SuccessorType ==
    ASSUME NEW a \in Addr, NEW w \in Word
    PROVE  Successor(a, w) \in Addr
<1>1. N \in Nat /\ N > 0
  BY NIsPositive
<1>2. (a + 1) % N \in 0 .. N - 1
  BY <1>1 DEF Addr
<1>3. QED
  BY <1>1, <1>2 DEF Successor, Addr

(* Executing an instruction keeps the types of the memory, the halt flag   *)
(* and reason and the architectural pc (ExecuteInstruction and the         *)
(* handlers it calls).                                                     *)
LEMMA ExecuteType ==
    ASSUME TypeOK, NEW p \in Procs, NEW c \in Code, NEW a \in Addr,
           NEW done \in Label, ExecuteInstruction(p, c, a, done)
    PROVE  /\ code' \in Code /\ pcReg' \in Addr
           /\ pend' \in [Procs -> Reason] /\ at' \in [Procs -> Label]
           /\ arch' \in Addr /\ paused' \in BOOLEAN
<1> DEFINE d == Decode(c, a)
           w == d.cache[a]
           r == HaltRequest(d, a, w)
<1>1. d \in Code /\ w \in Word
  BY CodeType, "ebreak" \in Word DEF Word
<1>2. Successor(a, w) \in Addr
  BY <1>1, SuccessorType
<1>3. r \in Reason
  BY <1>1 DEF HaltRequest, Reason
<1>4. code' = d /\ pcReg' = Successor(a, w) /\ pend' = [pend EXCEPT ![p] = r]
  BY DEF ExecuteInstruction
<1>5. arch' \in Addr
  BY <1>2 DEF ExecuteInstruction, TypeOK
<1>6. at' \in [Procs -> Label]
  BY DEF ExecuteInstruction, TypeOK, Goto, Label, CoreLabels
<1>7. paused' \in BOOLEAN
  BY DEF ExecuteInstruction, TypeOK, Retires
<1>8. pend' \in [Procs -> Reason]
  BY <1>3, <1>4 DEF TypeOK
<1>9. QED
  BY <1>1, <1>2, <1>4, <1>5, <1>6, <1>7, <1>8

(* Every step keeps the types, action by action: first what a thread does  *)
(* whichever it is, then the calls.                                        *)
LEMMA AdvanceType ==
    ASSUME TypeOK, NEW p \in Procs, Advance(p)
    PROVE  TypeOK'
<1> USE DEF Move, Goto, atomics, locals, stepArg, bounds, note, store, history,
        Label, CoreLabels, CallLabels
<1>1. CASE StepPastBreakpoint(p)
  <2>1. WriteOriginalInstruction(code, pcReg) \in Code
    BY CodeType, "ebreak" \in Word DEF TypeOK, Word
  <2>2. "rearm" \in Label /\ pcReg \in Addr
    BY DEF TypeOK
  <2>3. /\ code' \in Code /\ pcReg' \in Addr
        /\ pend' \in [Procs -> Reason] /\ at' \in [Procs -> Label]
        /\ arch' \in Addr /\ paused' \in BOOLEAN
    BY <1>1, <2>1, <2>2, ExecuteType DEF StepPastBreakpoint
  <2>4. sp' \in [Procs -> Addr]
    BY <1>1 DEF StepPastBreakpoint, TypeOK
  <2>5. QED
    BY <1>1, <2>3, <2>4 DEF StepPastBreakpoint, TypeOK
<1>2. CASE ExecuteNext(p)
  <2>1. "check" \in Label /\ lnext[p] \in Addr /\ code \in Code
    BY DEF TypeOK
  <2>2. /\ code' \in Code /\ pcReg' \in Addr
        /\ pend' \in [Procs -> Reason] /\ at' \in [Procs -> Label]
        /\ arch' \in Addr /\ paused' \in BOOLEAN
    BY <1>2, <2>1, ExecuteType DEF ExecuteNext
  <2>3. lpc' \in [Procs -> Addr \cup {Undef}]
    BY <1>2, <2>1 DEF ExecuteNext, TypeOK
  <2>4. QED
    BY <1>2, <2>2, <2>3 DEF ExecuteNext, TypeOK
<1>3. CASE Rearm(p)
  <2>1. sp[p] \in Addr /\ code \in Code
    BY DEF TypeOK
  <2>2. code' \in Code
    BY <1>3, <2>1, CodeType, "ebreak" \in Word DEF Rearm, Word
  <2>3. count' \in Nat /\ at' \in [Procs -> Label]
    BY <1>3 DEF Rearm, TypeOK
  <2>4. QED
    BY <1>3, <2>2, <2>3 DEF Rearm, TypeOK
<1>4. CASE RequestReason(p)
  BY <1>4 DEF RequestReason, TypeOK
<1>5. CASE RequestFlag(p)
  BY <1>5 DEF RequestFlag, TypeOK
<1>6. CASE RequestOver(p)
  BY <1>6 DEF RequestOver, TypeOK, Reason
<1>7. CASE Enter(p)
  BY <1>7 DEF Enter, TypeOK
<1>8. CASE LeaveLoop(p)
  BY <1>8 DEF LeaveLoop, TypeOK
<1>9. CASE Check(p)
  BY <1>9 DEF Check, TypeOK
<1>10. CASE Triage(p)
  BY <1>10 DEF Triage, TypeOK
<1>11. CASE Resume(p)
  BY <1>11 DEF Resume, TypeOK
<1>12. CASE Forget(p)
  BY <1>12 DEF Forget, TypeOK, Reason
<1>13. CASE SetFinalPc(p)
  BY <1>13 DEF SetFinalPc, TypeOK
<1>14. CASE PublishHalt(p)
  BY <1>14 DEF PublishHalt, TypeOK
<1>15. QED
  BY <1>1, <1>2, <1>3, <1>4, <1>5, <1>6, <1>7, <1>8, <1>9, <1>10, <1>11, <1>12, <1>13, <1>14 DEF Advance, RequestHalt

(* Every step of the specification, calls and threads, keeps the types.    *)
LEMMA StepType == TypeOK /\ [Next]_vars => TypeOK'
<1> SUFFICES ASSUME TypeOK, [Next]_vars PROVE TypeOK'
  OBVIOUS
<1> USE DEF Move, Goto, Begin, atomics, locals, stepArg, bounds, note, store,
        history, Label, CoreLabels, CallLabels
<1>a. MaxRuns \in Nat /\ User \in Procs /\ Halter \in Procs /\ Runs \subseteq Procs
  BY ConstantsAreTyped DEF User, Halter, Procs, Runs
<1>1. CASE OverDone
  BY <1>1, <1>a DEF OverDone, TypeOK
<1>2. CASE StepReason
  BY <1>2, <1>a DEF StepReason, TypeOK
<1>3. CASE StepForget
  BY <1>3, <1>a DEF StepForget, TypeOK, Reason
<1>4. CASE RunPublish
  BY <1>4, <1>a DEF RunPublish, TypeOK
<1>5. CASE RunUnhalt
  BY <1>5, <1>a DEF RunUnhalt, TypeOK
<1>6. CASE RunSpawn
  BY <1>6, <1>a DEF RunSpawn, TypeOK, Runs
<1>7. CASE StepUnhalt
  BY <1>7, <1>a DEF StepUnhalt, TypeOK
<1>8. CASE StepOver
  BY <1>8, <1>a DEF StepOver, TypeOK
<1>9. CASE WaitReturn
  <2>1. notif' \in [Runs -> {"unused", "pending", "notified", "deleted"}]
    BY <1>9 DEF WaitReturn, FreeNotification, TypeOK
  <2>2. runHalted' = 0 /\ 0 \in 0 .. MaxRuns
    BY <1>9, <1>a DEF WaitReturn, FreeNotification
  <2>3. at' \in [Procs -> Label]
    BY <1>9, <1>a DEF WaitReturn, TypeOK
  <2>4. QED
    BY <1>9, <2>1, <2>2, <2>3 DEF WaitReturn, TypeOK
<1>10. CASE DestroyFlag
  BY <1>10, <1>a DEF DestroyFlag, TypeOK
<1>11. CASE DestroyReturn
  <2>1. notif' \in [Runs -> {"unused", "pending", "notified", "deleted"}]
    BY <1>11 DEF DestroyReturn, FreeNotification, TypeOK
  <2>2. runHalted' = 0 /\ 0 \in 0 .. MaxRuns
    BY <1>11, <1>a DEF DestroyReturn, FreeNotification
  <2>3. at' \in [Procs -> Label]
    BY <1>11, <1>a DEF DestroyReturn, TypeOK
  <2>4. QED
    BY <1>11, <2>1, <2>2, <2>3 DEF DestroyReturn, TypeOK
<1>12. CASE Run
  BY <1>12, <1>a DEF Run, TypeOK
<1>13. CASE Wait
  BY <1>13, <1>a DEF Wait, TypeOK
<1>14. CASE Destroy
  BY <1>14, <1>a DEF Destroy, TypeOK
<1>15. CASE \E n \in 1 .. MaxSteps : Step(n)
  <2>1. PICK n \in 1 .. MaxSteps : Step(n)
    BY <1>15
  <2>2. n \in Nat
    BY ConstantsAreTyped
  <2>3. at' \in [Procs -> Label] /\ num' \in Nat /\ calls' \in Nat
    BY <1>a, <2>1, <2>2 DEF Step, NewCall, TypeOK
  <2>4. QED
    BY <1>a, <2>1, <2>3 DEF Step, TypeOK
<1>16. CASE \E a \in Breakable : SetSwBreakpoint(a)
  <2>1. PICK a \in Breakable : SetSwBreakpoint(a)
    BY <1>16
  <2>2. a \in Addr /\ code \in Code
    BY ConstantsAreTyped DEF TypeOK
  <2>3. code' \in Code
    BY <2>1, <2>2, CodeType, "ebreak" \in Word DEF SetSwBreakpoint, Word
  <2>4. QED
    BY <2>1, <2>2, <2>3 DEF SetSwBreakpoint, NewCall, TypeOK
<1>17. CASE \E a \in Breakable : ClearSwBreakpoint(a)
  <2>1. PICK a \in Breakable : ClearSwBreakpoint(a)
    BY <1>17
  <2>2. a \in Addr /\ code \in Code
    BY ConstantsAreTyped DEF TypeOK
  <2>3. code' \in Code
    BY <2>1, <2>2, CodeType, "ebreak" \in Word DEF ClearSwBreakpoint, Word
  <2>4. QED
    BY <2>1, <2>2, <2>3 DEF ClearSwBreakpoint, NewCall, TypeOK
<1>18. CASE ClearAllSwBreakpoints
  <2>1. code' \in Code
    BY <1>18 DEF ClearAllSwBreakpoints, ClearAddresses, TypeOK, Code
  <2>2. QED
    BY <1>18, <2>1 DEF ClearAllSwBreakpoints, NewCall, TypeOK
<1>19. CASE \E a \in Addr : WriteRegister(a)
  BY <1>19 DEF WriteRegister, NewCall, TypeOK, Reason
<1>20. CASE \E a \in Addr : GetDisassembly(a)
  <2>1. PICK a \in Addr : GetDisassembly(a)
    BY <1>20
  <2>2. code \in Code /\ "ebreak" \in Word
    BY DEF TypeOK, Word
  <2>3. Decode(code, a) \in Code /\ WriteOriginalInstruction(code, a) \in Code
    BY <2>2, CodeType
  <2>4. Decode(WriteOriginalInstruction(code, a), a) \in Code
    BY <2>2, <2>3, CodeType
  <2>5. WriteBreakpointInstruction(
            Decode(WriteOriginalInstruction(code, a), a), a) \in Code
    BY <2>2, <2>4, CodeType
  <2>6. code' \in Code
    BY <2>1, <2>3, <2>5 DEF GetDisassembly
  <2>7. QED
    BY <2>1, <2>6 DEF GetDisassembly, TypeOK
<1>21. CASE \E a \in Addr : GetInstruction(a)
  <2>1. PICK a \in Addr : GetInstruction(a)
    BY <1>21
  <2>2. code' \in Code
    BY <2>1, CodeType, "ebreak" \in Word DEF GetInstruction, Word, TypeOK
  <2>3. QED
    BY <2>1, <2>2 DEF GetInstruction, TypeOK
<1>22. CASE \E a \in Addr, w \in Patches : WriteMemory(a, w)
  <2>1. PICK a \in Addr, w \in Patches : WriteMemory(a, w)
    BY <1>22
  <2>2. w \in Word
    BY ConstantsAreTyped
  <2>3. code' \in Code
    BY <2>1, <2>2, CodeType DEF WriteMemory, TypeOK
  <2>4. program' \in [Addr -> Word]
    BY <2>1, <2>2 DEF WriteMemory, TypeOK
  <2>5. QED
    BY <2>1, <2>3, <2>4 DEF WriteMemory, NewCall, TypeOK
<1>23. CASE Halt
  BY <1>23, <1>a DEF Halt, HalterFree, TypeOK, Reason
<1>24. CASE \E r \in ApiReasons : HaltWithReason(r)
  BY <1>24, <1>a, ConstantsAreTyped DEF HaltWithReason, HalterFree, TypeOK
<1>25. CASE Advance(User)
  BY <1>25, <1>a, AdvanceType
<1>26. CASE HalterStep
  BY <1>26, <1>a, AdvanceType DEF HalterStep, Advance
<1>27. CASE \E r \in Runs : Advance(r)
  BY <1>27, <1>a, AdvanceType
<1>28. CASE \E r \in Runs : Notify(r)
  BY <1>28, <1>a DEF Notify, TypeOK, Runs
<1>29. CASE \E r \in Runs : NotifyFatally(r)
  BY <1>29, <1>a DEF NotifyFatally, TypeOK
<1>30. CASE Terminated \/ UNCHANGED vars
  BY <1>30 DEF Terminated, vars, TypeOK
<1>31. QED
  BY <1>1, <1>2, <1>3, <1>4, <1>5, <1>6, <1>7, <1>8, <1>9, <1>10, <1>11, <1>12, <1>13, <1>14, <1>15, <1>16, <1>17, <1>18, <1>19, <1>20, <1>21, <1>22, <1>23, <1>24, <1>25, <1>26, <1>27, <1>28, <1>29, <1>30
  DEF Next, UserStep, UserCall, HalterCall, SimThread

(* The type invariant holds in every reachable state, for every program    *)
(* and every value of the bounds (all of coralnpu_top.cc's run control).   *)
THEOREM TypeCorrect == Spec => []TypeOK
<1>1. Init => TypeOK
  <2> SUFFICES ASSUME Init PROVE TypeOK
    OBVIOUS
  <2>1. 0 \in Addr /\ MaxRuns \in Nat /\ Program \in [Addr -> Word]
    BY NIsPositive, ConstantsAreTyped DEF Addr
  <2>2. code \in Code
    BY <2>1 DEF Init, FreshCode, Code
  <2>3. /\ at \in [Procs -> Label] /\ pend \in [Procs -> Reason]
        /\ ctx \in [Procs -> {"loop", "run", "step", "actionPoint", "halt", "api"}]
        /\ notif \in [Runs -> {"unused", "pending", "notified", "deleted"}]
    BY DEF Init, Label, Reason
  <2>4. /\ lpc \in [Procs -> Addr \cup {Undef}]
        /\ lnext \in [Procs -> Addr] /\ sp \in [Procs -> Addr]
    BY <2>1 DEF Init
  <2>5. /\ runStatus \in {"halted", "running", "singleStep"}
        /\ haltReason \in Reason /\ halted \in BOOLEAN
        /\ needToStepOver \in BOOLEAN /\ paused \in BOOLEAN
    BY DEF Init, Reason
  <2>6. /\ runHalted \in 0 .. MaxRuns /\ pcReg \in Addr /\ bps \subseteq Addr
        /\ count \in Nat /\ num \in Nat /\ calls \in Nat /\ halts \in Nat
        /\ program \in [Addr -> Word] /\ arch \in Addr
    BY <2>1 DEF Init
  <2>7. QED
    BY <2>2, <2>3, <2>4, <2>5, <2>6 DEF TypeOK
<1>2. QED
  BY <1>1, StepType, PTL DEF Spec

--------------------------------------------------------------------------------
(* A thread that executes, or requests a halt, moves nobody but itself,    *)
(* and touches run_status_ only as it leaves the core.                     *)
LEMMA AdvanceFrame ==
    ASSUME TypeOK, NEW p \in Procs, Advance(p)
    PROVE  /\ at[p] \in CoreLabels
           /\ at'[p] \in CoreLabels \cup {"idle", "publish", "notify"}
           /\ \A q \in Procs : q # p => at'[q] = at[q]
           /\ \/ runStatus' = runStatus
              \/ runStatus' = "halted" /\ at'[p] \notin CoreLabels
<1> USE DEF Move, Goto, atomics, CoreLabels
<1>0. at \in [Procs -> Label]
  BY DEF TypeOK
<1>1. CASE StepPastBreakpoint(p)
  BY <1>0, <1>1 DEF StepPastBreakpoint, ExecuteInstruction
<1>2. CASE ExecuteNext(p)
  BY <1>0, <1>2 DEF ExecuteNext, ExecuteInstruction
<1>3. CASE Rearm(p)
  BY <1>0, <1>3 DEF Rearm
<1>4. CASE RequestReason(p) \/ RequestFlag(p)
  BY <1>0, <1>4 DEF RequestReason, RequestFlag
<1>5. CASE RequestOver(p)
  BY <1>0, <1>5 DEF RequestOver
<1>6. CASE Enter(p) \/ LeaveLoop(p)
  BY <1>0, <1>6 DEF Enter, LeaveLoop
<1>7. CASE Check(p) \/ Triage(p)
  BY <1>0, <1>7 DEF Check, Triage
<1>8. CASE Resume(p) \/ Forget(p)
  BY <1>0, <1>8 DEF Resume, Forget
<1>9. CASE SetFinalPc(p)
  BY <1>0, <1>9 DEF SetFinalPc
<1>10. CASE PublishHalt(p)
  BY <1>0, <1>10 DEF PublishHalt
<1>11. QED
  BY <1>1, <1>2, <1>3, <1>4, <1>5, <1>6, <1>7, <1>8, <1>9, <1>10
  DEF Advance, RequestHalt

(* The strengthened invariant is inductive.                                *)
LEMMA ExclusionStep == TypeOK /\ ExclusionInv /\ [Next]_vars => ExclusionInv'
<1> SUFFICES ASSUME TypeOK, ExclusionInv, [Next]_vars PROVE ExclusionInv'
  OBVIOUS
<1> USE DEF ExclusionInv, InCore, Outside, CoreLabels
<1>a. /\ MaxRuns \in Nat /\ User \in Procs /\ Halter \in Procs
      /\ Runs \subseteq Procs /\ User \notin Runs /\ Halter \notin Runs
      /\ User # Halter
  BY ConstantsAreTyped DEF User, Halter, Procs, Runs
<1>b. at \in [Procs -> Label]
  BY DEF TypeOK
<1>1. CASE Advance(User)
  <2>1. /\ at[User] \in CoreLabels
        /\ at'[User] \in CoreLabels \cup {"idle", "publish", "notify"}
        /\ \A q \in Procs : q # User => at'[q] = at[q]
        /\ runStatus' = runStatus \/ runStatus' = "halted"
    BY <1>1, <1>a, AdvanceFrame
  <2>2. runStatus' # "running"
    BY <2>1
  <2>3. QED
    BY <1>a, <2>1, <2>2
<1>2. CASE HalterStep
  <2>1. /\ \A q \in Procs : q # Halter => at'[q] = at[q]
        /\ runStatus' = runStatus
    BY <1>2, <1>a, <1>b DEF HalterStep, RequestHalt, RequestReason, RequestFlag,
       RequestOver, Move, Goto
  <2>2. QED
    BY <1>a, <2>1
<1>3. CASE \E r \in Runs : Advance(r)
  <2>1. PICK r \in Runs : Advance(r)
    BY <1>3
  <2>2. /\ at[r] \in CoreLabels
        /\ \A q \in Procs : q # r => at'[q] = at[q]
        /\ \/ runStatus' = runStatus
           \/ runStatus' = "halted" /\ at'[r] \notin CoreLabels
    BY <1>a, <2>1, AdvanceFrame
  <2>3. QED
    BY <1>a, <2>2
<1>4. CASE \E r \in Runs : Notify(r) \/ NotifyFatally(r)
  BY <1>4, <1>a, <1>b DEF Notify, NotifyFatally, Move, Goto, atomics
<1>5. CASE OverDone \/ StepReason \/ StepForget
  BY <1>5, <1>a, <1>b DEF OverDone, StepReason, StepForget, Move, Goto, atomics
<1>6. CASE RunPublish \/ RunUnhalt
  BY <1>6, <1>a, <1>b DEF RunPublish, RunUnhalt, Move, Goto, atomics
<1>7. CASE RunSpawn
  <2>1. PICK r \in Runs : at' = [at EXCEPT ![User] = "idle", ![r] = "enter"]
    BY <1>7 DEF RunSpawn
  <2>2. runStatus' = runStatus /\ at[User] = "spawn"
    BY <1>7 DEF RunSpawn, atomics
  <2>3. \A q \in Runs : ~InCore(q)
    BY <2>2
  <2>4. at'[User] = "idle" /\ \A q \in Runs : q # r => at'[q] = at[q]
    BY <1>a, <1>b, <2>1
  <2>5. QED
    BY <1>a, <2>2, <2>3, <2>4
<1>8. CASE StepUnhalt \/ StepOver
  BY <1>8, <1>a, <1>b DEF StepUnhalt, StepOver, Move, Goto, atomics
<1>9. CASE WaitReturn \/ DestroyFlag \/ DestroyReturn
  BY <1>9, <1>a, <1>b DEF WaitReturn, DestroyFlag, DestroyReturn, Move, Goto, atomics
<1>10. CASE Run
  BY <1>10, <1>a, <1>b DEF Run, UserFree, Begin, Goto
<1>11. CASE Wait \/ Destroy
  BY <1>11, <1>a, <1>b DEF Wait, Destroy, UserFree, Goto, atomics
<1>12. CASE \E n \in 1 .. MaxSteps : Step(n)
  BY <1>12, <1>a, <1>b DEF Step, UserFree, Begin, Goto
<1>13. CASE \/ \E a \in Breakable : SetSwBreakpoint(a) \/ ClearSwBreakpoint(a)
            \/ ClearAllSwBreakpoints
  BY <1>13 DEF SetSwBreakpoint, ClearSwBreakpoint, ClearAllSwBreakpoints, atomics
<1>14. CASE \E a \in Addr : \/ WriteRegister(a) \/ GetDisassembly(a)
                            \/ GetInstruction(a)
                            \/ \E w \in Patches : WriteMemory(a, w)
  BY <1>14 DEF WriteRegister, GetDisassembly, GetInstruction, WriteMemory, atomics
<1>15. CASE HalterCall
  BY <1>15, <1>a, <1>b DEF HalterCall, Halt, HaltWithReason, HalterFree, Begin, Goto,
     atomics
<1>16. CASE Terminated \/ UNCHANGED vars
  BY <1>16 DEF Terminated, vars, atomics
<1>17. QED
  BY <1>1, <1>2, <1>3, <1>4, <1>5, <1>6, <1>7, <1>8, <1>9, <1>10, <1>11, <1>12,
     <1>13, <1>14, <1>15, <1>16
  DEF Next, UserStep, UserCall, SimThread

(* The strengthened invariant holds in every reachable state.              *)
LEMMA ExclusionHolds == Spec => []ExclusionInv
<1>1. MaxRuns \in Nat /\ User \in Procs /\ User \notin Runs
  BY ConstantsAreTyped DEF User, Procs, Runs
<1>2. Init => ExclusionInv
  BY <1>1 DEF Init, ExclusionInv, InCore, Outside, CoreLabels, Procs, Runs
<1>3. QED
  BY <1>2, TypeCorrect, ExclusionStep, PTL DEF Spec

(* run_status_ alone keeps the debugger thread and the threads of Run()    *)
(* out of each other's way, for any number of runs and under every call    *)
(* pattern, the risky ones included, as long as one thread makes the calls *)
(* other than Halt() (Run, Step and the guards of coralnpu_top.cc).        *)
THEOREM Exclusion == Spec => []CoreExclusive
<1>1. \A p \in Procs \ {Halter} : p = User \/ p \in Runs
  BY ConstantsAreTyped DEF User, Halter, Procs, Runs
<1>2. ExclusionInv => CoreExclusive
  BY <1>1 DEF ExclusionInv, CoreExclusive, InCore, Outside, CoreLabels
<1>3. QED
  BY <1>2, ExclusionHolds, PTL

--------------------------------------------------------------------------------
(* A memory that keeps program pr recoverable and its decodings current.   *)
Faithful(c, pr) ==
    \A a \in Addr :
        /\ c.saved[a] \in {NoWord, pr[a]}
        /\ c.mem[a] \in {pr[a], "ebreak"}
        /\ c.mem[a] # pr[a] => c.saved[a] = pr[a]
        /\ c.cache[a] \in {NoWord, c.mem[a]}

(* Planting, lifting and decoding keep the program recoverable.            *)
LEMMA FaithfulOps ==
    ASSUME NEW c \in Code, NEW pr \in [Addr -> Word], Faithful(c, pr),
           NEW a \in Addr
    PROVE  /\ Faithful(Decode(c, a), pr)
           /\ Faithful(WriteOriginalInstruction(c, a), pr)
           /\ Faithful(WriteBreakpointInstruction(c, a), pr)
<1> USE DEF Faithful, Code
<1>0. NoWord \notin Word
  BY DEF NoWord, Word
<1>1. Faithful(Decode(c, a), pr)
  BY DEF Decode
<1>2. Faithful(WriteOriginalInstruction(c, a), pr)
  BY <1>0 DEF WriteOriginalInstruction, Store, Invalidate
<1>3. Faithful(WriteBreakpointInstruction(c, a), pr)
  <2> DEFINE s == SaveInstruction(c, a)
  <2>1. /\ s \in Code /\ s.saved[a] = pr[a] /\ s.mem = c.mem /\ s.cache = c.cache
        /\ \A b \in Addr : b # a => s.saved[b] = c.saved[b]
    BY <1>0 DEF SaveInstruction
  <2> HIDE DEF s
  <2>2. /\ Invalidate(Store(s, a, "ebreak"), a).saved = s.saved
        /\ \A b \in Addr : Invalidate(Store(s, a, "ebreak"), a).mem[b]
                              = IF b = a THEN "ebreak" ELSE s.mem[b]
        /\ \A b \in Addr : Invalidate(Store(s, a, "ebreak"), a).cache[b]
                              = IF b = a THEN NoWord ELSE s.cache[b]
    BY <2>1 DEF Invalidate, Store
  <2>3. Faithful(Invalidate(Store(s, a, "ebreak"), a), pr)
    BY <2>1, <2>2
  <2>4. QED
    BY <2>3 DEF WriteBreakpointInstruction, s
<1>4. QED
  BY <1>1, <1>2, <1>3

(* A step leaves the memory as it was, or changes it by the operations of  *)
(* the action point interface and the decode cache, or stores a word that  *)
(* nobody has saved or decoded.                                            *)
LEMMA FaithfulStep ==
    ASSUME "patchDecoded" \notin Risky, TypeOK, Faithful(code, program),
           [Next]_vars
    PROVE  Faithful(code, program)'
<1>a. /\ code \in Code /\ program \in [Addr -> Word] /\ pcReg \in Addr
      /\ lnext \in [Procs -> Addr] /\ sp \in [Procs -> Addr]
      /\ MaxRuns \in Nat /\ User \in Procs /\ Halter \in Procs
      /\ Runs \subseteq Procs /\ Breakable \subseteq Addr
  BY ConstantsAreTyped DEF TypeOK, User, Halter, Procs, Runs
<1>b. ASSUME UNCHANGED <<code, program>> PROVE Faithful(code, program)'
  BY <1>b DEF Faithful
<1>c. ASSUME program' = program, NEW d, code' = d, Faithful(d, program)
      PROVE  Faithful(code, program)'
  BY <1>c DEF Faithful
<1>1. ASSUME NEW p \in Procs, Advance(p)
      PROVE  Faithful(code, program)'
  <2>1. CASE StepPastBreakpoint(p)
    <3> DEFINE c == WriteOriginalInstruction(code, pcReg)
    <3>1. c \in Code /\ Faithful(c, program)
      BY <1>a, CodeType, FaithfulOps, "ebreak" \in Word DEF Word
    <3>2. Faithful(Decode(c, pcReg), program)
      BY <1>a, <3>1, FaithfulOps
    <3>3. code' = Decode(c, pcReg) /\ program' = program
      BY <2>1 DEF StepPastBreakpoint, ExecuteInstruction
    <3>4. QED
      BY <1>c, <3>2, <3>3
  <2>2. CASE ExecuteNext(p)
    <3>1. code' = Decode(code, lnext[p]) /\ program' = program
      BY <2>2 DEF ExecuteNext, ExecuteInstruction
    <3>2. QED
      BY <1>a, <1>c, <3>1, FaithfulOps
  <2>3. CASE Rearm(p)
    <3>1. code' = WriteBreakpointInstruction(code, sp[p]) /\ program' = program
      BY <2>3 DEF Rearm, history
    <3>2. QED
      BY <1>a, <1>c, <3>1, FaithfulOps
  <2>4. CASE \/ Enter(p) \/ LeaveLoop(p) \/ Check(p) \/ Triage(p) \/ Resume(p)
             \/ Forget(p) \/ SetFinalPc(p) \/ PublishHalt(p) \/ RequestHalt(p)
    BY <1>b, <2>4 DEF Enter, LeaveLoop, Check, Triage, Resume, Forget, SetFinalPc,
       PublishHalt, RequestHalt, RequestReason, RequestFlag, RequestOver, store,
       history
  <2>5. QED
    BY <1>1, <2>1, <2>2, <2>3, <2>4 DEF Advance
<1>2. CASE UserStep \/ HalterStep \/ \E r \in Runs : SimThread(r)
  <2>1. CASE \E p \in Procs : Advance(p)
    BY <1>1, <2>1
  <2>2. CASE \/ OverDone \/ StepReason \/ StepForget \/ RunPublish \/ RunUnhalt
             \/ RunSpawn \/ StepUnhalt \/ StepOver \/ WaitReturn \/ DestroyFlag
             \/ DestroyReturn \/ \E r \in Runs : Notify(r) \/ NotifyFatally(r)
    BY <1>b, <2>2 DEF OverDone, StepReason, StepForget, RunPublish, RunUnhalt,
       RunSpawn, StepUnhalt, StepOver, WaitReturn, DestroyFlag, DestroyReturn,
       Notify, NotifyFatally, store, history
  <2>3. QED
    BY <1>2, <1>a, <2>1, <2>2 DEF UserStep, HalterStep, SimThread, Advance
<1>3. CASE Run \/ Wait \/ Destroy \/ HalterCall \/ \E n \in 1 .. MaxSteps : Step(n)
  BY <1>3, <1>b DEF Run, Wait, Destroy, HalterCall, Halt, HaltWithReason, Step,
     store, history
<1>4. CASE \E a \in Breakable : SetSwBreakpoint(a) \/ ClearSwBreakpoint(a)
  <2>1. PICK a \in Breakable : SetSwBreakpoint(a) \/ ClearSwBreakpoint(a)
    BY <1>4
  <2>2. /\ program' = program
        /\ \/ code' = WriteBreakpointInstruction(code, a)
           \/ code' = WriteOriginalInstruction(code, a)
    BY <2>1 DEF SetSwBreakpoint, ClearSwBreakpoint, history
  <2>3. QED
    BY <1>a, <1>c, <2>2, FaithfulOps
<1>5. CASE ClearAllSwBreakpoints
  <2>1. program' = program /\ code' = ClearAddresses(code, bps)
    BY <1>5 DEF ClearAllSwBreakpoints, history
  <2>2. Faithful(ClearAddresses(code, bps), program)
    BY <1>a DEF Faithful, ClearAddresses, Code, NoWord, Word
  <2>3. QED
    BY <1>c, <2>1, <2>2
<1>6. CASE \E a \in Addr : WriteRegister(a)
  BY <1>6, <1>b DEF WriteRegister
<1>7. CASE \E a \in Addr : GetDisassembly(a) \/ GetInstruction(a)
  <2>1. PICK a \in Addr : GetDisassembly(a) \/ GetInstruction(a)
    BY <1>7
  <2> DEFINE c == WriteOriginalInstruction(code, a)
             d == Decode(c, a)
  <2>2. "ebreak" \in Word
    BY DEF Word
  <2>3. c \in Code /\ Faithful(c, program)
    BY <1>a, <2>2, CodeType, FaithfulOps
  <2>4. d \in Code /\ Faithful(d, program)
    BY <1>a, <2>2, <2>3, CodeType, FaithfulOps
  <2>5. Faithful(WriteBreakpointInstruction(d, a), program)
    BY <1>a, <2>4, FaithfulOps
  <2>6. Faithful(Decode(code, a), program)
    BY <1>a, FaithfulOps
  <2>7. /\ program' = program
        /\ code' = WriteBreakpointInstruction(d, a) \/ code' = Decode(code, a)
    BY <2>1 DEF GetDisassembly, GetInstruction, history
  <2>8. QED
    BY <1>c, <2>5, <2>6, <2>7
<1>8. CASE \E a \in Addr, w \in Patches : WriteMemory(a, w)
  <2>1. PICK a \in Addr, w \in Patches : WriteMemory(a, w)
    BY <1>8
  <2>2. /\ code' = [code EXCEPT !.mem[a] = w] /\ program' = [program EXCEPT ![a] = w]
        /\ code.cache[a] = NoWord /\ code.saved[a] = NoWord
    BY <2>1 DEF WriteMemory, Store
  <2>3. QED
    BY <1>a, <2>2 DEF Faithful, Code
<1>9. CASE Terminated \/ UNCHANGED vars
  BY <1>9, <1>b DEF Terminated, vars, store, history
<1>10. QED
  BY <1>2, <1>3, <1>4, <1>5, <1>6, <1>7, <1>8, <1>9 DEF Next, UserCall

(* The memory stays faithful for a client that never overwrites code it    *)
(* has run or set a breakpoint on.                                         *)
LEMMA FaithfulHolds ==
    "patchDecoded" \notin Risky => (Spec => []Faithful(code, program))
<1> SUFFICES ASSUME "patchDecoded" \notin Risky
             PROVE  Spec => []Faithful(code, program)
  OBVIOUS
<1>1. Init => Faithful(code, program)
  BY ConstantsAreTyped DEF Init, FreshCode, Faithful
<1>2. TypeOK /\ Faithful(code, program) /\ [Next]_vars => Faithful(code, program)'
  BY FaithfulStep
<1>3. QED
  BY <1>1, <1>2, TypeCorrect, PTL DEF Spec

(* A client that never overwrites code it has run or set a breakpoint on   *)
(* can always recover its program, whatever else it does: no saved word is *)
(* ever a planted ebreak, and every replaced word was saved                *)
(* (coralnpu_action_point_memory_interface.cc and StepPastBreakpoint).     *)
THEOREM Recoverable ==
    "patchDecoded" \notin Risky => (Spec => []OriginalsSafe)
<1>1. Faithful(code, program) => OriginalsSafe
  BY DEF Faithful, OriginalsSafe
<1>2. QED
  BY <1>1, FaithfulHolds, PTL

(* For such a client no decoding outlives the word it was made from: every *)
(* store of the action point interface invalidates the decode cache.       *)
THEOREM DecodingsAreCurrent ==
    "patchDecoded" \notin Risky => (Spec => []CacheCoherent)
<1>1. Faithful(code, program) => CacheCoherent
  BY DEF Faithful, CacheCoherent
<1>2. QED
  BY <1>1, FaithfulHolds, PTL

--------------------------------------------------------------------------------
(* What ties a thread to its Notification: run_halted_ belongs to the one  *)
(* thread that has not ended, and that thread has still to notify it; the  *)
(* others have ended, or were never started. Run() waits for the last run  *)
(* to be collected, so run_halted_ is null from its guard to the new       *)
(* thread.                                                                 *)
Ended(r) == at[r] \in {"unborn", "done"}

EndsInv ==
    /\ at[User] # "dead"
    /\ \A r \in Runs : ctx[r] \in {"loop", "actionPoint"}
    /\ \A r \in Runs : r # runHalted => Ended(r)
    /\ runHalted # 0 =>
          \/ notif[runHalted] = "pending" /\ at[runHalted] \in CoreLabels \cup {"notify"}
          \/ notif[runHalted] = "notified" /\ at[runHalted] = "done"
    /\ at[User] \in {"publish", "unhalt", "spawn", "destroyed"} => runHalted = 0
    /\ (ctx[User] = "run" /\ at[User] \in CoreLabels) => runHalted = 0
    /\ at[User] \in {"stepUnhalt", "stepOver"} => ctx[User] = "step"

(* A thread that executes stays in the core or goes on to notify, and the  *)
(* debugger thread goes from StepPastBreakpoint to the rest of Run().      *)
LEMMA AdvanceEnds ==
    ASSUME TypeOK, NEW p \in Procs, p # Halter, Advance(p)
    PROVE  /\ p \in Runs /\ ctx[p] \in {"loop", "actionPoint"} =>
                 /\ at'[p] \in CoreLabels \cup {"notify"}
                 /\ ctx'[p] \in {"loop", "actionPoint"}
           /\ p = User => at'[p] \in CoreLabels \cup {"idle", "publish"}
           /\ at'[p] = "publish" => ctx[p] = "run"
           /\ ctx'[p] = "run" => ctx[p] = "run"
           /\ \A q \in Procs : q # p => ctx'[q] = ctx[q]
           /\ UNCHANGED <<runHalted, notif>>
<1> USE DEF Move, Goto, locals, note, CoreLabels
<1>0. /\ at \in [Procs -> Label] /\ User \notin Runs
      /\ ctx \in [Procs -> {"loop", "run", "step", "actionPoint", "halt", "api"}]
  BY DEF TypeOK, User, Runs
<1>1. CASE StepPastBreakpoint(p)
  BY <1>0, <1>1 DEF StepPastBreakpoint, ExecuteInstruction
<1>2. CASE ExecuteNext(p)
  BY <1>0, <1>2 DEF ExecuteNext, ExecuteInstruction
<1>3. CASE Rearm(p)
  BY <1>0, <1>3 DEF Rearm
<1>4. CASE RequestReason(p)
  BY <1>0, <1>4 DEF RequestReason
<1>5. CASE RequestFlag(p)
  BY <1>0, <1>5 DEF RequestFlag
<1>6. CASE RequestOver(p)
  BY <1>0, <1>6 DEF RequestOver
<1>7. CASE Enter(p) \/ LeaveLoop(p)
  BY <1>0, <1>7 DEF Enter, LeaveLoop
<1>8. CASE Check(p) \/ Triage(p)
  BY <1>0, <1>8 DEF Check, Triage
<1>9. CASE Resume(p) \/ Forget(p)
  BY <1>0, <1>9 DEF Resume, Forget
<1>10. CASE SetFinalPc(p)
  BY <1>0, <1>10 DEF SetFinalPc
<1>11. CASE PublishHalt(p)
  BY <1>0, <1>11 DEF PublishHalt
<1>12. QED
  BY <1>1, <1>2, <1>3, <1>4, <1>5, <1>6, <1>7, <1>8, <1>9, <1>10, <1>11
  DEF Advance, RequestHalt

(* Every step keeps each thread tied to its Notification.                  *)
LEMMA EndsStep ==
    ASSUME "runBeforeWait" \notin Risky, TypeOK, EndsInv, [Next]_vars
    PROVE  EndsInv'
<1> USE DEF EndsInv, Ended
<1>a. /\ MaxRuns \in Nat /\ User \in Procs /\ Halter \in Procs
      /\ Runs \subseteq Procs /\ User \notin Runs /\ Halter \notin Runs
      /\ User # Halter /\ User = 0 /\ Runs = 1 .. MaxRuns
  BY ConstantsAreTyped DEF User, Halter, Procs, Runs
<1>b. /\ at \in [Procs -> Label] /\ runHalted \in 0 .. MaxRuns
      /\ ctx \in [Procs -> {"loop", "run", "step", "actionPoint", "halt", "api"}]
      /\ notif \in [Runs -> {"unused", "pending", "notified", "deleted"}]
  BY DEF TypeOK
<1>c. {"unborn", "done", "dead", "spawn", "publish", "unhalt", "destroyed", "idle", "notify",
       "wait", "destroyFlag", "destroyWait", "stepUnhalt", "stepOver"}
         \cap CoreLabels = {}
  BY DEF CoreLabels
<1>1. CASE Advance(User)
  <2>1. /\ at[User] \in CoreLabels /\ \A q \in Procs : q # User => at'[q] = at[q]
        /\ at'[User] \in CoreLabels \cup {"idle", "publish"}
    BY <1>1, <1>a, AdvanceFrame, AdvanceEnds
  <2>2. /\ at'[User] = "publish" => ctx[User] = "run"
        /\ ctx'[User] = "run" => ctx[User] = "run"
        /\ \A q \in Procs : q # User => ctx'[q] = ctx[q]
        /\ UNCHANGED <<runHalted, notif>>
    BY <1>1, <1>a, AdvanceEnds
  <2>3. QED
    BY <1>a, <1>b, <1>c, <2>1, <2>2
<1>2. CASE \E r \in Runs : Advance(r)
  <2>1. PICK r \in Runs : Advance(r)
    BY <1>2
  <2>2. /\ at[r] \in CoreLabels /\ \A q \in Procs : q # r => at'[q] = at[q]
        /\ at'[r] \in CoreLabels \cup {"notify"} /\ ctx'[r] \in {"loop", "actionPoint"}
    BY <1>a, <2>1, AdvanceFrame, AdvanceEnds
  <2>3. (\A q \in Procs : q # r => ctx'[q] = ctx[q]) /\ UNCHANGED <<runHalted, notif>>
    BY <1>a, <2>1, AdvanceEnds
  <2>4. r = runHalted /\ notif[r] = "pending"
    BY <1>a, <1>b, <1>c, <2>2
  <2>5. QED
    BY <1>a, <1>b, <1>c, <2>2, <2>3, <2>4
<1>3. CASE HalterStep \/ HalterCall
  <2>1. /\ \A q \in Procs : q # Halter => at'[q] = at[q] /\ ctx'[q] = ctx[q]
        /\ UNCHANGED <<runHalted, notif>>
    BY <1>3, <1>a, <1>b DEF HalterStep, RequestHalt, RequestReason, RequestFlag,
       RequestOver, HalterCall, Halt, HaltWithReason, Begin, Move, Goto, note, locals
  <2>2. \A r \in Runs : at'[r] = at[r] /\ ctx'[r] = ctx[r]
    BY <1>a, <2>1
  <2>3. at'[User] = at[User] /\ ctx'[User] = ctx[User]
    BY <1>a, <2>1
  <2>4. runHalted # 0 => runHalted \in Runs
    BY <1>a, <1>b
  <2>5. QED
    BY <2>1, <2>2, <2>3, <2>4
<1>4. CASE \E r \in Runs : Notify(r) \/ NotifyFatally(r)
  <2>1. PICK r \in Runs : Notify(r) \/ NotifyFatally(r)
    BY <1>4
  <2>2. at[r] = "notify" /\ r = runHalted /\ notif[r] = "pending"
    BY <1>a, <2>1 DEF Notify, NotifyFatally, Move
  <2>3. /\ at' = [at EXCEPT ![r] = "done"] /\ notif' = [notif EXCEPT ![r] = "notified"]
        /\ runHalted' = runHalted /\ ctx' = ctx
    BY <1>a, <2>1, <2>2 DEF Notify, NotifyFatally, Move, Goto, locals
  <2>4. QED
    BY <1>a, <1>b, <1>c, <2>2, <2>3
<1>5. CASE \/ OverDone \/ StepReason \/ StepForget \/ RunPublish \/ RunUnhalt
           \/ StepUnhalt \/ StepOver \/ DestroyFlag
  <2>1. /\ \A q \in Procs : q # User => at'[q] = at[q]
        /\ at'[User] \in CoreLabels \cup {"unhalt", "spawn", "stepOver", "destroyWait"}
        /\ at'[User] \in {"unhalt", "spawn"} => at[User] \in {"publish", "unhalt"}
        /\ at'[User] \in CoreLabels => at[User] \in CoreLabels \cup {"stepOver"}
        /\ at'[User] = "stepOver" => at[User] = "stepUnhalt"
        /\ UNCHANGED <<runHalted, notif, ctx>>
    BY <1>5, <1>a, <1>b DEF OverDone, StepReason, StepForget, RunPublish, RunUnhalt,
       StepUnhalt, StepOver, DestroyFlag, Move, Goto, locals, note, CoreLabels
  <2>2. QED
    BY <1>a, <1>b, <1>c, <2>1
<1>6. CASE RunSpawn
  <2>1. PICK r \in Runs : /\ notif' = [notif EXCEPT ![r] = "pending"] /\ runHalted' = r
                          /\ at' = [at EXCEPT ![User] = "idle", ![r] = "enter"]
    BY <1>6 DEF RunSpawn
  <2>2. ctx' = ctx /\ at[User] = "spawn"
    BY <1>6 DEF RunSpawn, locals
  <2>3. "enter" \in CoreLabels
    BY DEF CoreLabels
  <2>4. QED
    BY <1>a, <1>b, <1>c, <2>1, <2>2, <2>3
<1>7. CASE WaitReturn \/ DestroyReturn
  <2>1. /\ \A q \in Procs : q # User => at'[q] = at[q]
        /\ at'[User] \in {"idle", "destroyed"}
        /\ ctx' = ctx /\ runHalted' = 0 /\ notif[runHalted] = "notified"
    BY <1>7, <1>a, <1>b DEF WaitReturn, DestroyReturn, FreeNotification, Move, Goto, locals
  <2>2. \A r \in Runs : Ended(r)
    BY <1>a, <1>b, <2>1
  <2>3. QED
    BY <1>a, <1>b, <1>c, <2>1, <2>2
<1>8. CASE Run
  <2>1. /\ runHalted = 0 /\ UNCHANGED <<runHalted, notif>>
        /\ at' = [at EXCEPT ![User] = IF needToStepOver THEN "stepPast" ELSE "publish"]
        /\ ctx' = [ctx EXCEPT ![User] = "run"]
    BY <1>8 DEF Run, Begin, Goto, note
  <2>2. QED
    BY <1>a, <1>b, <1>c, <2>1
<1>9. CASE \/ Wait \/ Destroy \/ \E n \in 1 .. MaxSteps : Step(n)
  <2>1. /\ \A q \in Procs : q # User => at'[q] = at[q] /\ ctx'[q] = ctx[q]
        /\ at'[User] \in {"wait", "destroyed", "destroyFlag", "stepUnhalt"}
        /\ at'[User] = "destroyed" => runHalted = 0
        /\ at'[User] = "stepUnhalt" => ctx'[User] = "step"
        /\ UNCHANGED <<runHalted, notif>>
    BY <1>9, <1>a, <1>b DEF Wait, Destroy, Step, Begin, Goto, locals, note
  <2>2. QED
    BY <1>a, <1>b, <1>c, <2>1
<1>10. CASE \/ \E a \in Breakable : SetSwBreakpoint(a) \/ ClearSwBreakpoint(a)
            \/ ClearAllSwBreakpoints
            \/ \E a \in Addr : \/ WriteRegister(a) \/ GetDisassembly(a)
                               \/ GetInstruction(a)
                               \/ \E w \in Patches : WriteMemory(a, w)
            \/ Terminated \/ UNCHANGED vars
  <2>1. UNCHANGED <<at, ctx, runHalted, notif>>
    BY <1>10 DEF SetSwBreakpoint, ClearSwBreakpoint, ClearAllSwBreakpoints, WriteRegister,
       GetDisassembly, GetInstruction, WriteMemory, Terminated, vars, locals, note
  <2>2. QED
    BY <2>1
<1>11. QED
  BY <1>1, <1>2, <1>3, <1>4, <1>5, <1>6, <1>7, <1>8, <1>9, <1>10
  DEF Next, UserStep, UserCall, SimThread

(* The threads start tied to no Notification.                              *)
LEMMA EndsInit == Init => EndsInv
<1>1. MaxRuns \in Nat /\ Runs \subseteq Procs /\ User \in Procs /\ User \notin Runs
  BY ConstantsAreTyped DEF User, Procs, Runs
<1>2. QED
  BY <1>1 DEF Init, EndsInv, Ended, CoreLabels

(* For a client that waits for each run before it starts the next, the     *)
(* threads and their Notifications end together, for any number of runs    *)
(* and whatever else it and a second caller of Halt() do (Run, Wait and    *)
(* the destructor of coralnpu_top.cc).                                     *)
THEOREM RunsEndQuietly ==
    "runBeforeWait" \notin Risky => (Spec => []EndsQuietly)
<1> SUFFICES ASSUME "runBeforeWait" \notin Risky
             PROVE  Spec => []EndsQuietly
  OBVIOUS
<1>1. EndsInv => EndsQuietly
  <2>1. \A r \in Runs : r # 0
    BY DEF Runs
  <2>2. QED
    BY <2>1 DEF EndsInv, Ended, EndsQuietly, NotifySingleUse, DestroyedQuiet
<1>2. TypeOK /\ EndsInv /\ [Next]_vars => EndsInv'
  BY EndsStep
<1>3. QED
  BY <1>1, <1>2, EndsInit, TypeCorrect, PTL DEF Spec

--------------------------------------------------------------------------------
(* Debugging by one careful thread.  The first part of the invariant is    *)
(* the memory: ebreaks at the active breakpoints and nowhere else, but for *)
(* the one StepPastBreakpoint has lifted; breakpoints are on words that do *)
(* not halt, and those words are saved.                                    *)
CarefulAlone == Risky = {} /\ MaxHalts = 0

Lifted(a) == at[User] = "rearm" /\ sp[User] = a

MemoryExact ==
    /\ \A a \in Addr :
          code.mem[a] = IF a \in bps /\ ~Lifted(a) THEN "ebreak" ELSE program[a]
    /\ \A a \in bps : program[a] \in {"nop", "jump"} /\ code.saved[a] = program[a]

(* The second part is where each thread stands.  Ready: the pc is the next *)
(* instruction of the program and nothing is pending.  Hit(p): p ran into  *)
(* a breakpoint, and its local pc, not the register, is the next           *)
(* instruction.  Settled: the register is right again, and the halt reason *)
(* tells whether a breakpoint is still to be stepped over.  A destructor   *)
(* sets the halt flag without a reason, so from then on a stale reason may *)
(* spoil the pc, which nobody reads any more.                              *)
Ready   == pcReg = arch /\ ~needToStepOver /\ ~paused
Hit(p)  == lpc[p] = arch /\ arch \in bps /\ ~paused
Went(p) == pcReg = arch /\ ~needToStepOver
Settled ==
    /\ pcReg = arch /\ haltReason # "actionPoint"
    /\ needToStepOver <=> haltReason = "softwareBreakpoint"
    /\ needToStepOver => pcReg \in bps
Leaving == at[User] \in {"destroyFlag", "destroyWait", "destroyed"}

(* The threads of Run() never step past a breakpoint, and the debugger     *)
(* thread only does so at the start of Run().                              *)
Placed(p) ==
    /\ p # User => /\ ctx[p] = "loop"
                   /\ at[p] \in {"unborn", "enter", "loop", "reason", "flag", "over",
                                 "check", "triage", "settle", "publishHalt", "notify", "done"}
    /\ at[p] \notin {"resume", "forget", "overDone", "dead"}
    /\ at[p] \in {"stepPast", "rearm"} => ctx[p] = "run"
    /\ at[p] \in {"loop", "reason", "flag", "over", "check"} => ctx[p] = "loop"

Starting(p) ==
    /\ at[p] \in {"stepPast", "rearm", "publish", "unhalt", "spawn", "stepUnhalt",
                  "stepOver", "enter", "loop"} => Ready /\ haltReason # "actionPoint"
    /\ at[p] = "stepPast" => pcReg \in bps
    /\ at[p] = "rearm" => sp[p] \in bps
    /\ at[p] \in {"spawn", "stepOver", "enter", "loop"} => ~halted \/ Leaving
    /\ (at[p] \in {"stepUnhalt", "stepOver"} \/ (p = User /\ at[p] \in {"enter", "loop"}))
          => haltReason # "softwareBreakpoint"
    /\ at[p] = "loop" => lnext[p] = arch

Requesting(p) ==
    /\ at[p] \in {"flag", "over"} => haltReason = pend[p]
    /\ at[p] = "over" => halted
    /\ at[p] \in {"reason", "flag", "over"} =>
          \/ /\ Hit(p) /\ pend[p] \in {"actionPoint", "softwareBreakpoint"}
             /\ needToStepOver <=> pend[p] = "softwareBreakpoint"
          \/ /\ Went(p)
             /\ pend[p] \notin {"none", "actionPoint", "softwareBreakpoint"}

Stopping(p) ==
    /\ at[p] \in {"check", "triage", "settle"} =>
          /\ haltReason # "actionPoint"
          /\ \/ /\ Hit(p) /\ haltReason = "softwareBreakpoint"
                /\ needToStepOver /\ halted
             \/ /\ Went(p) /\ (paused => halted)
                /\ at[p] # "check" => lnext[p] = arch
                /\ (halted \/ p = User) =>
                       (haltReason # "softwareBreakpoint" \/ Leaving)
    /\ at[p] = "triage" => halted
    /\ at[p] = "settle" => halted \/ p = User
    /\ at[p] = "stepReason" => Settled /\ (needToStepOver => halted)
    /\ at[p] = "stepForget" => Settled /\ ~needToStepOver
    /\ at[p] = "publishHalt" => Settled \/ Leaving

Standing(p) == Placed(p) /\ Starting(p) /\ Requesting(p) /\ Stopping(p)

Resting == at[User] \in {"idle", "wait"} =>
               runStatus # "singleStep" /\ (runStatus = "halted" => Settled)

CarefulInv ==
    /\ MemoryExact
    /\ at[Halter] = "idle"
    /\ \A p \in Procs \ {Halter} : Standing(p)
    /\ Resting

(* A thread that is neither in the core nor inside Run() or Step() has     *)
(* nothing to lose from the steps of others.                               *)
LEMMA Bystander ==
    ASSUME NEW q \in Procs, Standing(q), at'[q] = at[q], ctx'[q] = ctx[q],
           ~InCore(q), q = User => at[q] \in Outside
    PROVE  Standing(q)'
<1>1. Placed(q) /\ Placed(q)'
  BY DEF Standing, Placed
<1>2. at'[q] \in Outside \cup {"unborn", "notify", "done"}
  <2>1. CASE q = User
    BY <2>1
  <2>2. CASE q # User
    BY <1>1, <2>2 DEF Placed, InCore, CoreLabels
  <2>3. QED
    BY <2>1, <2>2
<1>3. Starting(q)' /\ Requesting(q)' /\ Stopping(q)'
  BY <1>2 DEF Starting, Requesting, Stopping, Outside
<1>4. QED
  BY <1>1, <1>3 DEF Standing

(* While a thread is in the core, or the debugger thread inside Run() or   *)
(* Step(), every other thread is a bystander.                              *)
LEMMA Alone ==
    ASSUME TypeOK, ExclusionInv, NEW p \in Procs \ {Halter},
           IF p = User THEN at[p] \notin Outside ELSE InCore(p)
    PROVE  /\ \A q \in Procs \ {Halter} :
                 q # p => ~InCore(q) /\ (q = User => at[q] \in Outside)
           /\ p # User => runStatus = "running"
<1>1. p = User \/ p \in Runs
  BY ConstantsAreTyped DEF Procs, Halter, User, Runs
<1>2. \A q \in Procs \ {Halter} : q = User \/ q \in Runs
  BY ConstantsAreTyped DEF Procs, Halter, User, Runs
<1>3. Outside \cap CoreLabels = {}
  BY DEF Outside, CoreLabels
<1>4. QED
  BY <1>1, <1>2, <1>3 DEF ExclusionInv, InCore

(* What the word at address a does when nothing is lifted: an active       *)
(* breakpoint is hit and changes nothing of the program's, any other word  *)
(* is the program's own and retires (the ebreak handler and the traps).    *)
LEMMA WordAt ==
    ASSUME TypeOK, Faithful(code, program), MemoryExact, at[User] # "rearm",
           NEW a \in Addr
    PROVE  LET d == Decode(code, a)
               w == d.cache[a]
               r == HaltRequest(d, a, w)
           IN  /\ a \in bps => r = "actionPoint"
               /\ a \notin bps =>
                     /\ w = program[a] /\ Retires(a, w, r)
                     /\ r \notin {"actionPoint", "softwareBreakpoint"}
<1> DEFINE d == Decode(code, a)
           w == d.cache[a]
           r == HaltRequest(d, a, w)
<1>1. d.saved = code.saved /\ w = code.mem[a] /\ w \in Word
  BY DEF TypeOK, Code, Faithful, Decode, NoWord, Word
<1>2. code.mem[a] = IF a \in bps THEN "ebreak" ELSE program[a]
  BY DEF MemoryExact, Lifted
<1>3. CASE a \in bps
  <2>1. d.saved[a] # "exit" /\ w = "ebreak"
    BY <1>1, <1>2, <1>3 DEF MemoryExact
  <2>2. QED
    BY <1>3, <2>1 DEF HaltRequest
<1>4. CASE a \notin bps
  <2>1. w = program[a]
    BY <1>1, <1>2, <1>4
  <2>2. w = "ebreak" => d.saved[a] # "exit"
    BY <1>1, <2>1 DEF Faithful, NoWord
  <2>3. r \notin {"actionPoint", "softwareBreakpoint"}
    BY <1>1, <1>4, <2>2 DEF HaltRequest, Word
  <2>4. Retires(a, w, r)
    BY <2>1, <2>3 DEF Retires
  <2>5. QED
    BY <1>4, <2>1, <2>3, <2>4
<1>5. QED
  BY <1>3, <1>4

(* StepPastBreakpoint executes the program's own word at the breakpoint,   *)
(* which does not halt.                                                    *)
LEMMA WordUnder ==
    ASSUME TypeOK, Faithful(code, program), MemoryExact, NEW a \in bps
    PROVE  LET d == Decode(WriteOriginalInstruction(code, a), a)
               w == d.cache[a]
               r == HaltRequest(d, a, w)
           IN  /\ w = program[a] /\ r = "none" /\ Retires(a, w, r)
               /\ d.saved = code.saved
               /\ \A b \in Addr : d.mem[b] = IF b = a THEN program[a] ELSE code.mem[b]
<1> DEFINE c == WriteOriginalInstruction(code, a)
           d == Decode(c, a)
           w == d.cache[a]
           r == HaltRequest(d, a, w)
<1>1. /\ a \in Addr /\ code \in Code /\ program[a] \in {"nop", "jump"}
      /\ code.saved[a] = program[a]
  BY DEF TypeOK, MemoryExact
<1>2. /\ c \in Code /\ c.saved = code.saved /\ c.cache[a] = NoWord
      /\ \A b \in Addr : c.mem[b] = IF b = a THEN program[a] ELSE code.mem[b]
  <2>1. c = Invalidate(Store(code, a, program[a]), a)
    BY <1>1 DEF WriteOriginalInstruction, NoWord
  <2>2. c \in Code
    BY <1>1, CodeType, "ebreak" \in Word DEF Word
  <2> DEFINE e == Store(code, a, program[a])
  <2>3. /\ e.saved = code.saved /\ e \in Code
        /\ \A b \in Addr : e.mem[b] = IF b = a THEN program[a] ELSE code.mem[b]
    BY <1>1 DEF Store, Code, Word
  <2> HIDE DEF e
  <2>4. /\ Invalidate(e, a).saved = e.saved /\ Invalidate(e, a).mem = e.mem
        /\ Invalidate(e, a).cache[a] = NoWord
    BY <1>1, <2>3 DEF Invalidate, Code
  <2>5. QED
    BY <2>1, <2>2, <2>3, <2>4 DEF e
<1> HIDE DEF c
<1>3. d.saved = c.saved /\ d.mem = c.mem /\ w = c.mem[a]
  BY <1>1, <1>2 DEF Decode, Code
<1>4. w = program[a] /\ r = "none"
  BY <1>1, <1>2, <1>3 DEF HaltRequest
<1>5. Retires(a, w, r)
  BY <1>1, <1>4 DEF Retires
<1>6. QED
  BY <1>2, <1>3, <1>4, <1>5 DEF c

(* Planting an ebreak over a word that was saved before changes that word  *)
(* and nothing that was saved; over one that was not, it saves that word.  *)
LEMMA WordPlanted ==
    ASSUME NEW c \in Code, NEW a \in Addr
    PROVE  LET d == WriteBreakpointInstruction(c, a)
           IN  /\ \A b \in Addr : d.mem[b] = IF b = a THEN "ebreak" ELSE c.mem[b]
               /\ d.saved[a] = IF c.saved[a] = NoWord THEN c.mem[a] ELSE c.saved[a]
               /\ \A b \in Addr : b # a => d.saved[b] = c.saved[b]
<1> DEFINE s == SaveInstruction(c, a)
           e == Store(s, a, "ebreak")
<1>1. /\ s \in Code /\ s.mem = c.mem
      /\ s.saved[a] = IF c.saved[a] = NoWord THEN c.mem[a] ELSE c.saved[a]
      /\ \A b \in Addr : b # a => s.saved[b] = c.saved[b]
  BY DEF SaveInstruction, Code
<1> HIDE DEF s
<1>2. /\ e \in Code /\ e.saved = s.saved
      /\ \A b \in Addr : e.mem[b] = IF b = a THEN "ebreak" ELSE s.mem[b]
  BY <1>1 DEF Store, Code, Word
<1> HIDE DEF e
<1>3. Invalidate(e, a).saved = e.saved /\ Invalidate(e, a).mem = e.mem
  BY <1>2 DEF Invalidate, Code
<1>4. QED
  BY <1>1, <1>2, <1>3 DEF WriteBreakpointInstruction, e, s

(* What the thread in the core does keeps the memory exact, the pc the     *)
(* program's and every stop true, label by label.                          *)
LEMMA CarefulAdvance ==
    ASSUME TypeOK, ExclusionInv, Faithful(code, program), CarefulInv,
           NEW p \in Procs \ {Halter}, Advance(p)
    PROVE  CarefulInv'
<1>a. /\ at \in [Procs -> Label] /\ at[p] \in CoreLabels /\ p \in Procs
      /\ \A q \in Procs : q # p => at'[q] = at[q] /\ ctx'[q] = ctx[q]
      /\ p = User => at'[p] \in CoreLabels \cup {"idle", "publish"}
      /\ ctx \in [Procs -> {"loop", "run", "step", "actionPoint", "halt", "api"}]
      /\ pend \in [Procs -> Reason] /\ lpc \in [Procs -> Addr \cup {Undef}]
      /\ lnext \in [Procs -> Addr] /\ sp \in [Procs -> Addr]
  BY AdvanceFrame, AdvanceEnds DEF TypeOK
<1>b. Outside \cap CoreLabels = {} /\ User \in Procs \ {Halter} /\ Halter \in Procs
  BY ConstantsAreTyped DEF Outside, CoreLabels, User, Halter, Procs
<1>c. /\ \A q \in Procs \ {Halter} :
            q # p => ~InCore(q) /\ (q = User => at[q] \in Outside)
      /\ p # User => runStatus = "running" /\ at[User] \in Outside
  BY <1>a, <1>b, Alone DEF InCore
<1>d. ASSUME NEW q \in Procs \ {Halter}, q # p PROVE Standing(q)'
  BY <1>a, <1>c, <1>d, Bystander DEF CarefulInv
<1>e. Standing(p) /\ MemoryExact /\ at'[Halter] = "idle"
  BY <1>a, <1>b DEF CarefulInv
<1>f. (Leaving' <=> Leaving) /\ (p = User => ~Leaving)
  BY <1>a, <1>b, <1>c DEF Leaving, Outside, CoreLabels
<1>g. ASSUME Standing(p)', MemoryExact', Resting' PROVE CarefulInv'
  BY <1>d, <1>e, <1>g DEF CarefulInv
<1>h. ASSUME runStatus' = runStatus, p = User => at'[p] \notin {"idle", "wait"}
      PROVE  Resting'
  BY <1>c, <1>h, <1>a DEF Resting, Outside
<1>i. ASSUME UNCHANGED <<code, bps, program>>, at[p] # "rearm", at'[p] # "rearm"
      PROVE  MemoryExact'
  <2>1. at[User] # "rearm" /\ at'[User] # "rearm"
    BY <1>a, <1>b, <1>c, <1>i DEF Outside
  <2>2. QED
    BY <1>e, <1>i, <2>1 DEF MemoryExact, Lifted
<1> USE DEF Move, Goto
<1>1. CASE StepPastBreakpoint(p)
  <2> DEFINE d == Decode(WriteOriginalInstruction(code, pcReg), pcReg)
             w == d.cache[pcReg]
             r == HaltRequest(d, pcReg, w)
  <2>1. at[p] = "stepPast"
    BY <1>1 DEF StepPastBreakpoint
  <2>2. /\ p = User /\ ctx[p] = "run" /\ pcReg \in bps /\ pcReg = arch
        /\ ~needToStepOver /\ ~paused /\ haltReason # "actionPoint"
    BY <1>e, <2>1 DEF Standing, Placed, Starting, Ready
  <2>3. /\ w = program[pcReg] /\ r = "none" /\ Retires(pcReg, w, r)
        /\ d.saved = code.saved
        /\ \A b \in Addr : d.mem[b] = IF b = pcReg THEN program[pcReg] ELSE code.mem[b]
    BY <1>e, <2>2, WordUnder
  <2>4. /\ code' = d /\ pcReg' = Successor(pcReg, w)
        /\ arch' = (IF Retires(pcReg, w, r) THEN Successor(pcReg, w) ELSE arch)
        /\ paused' = (paused \/ (Retires(pcReg, w, r) /\ r # "none"))
        /\ at' = [at EXCEPT ![p] = IF r = "none" THEN "rearm" ELSE "reason"]
        /\ sp' = [sp EXCEPT ![p] = pcReg]
        /\ UNCHANGED <<atomics, ctx, bps, program>>
    BY <1>1 DEF StepPastBreakpoint, ExecuteInstruction
  <2> HIDE DEF d, w, r
  <2>5. /\ at'[p] = "rearm" /\ sp'[p] = pcReg /\ pcReg' = arch' /\ ~paused'
        /\ ctx'[p] = "run" /\ UNCHANGED <<runStatus, haltReason, needToStepOver, halted, bps>>
    BY <1>a, <2>2, <2>3, <2>4 DEF atomics
  <2>6. Standing(p)'
    BY <2>2, <2>5 DEF Standing, Placed, Starting, Requesting, Stopping, Ready
  <2>7. MemoryExact'
    <3>1. at[User] # "rearm" /\ at'[User] = "rearm" /\ sp'[User] = pcReg
      BY <2>1, <2>2, <2>5
    <3>2. QED
      BY <1>e, <2>2, <2>3, <2>4, <3>1 DEF MemoryExact, Lifted
  <2>8. QED
    BY <1>g, <1>h, <2>5, <2>6, <2>7
<1>2. CASE Rearm(p)
  <2>1. at[p] = "rearm"
    BY <1>2 DEF Rearm
  <2>2. /\ p = User /\ ctx[p] = "run" /\ sp[p] \in bps /\ pcReg = arch
        /\ ~needToStepOver /\ ~paused /\ haltReason # "actionPoint"
    BY <1>e, <2>1 DEF Standing, Placed, Starting, Ready
  <2>3. /\ at' = [at EXCEPT ![p] = "publish"]
        /\ code' = WriteBreakpointInstruction(code, sp[p])
        /\ UNCHANGED <<atomics, locals, pcReg, bps, history>>
    BY <1>2, <2>2 DEF Rearm
  <2>4. /\ at'[p] = "publish" /\ ctx'[p] = "run"
        /\ UNCHANGED <<runStatus, haltReason, needToStepOver, halted, pcReg, arch, paused,
                       bps, program>>
    BY <1>a, <2>2, <2>3 DEF atomics, locals, history
  <2>5. Standing(p)'
    BY <2>2, <2>4 DEF Standing, Placed, Starting, Requesting, Stopping, Ready
  <2>6. MemoryExact'
    <3>1. code \in Code /\ sp[p] \in Addr
      BY <1>a DEF TypeOK
    <3>2. /\ \A b \in Addr : code'.mem[b] = IF b = sp[p] THEN "ebreak" ELSE code.mem[b]
          /\ code'.saved[sp[p]] = IF code.saved[sp[p]] = NoWord THEN code.mem[sp[p]]
                                                               ELSE code.saved[sp[p]]
          /\ \A b \in Addr : b # sp[p] => code'.saved[b] = code.saved[b]
      BY <2>3, <3>1, WordPlanted
    <3>3. /\ code.saved[sp[p]] = program[sp[p]] /\ program[sp[p]] # NoWord
          /\ bps \subseteq Addr
      BY <1>e, <2>2 DEF MemoryExact, NoWord, TypeOK
    <3>4. at[User] = "rearm" /\ at'[User] # "rearm"
      BY <2>1, <2>2, <2>4
    <3>5. QED
      BY <1>e, <2>2, <2>4, <3>2, <3>3, <3>4 DEF MemoryExact, Lifted
  <2>7. QED
    BY <1>g, <1>h, <2>4, <2>5, <2>6
<1>3. CASE Enter(p)
  <2>1. /\ at[p] = "enter" /\ at'[p] = "loop" /\ lnext'[p] = pcReg /\ ctx'[p] = "loop"
        /\ UNCHANGED <<atomics, store, history>>
    BY <1>3, <1>a DEF Enter
  <2>2. Standing(p)'
    BY <1>e, <1>f, <2>1 DEF Standing, Placed, Starting, Requesting, Stopping, Ready,
       atomics, store, history
  <2>3. QED
    BY <1>g, <1>h, <1>i, <2>1, <2>2 DEF atomics, store, history
<1>4. CASE ExecuteNext(p)
  <2> DEFINE a == arch
             d == Decode(code, a)
             w == d.cache[a]
             r == HaltRequest(d, a, w)
  <2>1. at[p] = "loop" /\ at[User] # "rearm"
    BY <1>4, <1>c DEF ExecuteNext, Outside
  <2>2. /\ lnext[p] = a /\ pcReg = a /\ ~needToStepOver /\ ~paused
        /\ haltReason # "actionPoint" /\ ctx[p] = "loop" /\ a \in Addr
        /\ p = User => haltReason # "softwareBreakpoint"
        /\ ~halted \/ Leaving
    BY <1>e, <2>1 DEF Standing, Placed, Starting, Ready, TypeOK
  <2>3. /\ a \in bps => r = "actionPoint"
        /\ a \notin bps => /\ Retires(a, w, r)
                           /\ r \notin {"actionPoint", "softwareBreakpoint"}
    BY <1>e, <2>1, <2>2, WordAt
  <2>4. /\ code' = d /\ pcReg' = Successor(a, w)
        /\ arch' = (IF Retires(a, w, r) THEN Successor(a, w) ELSE arch)
        /\ paused' = (paused \/ (Retires(a, w, r) /\ r # "none"))
        /\ at' = [at EXCEPT ![p] = IF r = "none" THEN "check" ELSE "reason"]
        /\ pend' = [pend EXCEPT ![p] = r] /\ lpc' = [lpc EXCEPT ![p] = a]
        /\ UNCHANGED <<atomics, lnext, ctx, bps, program>>
    BY <1>4, <2>2 DEF ExecuteNext, ExecuteInstruction
  <2>5. d.mem = code.mem /\ d.saved = code.saved
    BY <2>2 DEF Decode, TypeOK, Code
  <2>6. Retires(a, w, r) => r # "actionPoint"
    BY DEF Retires
  <2>7. PICK x : x = a
    OBVIOUS
  <2>8. PICK y : y = r
    OBVIOUS
  <2> HIDE DEF a, d, w, r
  <2>9. /\ pend'[p] = y /\ lpc'[p] = x /\ ctx'[p] = "loop"
        /\ at'[p] = IF y = "none" THEN "check" ELSE "reason"
        /\ UNCHANGED <<runStatus, haltReason, needToStepOver, halted, bps>>
    BY <1>a, <2>2, <2>4, <2>7, <2>8 DEF atomics
  <2>10. ASSUME x \in bps PROVE Standing(p)'
    <3>1. /\ y = "actionPoint" /\ arch' = x /\ ~paused' /\ lpc'[p] = arch'
      BY <2>2, <2>3, <2>4, <2>6, <2>7, <2>8, <2>9, <2>10 DEF a
    <3>2. QED
      BY <1>e, <2>1, <2>2, <2>9, <2>10, <3>1
         DEF Standing, Placed, Starting, Requesting, Stopping, Hit
  <2>11. ASSUME x \notin bps PROVE Standing(p)'
    <3>1. /\ pcReg' = arch' /\ y \notin {"actionPoint", "softwareBreakpoint"}
          /\ paused' = (y # "none")
      BY <2>2, <2>3, <2>4, <2>7, <2>8, <2>11
    <3>2. QED
      BY <1>e, <1>f, <2>1, <2>2, <2>9, <3>1
         DEF Standing, Placed, Starting, Requesting, Stopping, Went
  <2>12. MemoryExact'
    BY <1>a, <1>b, <1>c, <1>e, <2>1, <2>4, <2>5, <2>9 DEF MemoryExact, Lifted, Outside
  <2>13. p = User => at'[p] \notin {"idle", "wait"}
    BY <2>9
  <2>14. QED
    BY <1>g, <1>h, <2>9, <2>10, <2>11, <2>12, <2>13
<1>5. CASE LeaveLoop(p)
  <2>1. /\ at[p] = "loop" /\ at'[p] = "settle" /\ UNCHANGED <<atomics, locals, store, history>>
    BY <1>5, <1>a DEF LeaveLoop
  <2>2. halted \/ p = User
    BY <1>5 DEF LeaveLoop, LoopEnds
  <2>3. Standing(p)'
    BY <1>e, <1>f, <2>1, <2>2 DEF Standing, Placed, Starting, Requesting, Stopping, Ready,
       Went, atomics, locals, store, history
  <2>4. QED
    BY <1>g, <1>h, <1>i, <2>1, <2>3 DEF atomics, store, history
<1>6. CASE Check(p)
  <2>1. /\ at[p] = "check" /\ at'[p] = (IF halted THEN "triage" ELSE "loop")
        /\ lnext'[p] = pcReg /\ UNCHANGED <<atomics, lpc, ctx, store, history>>
    BY <1>6, <1>a DEF Check
  <2>2. ctx[p] = "loop"
    BY <1>e, <2>1 DEF Standing, Placed
  <2>3. Standing(p)'
    BY <1>e, <1>f, <2>1, <2>2 DEF Standing, Placed, Starting, Requesting, Stopping, Ready,
       Went, Hit, atomics, store, history
  <2>4. QED
    BY <1>g, <1>h, <1>i, <2>1, <2>3 DEF atomics, store, history
<1>7. CASE Triage(p)
  <2>1. at[p] = "triage" /\ haltReason # "actionPoint"
    BY <1>7, <1>e DEF Triage, Standing, Stopping
  <2>2. at'[p] = "settle" /\ UNCHANGED <<atomics, lpc, lnext, ctx, store, history>>
    BY <1>7, <1>a, <2>1 DEF Triage
  <2>3. Standing(p)'
    BY <1>e, <1>f, <2>1, <2>2 DEF Standing, Placed, Starting, Requesting, Stopping,
       Went, Hit, atomics, store, history
  <2>4. QED
    BY <1>g, <1>h, <1>i, <2>1, <2>2, <2>3 DEF atomics, store, history
<1>8. CASE Resume(p) \/ Forget(p)
  BY <1>8, <1>e DEF Resume, Forget, Standing, Placed
<1>9. CASE SetFinalPc(p)
  <2>1. /\ at[p] = "settle" /\ at'[p] = (IF p = User THEN "stepReason" ELSE "publishHalt")
        /\ UNCHANGED <<atomics, locals, code, bps, history>>
    BY <1>9, <1>a DEF SetFinalPc
  <2>2. ~Leaving => /\ pcReg' = arch
                    /\ needToStepOver <=> haltReason = "softwareBreakpoint"
                    /\ needToStepOver => arch \in bps /\ halted
    <3>1. SUFFICES ASSUME ~Leaving
                   PROVE  /\ pcReg' = arch
                          /\ needToStepOver <=> haltReason = "softwareBreakpoint"
                          /\ needToStepOver => arch \in bps /\ halted
      OBVIOUS
    <3>2. CASE Hit(p) /\ haltReason = "softwareBreakpoint" /\ needToStepOver /\ halted
      <4>1. lpc[p] = arch /\ arch \in Addr /\ arch # Undef
        BY <3>2, NIsPositive DEF Hit, TypeOK, Addr, Undef
      <4>2. QED
        BY <1>9, <3>2, <4>1 DEF SetFinalPc, Hit
    <3>3. CASE Went(p) /\ lnext[p] = arch /\ haltReason # "softwareBreakpoint"
      BY <1>9, <3>3 DEF SetFinalPc, Went
    <3>4. halted \/ p = User
      BY <1>e, <2>1 DEF Standing, Stopping, Placed
    <3>5. QED
      BY <1>e, <2>1, <3>1, <3>2, <3>3, <3>4 DEF Standing, Stopping
  <2>3. haltReason # "actionPoint"
    BY <1>e, <2>1 DEF Standing, Stopping
  <2>4. Standing(p)'
    BY <1>e, <1>f, <2>1, <2>2, <2>3 DEF Standing, Placed, Starting, Requesting, Stopping,
       Settled, atomics, locals, history
  <2>5. QED
    BY <1>g, <1>h, <1>i, <2>1, <2>4 DEF atomics, history
<1>10. CASE PublishHalt(p)
  <2>1. /\ at[p] = "publishHalt" /\ at'[p] = (IF p = User THEN "idle" ELSE "notify")
        /\ UNCHANGED <<haltReason, halted, needToStepOver, locals, store, history>>
    BY <1>10, <1>a DEF PublishHalt
  <2>2. Standing(p)'
    BY <1>e, <2>1 DEF Standing, Placed, Starting, Requesting, Stopping, locals
  <2>3. Settled \/ Leaving
    BY <1>e, <2>1 DEF Standing, Stopping
  <2>4. Resting'
    BY <1>f, <1>10, <2>1, <2>3 DEF PublishHalt, Resting, Settled, Leaving, store, history
  <2>5. QED
    BY <1>g, <1>i, <2>1, <2>2, <2>4 DEF store, history
<1>11. CASE RequestReason(p)
  <2>1. /\ at[p] = "reason" /\ at'[p] = "flag" /\ haltReason' = pend[p]
        /\ UNCHANGED <<runStatus, halted, needToStepOver, locals, store, history>>
    BY <1>11, <1>a DEF RequestReason
  <2>2. Standing(p)'
    BY <1>e, <2>1 DEF Standing, Placed, Starting, Requesting, Stopping, Hit, Went,
       locals, store, history
  <2>3. QED
    BY <1>g, <1>h, <1>i, <2>1, <2>2 DEF store, history
<1>12. CASE RequestFlag(p)
  <2>1. at[p] = "flag" /\ ctx[p] = "loop"
    BY <1>12, <1>e DEF RequestFlag, Standing, Placed
  <2>2. /\ at'[p] = "over" /\ halted' = TRUE
        /\ UNCHANGED <<runStatus, haltReason, needToStepOver, locals, store, history>>
    BY <1>12, <1>a, <2>1 DEF RequestFlag
  <2>3. Standing(p)'
    BY <1>e, <2>1, <2>2 DEF Standing, Placed, Starting, Requesting, Stopping, Hit, Went,
       locals, store, history
  <2>4. QED
    BY <1>g, <1>h, <1>i, <2>1, <2>2, <2>3 DEF store, history
<1>13. CASE RequestOver(p)
  <2>1. at[p] = "over" /\ ctx[p] = "loop" /\ haltReason = pend[p] /\ halted
    BY <1>13, <1>e DEF RequestOver, Standing, Placed, Requesting
  <2>2. /\ at'[p] = (IF pend[p] = "actionPoint" THEN "reason" ELSE "check")
        /\ pend'[p] = (IF pend[p] = "actionPoint" THEN "softwareBreakpoint" ELSE "none")
        /\ needToStepOver' =
              (needToStepOver \/ haltReason \in {"softwareBreakpoint", "actionPoint"})
        /\ UNCHANGED <<runStatus, haltReason, halted, lpc, lnext, ctx, store, history>>
    BY <1>13, <1>a, <2>1 DEF RequestOver
  <2>3. Standing(p)'
    BY <1>e, <1>f, <2>1, <2>2 DEF Standing, Placed, Starting, Requesting, Stopping, Hit,
       Went, store, history
  <2>4. QED
    BY <1>g, <1>h, <1>i, <2>1, <2>2, <2>3 DEF store, history
<1>14. QED
  BY <1>1, <1>2, <1>3, <1>4, <1>5, <1>6, <1>7, <1>8, <1>9, <1>10, <1>11, <1>12, <1>13
  DEF Advance, RequestHalt

(* The debugger thread on its way through Run() and Step(), outside the    *)
(* core: every other thread is a bystander.                                *)
LEMMA CarefulUserStep ==
    ASSUME TypeOK, ExclusionInv, CarefulInv,
           \/ OverDone \/ StepReason \/ StepForget \/ RunPublish \/ RunUnhalt
           \/ RunSpawn \/ StepUnhalt \/ StepOver
    PROVE  CarefulInv'
<1>a. /\ at \in [Procs -> Label] /\ User \in Procs \ {Halter} /\ Halter \in Procs
      /\ Runs \subseteq Procs \ {Halter} /\ User \notin Runs
  <2>1. MaxRuns \in Nat
    BY ConstantsAreTyped
  <2>2. QED
    BY <2>1 DEF TypeOK, User, Halter, Procs, Runs
<1>b. /\ at[User] \in {"overDone", "stepReason", "stepForget", "publish", "unhalt", "spawn",
                       "stepUnhalt", "stepOver"}
      /\ UNCHANGED <<locals, store, history>>
  BY DEF OverDone, StepReason, StepForget, RunPublish, RunUnhalt, RunSpawn, StepUnhalt,
     StepOver, Move
<1>c. \A q \in Procs \ {Halter} : q # User => ~InCore(q)
  BY <1>a, <1>b, Alone DEF Outside
<1>d. Standing(User) /\ MemoryExact /\ at[Halter] = "idle"
  BY <1>a DEF CarefulInv
<1>e. ASSUME NEW q \in Procs \ {Halter}, q # User, at'[q] = at[q] PROVE Standing(q)'
  BY <1>b, <1>c, <1>e, Bystander DEF CarefulInv, locals
<1>f. ASSUME at'[User] # "rearm" PROVE MemoryExact'
  BY <1>b, <1>d, <1>f DEF MemoryExact, Lifted, store, history
<1>1. CASE RunSpawn
  <2>1. PICK r \in Runs : at' = [at EXCEPT ![User] = "idle", ![r] = "enter"]
    BY <1>1 DEF RunSpawn
  <2>2. at[User] = "spawn" /\ UNCHANGED atomics
    BY <1>1 DEF RunSpawn
  <2>3. /\ at'[User] = "idle" /\ at'[r] = "enter" /\ at'[Halter] = at[Halter]
        /\ \A q \in Procs : q # User /\ q # r => at'[q] = at[q]
    BY <1>a, <2>1
  <2>4. Standing(r)'
    BY <1>a, <1>b, <1>d, <2>2, <2>3 DEF CarefulInv, Standing, Placed, Starting, Requesting,
       Stopping, Ready, Leaving, atomics, locals, store, history
  <2>5. Standing(User)'
    BY <2>3, <1>a DEF Standing, Placed, Starting, Requesting, Stopping
  <2>6. Resting'
    BY <1>a, <2>2 DEF ExclusionInv, Resting, atomics
  <2>7. \A q \in Procs \ {Halter} : Standing(q)'
    BY <1>e, <2>3, <2>4, <2>5
  <2>8. QED
    BY <1>d, <1>f, <2>3, <2>6, <2>7 DEF CarefulInv
<1>2. CASE ~RunSpawn
  <2>1. /\ \A q \in Procs : q # User => at'[q] = at[q]
        /\ at'[User] \notin Outside \cup {"rearm"}
    BY <1>a, <1>2 DEF OverDone, StepReason, StepForget, RunPublish, RunUnhalt, StepUnhalt,
       StepOver, Move, Goto, Outside
  <2>2. Resting' /\ MemoryExact' /\ at'[Halter] = "idle"
    BY <1>a, <1>d, <1>f, <2>1 DEF Resting, Outside
  <2>3. \A q \in Procs \ {Halter} : q # User => Standing(q)'
    BY <1>e, <2>1
  <2>4. Standing(User)'
    <3> USE DEF Standing, Placed, Starting, Requesting, Stopping, Ready, Settled, Leaving,
            Move, Goto, atomics, locals, store, history
    <3>1. CASE OverDone
      BY <3>1, <1>d DEF OverDone
    <3>2. CASE StepReason
      BY <3>2, <1>a, <1>d DEF StepReason
    <3>3. CASE StepForget
      BY <3>3, <1>a, <1>d DEF StepForget
    <3>4. CASE RunPublish
      BY <3>4, <1>a, <1>d DEF RunPublish
    <3>5. CASE RunUnhalt
      BY <3>5, <1>a, <1>d DEF RunUnhalt
    <3>6. CASE StepUnhalt
      BY <3>6, <1>a, <1>d DEF StepUnhalt
    <3>7. CASE StepOver
      BY <3>7, <1>a, <1>d DEF StepOver
    <3>8. QED
      BY <1>2, <3>1, <3>2, <3>3, <3>4, <3>5, <3>6, <3>7
  <2>5. QED
    BY <2>2, <2>3, <2>4 DEF CarefulInv
<1>3. QED
  BY <1>1, <1>2

(* The calls that leave a running thread alone: Wait() and the destructor, *)
(* whose halt flag gives the thread no reason but a debugger that is gone. *)
LEMMA CarefulOutside ==
    ASSUME TypeOK, CarefulInv,
           Wait \/ WaitReturn \/ Destroy \/ DestroyFlag \/ DestroyReturn
    PROVE  CarefulInv'
<1>a. /\ at \in [Procs -> Label] /\ User \in Procs \ {Halter} /\ Halter \in Procs
  BY ConstantsAreTyped DEF TypeOK, User, Halter, Procs
<1>b. /\ \A q \in Procs : q # User => at'[q] = at[q]
      /\ at[User] \in {"idle", "wait", "destroyFlag", "destroyWait"}
      /\ at'[User] \in {"idle", "wait", "destroyFlag", "destroyWait", "destroyed"}
      /\ Leaving => Leaving'
      /\ at'[User] \in {"idle", "wait"} => at[User] \in {"idle", "wait"}
      /\ halted' = halted \/ (halted' = TRUE /\ Leaving')
      /\ UNCHANGED <<runStatus, haltReason, needToStepOver, locals, store, history>>
  BY <1>a DEF Wait, WaitReturn, Destroy, DestroyFlag, DestroyReturn, UserFree, Move, Goto,
     atomics, Leaving
<1>c. Standing(User)'
  BY <1>b DEF Standing, Placed, Starting, Requesting, Stopping
<1>d. ASSUME NEW q \in Procs \ {Halter}, q # User PROVE Standing(q)'
  <2>1. Standing(q) /\ at'[q] = at[q]
    BY <1>b, <1>d DEF CarefulInv
  <2>2. QED
    BY <1>b, <1>d, <2>1 DEF Standing, Placed, Starting, Requesting, Stopping, Ready, Hit,
       Went, Settled, locals, store, history
<1>e. MemoryExact'
  BY <1>b DEF CarefulInv, MemoryExact, Lifted, store, history
<1>f. Resting'
  BY <1>b DEF CarefulInv, Resting, Settled, store, history
<1>g. QED
  BY <1>a, <1>b, <1>c, <1>d, <1>e, <1>f DEF CarefulInv

(* Run() and Step() start from the pc the program stopped at, and only     *)
(* Run() from a breakpoint.                                                *)
LEMMA CarefulStart ==
    ASSUME Risky = {}, TypeOK, ExclusionInv, CarefulInv,
           Run \/ \E n \in 1 .. MaxSteps : Step(n)
    PROVE  CarefulInv'
<1>a. /\ at \in [Procs -> Label] /\ User \in Procs \ {Halter} /\ Halter \in Procs
      /\ \A q \in Procs \ {Halter} : q = User \/ q \in Runs
      /\ ctx \in [Procs -> {"loop", "run", "step", "actionPoint", "halt", "api"}]
  BY ConstantsAreTyped DEF TypeOK, User, Halter, Procs, Runs
<1>b. /\ \A q \in Procs : q # User => at'[q] = at[q] /\ ctx'[q] = ctx[q]
      /\ at[User] = "idle" /\ runStatus # "running" /\ ~paused'
      /\ UNCHANGED <<haltReason, halted, pcReg, code, bps, program, arch>>
  BY <1>a DEF Run, Step, UserFree, Begin, Goto, store
<1>c. runStatus = "halted" /\ Settled
  BY <1>b DEF TypeOK, CarefulInv, Resting
<1>d. \/ /\ at'[User] = (IF needToStepOver THEN "stepPast" ELSE "publish")
         /\ ctx'[User] = "run" /\ needToStepOver' = FALSE
      \/ /\ at'[User] = "stepUnhalt" /\ UNCHANGED needToStepOver
         /\ haltReason # "softwareBreakpoint"
  BY <1>a DEF Run, Step, Begin, Goto
<1>e. Standing(User)'
  BY <1>a, <1>b, <1>c, <1>d DEF Standing, Placed, Starting, Requesting, Stopping, Ready,
     Settled
<1>f. ASSUME NEW q \in Procs \ {Halter}, q # User PROVE Standing(q)'
  <2>1. ~InCore(q)
    BY <1>a, <1>c, <1>f DEF ExclusionInv
  <2>2. QED
    BY <1>b, <1>f, <2>1, Bystander DEF CarefulInv
<1>g. MemoryExact' /\ Resting'
  BY <1>b, <1>d DEF CarefulInv, MemoryExact, Lifted, Resting
<1>h. QED
  BY <1>a, <1>b, <1>e, <1>f, <1>g DEF CarefulInv

(* The calls of a halted core that change the memory or the pc keep the    *)
(* memory exact, and take neither the pc nor the breakpoint from a stop    *)
(* that waits to be stepped over.                                          *)
LEMMA CarefulCall ==
    ASSUME Risky = {}, TypeOK, ExclusionInv, Faithful(code, program), CarefulInv,
           \/ \E a \in Breakable : SetSwBreakpoint(a) \/ ClearSwBreakpoint(a)
           \/ ClearAllSwBreakpoints
           \/ \E a \in Addr : \/ WriteRegister(a) \/ GetDisassembly(a)
                              \/ \E w \in Patches : WriteMemory(a, w)
    PROVE  CarefulInv'
<1>a. /\ User \in Procs \ {Halter} /\ Halter \in Procs /\ Breakable \subseteq Addr
      /\ \A q \in Procs \ {Halter} : q = User \/ q \in Runs
      /\ code \in Code /\ bps \subseteq Addr /\ program \in [Addr -> Word]
  BY ConstantsAreTyped DEF TypeOK, User, Halter, Procs, Runs
<1>b. /\ at[User] = "idle" /\ runStatus = "halted"
      /\ UNCHANGED <<at, ctx, runStatus, needToStepOver>>
  BY DEF SetSwBreakpoint, ClearSwBreakpoint, ClearAllSwBreakpoints, WriteRegister,
     GetDisassembly, WriteMemory, UserFree, atomics, locals
<1>c. Settled /\ MemoryExact
  BY <1>b DEF CarefulInv, Resting
<1>d. \A q \in Procs \ {Halter} : Standing(q)'
  <2>1. \A q \in Procs \ {Halter} : ~InCore(q)
    BY <1>a, <1>b DEF ExclusionInv, InCore, CoreLabels
  <2>2. QED
    BY <1>b, <2>1, Bystander DEF CarefulInv, Outside
<1>e. ASSUME MemoryExact', Settled' PROVE CarefulInv'
  BY <1>b, <1>d, <1>e DEF CarefulInv, Resting
<1>f. \A a \in Addr : code.mem[a] = IF a \in bps THEN "ebreak" ELSE program[a]
  BY <1>b, <1>c DEF MemoryExact, Lifted
<1>g. \A a \in bps : program[a] \in {"nop", "jump"} /\ code.saved[a] = program[a]
  BY <1>c DEF MemoryExact
<1>h. ASSUME \A a \in Addr : code'.mem[a] = IF a \in bps' THEN "ebreak" ELSE program'[a],
             \A a \in bps' : program'[a] \in {"nop", "jump"} /\ code'.saved[a] = program'[a]
      PROVE  MemoryExact'
  BY <1>b, <1>h DEF MemoryExact, Lifted
<1>1. ASSUME NEW a \in Breakable, SetSwBreakpoint(a) PROVE CarefulInv'
  <2>1. /\ a \in Addr /\ a \notin bps /\ program[a] \in {"nop", "jump"}
        /\ code' = WriteBreakpointInstruction(code, a) /\ bps' = bps \cup {a}
        /\ UNCHANGED <<haltReason, pcReg, arch, program>>
    BY <1>1, <1>a DEF SetSwBreakpoint, atomics, history
  <2>2. /\ \A b \in Addr : code'.mem[b] = IF b = a THEN "ebreak" ELSE code.mem[b]
        /\ code'.saved[a] = IF code.saved[a] = NoWord THEN code.mem[a] ELSE code.saved[a]
        /\ \A b \in Addr : b # a => code'.saved[b] = code.saved[b]
    BY <1>a, <2>1, WordPlanted
  <2>3. code'.saved[a] = program[a]
    BY <1>f, <2>1, <2>2 DEF Faithful
  <2>4. MemoryExact'
    BY <1>a, <1>f, <1>g, <1>h, <2>1, <2>2, <2>3
  <2>5. Settled'
    BY <1>b, <1>c, <2>1 DEF Settled
  <2>6. QED
    BY <1>e, <2>4, <2>5
<1>2. ASSUME NEW a \in Breakable, ClearSwBreakpoint(a) PROVE CarefulInv'
  <2>1. /\ a \in Addr /\ a \in bps /\ ~(needToStepOver /\ a = pcReg)
        /\ code' = WriteOriginalInstruction(code, a) /\ bps' = bps \ {a}
        /\ UNCHANGED <<haltReason, pcReg, arch, program>>
    BY <1>2, <1>a DEF ClearSwBreakpoint, StoppedAt, atomics, history
  <2>2. code' = Invalidate(Store(code, a, program[a]), a)
    BY <1>g, <2>1 DEF WriteOriginalInstruction, NoWord
  <2>3. /\ code'.saved = code.saved
        /\ \A b \in Addr : code'.mem[b] = IF b = a THEN program[a] ELSE code.mem[b]
    <3> DEFINE c == Store(code, a, program[a])
    <3>1. /\ c \in Code /\ c.saved = code.saved
          /\ \A b \in Addr : c.mem[b] = IF b = a THEN program[a] ELSE code.mem[b]
      BY <1>a, <2>1 DEF Store, Code
    <3> HIDE DEF c
    <3>2. Invalidate(c, a).saved = c.saved /\ Invalidate(c, a).mem = c.mem
      BY <3>1 DEF Invalidate, Code
    <3>3. QED
      BY <2>2, <3>1, <3>2 DEF c
  <2>4. MemoryExact'
    BY <1>a, <1>f, <1>g, <1>h, <2>1, <2>3
  <2>5. Settled'
    BY <1>b, <1>c, <2>1 DEF Settled
  <2>6. QED
    BY <1>e, <2>4, <2>5
<1>3. CASE ClearAllSwBreakpoints
  <2>1. /\ \A a \in bps : ~(needToStepOver /\ a = pcReg)
        /\ code' = ClearAddresses(code, bps) /\ bps' = {}
        /\ UNCHANGED <<haltReason, pcReg, arch, program>>
    BY <1>3 DEF ClearAllSwBreakpoints, StoppedAt, atomics, history
  <2>2. \A a \in Addr : code'.mem[a] = IF a \in bps /\ code.saved[a] # NoWord
                                       THEN code.saved[a] ELSE code.mem[a]
    BY <1>a, <2>1 DEF ClearAddresses, Code
  <2>3. \A a \in Addr : code'.mem[a] = program[a]
    BY <1>f, <1>g, <2>2 DEF NoWord
  <2>4. MemoryExact'
    BY <1>h, <2>1, <2>3
  <2>5. Settled'
    BY <1>b, <1>c, <2>1 DEF Settled
  <2>6. QED
    BY <1>e, <2>4, <2>5
<1>4. ASSUME NEW a \in Addr, WriteRegister(a) PROVE CarefulInv'
  <2>1. /\ ~needToStepOver /\ pcReg' = a /\ arch' = a
        /\ haltReason' = IF haltReason = "softwareBreakpoint" THEN "none" ELSE haltReason
        /\ UNCHANGED <<code, bps, program>>
    BY <1>4 DEF WriteRegister
  <2>2. MemoryExact' /\ Settled'
    BY <1>b, <1>c, <1>f, <1>g, <1>h, <2>1 DEF Settled
  <2>3. QED
    BY <1>e, <2>2
<1>5. ASSUME NEW a \in Addr, GetDisassembly(a) PROVE CarefulInv'
  <2>1. /\ code' = IF a \in bps
                   THEN WriteBreakpointInstruction(
                            Decode(WriteOriginalInstruction(code, a), a), a)
                   ELSE Decode(code, a)
        /\ UNCHANGED <<haltReason, pcReg, arch, bps, program>>
    BY <1>5 DEF GetDisassembly, atomics, history
  <2>2. Settled'
    BY <1>b, <1>c, <2>1 DEF Settled
  <2>3. CASE a \in bps
    <3> DEFINE c == WriteOriginalInstruction(code, a)
               d == Decode(c, a)
    <3>1. c \in Code /\ d \in Code
      BY <1>a, CodeType, "ebreak" \in Word DEF Word
    <3>2. /\ d.saved = code.saved
          /\ \A b \in Addr : d.mem[b] = IF b = a THEN program[a] ELSE code.mem[b]
      BY <1>c, <2>3, WordUnder
    <3> HIDE DEF c, d
    <3>3. /\ \A b \in Addr : code'.mem[b] = IF b = a THEN "ebreak" ELSE d.mem[b]
          /\ code'.saved[a] = IF d.saved[a] = NoWord THEN d.mem[a] ELSE d.saved[a]
          /\ \A b \in Addr : b # a => code'.saved[b] = d.saved[b]
      BY <2>1, <2>3, <3>1, WordPlanted DEF c, d
    <3>4. code'.saved[a] = program[a]
      BY <1>g, <2>3, <3>2, <3>3
    <3>5. MemoryExact'
      BY <1>a, <1>f, <1>g, <1>h, <2>1, <2>3, <3>2, <3>3, <3>4
    <3>6. QED
      BY <1>e, <2>2, <3>5
  <2>4. CASE a \notin bps
    <3>1. code'.mem = code.mem /\ code'.saved = code.saved
      BY <1>a, <2>1, <2>4 DEF Decode, Code
    <3>2. MemoryExact'
      BY <1>f, <1>g, <1>h, <2>1, <3>1
    <3>3. QED
      BY <1>e, <2>2, <3>2
  <2>5. QED
    BY <2>3, <2>4
<1>6. ASSUME NEW a \in Addr, NEW w \in Patches, WriteMemory(a, w) PROVE CarefulInv'
  <2>1. /\ code.saved[a] = NoWord
        /\ code' = [code EXCEPT !.mem[a] = w] /\ program' = [program EXCEPT ![a] = w]
        /\ UNCHANGED <<haltReason, pcReg, arch, bps>>
    BY <1>6 DEF WriteMemory, Store, atomics
  <2>2. a \notin bps
    BY <1>g, <2>1 DEF NoWord
  <2>3. /\ code'.saved = code.saved
        /\ \A b \in Addr : code'.mem[b] = IF b = a THEN w ELSE code.mem[b]
        /\ \A b \in Addr : program'[b] = IF b = a THEN w ELSE program[b]
    BY <1>a, <2>1 DEF Code
  <2>4. MemoryExact'
    BY <1>a, <1>f, <1>g, <1>h, <2>1, <2>2, <2>3
  <2>5. Settled'
    BY <1>b, <1>c, <2>1 DEF Settled
  <2>6. QED
    BY <1>e, <2>4, <2>5
<1>7. QED
  BY <1>1, <1>2, <1>3, <1>4, <1>5, <1>6

(* Every step of a careful debugger's session keeps the invariant.         *)
LEMMA CarefulStep ==
    ASSUME CarefulAlone, TypeOK, ExclusionInv, EndsInv', Faithful(code, program),
           CarefulInv, [Next]_vars
    PROVE  CarefulInv'
<1>a. /\ Risky = {} /\ MaxHalts = 0 /\ User \in Procs \ {Halter} /\ Halter \in Procs
      /\ Runs \subseteq Procs \ {Halter} /\ User \notin Runs
  <2>1. MaxRuns \in Nat
    BY ConstantsAreTyped
  <2>2. QED
    BY <2>1 DEF CarefulAlone, User, Halter, Procs, Runs
<1>1. CASE \E p \in Procs \ {Halter} : Advance(p)
  BY <1>1, CarefulAdvance
<1>2. CASE HalterStep \/ HalterCall
  BY <1>2, <1>a DEF HalterStep, HalterCall, RequestHalt, RequestReason, RequestFlag,
     RequestOver, Halt, HaltWithReason, HalterFree, Move, CarefulInv, TypeOK
<1>3. CASE \E r \in Runs : Notify(r) \/ NotifyFatally(r)
  <2>1. PICK r \in Runs : Notify(r) \/ NotifyFatally(r)
    BY <1>3
  <2>2. ~NotifyFatally(r)
    BY <1>a DEF NotifyFatally, EndsInv
  <2>3. /\ at[r] = "notify" /\ at' = [at EXCEPT ![r] = "done"]
        /\ UNCHANGED <<atomics, locals, store, history>>
    BY <2>1, <2>2 DEF Notify, Move, Goto
  <2>4. /\ at'[r] = "done" /\ \A q \in Procs : q # r => at'[q] = at[q]
    BY <1>a, <2>3 DEF TypeOK
  <2>5. Standing(r)'
    BY <1>a, <2>3, <2>4 DEF CarefulInv, Standing, Placed, Starting, Requesting, Stopping, locals
  <2>6. ASSUME NEW q \in Procs \ {Halter}, q # r PROVE Standing(q)'
    <3>1. Standing(q) /\ at'[q] = at[q] /\ at'[User] = at[User]
      BY <1>a, <2>4, <2>6 DEF CarefulInv
    <3>2. QED
      BY <2>3, <3>1 DEF Standing, Placed, Starting, Requesting, Stopping, Ready, Hit, Went,
         Settled, Leaving, atomics, locals, store, history
  <2>7. MemoryExact' /\ Resting' /\ at'[Halter] = "idle"
    BY <1>a, <2>3, <2>4 DEF CarefulInv, MemoryExact, Lifted, Resting, Settled, atomics,
       locals, store, history
  <2>8. QED
    BY <2>5, <2>6, <2>7 DEF CarefulInv
<1>4. CASE \/ OverDone \/ StepReason \/ StepForget \/ RunPublish \/ RunUnhalt
           \/ RunSpawn \/ StepUnhalt \/ StepOver
  BY <1>4, CarefulUserStep
<1>5. CASE Wait \/ WaitReturn \/ Destroy \/ DestroyFlag \/ DestroyReturn
  BY <1>5, CarefulOutside
<1>6. CASE Run \/ \E n \in 1 .. MaxSteps : Step(n)
  BY <1>6, <1>a, CarefulStart
<1>7. CASE \/ \E a \in Breakable : SetSwBreakpoint(a) \/ ClearSwBreakpoint(a)
           \/ ClearAllSwBreakpoints
           \/ \E a \in Addr : \/ WriteRegister(a) \/ GetDisassembly(a)
                              \/ \E w \in Patches : WriteMemory(a, w)
  BY <1>7, <1>a, CarefulCall
<1>8. CASE (\E a \in Addr : GetInstruction(a)) \/ Terminated \/ UNCHANGED vars
  <2>1. /\ code'.mem = code.mem /\ code'.saved = code.saved
        /\ UNCHANGED <<atomics, locals, pcReg, bps, history, at>>
    <3>1. CASE \E a \in Addr : GetInstruction(a)
      BY <3>1 DEF GetInstruction, Decode, TypeOK, Code
    <3>2. CASE Terminated \/ UNCHANGED vars
      BY <3>2 DEF Terminated, vars, store
    <3>3. QED
      BY <1>8, <3>1, <3>2
  <2>2. ASSUME NEW q \in Procs \ {Halter} PROVE Standing(q)'
    <3>1. Standing(q)
      BY DEF CarefulInv
    <3>2. QED
      BY <2>1, <3>1 DEF Standing, Placed, Starting, Requesting, Stopping, Ready, Hit, Went,
         Settled, Leaving, atomics, locals, history
  <2>3. MemoryExact' /\ Resting'
    BY <2>1 DEF CarefulInv, MemoryExact, Lifted, Resting, Settled, atomics, locals, history
  <2>4. QED
    BY <2>1, <2>2, <2>3 DEF CarefulInv
<1>9. QED
  BY <1>1, <1>2, <1>3, <1>4, <1>5, <1>6, <1>7, <1>8, <1>a
  DEF Next, UserStep, UserCall, SimThread

(* The invariant holds when the debugger attaches.                         *)
LEMMA CarefulInit == Init => CarefulInv
<1> SUFFICES ASSUME Init PROVE CarefulInv
  OBVIOUS
<1>1. MaxRuns \in Nat /\ Program \in [Addr -> Word]
  BY ConstantsAreTyped
<1>2. User \in Procs /\ Halter \in Procs /\ User \notin Runs /\ Halter \notin Runs
  BY <1>1 DEF User, Halter, Procs, Runs
<1>3. \A p \in Procs \ {Halter} : at[p] \in {"unborn", "idle"} /\ ctx[p] = "loop"
                                  /\ (p # User => at[p] = "unborn")
  BY <1>1 DEF Init, User, Halter, Procs, Runs
<1>4. \A p \in Procs \ {Halter} : Standing(p)
  BY <1>3 DEF Standing, Placed, Starting, Requesting, Stopping
<1>5. MemoryExact
  BY <1>1, <1>2 DEF Init, FreshCode, MemoryExact, Lifted
<1>6. Resting
  BY DEF Init, Resting, Settled
<1>7. at[Halter] = "idle"
  BY <1>2 DEF Init
<1>8. QED
  BY <1>4, <1>5, <1>6, <1>7 DEF CarefulInv

(* ... and throughout the session.                                         *)
LEMMA CarefulHolds == CarefulAlone => (Spec => []CarefulInv)
<1> SUFFICES ASSUME CarefulAlone PROVE Spec => []CarefulInv
  OBVIOUS
<1>1. "patchDecoded" \notin Risky /\ "runBeforeWait" \notin Risky
  BY DEF CarefulAlone
<1>2. Spec => []Faithful(code, program)
  BY <1>1, FaithfulHolds
<1>3. Spec => []EndsInv
  <2>1. TypeOK /\ EndsInv /\ [Next]_vars => EndsInv'
    BY <1>1, EndsStep
  <2>2. QED
    BY <2>1, EndsInit, TypeCorrect, PTL DEF Spec
<1>4. TypeOK /\ ExclusionInv /\ EndsInv' /\ Faithful(code, program) /\ CarefulInv /\ [Next]_vars
         => CarefulInv'
  BY CarefulStep
<1>5. QED
  BY <1>2, <1>3, <1>4, CarefulInit, TypeCorrect, ExclusionHolds, PTL DEF Spec

(* For one careful client, debugging is transparent: whenever the core is  *)
(* halted the pc register holds the next instruction of the program, after *)
(* any number of breakpoints, steps and resumes (StepPastBreakpoint and    *)
(* the SetPc behind the loops of Step and Run).                            *)
THEOREM DebuggingIsTransparent == CarefulAlone => (Spec => []PcIsArch)
<1>1. CarefulInv => PcIsArch
  BY DEF CarefulInv, Resting, Settled, PcIsArch, Quiet
<1>2. QED
  BY <1>1, CarefulHolds, PTL

(* For one careful client the ebreaks in memory are the active breakpoints *)
(* and every other word is the program's (SetSwBreakpoint,                 *)
(* ClearSwBreakpoint and StepPastBreakpoint).                              *)
THEOREM BreakpointsAreExact == CarefulAlone => (Spec => []PlantedExactly)
<1>1. User \in Procs \ {Halter}
  BY ConstantsAreTyped DEF User, Halter, Procs
<1>2. CarefulInv => PlantedExactly
  <2> SUFFICES ASSUME CarefulInv, NEW a \in Addr, ~SteppingPast(a)
               PROVE  code.mem[a] = IF a \in bps THEN "ebreak" ELSE program[a]
    BY DEF PlantedExactly
  <2>1. Placed(User)
    BY <1>1 DEF CarefulInv, Standing
  <2>2. ~Lifted(a)
    BY <1>1, <2>1 DEF Lifted, SteppingPast, Placed
  <2>3. QED
    BY <2>2 DEF CarefulInv, MemoryExact
<1>3. QED
  BY <1>2, CarefulHolds, PTL

(* For one careful client a reported breakpoint is an active one, not yet  *)
(* executed, and a program that paused, trapped or exited executes nothing *)
(* more (RequestHalt, and the heads of the loops of Step and Run).         *)
THEOREM StopsAreTruthful == CarefulAlone => (Spec => []StopsTruthful)
<1>1. CarefulInv => StopIsAtBreakpoint
  BY DEF CarefulInv, Resting, Settled, StopIsAtBreakpoint, Quiet
<1>2. CarefulInv => PauseHonored
  BY DEF CarefulInv, Standing, Starting, Ready, PauseHonored
<1>3. QED
  BY <1>1, <1>2, CarefulHolds, PTL DEF StopsTruthful

================================================================================
